--------------------------- MODULE MCSessionUndo ---------------------------
(* Two edits of one SKILL.md and one of another, two calls at a time. *)
EXTENDS SessionUndo

CONSTANTS e1, e2, e3, mdA, mdB, skillMd

MCFileOf == [e \in Edits |-> IF e = e3 THEN mdB ELSE mdA]
MCBaseName == [x \in Files |-> skillMd]

\* e1 and e2 are edits of the same file.
Symmetry == Permutations(Calls) \cup Permutations({e1, e2})
=============================================================================
