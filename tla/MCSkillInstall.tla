--------------------------- MODULE MCSkillInstall ---------------------------
(* Two clients and one or two skill names; two calls in flight.            *)
EXTENDS SkillInstall

CONSTANTS claude, cursor, ship, liner, c1, c2

MCSites == {claude, cursor}
MCNames == {ship, liner}
MCCalls == {c1, c2}
Symmetry == Permutations(MCCalls)

Only(e) == [s \in MCSites |-> [n \in MCNames |->
              IF s = claude /\ n = ship THEN e ELSE "none"]]
Both == [s \in MCSites |-> [n \in MCNames |->
              IF n = ship THEN "hashed" ELSE "none"]]

MCStarts ==
  {[entries |-> Both, taken |-> {}, mode |-> "power_user"],
   [entries |-> Only("hashed"), taken |-> {ship}, mode |-> "preventative"],
   [entries |-> Only("unhashed"), taken |-> {liner}, mode |-> "off"]}

Request(s, f, a, l) ==
  [site |-> s, name |-> ship, force |-> f, action |-> a, link |-> l]

MCRequests ==
  {Request(claude, TRUE, a, FALSE) : a \in {"overwrite", "merge", "cancel"}}
  \cup {Request(cursor, TRUE, a, FALSE) : a \in {"overwrite", "cancel"}}
  \cup {Request(claude, FALSE, "none", TRUE)}

MCRemovals == {[site |-> s, name |-> ship, force |-> s = claude] : s \in MCSites}
=============================================================================
