--------------------------- MODULE MCRenameEngine ---------------------------
(***************************************************************************)
(* Two audits, the second of them after a rename: between them four        *)
(* collisions over two skills, one of them with another name in its        *)
(* frontmatter than its directory's, and over a command file.  The ledger  *)
(* is empty, has an entry from before collisionId existed, or has one      *)
(* whose old name another skill has taken since.                           *)
(***************************************************************************)
EXTENDS RenameEngine, TLC

CONSTANTS a, b, d, f, g,    \* three skill names, two command names
          audit1, audit2,   \* audits
          coll1, coll2,     \* the collisions of audit1
          coll3, coll4,     \* ... and of audit2
          skill, command,   \* what the audit found on disk
          skill2, command2  \* ... and what else there may be

Found(audit, collision, name, ident) ==
  [audit |-> audit, collision |-> collision, from |-> name, ident |-> ident]

\* audit2 ran after the skill was renamed, and suggests another name again; it
\* also met another skill, whose frontmatter has a third name.
MCSuggestions ==
  {Found(audit1, coll1, a, a), Found(audit1, coll2, f, f),
   Found(audit2, coll3, b, b), Found(audit2, coll4, a, d)}

Disk(atA, atB, atF, atG) ==
  [n \in Names |-> CASE n = a -> atA [] n = b -> atB [] n = d -> Nothing
                     [] n = f -> atF [] n = g -> atG]

\* Titles: the first skill's and the second's.
Titles(first, second) == [x \in Skills |-> IF x = skill THEN first ELSE second]

Renamed(collision, from, to) ==
  [id |-> 0, audit |-> audit1, collision |-> collision, ident |-> from,
   from |-> from, to |-> to]

\* Free names to rename to; a rename made long ago, before collisionId; and one
\* of a skill whose old name another skill has taken since.
MCInitStates ==
  {[disk |-> Disk(skill, Nothing, command, Nothing), title |-> Titles(a, b), ledger |-> {}],
   [disk |-> Disk(skill, Nothing, Nothing, command), title |-> Titles(a, b),
    ledger |-> {Renamed(NoCollision, f, g)}],
   [disk |-> Disk(skill2, skill, command, command2), title |-> Titles(b, d),
    ledger |-> {Renamed(coll1, a, b)}]}

Symmetry == Permutations(Calls)
=============================================================================
