------------------------ MODULE MCManifestReconcile ------------------------
(* Small instances of ManifestReconcile for TLC. *)
EXTENDS ManifestReconcile, TLC

CONSTANTS skill, claude, cursor, id1, id2, github, dirA, dirB

Bare == <<skill, claude>>
Composite == <<skill, cursor>>

MCDirsFor == (Bare :> {dirA}) @@ (Composite :> {dirB})

Installed(client, path) ==
  [id |-> id1, source |-> github, provenance |-> "registry", verifiedAt |-> 0,
   path |-> path, client |-> client]

\* Under the bare key a row that records its client, a legacy row that records none, or
\* another client's row; under the composite key its own row or none.
MCInitManifests ==
  {(Bare :> b) @@ (Composite :> c) :
     b \in {Installed(claude, dirA), Installed(NoClient, dirA), Installed(cursor, dirB)},
     c \in {NoEntry, Installed(cursor, dirB)}}

Request(action, name, client) ==
  [action |-> action, name |-> name, client |-> client, id |-> NoId, source |-> NoId,
   entry |-> 0]
RelinkTo(i, s, client) == [Request("relink", skill, client) EXCEPT !.id = i, !.source = s]
RevertEntry(i) == [Request("revert", NoName, claude) EXCEPT !.entry = i]

MCRequests ==
  {Request("mark_local", skill, claude), Request("mark_local", skill, cursor),
   RelinkTo(id2, github, claude), RelinkTo(id1, Unknown, cursor),
   Request("drop_entry", skill, claude),
   Request("verify", NoName, claude), Request("verify", skill, cursor),
   Request("revert", skill, claude), RevertEntry(1), RevertEntry(2)}

Symmetry == Permutations(Procs)
=============================================================================
