---------------------- MODULE ServerAndTeam_proofs ----------------------
(***************************************************************************)
(* What is proved of a server process, and of the hosted tools that such   *)
(* processes call for the accounts of a team.  The two share no variable;  *)
(* each part has its own inductive invariants.                             *)
(*                                                                         *)
(* The server: the safety properties for every number of writes, triggers  *)
(* and refreshes.  The life cycle and the identity share no variable       *)
(* either.                                                                 *)
(*                                                                         *)
(* The team: for every set of accounts, skills, versions and workspaces,   *)
(* with any number of calls under way.  The inductive invariant TeamInv    *)
(* says of each call that is under way what it knows by now (Named,        *)
(* BatchTrue, SeatTrue, PublishTrue, ...), and most lemmas are about one   *)
(* action: its own call stays true, and the tables only grow (Grow), which *)
(* is what keeps the calls of everybody else true (CallKept).              *)
(***************************************************************************)
EXTENDS ServerProcess, TeamTools, SequenceTheorems, TLAPS


\* What the coordinator maintains about the database: nothing is unsaved once
\* the handle is no longer open, and the sequence is past its close only then.
SavedInv ==
  /\ driver \in Drivers
  /\ mem \in Nat /\ disk \in Nat
  /\ driver = "native" => disk = mem
  /\ db # "open" /\ ~persistFailed /\ driver # "memory" => disk = mem
  /\ sequence \in {"flushing", "done"} => db # "open" \/ persistFailed
  /\ phase \in {"starting", "created"} => sequence = "idle"
  /\ exit = "ok" => sequence = "done"

\* A sync that may still write has an open database, and the coordinator only
\* moves once it was told to stop.
SyncInv ==
  /\ ~syncFault
  /\ sequence # "idle" => stopped
  /\ sync # "off" /\ ~stopped => db = "open"
  /\ phase = "starting" => ~stopped

\* The newest refresh in flight is newer than the cache and the last 401.
IdentityInv ==
  /\ generation \in Nat /\ cached \in Nat /\ rejectedAt \in Nat
  /\ refreshing \subseteq 1..generation
  /\ cached <= generation
  /\ generation \in refreshing => cached < generation
  /\ rejectedAt < generation \/ (rejectedAt = 0 /\ generation = 0)
  /\ RejectedIdentityStaysOut

Inv == SavedInv /\ SyncInv /\ IdentityInv

LEMMA InitEstablishes == ProcessInit => Inv
BY DEF ProcessInit, Init, Identity!Init, Inv, SavedInv, SyncInv, IdentityInv,
       RejectedIdentityStaysOut

\* Every step of the life cycle keeps what is known of the database.
LEMMA SavedStep == SavedInv /\ [Next]_vars => SavedInv'
<1> SUFFICES ASSUME SavedInv, [Next]_vars PROVE SavedInv'
  OBVIOUS
<1> USE DriversAssumption DEF SavedInv
<1>1. CASE CreateContext
  BY <1>1 DEF CreateContext, StartServices, seqVars
<1>2. CASE CreateContextFails
  BY <1>2 DEF CreateContextFails, End, dbVars, seqVars
<1>3. CASE Serve
  BY <1>3 DEF Serve, dbVars, seqVars
<1>4. CASE ToolWrite
  BY <1>4 DEF ToolWrite, Write, seqVars
<1>5. CASE Autosave
  BY <1>5 DEF Autosave, seqVars
<1>6. CASE SyncStart
  BY <1>6 DEF SyncStart, dbVars, seqVars
<1>7. CASE SyncWrite
  BY <1>7 DEF SyncWrite, Write, seqVars
<1>8. CASE SyncAwait
  BY <1>8 DEF SyncAwait, dbVars, seqVars
<1>9. CASE SyncSettle
  BY <1>9 DEF SyncSettle, dbVars, seqVars
<1>10. CASE LlmInitialized
  BY <1>10 DEF LlmInitialized, dbVars, seqVars
<1>11. CASE LlmInitFails
  BY <1>11 DEF LlmInitFails, dbVars, seqVars
<1>12. CASE Trigger
  BY <1>12 DEF Trigger, StopSync
<1>13. CASE QuiesceSettles \/ QuiesceTimesOut
  BY <1>13 DEF QuiesceSettles, QuiesceTimesOut, Teardown, CloseDb
<1>14. CASE FlushTelemetry
  BY <1>14 DEF FlushTelemetry, dbVars
<1>15. CASE ExitOk
  BY <1>15 DEF ExitOk, End, dbVars, seqVars
<1>16. CASE Uncaught \/ Killed
  BY <1>16 DEF Uncaught, Killed, End, dbVars, seqVars
<1>17. CASE UNCHANGED vars
  BY <1>17 DEF vars, dbVars, seqVars
<1> QED
  BY <1>1, <1>2, <1>3, <1>4, <1>5, <1>6, <1>7, <1>8, <1>9, <1>10, <1>11,
     <1>12, <1>13, <1>14, <1>15, <1>16, <1>17 DEF Next

\* ... and what is known of the background sync.
LEMMA SyncStep == SavedInv /\ SyncInv /\ [Next]_vars => SyncInv'
<1> SUFFICES ASSUME SavedInv, SyncInv, [Next]_vars PROVE SyncInv'
  OBVIOUS
<1> USE DEF SyncInv
<1>1. CASE CreateContext
  BY <1>1 DEF CreateContext, StartServices, seqVars, SavedInv
<1>2. CASE CreateContextFails
  BY <1>2 DEF CreateContextFails, End, dbVars, seqVars, syncVars
<1>3. CASE Serve
  BY <1>3 DEF Serve, dbVars, seqVars, syncVars
<1>4. CASE ToolWrite
  BY <1>4 DEF ToolWrite, seqVars, syncVars
<1>5. CASE Autosave
  BY <1>5 DEF Autosave, seqVars, syncVars
<1>6. CASE SyncStart
  BY <1>6 DEF SyncStart, dbVars, seqVars
<1>7. CASE SyncWrite
  BY <1>7 DEF SyncWrite, seqVars
<1>8. CASE SyncAwait
  BY <1>8 DEF SyncAwait, dbVars, seqVars
<1>9. CASE SyncSettle
  BY <1>9 DEF SyncSettle, dbVars, seqVars
<1>10. CASE LlmInitialized
  BY <1>10 DEF LlmInitialized, dbVars, seqVars, syncVars
<1>11. CASE LlmInitFails
  BY <1>11 DEF LlmInitFails, dbVars, seqVars, syncVars
<1>12. CASE Trigger
  BY <1>12 DEF Trigger, StopSync
<1>13. CASE QuiesceSettles \/ QuiesceTimesOut
  BY <1>13 DEF QuiesceSettles, QuiesceTimesOut, Teardown, syncVars
<1>14. CASE FlushTelemetry
  BY <1>14 DEF FlushTelemetry, dbVars, syncVars
<1>15. CASE ExitOk
  BY <1>15 DEF ExitOk, End, dbVars, seqVars, syncVars
<1>16. CASE Uncaught \/ Killed
  BY <1>16 DEF Uncaught, Killed, End, dbVars, seqVars, syncVars
<1>17. CASE UNCHANGED vars
  BY <1>17 DEF vars, dbVars, seqVars, syncVars
<1> QED
  BY <1>1, <1>2, <1>3, <1>4, <1>5, <1>6, <1>7, <1>8, <1>9, <1>10, <1>11,
     <1>12, <1>13, <1>14, <1>15, <1>16, <1>17 DEF Next

\* A refresh started at counter n becomes the newest of all.
LEMMA StartRefreshStep ==
  ASSUME IdentityInv, NEW n \in Nat, n >= generation, Identity!StartRefresh(n),
         cached' \in {0, cached}, rejectedAt' \in {rejectedAt, generation},
         rejectedAt' = generation => cached' = 0
  PROVE  IdentityInv'
<1>1. generation' = n + 1 /\ refreshing' = refreshing \cup {n + 1}
  BY DEF Identity!StartRefresh
<1>2. cached' \in Nat /\ cached' <= generation /\ rejectedAt' \in Nat
  BY DEF IdentityInv
<1>3. refreshing' \subseteq 1..generation'
  BY <1>1 DEF IdentityInv
<1>4. rejectedAt' <= generation
  BY DEF IdentityInv
<1>5. RejectedIdentityStaysOut'
  BY DEF IdentityInv, RejectedIdentityStaysOut
<1> QED
  BY <1>1, <1>2, <1>3, <1>4, <1>5 DEF IdentityInv

\* Every step of the identity keeps its invariant.
LEMMA IdentityKeeps ==
  ASSUME IdentityInv, Identity!Next \/ Identity!Install \/ UNCHANGED identityVars
  PROVE  IdentityInv'
<1>1. CASE Identity!Install \/ Identity!TimerRefresh
  BY <1>1, StartRefreshStep
     DEF Identity!Install, Identity!TimerRefresh, IdentityInv
<1>2. CASE \E g \in 1..MaxGeneration : Identity!Settle(g)
  BY <1>2 DEF Identity!Settle, IdentityInv, RejectedIdentityStaysOut
<1>3. CASE \E g \in 1..MaxGeneration : Identity!Accepted(g)
  BY <1>3 DEF Identity!Accepted, IdentityInv, RejectedIdentityStaysOut
<1>4. CASE \E g \in 1..MaxGeneration : Identity!Rejected(g)
  <2>1. generation + 1 \in Nat /\ generation + 1 >= generation
    BY DEF IdentityInv
  <2> QED
    BY <1>4, <2>1, StartRefreshStep DEF Identity!Rejected
<1>5. CASE Identity!Emit
  BY <1>5 DEF Identity!Emit, IdentityInv, RejectedIdentityStaysOut
<1>6. CASE UNCHANGED identityVars
  BY <1>6 DEF identityVars, IdentityInv, RejectedIdentityStaysOut
<1> QED
  BY <1>1, <1>2, <1>3, <1>4, <1>5, <1>6 DEF Identity!Next, Identity!Generations

LEMMA InvStep == Inv /\ [ProcessNext]_processVars => Inv'
<1> SUFFICES ASSUME Inv, [ProcessNext]_processVars PROVE Inv'
  OBVIOUS
<1>1. [Next]_vars
  BY DEF ProcessNext, LifecycleStep, IdentityStep, processVars
<1>2. Identity!Next \/ Identity!Install \/ UNCHANGED identityVars
  BY DEF ProcessNext, LifecycleStep, IdentityStep, processVars
<1> QED
  BY <1>1, <1>2, SavedStep, SyncStep, IdentityKeeps DEF Inv

\* The inductive invariant of the server.
THEOREM InvHolds == ProcessSpec => []Inv
BY InitEstablishes, InvStep, PTL DEF ProcessSpec

\* A process that exits with code 0 has saved every committed write, and the
\* background sync never writes to a closed database, however the triggers, the
\* sync, the tool calls and the autosave interleaved.
THEOREM CleanShutdown == ProcessSpec => []ShutdownIsClean
<1>1. Inv => GracefulExitLosesNothing
  BY DEF Inv, SavedInv, GracefulExitLosesNothing
<1>2. Inv => NoSyncWriteAfterClose
  BY DEF Inv, SyncInv, NoSyncWriteAfterClose
<1>3. Inv => ShutdownIsClean
  BY <1>1, <1>2 DEF ShutdownIsClean
<1> QED
  BY <1>3, InvHolds, PTL

\* Once shutdown has begun only the closing save writes a WASM database's file.
THEOREM FinalSave == ProcessSpec => ShutdownOwnsTheFinalSave
<1> DEFINE Allowed == shuttingDown /\ disk' # disk /\ driver = "wasm"
                        => db = "open" /\ db' = "closed"
<1>1. [ProcessNext]_processVars => [Allowed]_processVars
  <2> SUFFICES ASSUME [Next]_vars PROVE Allowed
    BY DEF ProcessNext, LifecycleStep, IdentityStep, processVars
  <2>1. CASE UNCHANGED disk
    BY <2>1
  <2>2. CASE ToolWrite \/ SyncWrite \/ Autosave
    BY <2>2 DEF ToolWrite, SyncWrite, Autosave, Write
  <2>3. CASE QuiesceSettles \/ QuiesceTimesOut
    BY <2>3 DEF QuiesceSettles, QuiesceTimesOut, Teardown, CloseDb
  <2> QED
    BY <2>1, <2>2, <2>3
       DEF Next, CreateContext, StartServices, CreateContextFails, Serve, SyncStart, SyncAwait,
           SyncSettle, LlmInitialized, LlmInitFails, Trigger, FlushTelemetry,
           ExitOk, Uncaught, Killed, End, vars, dbVars
<1> QED
  BY <1>1, PTL DEF ProcessSpec, ShutdownOwnsTheFinalSave

\* No identity fetched by a refresh that began before the last 401 is cached.
THEOREM RejectedStaysOut == ProcessSpec => []RejectedIdentityStaysOut
<1>1. Inv => RejectedIdentityStaysOut
  BY DEF Inv, IdentityInv
<1> QED
  BY <1>1, InvHolds, PTL

\* A slower, older refresh never replaces what a newer one brought.
THEOREM NewestWins == ProcessSpec => NewestRefreshWins
<1> DEFINE Newer == cached' # cached /\ cached' # 0 => cached' > cached
<1>1. Inv /\ [ProcessNext]_processVars => [Newer]_processVars
  <2> SUFFICES ASSUME Inv, Identity!Next \/ Identity!Install \/ UNCHANGED identityVars
               PROVE  Newer
    BY DEF ProcessNext, LifecycleStep, IdentityStep, processVars
  <2>1. CASE \E g \in 1..MaxGeneration : Identity!Settle(g)
    BY <2>1 DEF Identity!Settle, Inv, IdentityInv
  <2> QED
    BY <2>1 DEF Identity!Next, Identity!Generations, Identity!Install,
       Identity!TimerRefresh, Identity!Accepted, Identity!Rejected, Identity!Emit,
       identityVars
<1> QED
  BY <1>1, InvHolds, PTL DEF ProcessSpec, NewestRefreshWins

-----------------------------------------------------------------------------
(***************************************************************************)
(* The hosted tools of a team.                                             *)
(***************************************************************************)

Fields == {"pc", "op", "skill", "version", "ws", "perms", "wanted", "out", "done", "failed",
           "wrote", "could", "read", "seat"}
InCall(u) == call[u].pc # "idle"

VersionOps == {"publish", "get", "install", "approve", "reject"}
SkillOps   == {"deprecate", "undeprecate", "share_add", "share_remove"}
PlaceOps   == {"ws_get", "ws_delete", "share_list", "share_add", "share_remove"}

\* The permissions, and the names that stand for none.
PermissionName == TeamPermission \cup UNION {Permissions(ps) : ps \in Batches}

\* What the call of an operation names.
Named(u) ==
  LET c == call[u] IN
  /\ c.skill \in Skill \cup {None}
  /\ c.op \in VersionOps => c.skill \in Skill /\ c.version \in Version
  /\ c.op \in SkillOps => c.skill \in Skill
  /\ c.op \in PlaceOps => c.ws \in Space /\ space[c.ws].state # "unborn"
  /\ c.op \in WriteOps => c.ws \in GrantableRole /\ c.perms \in Seq(PermissionName)
  /\ c.op \in {"set_permission", "create_policy"} => c.wanted \in {"allow", "deny"}
  /\ c.op \in RoleOps => c.ws \in User /\ c.wanted \in GrantableRole

\* The permissions still to be written are ones that can be granted.
BatchTrue(u) ==
  call[u].op \in WriteOps /\ call[u].pc # "done" =>
    /\ call[u].perms # <<>>
    /\ call[u].pc # "resolve" => Permissions(call[u].perms) \subseteq TeamPermission

\* Who was in the team, or out of it, all along is so now.
SeatTrue(u) ==
  /\ call[u].seat \in {"in", "out", "both"}
  /\ call[u].seat = "in" => IsMember(u)
  /\ call[u].seat = "out" => ~IsMember(u)

MyRow(u) == row[Rel(u)].state # "none" /\ row[Rel(u)].by = u

PublishTrue(u) ==
  LET c == call[u] IN
  c.op = "publish" =>
    /\ c.pc = "readback" => c.wrote /\ MyRow(u)
    /\ c.pc \in {"resolve", "namespace", "insert", "denied"} => ~c.wrote
    /\ c.pc = "done" =>
         /\ c.out \in {"submitted", "unconfirmed"} => c.wrote /\ MyRow(u)
         /\ c.out \in {"version_immutable", "denied", "not_member", "namespace"} => ~c.wrote

ListTrue(u) ==
  call[u].op = "list" /\ call[u].pc = "done" /\ call[u].out = "found_none" =>
    call[u].seat # "out"

\* A workspace that is gone never comes back, so a caller that held the permission
\* and deleted nothing will not find it.
DeleteTrue(u) ==
  LET c == call[u] IN
  c.op = "ws_delete" =>
    /\ c.pc # "done" => ~c.wrote
    /\ c.pc = "explain" /\ c.could => space[c.ws].state = "gone"
    /\ c.pc = "done" =>
         /\ c.out = "needs_manage" => ~c.could
         /\ c.out \in {"needs_manage", "not_found", "cannot_tell"} => ~c.wrote

\* The policy that was read allowed the skill, unless there was none to be read.
ShareTrue(u) ==
  LET c == call[u] IN
  c.op = "share_add" =>
    /\ c.pc # "done" => ~c.wrote
    /\ c.pc \in {"assert", "add"} => c.could \/ c.seat # "in" \/ space[c.ws].state = "gone"
    /\ c.pc = "done" /\ c.wrote => c.could \/ c.seat # "in"

ReportTrue(u) ==
  LET c == call[u] IN
  c.op \in ReportOps =>
    /\ c.pc \in {"resolve", "usage"} => c.read = NoRead
    /\ c.pc = "coverage" =>
         /\ DOMAIN c.read = DOMAIN NoRead
         /\ c.read.level = "none" /\ c.read.counts = {} /\ c.read.shown = {}
         /\ c.seat = "out" => c.read.current = 0 /\ c.read.previous = 0
    /\ c.pc = "done" /\ c.out = "report" =>
         /\ c.seat = "out" => c.read.current = 0 /\ c.read.previous = 0 /\ c.read.shown = {}
         /\ c.read.shown \subseteq c.read.counts
         /\ c.read.shown \subseteq IF c.read.level = "none" THEN {} ELSE Disclosed[c.read.level]

CallTrue(u) ==
  InCall(u) => /\ Named(u) /\ BatchTrue(u) /\ SeatTrue(u)
               /\ PublishTrue(u) /\ ListTrue(u) /\ DeleteTrue(u) /\ ShareTrue(u) /\ ReportTrue(u)

TeamInv ==
  /\ TeamTypeOK /\ DOMAIN call = User /\ (\A u \in User : DOMAIN call[u] = Fields)
  /\ \A u \in User : call[u].pc = "idle" => call[u].seat = None
  /\ \A u \in User : CallTrue(u)
  /\ PendingStaysHidden

-----------------------------------------------------------------------------
(* What a step leaves alone. *)

\* Rows are never withdrawn, an approved version stays approved, and a workspace that
\* was born stays born, one that is gone stays gone.
Grow ==
  /\ \A r \in Release : row[r].state # "none" =>
       row'[r].state # "none" /\ row'[r].by = row[r].by
  /\ \A r \in Release : row[r].state = "approved" => row'[r].state = "approved"
  /\ \A w \in Space : /\ space[w].state # "unborn" => space'[w].state # "unborn"
                      /\ space[w].state = "gone" => space'[w].state = "gone"

\* The same call, but for where it is, what was answered and what it learnt.
SameCall(u) ==
  /\ DOMAIN call'[u] = Fields
  /\ call'[u].op = call[u].op /\ call'[u].skill = call[u].skill
  /\ call'[u].version = call[u].version /\ call'[u].ws = call[u].ws
  /\ call'[u].wanted = call[u].wanted /\ call'[u].seat = call[u].seat

LEMMA Releases ==
  ASSUME NEW u \in User, Named(u), call[u].op \in VersionOps
  PROVE  Rel(u) \in Release
  BY DEF Named, Rel, Release

LEMMA Answers ==
  ASSUME NEW u \in User, DOMAIN call[u] = Fields, NEW o, call'[u] = Out(u, o)
  PROVE  /\ SameCall(u) /\ call'[u].pc = "done" /\ call'[u].out = o
         /\ call'[u].wrote = call[u].wrote /\ call'[u].could = call[u].could
         /\ call'[u].read = call[u].read /\ call'[u].perms = call[u].perms
  BY DEF Out, SameCall, Fields

LEMMA AnswersAndWrote ==
  ASSUME NEW u \in User, DOMAIN call[u] = Fields, NEW o,
         call'[u] = [Out(u, o) EXCEPT !.wrote = TRUE]
  PROVE  /\ SameCall(u) /\ call'[u].pc = "done" /\ call'[u].out = o
         /\ call'[u].wrote = TRUE /\ call'[u].could = call[u].could
         /\ call'[u].read = call[u].read /\ call'[u].perms = call[u].perms
  BY DEF Out, SameCall, Fields

LEMMA GoesOn ==
  ASSUME NEW u \in User, DOMAIN call[u] = Fields, NEW p, call'[u] = Next_(u, p)
  PROVE  /\ SameCall(u) /\ call'[u].pc = p /\ call'[u].out = call[u].out
         /\ call'[u].wrote = call[u].wrote /\ call'[u].could = call[u].could
         /\ call'[u].read = call[u].read /\ call'[u].perms = call[u].perms
  BY DEF Next_, SameCall, Fields

LEMMA GoesOnAndLearns ==
  ASSUME NEW u \in User, DOMAIN call[u] = Fields, NEW p, NEW x,
         call'[u] = [Next_(u, p) EXCEPT !.could = x]
  PROVE  /\ SameCall(u) /\ call'[u].pc = p /\ call'[u].out = call[u].out
         /\ call'[u].wrote = call[u].wrote /\ call'[u].could = x
         /\ call'[u].read = call[u].read /\ call'[u].perms = call[u].perms
  BY DEF Next_, SameCall, Fields

\* The same call at the same place, but for the seat.
SeatOnly(u) ==
  /\ DOMAIN call'[u] = Fields
  /\ call'[u].pc = call[u].pc /\ call'[u].op = call[u].op /\ call'[u].skill = call[u].skill
  /\ call'[u].version = call[u].version /\ call'[u].ws = call[u].ws
  /\ call'[u].perms = call[u].perms /\ call'[u].wanted = call[u].wanted
  /\ call'[u].out = call[u].out /\ call'[u].wrote = call[u].wrote
  /\ call'[u].could = call[u].could /\ call'[u].read = call[u].read
  /\ call'[u].seat \in {call[u].seat, "both"}

\* A call that takes no step itself stays true, whatever happens to its seat.
LEMMA CallKept ==
  ASSUME TeamTypeOK, NEW u \in User, CallTrue(u), Grow, SeatOnly(u), InCall(u) => SeatTrue(u)'
  PROVE  CallTrue(u)'
<1>1. /\ call'[u].pc = call[u].pc /\ call'[u].op = call[u].op /\ call'[u].skill = call[u].skill
      /\ call'[u].version = call[u].version /\ call'[u].ws = call[u].ws
      /\ call'[u].perms = call[u].perms /\ call'[u].wanted = call[u].wanted
      /\ call'[u].out = call[u].out /\ call'[u].wrote = call[u].wrote
      /\ call'[u].could = call[u].could /\ call'[u].read = call[u].read
      /\ call'[u].seat \in {call[u].seat, "both"}
  BY DEF SeatOnly
<1> SUFFICES ASSUME InCall(u)
             PROVE  /\ Named(u)' /\ BatchTrue(u)' /\ PublishTrue(u)' /\ ListTrue(u)'
                    /\ DeleteTrue(u)' /\ ShareTrue(u)' /\ ReportTrue(u)'
  BY <1>1 DEF CallTrue, InCall
<1>2. /\ Named(u) /\ BatchTrue(u) /\ PublishTrue(u) /\ ListTrue(u)
      /\ DeleteTrue(u) /\ ShareTrue(u) /\ ReportTrue(u)
  BY DEF CallTrue
<1>3. Named(u)'
  BY <1>1, <1>2 DEF Named, Grow, PlaceOps
<1>4. BatchTrue(u)' /\ ListTrue(u)'
  BY <1>1, <1>2 DEF BatchTrue, ListTrue
<1>5. PublishTrue(u)'
  <2>1. Rel(u)' = Rel(u)
    BY <1>1 DEF Rel
  <2>2. call[u].op = "publish" => Rel(u) \in Release
    BY <1>2, Releases DEF VersionOps
  <2>3. call[u].op = "publish" /\ MyRow(u) => MyRow(u)'
    BY <2>1, <2>2 DEF MyRow, Grow
  <2> QED
    BY <1>1, <1>2, <2>3 DEF PublishTrue
<1>6. DeleteTrue(u)'
  <2>1. call[u].op = "ws_delete" => call[u].ws \in Space
    BY <1>2 DEF Named, PlaceOps
  <2> QED
    BY <1>1, <1>2, <2>1 DEF DeleteTrue, Grow
<1>7. ShareTrue(u)'
  <2>1. call[u].op = "share_add" => call[u].ws \in Space
    BY <1>2 DEF Named, PlaceOps
  <2> QED
    BY <1>1, <1>2, <2>1 DEF ShareTrue, Grow
<1>8. ReportTrue(u)'
  BY <1>1, <1>2 DEF ReportTrue
<1> QED
  BY <1>3, <1>4, <1>5, <1>6, <1>7, <1>8

\* What is to be shown for a step of one call that changes no role.
LEMMA StepOfCall ==
  ASSUME TeamInv, NEW u \in User, NEW c, call' = [call EXCEPT ![u] = c],
         UNCHANGED role, Grow, TeamTypeOK', PendingStaysHidden',
         DOMAIN c = Fields, c.pc # "idle", CallTrue(u)'
  PROVE  TeamInv'
<1>1. DOMAIN call' = User /\ call'[u] = c /\ \A v \in User \ {u} : call'[v] = call[v]
  BY DEF TeamInv
<1>2. ASSUME NEW v \in User \ {u} PROVE CallTrue(v)'
  <2>1. InCall(v) => SeatTrue(v)'
    BY <1>1 DEF TeamInv, CallTrue, SeatTrue, IsMember
  <2>2. SeatOnly(v)
    BY <1>1 DEF TeamInv, SeatOnly
  <2> QED
    BY <1>1, <2>1, <2>2, CallKept DEF TeamInv
<1>3. \A v \in User : DOMAIN call'[v] = Fields /\ (call'[v].pc = "idle" => call'[v].seat = None)
  BY <1>1 DEF TeamInv
<1> QED
  BY <1>1, <1>2, <1>3 DEF TeamInv

\* And for one that leaves the hosted tables alone as well.
LEMMA QuietStep ==
  ASSUME TeamInv, NEW u \in User, NEW c, call' = [call EXCEPT ![u] = c],
         UNCHANGED <<role, hosted>>,
         DOMAIN c = Fields, c.pc # "idle", c.wrote \in BOOLEAN, c.could \in BOOLEAN,
         CallTrue(u)'
  PROVE  TeamInv'
<1>1. UNCHANGED <<role, row, space, grant, sso, shown>>
  BY DEF hosted
<1>2. Grow
  BY <1>1 DEF Grow
<1>3. TeamTypeOK'
  <2>1. \A v \in User : call'[v].wrote \in BOOLEAN /\ call'[v].could \in BOOLEAN
    BY DEF TeamInv, TeamTypeOK
  <2> QED
    BY <1>1, <2>1 DEF TeamInv, TeamTypeOK
<1>4. PendingStaysHidden'
  BY <1>1 DEF TeamInv, PendingStaysHidden, Versions
<1> QED
  BY <1>1, <1>2, <1>3, <1>4, StepOfCall

\* The step of a call that names what it named.
LEMMA TrueAfter ==
  ASSUME TeamInv, NEW u \in User, InCall(u), SameCall(u), UNCHANGED role, Grow,
         call[u].op \in WriteOps => call'[u].perms \in Seq(PermissionName),
         BatchTrue(u)', PublishTrue(u)', ListTrue(u)', DeleteTrue(u)', ShareTrue(u)', ReportTrue(u)'
  PROVE  CallTrue(u)'
<1>1. Named(u) /\ SeatTrue(u)
  BY DEF TeamInv, CallTrue
<1>2. Named(u)'
  BY <1>1 DEF Named, Grow, PlaceOps, SameCall
<1>3. SeatTrue(u)'
  BY <1>1 DEF SeatTrue, SameCall, IsMember
<1> QED
  BY <1>2, <1>3 DEF CallTrue

LEMMA FactsOf ==
  ASSUME TeamInv, NEW u \in User, InCall(u)
  PROVE  /\ Named(u) /\ BatchTrue(u) /\ SeatTrue(u) /\ PublishTrue(u) /\ ListTrue(u)
         /\ DeleteTrue(u) /\ ShareTrue(u) /\ ReportTrue(u)
         /\ DOMAIN call[u] = Fields /\ call[u].wrote \in BOOLEAN /\ call[u].could \in BOOLEAN
  BY DEF TeamInv, TeamTypeOK, CallTrue

LEMMA HostedStill ==
  ASSUME UNCHANGED hosted
  PROVE  Grow /\ row' = row /\ space' = space /\ grant' = grant /\ sso' = sso /\ shown' = shown
  BY DEF hosted, Grow

\* What publish and list answer needs no more than this to be true.
PublishMay(u, o) ==
  call[u].op = "publish" =>
    /\ o \in {"submitted", "unconfirmed"} => call[u].pc = "readback"
    /\ o \in {"version_immutable", "denied", "not_member", "namespace"} =>
         call[u].pc \in {"resolve", "namespace", "insert", "denied"}
ListMay(u, o) == call[u].op = "list" /\ o = "found_none" => IsMember(u)

\* An answer that follows no write.
LEMMA AnswerKeeps ==
  ASSUME TeamInv, NEW u \in User, NEW o, InCall(u),
         call' = [call EXCEPT ![u] = Out(u, o)], UNCHANGED <<role, hosted>>,
         PublishMay(u, o), ListMay(u, o),
         call[u].op = "ws_delete" =>
           call[u].pc # "done" /\ (o = "needs_manage" => ~call[u].could),
         call[u].op = "share_add" => call[u].pc # "done",
         call[u].op \in ReportOps => o # "report"
  PROVE  TeamInv'
<1>1. /\ Named(u) /\ BatchTrue(u) /\ SeatTrue(u) /\ PublishTrue(u) /\ ListTrue(u)
      /\ DeleteTrue(u) /\ ShareTrue(u) /\ ReportTrue(u)
      /\ DOMAIN call[u] = Fields /\ call[u].wrote \in BOOLEAN /\ call[u].could \in BOOLEAN
  BY FactsOf
<1>2. call'[u] = Out(u, o)
  BY DEF TeamInv
<1>3. /\ SameCall(u) /\ call'[u].pc = "done" /\ call'[u].out = o
      /\ call'[u].wrote = call[u].wrote /\ call'[u].could = call[u].could
      /\ call'[u].read = call[u].read /\ call'[u].perms = call[u].perms
  BY <1>1, <1>2, Answers
<1>4. /\ Grow /\ row' = row /\ space' = space
  BY HostedStill
<1>5. PublishTrue(u)'
  <2>1. Rel(u)' = Rel(u)
    BY <1>3 DEF Rel, SameCall
  <2>2. MyRow(u) => MyRow(u)'
    BY <1>4, <2>1 DEF MyRow
  <2> QED
    BY <1>1, <1>3, <2>2 DEF PublishTrue, PublishMay, SameCall
<1>6. ListTrue(u)'
  BY <1>1, <1>3 DEF ListTrue, ListMay, SeatTrue, SameCall
<1>7. DeleteTrue(u)' /\ ShareTrue(u)'
  BY <1>1, <1>3 DEF DeleteTrue, ShareTrue, SameCall
<1>8. BatchTrue(u)' /\ ReportTrue(u)'
  BY <1>3 DEF BatchTrue, ReportTrue, SameCall
<1>9. CallTrue(u)'
  BY <1>1, <1>3, <1>4, <1>5, <1>6, <1>7, <1>8, TrueAfter DEF Named
<1>10. /\ DOMAIN Out(u, o) = Fields /\ Out(u, o).pc # "idle"
       /\ Out(u, o).wrote \in BOOLEAN /\ Out(u, o).could \in BOOLEAN
  BY <1>1, <1>2, <1>3 DEF SameCall
<1> QED
  BY <1>9, <1>10, QuietStep

\* A call goes on, with nothing written and nothing learnt.
LEMMA NextKeeps ==
  ASSUME TeamInv, NEW u \in User, NEW p, InCall(u), p \notin {"idle", "done"},
         call' = [call EXCEPT ![u] = Next_(u, p)], UNCHANGED <<role, hosted>>,
         call[u].op = "publish" =>
           p # "readback" /\ call[u].pc \in {"resolve", "namespace", "insert"},
         call[u].op = "ws_delete" => p # "explain" /\ call[u].pc # "done",
         call[u].op = "share_add" =>
           /\ call[u].pc # "done"
           /\ p \in {"assert", "add"} => call[u].pc \in {"assert", "add"},
         call[u].op \in ReportOps => p = "usage" /\ call[u].pc = "resolve",
         call[u].op \in WriteOps =>
           call[u].pc # "done" /\ Permissions(call[u].perms) \subseteq TeamPermission
  PROVE  TeamInv'
<1>1. /\ Named(u) /\ BatchTrue(u) /\ SeatTrue(u) /\ PublishTrue(u) /\ ListTrue(u)
      /\ DeleteTrue(u) /\ ShareTrue(u) /\ ReportTrue(u)
      /\ DOMAIN call[u] = Fields /\ call[u].wrote \in BOOLEAN /\ call[u].could \in BOOLEAN
  BY FactsOf
<1>2. call'[u] = Next_(u, p)
  BY DEF TeamInv
<1>3. /\ SameCall(u) /\ call'[u].pc = p
      /\ call'[u].wrote = call[u].wrote /\ call'[u].could = call[u].could
      /\ call'[u].read = call[u].read /\ call'[u].perms = call[u].perms
  BY <1>1, <1>2, GoesOn
<1>4. /\ Grow /\ row' = row /\ space' = space
  BY HostedStill
<1>5. PublishTrue(u)' /\ ListTrue(u)'
  BY <1>1, <1>3 DEF PublishTrue, ListTrue, SameCall
<1>6. DeleteTrue(u)' /\ ShareTrue(u)'
  BY <1>1, <1>3, <1>4 DEF DeleteTrue, ShareTrue, SameCall
<1>7. BatchTrue(u)' /\ ReportTrue(u)'
  BY <1>1, <1>3 DEF BatchTrue, ReportTrue, SameCall
<1>8. CallTrue(u)'
  BY <1>1, <1>3, <1>4, <1>5, <1>6, <1>7, TrueAfter DEF Named
<1>9. /\ DOMAIN Next_(u, p) = Fields /\ Next_(u, p).pc # "idle"
      /\ Next_(u, p).wrote \in BOOLEAN /\ Next_(u, p).could \in BOOLEAN
  BY <1>1, <1>2, <1>3 DEF SameCall
<1> QED
  BY <1>8, <1>9, QuietStep

\* A tool call begins.
LEMMA BeginKeeps ==
  ASSUME TeamInv, NEW u \in User, NEW op, NEW c, Begin(u, op, c),
         DOMAIN c = Fields, c.wrote = FALSE, c.could = FALSE,
         c.skill \in Skill \cup {None},
         op \in VersionOps => c.skill \in Skill /\ c.version \in Version,
         op \in SkillOps => c.skill \in Skill,
         op \in PlaceOps => c.ws \in Space /\ space[c.ws].state # "unborn",
         op \in WriteOps => c.ws \in GrantableRole /\ c.perms \in Seq(PermissionName) /\ c.perms # <<>>,
         op \in {"set_permission", "create_policy"} => c.wanted \in {"allow", "deny"},
         op \in RoleOps => c.ws \in User /\ c.wanted \in GrantableRole,
         op \in ReportOps => c.read = NoRead
  PROVE  TeamInv'
<1> DEFINE d == [c EXCEPT !.pc = "resolve", !.op = op, !.seat = Seat(role[u])]
<1>1. call' = [call EXCEPT ![u] = d] /\ UNCHANGED <<role, hosted>>
  BY DEF Begin
<1>2. /\ DOMAIN d = Fields /\ d.pc = "resolve" /\ d.op = op /\ d.seat = Seat(role[u])
      /\ d.skill = c.skill /\ d.version = c.version /\ d.ws = c.ws /\ d.perms = c.perms
      /\ d.wanted = c.wanted /\ d.wrote = FALSE /\ d.could = FALSE /\ d.read = c.read
  BY DEF Fields
<1> HIDE DEF d
<1>3. call'[u] = d /\ space' = space /\ role' = role
  BY <1>1, HostedStill DEF TeamInv
<1>4. Named(u)'
  BY <1>2, <1>3 DEF Named, RoleOps, PlaceOps, WriteOps
<1>5. SeatTrue(u)'
  BY <1>2, <1>3 DEF SeatTrue, Seat, IsMember
<1>6. BatchTrue(u)' /\ PublishTrue(u)' /\ ListTrue(u)' /\ DeleteTrue(u)' /\ ShareTrue(u)'
      /\ ReportTrue(u)'
  BY <1>2, <1>3 DEF BatchTrue, PublishTrue, ListTrue, DeleteTrue, ShareTrue, ReportTrue
<1>7. CallTrue(u)'
  BY <1>4, <1>5, <1>6 DEF CallTrue
<1> QED
  BY <1>1, <1>2, <1>7, QuietStep

LEMMA NewCall ==
  /\ DOMAIN NoCall = Fields /\ NoCall.wrote = FALSE /\ NoCall.could = FALSE
  /\ NoCall.skill = None /\ NoCall.perms = <<>> /\ NoCall.seat = None /\ NoCall.pc = "idle"
  BY DEF NoCall, Fields

-----------------------------------------------------------------------------
(* The registry. *)

\* Only what a member may see anyway is told to the whole team.
LEMMA Untold ==
  ASSUME NEW u \in User, NEW result, Audit(u, result),
         result \notin {"success", "denied"} \/ (result = "denied" /\ call[u].op \in {"approve", "reject"})
  PROVE  shown' = shown
  BY DEF Audit, IsMemberVisible, MutationOps

LEMMA FailsQuietly ==
  ASSUME NEW u \in User, NEW p, NEW o, Fails(u, p, o)
  PROVE  /\ call[u].pc = p /\ call' = [call EXCEPT ![u] = Out(u, o)] /\ UNCHANGED <<role, hosted>>
<1>1. shown' = shown
  BY Untold DEF Fails
<1> QED
  BY <1>1 DEF Fails, Proceeds, hosted

LEMMA NoClientQuietly ==
  ASSUME NEW u \in User, NEW p, NoClient(u, p)
  PROVE  /\ call[u].pc = p /\ call' = [call EXCEPT ![u] = Out(u, "no_client")]
         /\ UNCHANGED <<role, hosted>>
  BY DEF NoClient, AnswersWith, Proceeds

\* What an operation of the registry, other than publish and list, answers is free.
LEMMA RegistryAnswer ==
  ASSUME TeamInv, NEW u \in User, NEW o, InCall(u), call[u].op \in RegistryOps,
         call' = [call EXCEPT ![u] = Out(u, o)], UNCHANGED <<role, hosted>>,
         PublishMay(u, o), ListMay(u, o)
  PROVE  TeamInv'
  BY AnswerKeeps DEF RegistryOps, ReportOps

LEMMA RegistryNext ==
  ASSUME TeamInv, NEW u \in User, NEW p, InCall(u), call[u].op \in RegistryOps,
         p \notin {"idle", "done"},
         call' = [call EXCEPT ![u] = Next_(u, p)], UNCHANGED <<role, hosted>>,
         call[u].op = "publish" =>
           p # "readback" /\ call[u].pc \in {"resolve", "namespace", "insert"}
  PROVE  TeamInv'
  BY NextKeeps DEF RegistryOps, ReportOps, WriteOps

LEMMA BeginRegistryCallKeeps ==
  ASSUME TeamInv, NEW u \in User, BeginRegistryCall(u)
  PROVE  TeamInv'
<1>1. ASSUME NEW s \in Skill, NEW v \in Version,
             NEW op \in {"publish", "get", "install", "approve", "reject"},
             Begin(u, op, For(s, v))
      PROVE  TeamInv'
  <2>1. /\ DOMAIN For(s, v) = Fields /\ For(s, v).wrote = FALSE /\ For(s, v).could = FALSE
        /\ For(s, v).skill = s /\ For(s, v).version = v
    BY DEF For, NoCall, Fields
  <2> QED
    BY <1>1, <2>1, BeginKeeps DEF SkillOps, PlaceOps, WriteOps, RoleOps, ReportOps
<1>2. ASSUME NEW s \in Skill, NEW op \in {"deprecate", "undeprecate"}, Begin(u, op, For(s, None))
      PROVE  TeamInv'
  <2>1. /\ DOMAIN For(s, None) = Fields /\ For(s, None).wrote = FALSE /\ For(s, None).could = FALSE
        /\ For(s, None).skill = s
    BY DEF For, NoCall, Fields
  <2> QED
    BY <1>2, <2>1, BeginKeeps DEF VersionOps, PlaceOps, WriteOps, RoleOps, ReportOps
<1>3. ASSUME NEW op \in {"namespace", "submissions"}, Begin(u, op, NoCall)
      PROVE  TeamInv'
  BY <1>3, NewCall, BeginKeeps DEF VersionOps, SkillOps, PlaceOps, WriteOps, RoleOps, ReportOps
<1>4. ASSUME NEW w \in {"current", "with_deprecated"},
             Begin(u, "list", [NoCall EXCEPT !.wanted = w])
      PROVE  TeamInv'
  <2> DEFINE d == [NoCall EXCEPT !.wanted = w]
  <2>1. DOMAIN d = Fields /\ d.wrote = FALSE /\ d.could = FALSE /\ d.skill = None
    BY DEF NoCall, Fields
  <2> HIDE DEF d
  <2>2. Begin(u, "list", d)
    BY <1>4 DEF d
  <2> QED
    BY <2>1, <2>2, BeginKeeps DEF VersionOps, SkillOps, PlaceOps, WriteOps, RoleOps, ReportOps
<1> QED
  BY <1>1, <1>2, <1>3, <1>4 DEF BeginRegistryCall

LEMMA ResolveRegistryTeamKeeps ==
  ASSUME TeamInv, NEW u \in User, ResolveRegistryTeam(u)
  PROVE  TeamInv'
<1>1. InCall(u) /\ call[u].pc = "resolve" /\ call[u].op \in RegistryOps
  BY DEF ResolveRegistryTeam, At, InCall
<1>2. CASE NoTeam(u)
  BY <1>1, <1>2, RegistryAnswer DEF NoTeam, AnswersWith, Proceeds, PublishMay, ListMay
<1>3. CASE Proceeds(u, Next_(u, FirstStep(call[u].op))) /\ UNCHANGED <<role, hosted>>
  <2>1. FirstStep(call[u].op) \in {"namespace", "list", "read", "update", "submissions", "review"}
    BY <1>1 DEF FirstStep, RegistryOps
  <2> QED
    BY <1>1, <1>3, <2>1, RegistryNext DEF Proceeds
<1> QED
  BY <1>2, <1>3 DEF ResolveRegistryTeam

LEMMA CheckNamespaceKeeps ==
  ASSUME TeamInv, NEW u \in User, CheckNamespace(u)
  PROVE  TeamInv'
<1>1. InCall(u) /\ call[u].pc = "namespace" /\ call[u].op = "publish" /\ call[u].op \in RegistryOps
      /\ UNCHANGED <<role, hosted>>
  BY DEF CheckNamespace, At, InCall, RegistryOps
<1>2. CASE Proceeds(u, Next_(u, "insert"))
  <2>1. PICK p \in {"insert"} : call' = [call EXCEPT ![u] = Next_(u, p)]
    BY <1>2 DEF Proceeds
  <2> QED
    BY <1>1, <2>1, RegistryNext
<1>3. CASE Proceeds(u, Out(u, "namespace"))
  BY <1>1, <1>3, RegistryAnswer DEF Proceeds, PublishMay, ListMay
<1> QED
  BY <1>2, <1>3 DEF CheckNamespace

\* A version is inserted where there was none.
LEMMA InsertRowKeeps ==
  ASSUME TeamInv, NEW u \in User, InsertRow(u)
  PROVE  TeamInv'
<1> DEFINE new == [state |-> "pending", deprecated |-> FALSE, by |-> u]
<1>1. /\ InCall(u) /\ call[u].pc = "insert" /\ call[u].op = "publish"
      /\ row[Rel(u)].state = "none" /\ row' = [row EXCEPT ![Rel(u)] = new]
      /\ UNCHANGED <<role, space, grant, sso, shown>>
  BY DEF InsertRow, At, InCall, Inserted
<1>2. /\ Named(u) /\ DOMAIN call[u] = Fields /\ Rel(u) \in Release
  BY <1>1, FactsOf, Releases DEF VersionOps
<1>3. PICK c : /\ \/ c = [Next_(u, "readback") EXCEPT !.wrote = TRUE]
                  \/ c = [Out(u, "failed") EXCEPT !.wrote = TRUE]
               /\ call' = [call EXCEPT ![u] = c]
  BY DEF InsertRow, Proceeds
<1>4. call'[u] = c
  BY <1>3 DEF TeamInv
<1>5. /\ SameCall(u) /\ call'[u].wrote = TRUE /\ call'[u].could = call[u].could
      /\ \/ call'[u].pc = "readback"
         \/ call'[u].pc = "done" /\ call'[u].out = "failed"
  <2>1. CASE c = [Next_(u, "readback") EXCEPT !.wrote = TRUE]
    BY <1>2, <1>4, <2>1 DEF Next_, SameCall, Fields
  <2>2. CASE c = [Out(u, "failed") EXCEPT !.wrote = TRUE]
    BY <1>2, <1>4, <2>2 DEF Out, SameCall, Fields
  <2> QED
    BY <1>3, <2>1, <2>2
<1>6. /\ row'[Rel(u)] = new /\ \A r \in Release : r # Rel(u) => row'[r] = row[r]
      /\ row' \in [Release -> [state : {"none", "pending", "approved", "rejected"},
                               deprecated : BOOLEAN, by : User \cup {None}]]
  BY <1>1, <1>2 DEF TeamInv, TeamTypeOK
<1>7. Grow
  BY <1>1, <1>2, <1>6 DEF Grow
<1>8. TeamTypeOK'
  BY <1>1, <1>3, <1>4, <1>5, <1>6 DEF TeamInv, TeamTypeOK
<1>9. PendingStaysHidden'
  BY <1>1, <1>6, <1>7 DEF TeamInv, PendingStaysHidden, Versions, Grow
<1>10. MyRow(u)'
  <2>1. Rel(u)' = Rel(u)
    BY <1>5 DEF Rel, SameCall
  <2> QED
    BY <1>6, <2>1 DEF MyRow
<1>11. PublishTrue(u)' /\ ListTrue(u)' /\ DeleteTrue(u)' /\ ShareTrue(u)' /\ BatchTrue(u)'
       /\ ReportTrue(u)'
  BY <1>1, <1>5, <1>10
     DEF PublishTrue, ListTrue, DeleteTrue, ShareTrue, BatchTrue, ReportTrue, SameCall, WriteOps,
         ReportOps
<1>12. CallTrue(u)'
  BY <1>1, <1>5, <1>7, <1>11, TrueAfter DEF WriteOps
<1>13. DOMAIN c = Fields /\ c.pc # "idle"
  BY <1>4, <1>5 DEF SameCall
<1> QED
  BY <1>1, <1>3, <1>7, <1>8, <1>9, <1>12, <1>13, StepOfCall

LEMMA InsertRefusedKeeps ==
  ASSUME TeamInv, NEW u \in User, InsertRefused(u)
  PROVE  TeamInv'
<1>1. InCall(u) /\ call[u].pc = "insert" /\ call[u].op = "publish" /\ call[u].op \in RegistryOps
  BY DEF InsertRefused, At, InCall, RegistryOps
<1>2. ASSUME NEW o, call' = [call EXCEPT ![u] = Out(u, o)], UNCHANGED <<role, hosted>>,
             o \notin {"submitted", "unconfirmed"}
      PROVE  TeamInv'
  BY <1>1, <1>2, RegistryAnswer DEF PublishMay, ListMay
<1>3. CASE NoClient(u, "insert")
  BY <1>2, <1>3, NoClientQuietly
<1>4. CASE Fails(u, "insert", "failed") \/ Fails(u, "insert", "version_immutable")
  BY <1>2, <1>4, FailsQuietly
<1>5. CASE Proceeds(u, Next_(u, "denied")) /\ Audit(u, "error")
           /\ UNCHANGED <<role, row, space, grant, sso>>
  <2>1. UNCHANGED <<role, hosted>>
    BY <1>5, Untold DEF hosted
  <2>2. PICK p \in {"denied"} : call' = [call EXCEPT ![u] = Next_(u, p)]
    BY <1>5 DEF Proceeds
  <2> QED
    BY <1>1, <2>1, <2>2, RegistryNext
<1> QED
  BY <1>3, <1>4, <1>5 DEF InsertRefused

LEMMA ReadBackKeeps ==
  ASSUME TeamInv, NEW u \in User, ReadBack(u)
  PROVE  TeamInv'
<1>1. InCall(u) /\ call[u].pc = "readback" /\ call[u].op = "publish" /\ call[u].op \in RegistryOps
  BY DEF ReadBack, At, InCall, RegistryOps
<1>2. PICK o \in {"unconfirmed", "submitted"} : AnswersWith(u, o)
  BY DEF ReadBack
<1> QED
  BY <1>1, <1>2, RegistryAnswer DEF AnswersWith, Proceeds, PublishMay, ListMay

LEMMA ExplainDenialKeeps ==
  ASSUME TeamInv, NEW u \in User, ExplainDenial(u)
  PROVE  TeamInv'
<1>1. InCall(u) /\ call[u].pc = "denied" /\ call[u].op = "publish" /\ call[u].op \in RegistryOps
  BY DEF ExplainDenial, At, InCall, RegistryOps
<1>2. PICK o \in {"denied", "not_member"} : AnswersWith(u, o)
  BY DEF ExplainDenial
<1> QED
  BY <1>1, <1>2, RegistryAnswer DEF AnswersWith, Proceeds, PublishMay, ListMay

LEMMA ListRowsKeeps ==
  ASSUME TeamInv, NEW u \in User, ListRows(u)
  PROVE  TeamInv'
<1>1. InCall(u) /\ call[u].pc = "list" /\ call[u].op = "list" /\ call[u].op \in RegistryOps
  BY DEF ListRows, At, InCall, RegistryOps
<1>2. ASSUME NEW o, call' = [call EXCEPT ![u] = Out(u, o)], UNCHANGED <<role, hosted>>,
             o # "found_none"
      PROVE  TeamInv'
  BY <1>1, <1>2, RegistryAnswer DEF PublishMay, ListMay
<1>3. CASE NoClient(u, "list")
  BY <1>2, <1>3, NoClientQuietly
<1>4. CASE Fails(u, "list", "failed")
  BY <1>2, <1>4, FailsQuietly
<1>5. CASE AnswersWith(u, "found")
  BY <1>2, <1>5 DEF AnswersWith, Proceeds
<1>6. CASE Proceeds(u, Next_(u, "probe")) /\ UNCHANGED <<role, hosted>>
  <2>1. PICK p \in {"probe"} : call' = [call EXCEPT ![u] = Next_(u, p)]
    BY <1>6 DEF Proceeds
  <2> QED
    BY <1>1, <1>6, <2>1, RegistryNext
<1> QED
  BY <1>3, <1>4, <1>5, <1>6 DEF ListRows

LEMMA ReadNamespaceKeeps ==
  ASSUME TeamInv, NEW u \in User, ReadNamespace(u)
  PROVE  TeamInv'
<1>1. InCall(u) /\ call[u].op = "namespace" /\ call[u].op \in RegistryOps
  BY DEF ReadNamespace, At, InCall, RegistryOps
<1>2. CASE AnswersWith(u, "namespace")
  BY <1>1, <1>2, RegistryAnswer DEF AnswersWith, Proceeds, PublishMay, ListMay
<1>3. CASE Proceeds(u, Next_(u, "probe")) /\ UNCHANGED <<role, hosted>>
  <2>1. PICK p \in {"probe"} : call' = [call EXCEPT ![u] = Next_(u, p)]
    BY <1>3 DEF Proceeds
  <2> QED
    BY <1>1, <1>3, <2>1, RegistryNext
<1> QED
  BY <1>2, <1>3 DEF ReadNamespace

\* Nothing found is only told after a probe that found a member.
LEMMA ProbeMembershipKeeps ==
  ASSUME TeamInv, NEW u \in User, ProbeMembership(u)
  PROVE  TeamInv'
<1>1. /\ InCall(u) /\ call[u].op \in {"list", "namespace"} /\ call[u].op \in RegistryOps
  BY DEF ProbeMembership, At, InCall, RegistryOps
<1>2. PICK verdict \in Verdicts(u) :
        AnswersWith(u, OverrideError(verdict, IF call[u].op = "list" THEN "found_none"
                                                                     ELSE "no_namespace"))
  BY DEF ProbeMembership
<1> DEFINE o == OverrideError(verdict, IF call[u].op = "list" THEN "found_none"
                                                              ELSE "no_namespace")
<1>3. ListMay(u, o)
  BY DEF ListMay, OverrideError, Verdicts
<1>4. PublishMay(u, o)
  BY <1>1 DEF PublishMay
<1> HIDE DEF o
<1>5. AnswersWith(u, o)
  BY <1>2 DEF o
<1> QED
  BY <1>1, <1>3, <1>4, <1>5, RegistryAnswer DEF AnswersWith, Proceeds

-----------------------------------------------------------------------------
(* A call that has written, and one that has learnt whether it was allowed to. *)

TablesOK ==
  /\ row \in [Release -> [state : {"none", "pending", "approved", "rejected"},
                          deprecated : BOOLEAN, by : User \cup {None}]]
  /\ space \in [Space -> [state : {"unborn", "live", "gone"}, skills : SUBSET Skill,
                          policy : [deny : SUBSET Skill, allow : SUBSET Skill]]]
  /\ grant \in [GrantableRole \X TeamPermission -> {"unset", "allow", "deny"}]
  /\ sso \in [provider : BOOLEAN, domain : {"none", "claimed", "verified"}, stale : BOOLEAN]
  /\ shown \subseteq Skill

LEMMA WriteKeeps ==
  ASSUME TeamInv, NEW u \in User, NEW o, InCall(u),
         call' = [call EXCEPT ![u] = [Out(u, o) EXCEPT !.wrote = TRUE]],
         UNCHANGED role, Grow, TablesOK', PendingStaysHidden',
         call[u].op # "publish",
         call[u].op = "list" => o # "found_none",
         call[u].op = "ws_delete" => o \notin {"needs_manage", "not_found", "cannot_tell"},
         call[u].op = "share_add" => call[u].could \/ call[u].seat # "in",
         call[u].op \in ReportOps => o # "report"
  PROVE  TeamInv'
<1> DEFINE c == [Out(u, o) EXCEPT !.wrote = TRUE]
<1>1. Named(u) /\ DOMAIN call[u] = Fields /\ call[u].could \in BOOLEAN
  BY FactsOf
<1>2. call'[u] = c /\ \A v \in User \ {u} : call'[v] = call[v]
  BY DEF TeamInv
<1>3. /\ SameCall(u) /\ call'[u].pc = "done" /\ call'[u].out = o
      /\ call'[u].wrote = TRUE /\ call'[u].could = call[u].could /\ call'[u].perms = call[u].perms
  BY <1>1, <1>2, AnswersAndWrote
<1> HIDE DEF c
<1>4. /\ BatchTrue(u)' /\ PublishTrue(u)' /\ ListTrue(u)' /\ DeleteTrue(u)' /\ ShareTrue(u)'
      /\ ReportTrue(u)'
  BY <1>3 DEF BatchTrue, PublishTrue, ListTrue, DeleteTrue, ShareTrue, ReportTrue, SameCall
<1>5. CallTrue(u)'
  BY <1>1, <1>3, <1>4, TrueAfter DEF Named
<1>6. TeamTypeOK'
  BY <1>1, <1>2, <1>3 DEF TeamInv, TeamTypeOK, TablesOK
<1>7. DOMAIN c = Fields /\ c.pc # "idle"
  BY <1>2, <1>3 DEF SameCall
<1>8. call' = [call EXCEPT ![u] = c]
  BY DEF c
<1> QED
  BY <1>5, <1>6, <1>7, <1>8, StepOfCall

LEMMA LearnKeeps ==
  ASSUME TeamInv, NEW u \in User, NEW p, NEW x, InCall(u),
         p \notin {"idle", "done"}, call[u].pc # "done",
         call' = [call EXCEPT ![u] = [Next_(u, p) EXCEPT !.could = x]],
         call'[u].could \in BOOLEAN,
         UNCHANGED <<role, hosted>>,
         call[u].op \notin ReportOps \cup WriteOps \cup {"publish"},
         call[u].op = "ws_delete" /\ call'[u].could => space[call[u].ws].state = "gone",
         call[u].op = "share_add" =>
           call'[u].could \/ call[u].seat # "in" \/ space[call[u].ws].state = "gone"
  PROVE  TeamInv'
<1> DEFINE c == [Next_(u, p) EXCEPT !.could = x]
<1>1. /\ Named(u) /\ DeleteTrue(u) /\ ShareTrue(u)
      /\ DOMAIN call[u] = Fields /\ call[u].wrote \in BOOLEAN
  BY FactsOf
<1>2. call'[u] = c
  BY DEF TeamInv
<1>3. /\ SameCall(u) /\ call'[u].pc = p
      /\ call'[u].wrote = call[u].wrote /\ call'[u].perms = call[u].perms
  <2>1. DOMAIN call[u] = Fields
    BY <1>1
  <2>2. call'[u] = [Next_(u, p) EXCEPT !.could = x]
    BY <1>2
  <2> HIDE DEF c
  <2> QED
    BY ONLY <2>1, <2>2, u \in User DEF Next_, SameCall, Fields
<1> HIDE DEF c
<1>4. Grow /\ space' = space
  BY HostedStill
<1>5. DeleteTrue(u)' /\ ShareTrue(u)'
  BY <1>1, <1>3, <1>4 DEF DeleteTrue, ShareTrue, SameCall
<1>6. BatchTrue(u)' /\ PublishTrue(u)' /\ ListTrue(u)' /\ ReportTrue(u)'
  BY <1>3 DEF BatchTrue, PublishTrue, ListTrue, ReportTrue, SameCall
<1>7. CallTrue(u)'
  BY <1>1, <1>3, <1>4, <1>5, <1>6, TrueAfter DEF Named
<1>8. DOMAIN c = Fields /\ c.pc # "idle" /\ c.wrote \in BOOLEAN /\ c.could \in BOOLEAN
  BY <1>1, <1>2, <1>3 DEF SameCall
<1>9. call' = [call EXCEPT ![u] = c]
  BY DEF c
<1> QED
  BY <1>7, <1>8, <1>9, QuietStep

LEMMA TablesNow ==
  TeamInv => TablesOK
  BY DEF TeamInv, TeamTypeOK, TablesOK

-----------------------------------------------------------------------------
(* The registry, continued: deprecation, review, reads. *)

LEMMA UpdateDeprecatedKeeps ==
  ASSUME TeamInv, NEW u \in User, UpdateDeprecated(u)
  PROVE  TeamInv'
<1>1. /\ InCall(u) /\ call[u].op \in {"deprecate", "undeprecate"}
      /\ row' = [r \in Release |-> IF r \in Reached(u)
                                     THEN [row[r] EXCEPT !.deprecated = call[u].op = "deprecate"]
                                     ELSE row[r]]
      /\ UNCHANGED <<role, space, grant, sso, shown>>
  BY DEF UpdateDeprecated, At, InCall
<1>2. PICK o \in {"changed", "failed"} : call' = [call EXCEPT ![u] = [Out(u, o) EXCEPT !.wrote = TRUE]]
  BY DEF UpdateDeprecated, Proceeds
<1>3. ASSUME NEW r \in Release
      PROVE  /\ row'[r].state = row[r].state /\ row'[r].by = row[r].by
             /\ row'[r] \in [state : {"none", "pending", "approved", "rejected"},
                             deprecated : BOOLEAN, by : User \cup {None}]
  BY <1>1, TablesNow DEF TablesOK
<1>4. Grow /\ TablesOK'
  BY <1>1, <1>3, TablesNow DEF Grow, TablesOK
<1>5. PendingStaysHidden'
  BY <1>1, <1>3 DEF TeamInv, PendingStaysHidden, Versions
<1> QED
  BY <1>1, <1>2, <1>4, <1>5, WriteKeeps DEF ReportOps

LEMMA UpdateNothingKeeps ==
  ASSUME TeamInv, NEW u \in User, UpdateNothing(u)
  PROVE  TeamInv'
<1>1. InCall(u) /\ call[u].pc = "update" /\ call[u].op \in {"deprecate", "undeprecate"}
      /\ call[u].op \in RegistryOps
  BY DEF UpdateNothing, At, InCall, RegistryOps
<1>2. ASSUME NEW o, call' = [call EXCEPT ![u] = Out(u, o)], UNCHANGED <<role, hosted>>
      PROVE  TeamInv'
  BY <1>1, <1>2, RegistryAnswer DEF PublishMay, ListMay
<1>3. CASE NoClient(u, "update")
  BY <1>2, <1>3, NoClientQuietly
<1>4. CASE Fails(u, "update", "failed")
  BY <1>2, <1>4, FailsQuietly
<1>5. CASE /\ Proceeds(u, [Next_(u, "explain") EXCEPT !.could = HasPermission(u, "registry:deprecate")])
           /\ UNCHANGED <<role, hosted>>
  <2>1. HasPermission(u, "registry:deprecate") \in BOOLEAN
    BY DEF HasPermission
  <2>2. PICK p \in {"explain"}, x \in BOOLEAN :
          call' = [call EXCEPT ![u] = [Next_(u, p) EXCEPT !.could = x]]
    BY <1>5, <2>1 DEF Proceeds
  <2>3. call'[u].could \in BOOLEAN
    BY <1>1, <2>2, FactsOf, GoesOnAndLearns DEF TeamInv
  <2> QED
    BY <1>1, <1>5, <2>2, <2>3, LearnKeeps DEF ReportOps, WriteOps
<1> QED
  BY <1>3, <1>4, <1>5 DEF UpdateNothing

\* A skill is told to the whole team when a version of it is approved.
LEMMA ToldKeeps ==
  ASSUME TeamInv, NEW u \in User, NEW result, Audit(u, result), UNCHANGED row,
         NEW r \in Release, r \in Versions(call[u].skill), Visible(u, r), InCall(u)
  PROVE  /\ PendingStaysHidden' /\ shown' \subseteq Skill /\ shown \subseteq shown'
<1>1. row[r].state = "approved"
  BY DEF Visible
<1>2. call[u].skill \in Skill \cup {None}
  BY FactsOf DEF Named
<1>3. shown \subseteq Skill /\ PendingStaysHidden
  BY DEF TeamInv, TeamTypeOK
<1>4. shown' = shown \/ (shown' = shown \cup {call[u].skill} /\ call[u].skill # None)
  BY DEF Audit
<1> QED
  BY <1>1, <1>2, <1>3, <1>4 DEF PendingStaysHidden, Versions

\* A step that is told of changes no table but what is shown.
LEMMA ToldStep ==
  ASSUME TeamInv, NEW u \in User, NEW c, InCall(u), call[u].op \in RegistryOps,
         call[u].op \notin {"publish", "list"},
         call' = [call EXCEPT ![u] = c], DOMAIN call'[u] = Fields, SameCall(u),
         call'[u].pc # "idle", call'[u].wrote = call[u].wrote, call'[u].could = call[u].could,
         UNCHANGED <<role, row, space, grant, sso>>,
         PendingStaysHidden', shown' \subseteq Skill
  PROVE  TeamInv'
<1>1. call'[u] = c /\ \A v \in User \ {u} : call'[v] = call[v]
  BY DEF TeamInv
<1>2. Grow
  BY DEF Grow
<1>3. TeamTypeOK'
  BY <1>1, FactsOf DEF TeamInv, TeamTypeOK
<1>4. BatchTrue(u)' /\ PublishTrue(u)' /\ ListTrue(u)' /\ DeleteTrue(u)' /\ ShareTrue(u)'
      /\ ReportTrue(u)'
  BY DEF BatchTrue, PublishTrue, ListTrue, DeleteTrue, ShareTrue, ReportTrue, SameCall,
         RegistryOps, WriteOps, ReportOps
<1>5. CallTrue(u)'
  BY <1>2, <1>4, TrueAfter DEF RegistryOps, WriteOps
<1> QED
  BY <1>1, <1>2, <1>3, <1>5, StepOfCall

LEMMA ExplainUpdateKeeps ==
  ASSUME TeamInv, NEW u \in User, ExplainUpdate(u)
  PROVE  TeamInv'
<1>1. InCall(u) /\ call[u].op \in {"deprecate", "undeprecate"} /\ call[u].op \in RegistryOps
  BY DEF ExplainUpdate, At, InCall, RegistryOps
<1>2. ASSUME NEW o, call' = [call EXCEPT ![u] = Out(u, o)], UNCHANGED <<role, hosted>>
      PROVE  TeamInv'
  BY <1>1, <1>2, RegistryAnswer DEF PublishMay, ListMay
<1>3. CASE Fails(u, "explain", "cannot_tell")
  BY <1>2, <1>3, FailsQuietly
<1>4. CASE AnswersWith(u, "not_found")
  BY <1>2, <1>4 DEF AnswersWith, Proceeds
<1>5. CASE /\ \E r \in Versions(call[u].skill) : Visible(u, r)
           /\ Proceeds(u, Out(u, "not_admin")) /\ Audit(u, "denied")
           /\ UNCHANGED <<role, row, space, grant, sso>>
  <2>1. PICK r \in Release : r \in Versions(call[u].skill) /\ Visible(u, r)
    BY <1>5 DEF Versions
  <2>2. PendingStaysHidden' /\ shown' \subseteq Skill
    BY <1>1, <1>5, <2>1, ToldKeeps
  <2>3. DOMAIN call[u] = Fields /\ call'[u] = Out(u, "not_admin")
        /\ call' = [call EXCEPT ![u] = Out(u, "not_admin")]
    BY <1>1, <1>5, FactsOf DEF Proceeds, TeamInv
  <2>4. SameCall(u) /\ call'[u].pc = "done" /\ call'[u].wrote = call[u].wrote
        /\ call'[u].could = call[u].could /\ DOMAIN call'[u] = Fields
    BY <2>3, Answers DEF SameCall
  <2> QED
    BY <1>1, <1>5, <2>2, <2>3, <2>4, ToldStep
<1> QED
  BY <1>3, <1>4, <1>5 DEF ExplainUpdate

LEMMA ListSubmissionsKeeps ==
  ASSUME TeamInv, NEW u \in User, ListSubmissions(u)
  PROVE  TeamInv'
<1>1. InCall(u) /\ call[u].op = "submissions" /\ call[u].op \in RegistryOps
  BY DEF ListSubmissions, At, InCall, RegistryOps
<1>2. ASSUME NEW o, call' = [call EXCEPT ![u] = Out(u, o)], UNCHANGED <<role, hosted>>
      PROVE  TeamInv'
  BY <1>1, <1>2, RegistryAnswer DEF PublishMay, ListMay
<1> QED
  BY <1>2, NoClientQuietly, FailsQuietly DEF ListSubmissions, AnswersWith, Proceeds

\* Only a version under review is decided on.
LEMMA ReviewKeeps ==
  ASSUME TeamInv, NEW u \in User, Review(u)
  PROVE  TeamInv'
<1>1. /\ InCall(u) /\ call[u].op \in {"approve", "reject"}
      /\ row' = [row EXCEPT ![Rel(u)].state = Decision(call[u].op)]
      /\ row[Rel(u)].state = "pending"
      /\ UNCHANGED <<role, space, grant, sso, shown>>
  BY DEF Review, ReviewRefusal, At, InCall
<1>2. PICK o \in {"reviewed", "no_row", "failed"} :
        call' = [call EXCEPT ![u] = [Out(u, o) EXCEPT !.wrote = TRUE]]
  BY DEF Review, Proceeds
<1>3. Rel(u) \in Release
  BY <1>1, FactsOf, Releases DEF VersionOps
<1>4. Decision(call[u].op) \in {"approved", "rejected"}
  BY DEF Decision
<1>5. ASSUME NEW r \in Release
      PROVE  /\ r # Rel(u) => row'[r] = row[r]
             /\ row'[r].by = row[r].by /\ row'[Rel(u)].state = Decision(call[u].op)
             /\ row'[r] \in [state : {"none", "pending", "approved", "rejected"},
                             deprecated : BOOLEAN, by : User \cup {None}]
  BY <1>1, <1>3, <1>4, TablesNow DEF TablesOK
<1>6. Grow
  <2>1. \A r \in Release : /\ row[r].state # "none" => row'[r].state # "none"
                           /\ row[r].state = "approved" => row'[r].state = "approved"
    BY <1>1, <1>4, <1>5
  <2> QED
    BY <1>1, <1>5, <2>1 DEF Grow
<1>7. TablesOK'
  BY <1>1, <1>5, TablesNow DEF TablesOK
<1>8. PendingStaysHidden'
  BY <1>1, <1>6 DEF TeamInv, PendingStaysHidden, Versions, Grow
<1> QED
  BY <1>1, <1>2, <1>6, <1>7, <1>8, WriteKeeps DEF ReportOps

LEMMA ReviewRefusedKeeps ==
  ASSUME TeamInv, NEW u \in User, ReviewRefused(u)
  PROVE  TeamInv'
<1>1. InCall(u) /\ call[u].op \in {"approve", "reject"} /\ call[u].op \in RegistryOps
  BY DEF ReviewRefused, At, InCall, RegistryOps
<1>2. ASSUME NEW o, call' = [call EXCEPT ![u] = Out(u, o)], UNCHANGED <<role, hosted>>
      PROVE  TeamInv'
  BY <1>1, <1>2, RegistryAnswer DEF PublishMay, ListMay
<1>3. CASE NoClient(u, "review")
  BY <1>2, <1>3, NoClientQuietly
<1>4. ASSUME NEW o, Proceeds(u, Out(u, o)), Audit(u, "denied"),
             UNCHANGED <<role, row, space, grant, sso>>
      PROVE  TeamInv'
  <2>1. UNCHANGED <<role, hosted>>
    BY <1>1, <1>4, Untold DEF hosted
  <2> QED
    BY <1>2, <1>4, <2>1 DEF Proceeds
<1> QED
  BY <1>3, <1>4 DEF ReviewRefused

\* What a member reads is told, and is approved.
LEMMA ReadRowKeeps ==
  ASSUME TeamInv, NEW u \in User, ReadRow(u)
  PROVE  TeamInv'
<1>1. InCall(u) /\ call[u].op \in {"get", "install"} /\ call[u].op \in RegistryOps
  BY DEF ReadRow, At, InCall, RegistryOps
<1>2. ASSUME NEW o, call' = [call EXCEPT ![u] = Out(u, o)], UNCHANGED <<role, hosted>>
      PROVE  TeamInv'
  BY <1>1, <1>2, RegistryAnswer DEF PublishMay, ListMay
<1>3. CASE NoClient(u, "read")
  BY <1>2, <1>3, NoClientQuietly
<1>4. CASE Fails(u, "read", "failed") \/ Fails(u, "read", "not_entitled")
  BY <1>2, <1>4, FailsQuietly
<1>5. CASE AnswersWith(u, "not_found")
  BY <1>2, <1>5 DEF AnswersWith, Proceeds
<1>6. CASE /\ Rel(u) \in Listed(u)
           /\ IF call[u].op = "get" THEN Proceeds(u, Out(u, "found"))
                                    ELSE Proceeds(u, Next_(u, "install"))
           /\ Audit(u, "success")
           /\ UNCHANGED <<role, row, space, grant, sso>>
  <2>1. Rel(u) \in Release /\ Rel(u) \in Versions(call[u].skill) /\ Visible(u, Rel(u))
    <3>1. Rel(u) \in Release
      BY <1>1, FactsOf, Releases DEF VersionOps
    <3> QED
      BY <1>6, <3>1 DEF Listed, Versions, Rel
  <2>2. PendingStaysHidden' /\ shown' \subseteq Skill
    BY <1>1, <1>6, <2>1, ToldKeeps
  <2>3. PICK c \in {Out(u, "found"), Next_(u, "install")} : call' = [call EXCEPT ![u] = c]
    BY <1>6 DEF Proceeds
  <2>4. DOMAIN call[u] = Fields /\ call'[u] = c
    BY <1>1, <2>3, FactsOf DEF TeamInv
  <2>5. SameCall(u) /\ call'[u].pc # "idle" /\ call'[u].wrote = call[u].wrote
        /\ call'[u].could = call[u].could /\ DOMAIN call'[u] = Fields
    <3>1. CASE c = Out(u, "found")
      BY <2>4, <3>1, Answers DEF SameCall
    <3>2. CASE c = Next_(u, "install")
      BY <2>4, <3>2, GoesOn DEF SameCall
    <3> QED
      BY <2>3, <3>1, <3>2
  <2> QED
    BY <1>1, <1>6, <2>2, <2>3, <2>5, ToldStep
<1> QED
  BY <1>3, <1>4, <1>5, <1>6 DEF ReadRow

LEMMA InstallContentKeeps ==
  ASSUME TeamInv, NEW u \in User, InstallContent(u)
  PROVE  TeamInv'
<1>1. InCall(u) /\ call[u].op = "install" /\ call[u].op \in RegistryOps
  BY DEF InstallContent, At, InCall, RegistryOps
<1> QED
  BY <1>1, RegistryAnswer DEF InstallContent, AnswersWith, Proceeds, PublishMay, ListMay

LEMMA RegistryKeeps ==
  ASSUME TeamInv, NEW u \in User, RegistryStep(u)
  PROVE  TeamInv'
  BY BeginRegistryCallKeeps, ResolveRegistryTeamKeeps, CheckNamespaceKeeps, InsertRowKeeps,
     InsertRefusedKeeps, ReadBackKeeps, ExplainDenialKeeps, ListRowsKeeps, ReadNamespaceKeeps,
     ProbeMembershipKeeps, UpdateDeprecatedKeeps, UpdateNothingKeeps, ExplainUpdateKeeps,
     ListSubmissionsKeeps, ReviewKeeps, ReviewRefusedKeeps, ReadRowKeeps, InstallContentKeeps
     DEF RegistryStep

-----------------------------------------------------------------------------
(* The workspaces. *)

WsOps == SpaceOps \cup ShareOps

LEMMA SpaceAnswer ==
  ASSUME TeamInv, NEW u \in User, NEW o, InCall(u), call[u].op \in WsOps, call[u].pc # "done",
         call' = [call EXCEPT ![u] = Out(u, o)], UNCHANGED <<role, hosted>>,
         call[u].op = "ws_delete" /\ o = "needs_manage" => ~call[u].could
  PROVE  TeamInv'
  BY AnswerKeeps DEF WsOps, SpaceOps, ShareOps, ReportOps, PublishMay, ListMay

LEMMA SpaceNext ==
  ASSUME TeamInv, NEW u \in User, NEW p, InCall(u), call[u].op \in WsOps, call[u].pc # "done",
         p \notin {"idle", "done"},
         call' = [call EXCEPT ![u] = Next_(u, p)], UNCHANGED <<role, hosted>>,
         call[u].op = "ws_delete" => p # "explain",
         call[u].op = "share_add" /\ p \in {"assert", "add"} => call[u].pc \in {"assert", "add"}
  PROVE  TeamInv'
  BY NextKeeps DEF WsOps, SpaceOps, ShareOps, ReportOps, WriteOps

\* A refused client or a failed statement says nothing about permissions.
LEMMA SpaceFails ==
  ASSUME TeamInv, NEW u \in User, NEW p, NEW o, InCall(u), call[u].op \in WsOps, p # "done",
         o # "needs_manage", NoClient(u, p) \/ Fail(u, p, o)
  PROVE  TeamInv'
<1>1. CASE NoClient(u, p)
  BY <1>1, SpaceAnswer DEF NoClient, AnswersWith, Proceeds
<1>2. CASE Fail(u, p, o)
  BY <1>2, SpaceAnswer DEF Fail, AnswersWith, Proceeds
<1> QED
  BY <1>1, <1>2

LEMMA BeginWorkspaceCallKeeps ==
  ASSUME TeamInv, NEW u \in User, BeginWorkspaceCall(u)
  PROVE  TeamInv'
<1>1. ASSUME NEW op \in {"ws_create", "ws_list"}, Begin(u, op, NoCall)
      PROVE  TeamInv'
  BY <1>1, NewCall, BeginKeeps DEF VersionOps, SkillOps, PlaceOps, WriteOps, RoleOps, ReportOps
<1>2. ASSUME NEW w \in Known, NEW op \in {"ws_get", "ws_delete", "share_list"},
             Begin(u, op, In(w, None))
      PROVE  TeamInv'
  <2>1. /\ DOMAIN In(w, None) = Fields /\ In(w, None).wrote = FALSE /\ In(w, None).could = FALSE
        /\ In(w, None).skill = None /\ In(w, None).ws = w
    BY DEF In, NoCall, Fields
  <2>2. w \in Space /\ space[w].state # "unborn"
    BY DEF Known
  <2> QED
    BY <1>2, <2>1, <2>2, BeginKeeps DEF VersionOps, SkillOps, WriteOps, RoleOps, ReportOps
<1>3. ASSUME NEW w \in Known, NEW s \in Skill, NEW op \in {"share_add", "share_remove"},
             Begin(u, op, In(w, s))
      PROVE  TeamInv'
  <2>1. /\ DOMAIN In(w, s) = Fields /\ In(w, s).wrote = FALSE /\ In(w, s).could = FALSE
        /\ In(w, s).skill = s /\ In(w, s).ws = w
    BY DEF In, NoCall, Fields
  <2>2. w \in Space /\ space[w].state # "unborn"
    BY DEF Known
  <2> QED
    BY <1>3, <2>1, <2>2, BeginKeeps DEF VersionOps, WriteOps, RoleOps, ReportOps
<1> QED
  BY <1>1, <1>2, <1>3 DEF BeginWorkspaceCall

LEMMA ResolveSpaceTeamKeeps ==
  ASSUME TeamInv, NEW u \in User, ResolveSpaceTeam(u)
  PROVE  TeamInv'
<1>1. InCall(u) /\ call[u].pc = "resolve" /\ call[u].op \in WsOps
  BY DEF ResolveSpaceTeam, At, InCall, WsOps
<1>2. CASE NoTeam(u)
  <2>1. PICK o \in {"no_team"} : AnswersWith(u, o)
    BY <1>2 DEF NoTeam
  <2> QED
    BY <1>1, <2>1, SpaceAnswer DEF AnswersWith, Proceeds
<1>3. CASE Proceeds(u, Next_(u, FirstSpaceStep(call[u].op))) /\ UNCHANGED <<role, hosted>>
  <2>1. /\ FirstSpaceStep(call[u].op) \in {"create", "read", "delete", "settings", "assert"}
        /\ call[u].op = "share_add" => FirstSpaceStep(call[u].op) = "settings"
    BY <1>1 DEF FirstSpaceStep, WsOps, SpaceOps, ShareOps
  <2> QED
    BY <1>1, <1>3, <2>1, SpaceNext DEF Proceeds
<1> QED
  BY <1>2, <1>3 DEF ResolveSpaceTeam

\* A workspace row is replaced by another, which is not unborn and, of one that is
\* gone, is gone.
LEMMA SpaceWritten ==
  ASSUME TeamInv, NEW w \in Space, NEW s, space' = [space EXCEPT ![w] = s],
         UNCHANGED <<row, grant, sso, shown>>,
         s \in [state : {"unborn", "live", "gone"}, skills : SUBSET Skill,
                policy : [deny : SUBSET Skill, allow : SUBSET Skill]],
         space[w].state # "unborn" => s.state # "unborn",
         space[w].state = "gone" => s.state = "gone"
  PROVE  Grow /\ TablesOK' /\ PendingStaysHidden'
<1>1. TablesOK /\ PendingStaysHidden
  BY TablesNow DEF TeamInv
<1>2. TablesOK'
  BY <1>1 DEF TablesOK
<1>3. space'[w] = s /\ \A v \in Space \ {w} : space'[v] = space[v]
  BY <1>1 DEF TablesOK
<1>4. Grow
  BY <1>3 DEF Grow
<1>5. PendingStaysHidden'
  BY <1>1 DEF PendingStaysHidden, Versions
<1> QED
  BY <1>2, <1>4, <1>5

\* The fields of a workspace, one replaced.
LEMMA StateRow ==
  ASSUME TeamInv, NEW w \in Space, NEW st \in {"unborn", "live", "gone"}
  PROVE  /\ [space[w] EXCEPT !.state = st] \in
              [state : {"unborn", "live", "gone"}, skills : SUBSET Skill,
               policy : [deny : SUBSET Skill, allow : SUBSET Skill]]
         /\ [space[w] EXCEPT !.state = st].state = st
<1>1. space[w] \in [state : {"unborn", "live", "gone"}, skills : SUBSET Skill,
                    policy : [deny : SUBSET Skill, allow : SUBSET Skill]]
  BY TablesNow DEF TablesOK
<1> QED
  BY <1>1

LEMMA SkillsRow ==
  ASSUME TeamInv, NEW w \in Space, NEW ss \in SUBSET Skill
  PROVE  /\ [space[w] EXCEPT !.skills = ss] \in
              [state : {"unborn", "live", "gone"}, skills : SUBSET Skill,
               policy : [deny : SUBSET Skill, allow : SUBSET Skill]]
         /\ [space[w] EXCEPT !.skills = ss].state = space[w].state
<1>1. space[w] \in [state : {"unborn", "live", "gone"}, skills : SUBSET Skill,
                    policy : [deny : SUBSET Skill, allow : SUBSET Skill]]
  BY TablesNow DEF TablesOK
<1> QED
  BY <1>1

LEMMA CreateWorkspaceKeeps ==
  ASSUME TeamInv, NEW u \in User, CreateWorkspace(u)
  PROVE  TeamInv'
<1>1. InCall(u) /\ call[u].pc = "create" /\ call[u].op = "ws_create" /\ call[u].op \in WsOps
  BY DEF CreateWorkspace, At, InCall, WsOps, SpaceOps
<1>2. CASE NoClient(u, "create") \/ Fail(u, "create", "failed")
  BY <1>1, <1>2, SpaceFails
<1>3. CASE AnswersWith(u, "needs_manage")
  BY <1>1, <1>3, SpaceAnswer DEF AnswersWith, Proceeds
<1>4. CASE /\ \E w \in {v \in Space : space[v].state = "unborn"} :
                space' = [space EXCEPT ![w].state = "live"]
           /\ \E out \in {"created", "failed"} : Proceeds(u, [Out(u, out) EXCEPT !.wrote = TRUE])
           /\ UNCHANGED <<role, row, grant, sso, shown>>
  <2>1. PICK w \in Space : /\ space[w].state = "unborn"
                           /\ space' = [space EXCEPT ![w] = [space[w] EXCEPT !.state = "live"]]
    BY <1>4
  <2>2. Grow /\ TablesOK' /\ PendingStaysHidden'
    BY <1>4, <2>1, StateRow, SpaceWritten
  <2>3. PICK o \in {"created", "failed"} :
          call' = [call EXCEPT ![u] = [Out(u, o) EXCEPT !.wrote = TRUE]]
    BY <1>4 DEF Proceeds
  <2> QED
    BY <1>1, <1>4, <2>2, <2>3, WriteKeeps DEF ReportOps
<1> QED
  BY <1>2, <1>3, <1>4 DEF CreateWorkspace

LEMMA ReadWorkspacesKeeps ==
  ASSUME TeamInv, NEW u \in User, ReadWorkspaces(u)
  PROVE  TeamInv'
<1>1. InCall(u) /\ call[u].pc = "read" /\ call[u].op \in {"ws_list", "ws_get"} /\ call[u].op \in WsOps
  BY DEF ReadWorkspaces, At, InCall, WsOps, SpaceOps
<1>2. CASE NoClient(u, "read") \/ Fail(u, "read", "failed")
  BY <1>1, <1>2, SpaceFails
<1>3. CASE AnswersWith(u, "listed")
  BY <1>1, <1>3, SpaceAnswer DEF AnswersWith, Proceeds
<1>4. CASE AnswersWith(u, IF Seen(u, call[u].ws) THEN "found" ELSE "not_found")
  BY <1>1, <1>4, SpaceAnswer DEF AnswersWith, Proceeds
<1> QED
  BY <1>2, <1>3, <1>4 DEF ReadWorkspaces

\* A delete that reaches no workspace although the caller holds the permission finds
\* one that is gone.
LEMMA DeleteWorkspaceKeeps ==
  ASSUME TeamInv, NEW u \in User, DeleteWorkspace(u)
  PROVE  TeamInv'
<1> DEFINE w == call[u].ws
           reached == Exists(w) /\ MayManageSpaces(u)
<1>1. InCall(u) /\ call[u].pc = "delete" /\ call[u].op = "ws_delete" /\ call[u].op \in WsOps
  BY DEF DeleteWorkspace, At, InCall, WsOps, SpaceOps
<1>2. w \in Space /\ space[w].state # "unborn" /\ space[w].state \in {"unborn", "live", "gone"}
      /\ DOMAIN call[u] = Fields
  BY <1>1, FactsOf, TablesNow DEF Named, PlaceOps, TablesOK
<1>3. CASE NoClient(u, "delete") \/ Fail(u, "delete", "failed")
  BY <1>1, <1>3, SpaceFails
<1>4. CASE /\ reached
           /\ space' = [space EXCEPT ![w] = [@ EXCEPT !.state = "gone", !.skills = {}]]
           /\ \E out \in {"deleted", "failed"} : Proceeds(u, [Out(u, out) EXCEPT !.wrote = TRUE])
           /\ UNCHANGED <<role, row, grant, sso, shown>>
  <2>1. space' = [space EXCEPT ![w] = [space[w] EXCEPT !.state = "gone", !.skills = {}]]
    BY <1>4
  <2>2. /\ [space[w] EXCEPT !.state = "gone", !.skills = {}] \in
             [state : {"unborn", "live", "gone"}, skills : SUBSET Skill,
              policy : [deny : SUBSET Skill, allow : SUBSET Skill]]
        /\ [space[w] EXCEPT !.state = "gone", !.skills = {}].state = "gone"
    BY <1>2, TablesNow, ZenonT(60) DEF TablesOK
  <2> DEFINE gone == [space[w] EXCEPT !.state = "gone", !.skills = {}]
  <2> HIDE DEF gone
  <2>4. Grow /\ TablesOK' /\ PendingStaysHidden'
    <3>1. /\ space' = [space EXCEPT ![w] = gone]
          /\ gone \in [state : {"unborn", "live", "gone"}, skills : SUBSET Skill,
                        policy : [deny : SUBSET Skill, allow : SUBSET Skill]]
          /\ gone.state = "gone"
      BY <2>1, <2>2 DEF gone
    <3> QED
      BY <1>2, <1>4, <3>1, SpaceWritten
  <2>3. PICK o \in {"deleted", "failed"} :
          call' = [call EXCEPT ![u] = [Out(u, o) EXCEPT !.wrote = TRUE]]
    BY <1>4 DEF Proceeds
  <2> QED
    BY <1>1, <1>4, <2>3, <2>4, WriteKeeps DEF ReportOps
<1>5. CASE /\ ~reached
           /\ Proceeds(u, [Next_(u, "explain") EXCEPT !.could = MayManageSpaces(u)])
           /\ UNCHANGED <<role, hosted>>
  <2>1. MayManageSpaces(u) \in BOOLEAN
    BY DEF MayManageSpaces
  <2>2. PICK p \in {"explain"}, x \in BOOLEAN :
          /\ call' = [call EXCEPT ![u] = [Next_(u, p) EXCEPT !.could = x]]
          /\ x = MayManageSpaces(u)
    BY <1>5, <2>1 DEF Proceeds
  <2>3. call'[u].could = x
    BY <1>2, <2>2, GoesOnAndLearns DEF TeamInv
  <2>4. x => space[w].state = "gone"
    BY <1>2, <1>5, <2>2 DEF Exists
  <2> HIDE DEF w, reached
  <2>5. call'[u].could \in BOOLEAN /\ (call'[u].could => space[call[u].ws].state = "gone")
    BY <2>2, <2>3, <2>4 DEF w
  <2> QED
    BY <1>1, <1>5, <2>2, <2>5, LearnKeeps DEF ReportOps, WriteOps
<1> QED
  BY <1>3, <1>4, <1>5 DEF DeleteWorkspace

LEMMA ExplainDeleteKeeps ==
  ASSUME TeamInv, NEW u \in User, ExplainDelete(u)
  PROVE  TeamInv'
<1>1. InCall(u) /\ call[u].pc = "explain" /\ call[u].op = "ws_delete" /\ call[u].op \in WsOps
  BY DEF ExplainDelete, At, InCall, WsOps, SpaceOps
<1>2. CASE Fail(u, "explain", "cannot_tell")
  BY <1>1, <1>2, SpaceFails
<1>3. CASE AnswersWith(u, IF Seen(u, call[u].ws) THEN "needs_manage" ELSE "not_found")
  <2>1. Seen(u, call[u].ws) => ~call[u].could
    BY <1>1, FactsOf DEF DeleteTrue, Seen, Exists
  <2> QED
    BY <1>1, <1>3, <2>1, SpaceAnswer DEF AnswersWith, Proceeds
<1> QED
  BY <1>2, <1>3 DEF ExplainDelete

-----------------------------------------------------------------------------
(* Sharing a skill. *)

\* Where the settings were not read, the caller is not in the team, or the workspace
\* is gone.
LEMMA ReadSettingsKeeps ==
  ASSUME TeamInv, NEW u \in User, ReadSettings(u)
  PROVE  TeamInv'
<1>1. InCall(u) /\ call[u].pc = "settings" /\ call[u].op = "share_add" /\ call[u].op \in WsOps
  BY DEF ReadSettings, At, InCall, WsOps, ShareOps
<1>2. /\ call[u].ws \in Space /\ space[call[u].ws].state \in {"live", "gone"}
      /\ DOMAIN call[u] = Fields /\ (call[u].seat = "in" => IsMember(u))
  BY <1>1, FactsOf, TablesNow DEF Named, PlaceOps, TablesOK, SeatTrue
<1>3. CASE NoClient(u, "settings")
  BY <1>1, <1>3, SpaceFails
<1>4. ASSUME NEW o \in {"failed", "against_policy"}, AnswersWith(u, o)
      PROVE  TeamInv'
  BY <1>1, <1>4, SpaceAnswer DEF AnswersWith, Proceeds
<1>5. ASSUME NEW fetched \in FetchWorkspace(u), fetched # "failed",
             PolicyAllows(IF fetched = "row" THEN space[call[u].ws].policy ELSE NoPolicy,
                          call[u].skill),
             Proceeds(u, [Next_(u, "assert")
                            EXCEPT !.could = PolicyAllows(space[call[u].ws].policy, call[u].skill)]),
             UNCHANGED <<role, hosted>>
      PROVE  TeamInv'
  <2>1. PolicyAllows(space[call[u].ws].policy, call[u].skill) \in BOOLEAN
    BY DEF PolicyAllows
  <2>2. PICK p \in {"assert"}, x \in BOOLEAN :
          /\ call' = [call EXCEPT ![u] = [Next_(u, p) EXCEPT !.could = x]]
          /\ x = PolicyAllows(space[call[u].ws].policy, call[u].skill)
    BY <1>5, <2>1 DEF Proceeds
  <2>3. call'[u].could = x
    BY <1>2, <2>2, GoesOnAndLearns DEF TeamInv
  <2>4. x \/ call[u].seat # "in" \/ space[call[u].ws].state = "gone"
    <3>1. CASE fetched = "row"
      BY <1>5, <2>2, <3>1
    <3>2. CASE fetched # "row"
      BY <1>2, <1>5, <3>2 DEF FetchWorkspace, Seen, Exists
    <3> QED
      BY <3>1, <3>2
  <2>5. call'[u].could \in BOOLEAN
        /\ (call'[u].could \/ call[u].seat # "in" \/ space[call[u].ws].state = "gone")
    BY <2>2, <2>3, <2>4
  <2> QED
    BY <1>1, <1>5, <2>2, <2>5, LearnKeeps DEF ReportOps, WriteOps
<1> QED
  BY <1>3, <1>4, <1>5 DEF ReadSettings

LEMMA AssertWorkspaceKeeps ==
  ASSUME TeamInv, NEW u \in User, AssertWorkspace(u)
  PROVE  TeamInv'
<1>1. InCall(u) /\ call[u].pc = "assert" /\ call[u].op \in ShareOps /\ call[u].op \in WsOps
  BY DEF AssertWorkspace, At, InCall, WsOps, ShareOps
<1>2. CASE NoClient(u, "assert")
  BY <1>1, <1>2, SpaceFails
<1>3. ASSUME NEW o \in {"failed", "none"}, AnswersWith(u, o)
      PROVE  TeamInv'
  BY <1>1, <1>3, SpaceAnswer DEF AnswersWith, Proceeds, ShareOps
<1>4. ASSUME Proceeds(u, Next_(u, CASE call[u].op = "share_add" -> "add"
                                    [] call[u].op = "share_remove" -> "remove"
                                    [] OTHER -> "skills")),
             UNCHANGED <<role, hosted>>
      PROVE  TeamInv'
  <2>1. PICK p \in {"add", "remove", "skills"} : call' = [call EXCEPT ![u] = Next_(u, p)]
    BY <1>4 DEF Proceeds
  <2> QED
    BY <1>1, <1>4, <2>1, SpaceNext DEF ShareOps
<1> QED
  BY <1>2, <1>3, <1>4 DEF AssertWorkspace, FetchWorkspace

\* The workspace is seen when the skill is added, so it is not gone.
LEMMA AddSkillKeeps ==
  ASSUME TeamInv, NEW u \in User, AddSkill(u)
  PROVE  TeamInv'
<1>1. InCall(u) /\ call[u].pc = "add" /\ call[u].op = "share_add" /\ call[u].op \in WsOps
  BY DEF AddSkill, At, InCall, WsOps, ShareOps
<1>2. call[u].ws \in Space /\ call[u].skill \in Skill
      /\ (call[u].could \/ call[u].seat # "in" \/ space[call[u].ws].state = "gone")
  BY <1>1, FactsOf DEF Named, PlaceOps, SkillOps, ShareTrue
<1>3. CASE Fail(u, "add", "failed")
  BY <1>1, <1>3, SpaceFails
<1>4. CASE /\ Seen(u, call[u].ws) /\ call[u].skill \notin space[call[u].ws].skills
           /\ space' = [space EXCEPT ![call[u].ws].skills = @ \cup {call[u].skill}]
           /\ \E out \in {"shared", "failed"} : Proceeds(u, [Out(u, out) EXCEPT !.wrote = TRUE])
           /\ UNCHANGED <<role, row, grant, sso, shown>>
  <2>1. PICK w \in Space, ss \in SUBSET Skill :
          /\ w = call[u].ws /\ space[w].state = "live"
          /\ space' = [space EXCEPT ![w] = [space[w] EXCEPT !.skills = ss]]
    <3>1. space[call[u].ws].skills \cup {call[u].skill} \in SUBSET Skill
      BY <1>2, TablesNow DEF TablesOK
    <3> QED
      BY <1>2, <1>4, <3>1 DEF Seen, Exists
  <2>2. Grow /\ TablesOK' /\ PendingStaysHidden'
    <3>1. PICK s \in [state : {"unborn", "live", "gone"}, skills : SUBSET Skill,
                   policy : [deny : SUBSET Skill, allow : SUBSET Skill]] :
            s.state = space[w].state /\ space' = [space EXCEPT ![w] = s]
      BY <2>1, SkillsRow
    <3> QED
      BY <1>4, <2>1, <3>1, SpaceWritten
  <2>3. PICK o \in {"shared", "failed"} :
          call' = [call EXCEPT ![u] = [Out(u, o) EXCEPT !.wrote = TRUE]]
    BY <1>4 DEF Proceeds
  <2> QED
    BY <1>1, <1>2, <1>4, <2>1, <2>2, <2>3, WriteKeeps DEF ReportOps
<1> QED
  BY <1>3, <1>4 DEF AddSkill

LEMMA RemoveSkillKeeps ==
  ASSUME TeamInv, NEW u \in User, RemoveSkill(u)
  PROVE  TeamInv'
<1> DEFINE w == call[u].ws
           reached == Seen(u, w) /\ call[u].skill \in space[w].skills
<1>1. InCall(u) /\ call[u].pc = "remove" /\ call[u].op = "share_remove" /\ call[u].op \in WsOps
  BY DEF RemoveSkill, At, InCall, WsOps, ShareOps
<1>2. w \in Space
  BY <1>1, FactsOf DEF Named, PlaceOps
<1>3. CASE Fail(u, "remove", "failed")
  BY <1>1, <1>3, SpaceFails
<1>4. CASE /\ reached
           /\ space' = [space EXCEPT ![w].skills = @ \ {call[u].skill}]
           /\ \E out \in {"removed", "failed"} : Proceeds(u, [Out(u, out) EXCEPT !.wrote = TRUE])
           /\ UNCHANGED <<role, row, grant, sso, shown>>
  <2>1. PICK ss \in SUBSET Skill :
          space' = [space EXCEPT ![w] = [space[w] EXCEPT !.skills = ss]]
    <3>1. space[w].skills \ {call[u].skill} \in SUBSET Skill
      BY <1>2, TablesNow DEF TablesOK
    <3> QED
      BY <1>4, <3>1
  <2>2. Grow /\ TablesOK' /\ PendingStaysHidden'
    <3>1. PICK s \in [state : {"unborn", "live", "gone"}, skills : SUBSET Skill,
                   policy : [deny : SUBSET Skill, allow : SUBSET Skill]] :
            s.state = space[w].state /\ space' = [space EXCEPT ![w] = s]
      BY <1>2, <2>1, SkillsRow
    <3> QED
      BY <1>2, <1>4, <3>1, SpaceWritten
  <2>3. PICK o \in {"removed", "failed"} :
          call' = [call EXCEPT ![u] = [Out(u, o) EXCEPT !.wrote = TRUE]]
    BY <1>4 DEF Proceeds
  <2> QED
    BY <1>1, <1>4, <2>2, <2>3, WriteKeeps DEF ReportOps
<1>5. CASE ~reached /\ Proceeds(u, Next_(u, "explain")) /\ UNCHANGED <<role, hosted>>
  <2>1. PICK p \in {"explain"} : call' = [call EXCEPT ![u] = Next_(u, p)]
    BY <1>5 DEF Proceeds
  <2> QED
    BY <1>1, <1>5, <2>1, SpaceNext
<1> QED
  BY <1>3, <1>4, <1>5 DEF RemoveSkill

LEMMA ExplainRemoveKeeps ==
  ASSUME TeamInv, NEW u \in User, ExplainRemove(u)
  PROVE  TeamInv'
<1>1. InCall(u) /\ call[u].pc = "explain" /\ call[u].op = "share_remove" /\ call[u].op \in WsOps
  BY DEF ExplainRemove, At, InCall, WsOps, ShareOps
<1>2. PICK o : AnswersWith(u, o)
  BY DEF ExplainRemove, Fail
<1> QED
  BY <1>1, <1>2, SpaceAnswer DEF AnswersWith, Proceeds

LEMMA ListSkillsKeeps ==
  ASSUME TeamInv, NEW u \in User, ListSkills(u)
  PROVE  TeamInv'
<1>1. InCall(u) /\ call[u].pc = "skills" /\ call[u].op = "share_list" /\ call[u].op \in WsOps
  BY DEF ListSkills, At, InCall, WsOps, ShareOps
<1>2. PICK o : AnswersWith(u, o)
  BY DEF ListSkills, Fail
<1> QED
  BY <1>1, <1>2, SpaceAnswer DEF AnswersWith, Proceeds

LEMMA WorkspaceKeeps ==
  ASSUME TeamInv, NEW u \in User, WorkspaceStep(u)
  PROVE  TeamInv'
  BY BeginWorkspaceCallKeeps, ResolveSpaceTeamKeeps, CreateWorkspaceKeeps, ReadWorkspacesKeeps,
     DeleteWorkspaceKeeps, ExplainDeleteKeeps, ReadSettingsKeeps, AssertWorkspaceKeeps,
     AddSkillKeeps, RemoveSkillKeeps, ExplainRemoveKeeps, ListSkillsKeeps
     DEF WorkspaceStep

-----------------------------------------------------------------------------
(* Changes made elsewhere, and changes of role. *)

\* Nobody's call takes a step, and no role changes.
LEMMA Elsewhere ==
  ASSUME TeamInv, UNCHANGED <<role, call>>, Grow, TablesOK', PendingStaysHidden'
  PROVE  TeamInv'
<1>1. ASSUME NEW u \in User PROVE CallTrue(u)'
  <2>1. SeatOnly(u)
    BY DEF TeamInv, SeatOnly
  <2>2. InCall(u) => SeatTrue(u)'
    BY DEF TeamInv, CallTrue, SeatTrue, IsMember
  <2> QED
    BY <2>1, <2>2, CallKept DEF TeamInv
<1>2. TeamTypeOK'
  BY DEF TeamInv, TeamTypeOK, TablesOK
<1> QED
  BY <1>1, <1>2 DEF TeamInv

LEMMA SessionsGoStaleKeeps ==
  ASSUME TeamInv, SessionsGoStale
  PROVE  TeamInv'
<1>1. TablesOK /\ PendingStaysHidden
  BY TablesNow DEF TeamInv
<1>2. sso' \in [provider : BOOLEAN, domain : {"none", "claimed", "verified"}, stale : BOOLEAN]
  BY <1>1 DEF SessionsGoStale, TablesOK
<1>3. UNCHANGED <<role, row, space, grant, shown, call>>
  BY DEF SessionsGoStale
<1>4. TablesOK' /\ PendingStaysHidden' /\ Grow
  BY <1>1, <1>2, <1>3 DEF TablesOK, PendingStaysHidden, Versions, Grow
<1> QED
  BY <1>3, <1>4, Elsewhere

LEMMA PolicyChangesKeeps ==
  ASSUME TeamInv, PolicyChanges
  PROVE  TeamInv'
<1>1. UNCHANGED <<role, row, grant, sso, shown, call>>
  BY DEF PolicyChanges
<1>2. PICK w \in Space :
        /\ Exists(w)
        /\ \E s \in Skill : \/ space' = [space EXCEPT ![w].policy.deny = {s}]
                            \/ space' = [space EXCEPT ![w].policy.allow = {s}]
                            \/ space' = [space EXCEPT ![w].policy = NoPolicy]
  BY DEF PolicyChanges
<1>3. space[w] \in [state : {"unborn", "live", "gone"}, skills : SUBSET Skill,
                    policy : [deny : SUBSET Skill, allow : SUBSET Skill]]
  BY TablesNow DEF TablesOK
<1>4. PICK policy \in [deny : SUBSET Skill, allow : SUBSET Skill] :
        space' = [space EXCEPT ![w] = [space[w] EXCEPT !.policy = policy]]
  <2>1. ASSUME NEW s \in Skill, space' = [space EXCEPT ![w].policy.deny = {s}]
        PROVE  \E policy \in [deny : SUBSET Skill, allow : SUBSET Skill] :
                 space' = [space EXCEPT ![w] = [space[w] EXCEPT !.policy = policy]]
    <3>1. [space[w].policy EXCEPT !.deny = {s}] \in [deny : SUBSET Skill, allow : SUBSET Skill]
      BY <1>3
    <3> QED
      BY <2>1, <3>1
  <2>2. ASSUME NEW s \in Skill, space' = [space EXCEPT ![w].policy.allow = {s}]
        PROVE  \E policy \in [deny : SUBSET Skill, allow : SUBSET Skill] :
                 space' = [space EXCEPT ![w] = [space[w] EXCEPT !.policy = policy]]
    <3>1. [space[w].policy EXCEPT !.allow = {s}] \in [deny : SUBSET Skill, allow : SUBSET Skill]
      BY <1>3
    <3> QED
      BY <2>2, <3>1
  <2>3. ASSUME space' = [space EXCEPT ![w].policy = NoPolicy]
        PROVE  \E policy \in [deny : SUBSET Skill, allow : SUBSET Skill] :
                 space' = [space EXCEPT ![w] = [space[w] EXCEPT !.policy = policy]]
    <3>1. NoPolicy \in [deny : SUBSET Skill, allow : SUBSET Skill]
      BY DEF NoPolicy
    <3> QED
      BY <2>3, <3>1
  <2> QED
    BY <1>2, <2>1, <2>2, <2>3
<1>5. PICK s \in [state : {"unborn", "live", "gone"}, skills : SUBSET Skill,
                  policy : [deny : SUBSET Skill, allow : SUBSET Skill]] :
        s.state = space[w].state /\ space' = [space EXCEPT ![w] = s]
  BY <1>3, <1>4
<1>6. Grow /\ TablesOK' /\ PendingStaysHidden'
  BY <1>1, <1>5, SpaceWritten
<1> QED
  BY <1>1, <1>6, Elsewhere

\* The role of v changes. The call of at most one account, one that asks for just such
\* a change, is answered by it.
LEMMA RoleStep ==
  ASSUME TeamInv, NEW v \in User, NEW r \in Roles, NEW others, SetRole(v, r, others),
         UNCHANGED hosted, DOMAIN others = User,
         NEW u \in User, \A x \in User \ {u} : others[x] = call[x],
         \/ others[u] = call[u]
         \/ \E o : others[u] = Out(u, o) /\ InCall(u) /\ call[u].op \in RoleOps
  PROVE  TeamInv'
<1>1. \A x \in User : DOMAIN call[x] = Fields
  BY DEF TeamInv
<1>2. /\ DOMAIN others[u] = Fields /\ others[u].op = call[u].op /\ others[u].skill = call[u].skill
      /\ others[u].version = call[u].version /\ others[u].ws = call[u].ws
      /\ others[u].perms = call[u].perms /\ others[u].wanted = call[u].wanted
      /\ others[u].wrote = call[u].wrote /\ others[u].could = call[u].could
      /\ others[u].read = call[u].read /\ others[u].seat = call[u].seat
      /\ \/ others[u].pc = call[u].pc /\ others[u].out = call[u].out
         \/ others[u].pc = "done" /\ InCall(u) /\ call[u].op \in RoleOps
  BY <1>1 DEF Out, Fields
<1>3. role' = [role EXCEPT ![v] = r]
      /\ call' = [others EXCEPT ![v] = [others[v] EXCEPT
                    !.seat = IF others[v].seat \in {None, Seat(r)} THEN others[v].seat ELSE "both"]]
  BY DEF SetRole
<1>4. DOMAIN others[v] = Fields /\ others[v].seat = call[v].seat
  BY <1>1, <1>2
<1>5. /\ DOMAIN call' = User /\ \A x \in User \ {v} : call'[x] = others[x]
      /\ DOMAIN call'[v] = Fields
      /\ call'[v].seat = IF call[v].seat \in {None, Seat(r)} THEN call[v].seat ELSE "both"
      /\ call'[v].pc = others[v].pc /\ call'[v].op = others[v].op /\ call'[v].skill = others[v].skill
      /\ call'[v].version = others[v].version /\ call'[v].ws = others[v].ws
      /\ call'[v].perms = others[v].perms /\ call'[v].wanted = others[v].wanted
      /\ call'[v].out = others[v].out /\ call'[v].wrote = others[v].wrote
      /\ call'[v].could = others[v].could /\ call'[v].read = others[v].read
  BY <1>3, <1>4 DEF Fields
<1>6. /\ Grow /\ row' = row /\ space' = space /\ grant' = grant /\ sso' = sso /\ shown' = shown
  BY HostedStill
<1>7. role \in [User -> Roles] /\ role' \in [User -> Roles]
      /\ role'[v] = r /\ \A x \in User \ {v} : role'[x] = role[x]
  BY <1>3 DEF TeamInv, TeamTypeOK
<1>8. ASSUME NEW x \in User, InCall(x) PROVE SeatTrue(x)'
  <2>1. SeatTrue(x)
    BY <1>8 DEF TeamInv, CallTrue
  <2>2. CASE x = v
    <3>1. call[v].seat \in {"in", "out", "both"} /\ None \notin {"in", "out"}
      BY <2>1, <2>2, TeamAssumption DEF SeatTrue
    <3> QED
      BY <1>5, <1>7, <2>2, <3>1 DEF SeatTrue, Seat, IsMember
  <2>3. CASE x # v
    <3>1. call'[x].seat = call[x].seat /\ role'[x] = role[x]
      BY <1>2, <1>5, <1>7, <2>3
    <3> QED
      BY <2>1, <3>1 DEF SeatTrue, IsMember
  <2> QED
    BY <2>2, <2>3
<1>9. ASSUME NEW x \in User, others[x].pc = call[x].pc, others[x].out = call[x].out
      PROVE  SeatOnly(x)
  <2>1. CASE x = v
    BY <1>1, <1>2, <1>5, <1>9, <2>1 DEF SeatOnly
  <2>2. CASE x # v
    BY <1>1, <1>2, <1>5, <1>9, <2>2 DEF SeatOnly
  <2> QED
    BY <2>1, <2>2
<1>10. ASSUME NEW x \in User PROVE CallTrue(x)'
  <2>1. CASE others[x].pc = call[x].pc /\ others[x].out = call[x].out
    BY <1>6, <1>8, <1>9, <2>1, CallKept DEF TeamInv
  <2>2. CASE ~(others[x].pc = call[x].pc /\ others[x].out = call[x].out)
    <3>1. x = u /\ others[u].pc = "done" /\ InCall(u) /\ call[u].op \in RoleOps
      BY <1>2, <2>2
    <3>2. /\ call'[u].pc = "done" /\ call'[u].op = call[u].op /\ call'[u].skill = call[u].skill
          /\ call'[u].ws = call[u].ws /\ call'[u].wanted = call[u].wanted
      BY <1>2, <1>5, <3>1
    <3>3. Named(u)'
      BY <3>1, <3>2, FactsOf DEF Named, RoleOps, VersionOps, SkillOps, PlaceOps, WriteOps
    <3>4. BatchTrue(u)' /\ PublishTrue(u)' /\ ListTrue(u)' /\ DeleteTrue(u)' /\ ShareTrue(u)'
          /\ ReportTrue(u)'
      BY <3>1, <3>2 DEF BatchTrue, PublishTrue, ListTrue, DeleteTrue, ShareTrue, ReportTrue,
                        RoleOps, WriteOps, ReportOps
    <3> QED
      BY <1>8, <3>1, <3>3, <3>4 DEF CallTrue
  <2> QED
    BY <2>1, <2>2
<1>11. TeamTypeOK'
  <2>1. \A x \in User : call'[x].wrote = call[x].wrote /\ call'[x].could = call[x].could
    BY <1>2, <1>5
  <2> QED
    BY <1>6, <1>7, <2>1 DEF TeamInv, TeamTypeOK
<1>12. PendingStaysHidden'
  BY <1>6 DEF TeamInv, PendingStaysHidden, Versions
<1>13. ASSUME NEW x \in User
       PROVE  DOMAIN call'[x] = Fields /\ (call'[x].pc = "idle" => call'[x].seat = None)
  <2>1. DOMAIN call'[x] = Fields
    BY <1>1, <1>2, <1>5
  <2>2. call'[x].pc = "idle" => call[x].pc = "idle"
    BY <1>2, <1>5
  <2>3. call[x].seat = None => call'[x].seat = None
    BY <1>2, <1>5
  <2> QED
    BY <2>1, <2>2, <2>3 DEF TeamInv
<1> QED
  BY <1>5, <1>10, <1>11, <1>12, <1>13 DEF TeamInv

LEMMA MemberJoinsOrLeavesKeeps ==
  ASSUME TeamInv, NEW v \in User, MemberJoinsOrLeaves(v)
  PROVE  TeamInv'
<1>1. PICK r \in {"none", "member"} : SetRole(v, r, call)
  BY DEF MemberJoinsOrLeaves
<1>2. DOMAIN call = User /\ UNCHANGED hosted
  BY DEF MemberJoinsOrLeaves, TeamInv
<1>3. r \in Roles
  BY DEF Roles
<1> QED
  BY <1>1, <1>2, <1>3, RoleStep

-----------------------------------------------------------------------------
(* Roles and grants. *)

LEMMA RbacAnswer ==
  ASSUME TeamInv, NEW u \in User, NEW o, InCall(u),
         call[u].op \in WriteOps \cup RoleOps \cup RbacReadOps \cup SsoOps,
         call' = [call EXCEPT ![u] = Out(u, o)], UNCHANGED <<role, hosted>>
  PROVE  TeamInv'
  BY AnswerKeeps DEF WriteOps, RoleOps, RbacReadOps, SsoOps, ReportOps, PublishMay, ListMay

LEMMA RbacNext ==
  ASSUME TeamInv, NEW u \in User, NEW p, InCall(u), call[u].pc # "done", p \notin {"idle", "done"},
         call[u].op \in WriteOps \cup RoleOps \cup RbacReadOps \cup SsoOps,
         call[u].op \in WriteOps => Permissions(call[u].perms) \subseteq TeamPermission,
         call' = [call EXCEPT ![u] = Next_(u, p)], UNCHANGED <<role, hosted>>
  PROVE  TeamInv'
  BY NextKeeps DEF WriteOps, RoleOps, RbacReadOps, SsoOps, ReportOps

LEMMA BatchNames ==
  ASSUME NEW ps \in Batches
  PROVE  ps \in Seq(PermissionName) /\ ps # <<>>
<1>1. ps \in Seq(STRING) /\ ps # <<>>
  BY BatchAssumption
<1>2. Len(ps) \in Nat /\ ps \in [1 .. Len(ps) -> STRING] /\ DOMAIN ps = 1 .. Len(ps)
  BY <1>1, LenProperties
<1>3. \A i \in DOMAIN ps : ps[i] \in PermissionName
  BY DEF PermissionName, Permissions
<1>4. ps \in [1 .. Len(ps) -> PermissionName]
  BY <1>2, <1>3
<1> QED
  BY <1>1, <1>2, <1>4, SeqDef

LEMMA BeginRbacCallKeeps ==
  ASSUME TeamInv, NEW u \in User, BeginRbacCall(u, Batches)
  PROVE  TeamInv'
<1>1. ASSUME NEW r \in GrantableRole, NEW e, NEW ps \in Seq(PermissionName), ps # <<>>,
             NEW op \in WriteOps, Begin(u, op, Policy(r, e, ps)),
             op \in {"set_permission", "create_policy"} => e \in {"allow", "deny"}
      PROVE  TeamInv'
  <2> DEFINE d == Policy(r, e, ps)
  <2>1. /\ DOMAIN d = Fields /\ d.wrote = FALSE /\ d.could = FALSE /\ d.skill = None
        /\ d.ws = r /\ d.wanted = e /\ d.perms = ps
    BY DEF Policy, NoCall, Fields
  <2>2. Begin(u, op, d)
    BY <1>1
  <2> HIDE DEF d
  <2>3. op \notin VersionOps \cup SkillOps \cup PlaceOps \cup RoleOps \cup ReportOps
    BY DEF VersionOps, SkillOps, PlaceOps, WriteOps, RoleOps, ReportOps
  <2> QED
    BY <1>1, <2>1, <2>2, <2>3, BeginKeeps
<1>2. ASSUME NEW p \in TeamPermission PROVE <<p>> \in Seq(PermissionName) /\ <<p>> # <<>>
  <2>1. p \in PermissionName
    BY DEF PermissionName
  <2> QED
    BY <2>1
<1>3. ASSUME NEW ps \in Batches PROVE ps \in Seq(PermissionName) /\ ps # <<>>
  BY BatchNames
<1>4. ASSUME NEW r \in GrantableRole, NEW p \in TeamPermission, NEW e \in {"allow", "deny"},
             Begin(u, "set_permission", Policy(r, e, <<p>>))
      PROVE  TeamInv'
  <2>1. PICK ps \in Seq(PermissionName), op \in {"set_permission"} :
          ps # <<>> /\ Begin(u, op, Policy(r, e, ps))
    BY <1>2, <1>4
  <2> QED
    BY <1>1, <2>1 DEF WriteOps
<1>5. ASSUME NEW r \in GrantableRole, NEW p \in TeamPermission,
             Begin(u, "reset_permission", Policy(r, None, <<p>>))
      PROVE  TeamInv'
  <2>1. PICK ps \in Seq(PermissionName), op \in {"reset_permission"} :
          ps # <<>> /\ Begin(u, op, Policy(r, None, ps))
    BY <1>2, <1>5
  <2> QED
    BY <1>1, <2>1 DEF WriteOps
<1>6. ASSUME NEW r \in GrantableRole, NEW ps \in Batches, NEW e \in {"allow", "deny"},
             Begin(u, "create_policy", Policy(r, e, ps))
      PROVE  TeamInv'
  BY <1>1, <1>3, <1>6 DEF WriteOps
<1>7. ASSUME NEW r \in GrantableRole, NEW ps \in Batches,
             Begin(u, "delete_policy", Policy(r, None, ps))
      PROVE  TeamInv'
  BY <1>1, <1>3, <1>7 DEF WriteOps
<1>8. ASSUME NEW v \in User, NEW r \in GrantableRole, NEW op \in {"assign", "revoke"},
             Begin(u, op, [NoCall EXCEPT !.ws = v, !.wanted = r])
      PROVE  TeamInv'
  <2> DEFINE d == [NoCall EXCEPT !.ws = v, !.wanted = r]
  <2>1. /\ DOMAIN d = Fields /\ d.wrote = FALSE /\ d.could = FALSE /\ d.skill = None
        /\ d.ws = v /\ d.wanted = r
    BY DEF NoCall, Fields
  <2> HIDE DEF d
  <2>2. Begin(u, op, d)
    BY <1>8 DEF d
  <2> QED
    BY <2>1, <2>2, BeginKeeps DEF VersionOps, SkillOps, PlaceOps, WriteOps, RoleOps, ReportOps
<1>9. ASSUME NEW op \in RbacReadOps, Begin(u, op, NoCall)
      PROVE  TeamInv'
  BY <1>9, NewCall, BeginKeeps
     DEF VersionOps, SkillOps, PlaceOps, WriteOps, RoleOps, ReportOps, RbacReadOps
<1> QED
  BY <1>4, <1>5, <1>6, <1>7, <1>8, <1>9 DEF BeginRbacCall

LEMMA ResolveRbacTeamKeeps ==
  ASSUME TeamInv, NEW u \in User, ResolveRbacTeam(u)
  PROVE  TeamInv'
<1>1. InCall(u) /\ call[u].pc = "resolve" /\ call[u].op \in WriteOps \cup RoleOps \cup RbacReadOps
  BY DEF ResolveRbacTeam, At, InCall
<1>2. ASSUME NEW o, AnswersWith(u, o) PROVE TeamInv'
  BY <1>1, <1>2, RbacAnswer DEF AnswersWith, Proceeds
<1>3. ASSUME Permissions(call[u].perms) \subseteq TeamPermission, Proceeds(u, Next_(u, "rpc")),
             UNCHANGED <<role, hosted>>
      PROVE  TeamInv'
  <2>1. PICK p \in {"rpc"} : call' = [call EXCEPT ![u] = Next_(u, p)]
    BY <1>3 DEF Proceeds
  <2> QED
    BY <1>1, <1>3, <2>1, RbacNext
<1> QED
  BY <1>2, <1>3 DEF ResolveRbacTeam, NoTeam

\* One permission of a batch is done: either it was the last, or the rest follows.
LEMMA Collected ==
  ASSUME NEW u \in User, DOMAIN call[u] = Fields, NEW ok \in BOOLEAN, call'[u] = Collect(u, ok)
  PROVE  /\ SameCall(u) /\ call'[u].perms = Tail(call[u].perms)
         /\ call'[u].wrote = call[u].wrote /\ call'[u].could = call[u].could
         /\ call'[u].pc = IF Len(call[u].perms) > 1 THEN call[u].pc ELSE "done"
<1> DEFINE d == IF ok THEN call[u].done \cup {Head(call[u].perms)} ELSE call[u].done
           f == IF ok THEN call[u].failed ELSE call[u].failed \cup {Head(call[u].perms)}
           t == Tail(call[u].perms)
           rest == [call[u] EXCEPT !.perms = t, !.done = d, !.failed = f]
           o == IF rest.failed = {} THEN "applied" ELSE IF rest.done = {} THEN "refused" ELSE "partial"
<1>1. call'[u] = IF Len(call[u].perms) > 1 THEN rest ELSE [rest EXCEPT !.pc = "done", !.out = o]
  BY DEF Collect
<1> HIDE DEF d, f, t
<1>2. /\ DOMAIN rest = Fields /\ rest.op = call[u].op /\ rest.skill = call[u].skill
      /\ rest.version = call[u].version /\ rest.ws = call[u].ws /\ rest.wanted = call[u].wanted
      /\ rest.seat = call[u].seat /\ rest.perms = t /\ rest.wrote = call[u].wrote
      /\ rest.could = call[u].could /\ rest.pc = call[u].pc
  BY DEF Fields
<1> HIDE DEF rest, o
<1>3. CASE Len(call[u].perms) > 1
  BY <1>1, <1>2, <1>3 DEF SameCall, t
<1>4. CASE ~(Len(call[u].perms) > 1)
  <2>1. call'[u] = [rest EXCEPT !.pc = "done", !.out = o]
    BY <1>1, <1>4
  <2>2. SameCall(u) /\ call'[u].perms = t /\ call'[u].wrote = call[u].wrote
        /\ call'[u].could = call[u].could /\ call'[u].pc = "done"
    BY <1>2, <2>1 DEF SameCall, Fields
  <2> QED
    BY <1>4, <2>2 DEF t
<1> QED
  BY <1>3, <1>4

\* What is left of a batch, and what is written of it.
LEMMA Batch ==
  ASSUME NEW ps \in Seq(PermissionName), ps # <<>>
  PROVE  /\ Tail(ps) \in Seq(PermissionName) /\ Head(ps) \in Permissions(ps) /\ Tail(ps) # ps
         /\ Permissions(Tail(ps)) \subseteq Permissions(ps)
         /\ Len(ps) > 1 => Tail(ps) # <<>>
<1>1. Len(ps) \in Nat /\ Len(ps) > 0 /\ DOMAIN ps = 1 .. Len(ps)
  BY EmptySeq
<1>2. Tail(ps) \in Seq(PermissionName) /\ Len(Tail(ps)) = Len(ps) - 1
      /\ \A i \in 1 .. Len(ps) - 1 : Tail(ps)[i] = ps[i + 1]
  BY <1>1, HeadTailProperties
<1>3. Head(ps) = ps[1]
  BY <1>1
<1>4. Permissions(Tail(ps)) \subseteq Permissions(ps)
  <2>1. DOMAIN Tail(ps) = 1 .. Len(ps) - 1
    BY <1>2
  <2>2. ASSUME NEW i \in DOMAIN Tail(ps) PROVE Tail(ps)[i] \in Permissions(ps)
    <3>1. i + 1 \in DOMAIN ps /\ Tail(ps)[i] = ps[i + 1]
      BY <1>1, <1>2, <2>1
    <3> QED
      BY <3>1 DEF Permissions
  <2> QED
    BY <2>2 DEF Permissions
<1>5. Head(ps) \in Permissions(ps)
  BY <1>1, <1>3 DEF Permissions
<1>6. ASSUME Tail(ps) = ps PROVE FALSE
  <2>1. Len(Tail(ps)) = Len(ps)
    BY <1>6, Zenon
  <2> QED
    BY <1>1, <1>2, <2>1
<1>7. ASSUME Len(ps) > 1, Tail(ps) = <<>> PROVE FALSE
  <2>1. Len(<<>>) = 0
    BY EmptySeq
  <2>2. Len(Tail(ps)) = 0
    BY <1>7, <2>1, Zenon
  <2> DEFINE n == Len(ps)
             m == Len(Tail(ps))
  <2>3. n \in Nat /\ m = n - 1
    BY <1>1, <1>2, Zenon
  <2>4. n > 1 /\ m = 0
    BY <1>7, <2>2, Zenon
  <2> HIDE DEF n, m
  <2> QED
    BY <2>3, <2>4
<1> QED
  BY <1>2, <1>4, <1>5, <1>6, <1>7

\* The write of one permission, whether or not it is applied.
LEMMA WritePermissionKeeps ==
  ASSUME TeamInv, NEW u \in User, WritePermission(u)
  PROVE  TeamInv' /\ call'[u] # call[u]
<1>1. InCall(u) /\ call[u].pc = "rpc" /\ call[u].op \in WriteOps
      /\ UNCHANGED <<role, row, space, sso, shown>>
  BY DEF WritePermission, At, InCall
<1>2. /\ DOMAIN call[u] = Fields /\ call[u].wrote \in BOOLEAN /\ call[u].could \in BOOLEAN
      /\ call[u].ws \in GrantableRole /\ call[u].perms \in Seq(PermissionName) /\ call[u].perms # <<>>
      /\ Permissions(call[u].perms) \subseteq TeamPermission
      /\ call[u].op \in {"set_permission", "create_policy"} => call[u].wanted \in {"allow", "deny"}
  BY <1>1, FactsOf DEF Named, BatchTrue
<1>3. PICK ok \in BOOLEAN : Proceeds(u, Collect(u, ok))
  BY DEF WritePermission
<1>4. call'[u] = Collect(u, ok)
  BY <1>3 DEF Proceeds, TeamInv
<1>5. /\ SameCall(u) /\ call'[u].perms = Tail(call[u].perms)
      /\ call'[u].wrote = call[u].wrote /\ call'[u].could = call[u].could
      /\ call'[u].pc = IF Len(call[u].perms) > 1 THEN "rpc" ELSE "done"
  BY <1>1, <1>2, <1>4, Collected
<1>6. /\ Tail(call[u].perms) \in Seq(PermissionName) /\ Head(call[u].perms) \in TeamPermission
      /\ Permissions(Tail(call[u].perms)) \subseteq TeamPermission
      /\ Len(call[u].perms) > 1 => Tail(call[u].perms) # <<>>
      /\ Tail(call[u].perms) # call[u].perms
  BY <1>2, Batch
<1>7. grant' \in [GrantableRole \X TeamPermission -> {"unset", "allow", "deny"}]
  <2>1. grant \in [GrantableRole \X TeamPermission -> {"unset", "allow", "deny"}]
    BY TablesNow DEF TablesOK
  <2>2. Written(Effect(u)) \in {"unset", "allow", "deny"}
    BY <1>2 DEF Written, Effect
  <2>3. <<call[u].ws, Head(call[u].perms)>> \in GrantableRole \X TeamPermission
    BY <1>2, <1>6
  <2>4. \/ grant' = grant
        \/ grant' = [grant EXCEPT ![<<call[u].ws, Head(call[u].perms)>>] = Written(Effect(u))]
    BY DEF WritePermission
  <2> QED
    BY <2>1, <2>2, <2>3, <2>4
<1>8. Grow
  BY <1>1 DEF Grow
<1>9. TeamTypeOK' /\ PendingStaysHidden'
  <2>1. \A v \in User : call'[v].wrote \in BOOLEAN /\ call'[v].could \in BOOLEAN
    BY <1>2, <1>3, <1>5 DEF Proceeds, TeamInv, TeamTypeOK
  <2> QED
    BY <1>1, <1>7, <2>1 DEF TeamInv, TeamTypeOK, PendingStaysHidden, Versions
<1>10. BatchTrue(u)'
  BY <1>5, <1>6 DEF BatchTrue
<1>11. PublishTrue(u)' /\ ListTrue(u)' /\ DeleteTrue(u)' /\ ShareTrue(u)' /\ ReportTrue(u)'
  BY <1>1, <1>5
     DEF SameCall, WriteOps, ReportOps, PublishTrue, ListTrue, DeleteTrue, ShareTrue, ReportTrue
<1>12. CallTrue(u)'
  BY <1>1, <1>5, <1>6, <1>8, <1>10, <1>11, TrueAfter
<1>13. DOMAIN Collect(u, ok) = Fields /\ Collect(u, ok).pc # "idle"
  BY <1>4, <1>5 DEF SameCall
<1>14. call' = [call EXCEPT ![u] = Collect(u, ok)]
  BY <1>3 DEF Proceeds
<1> QED
  BY <1>1, <1>5, <1>6, <1>8, <1>9, <1>12, <1>13, <1>14, StepOfCall

LEMMA SetMemberRoleKeeps ==
  ASSUME TeamInv, NEW u \in User, SetMemberRole(u)
  PROVE  TeamInv'
<1> DEFINE v == call[u].ws
           answered(out) == [call EXCEPT ![u] = Out(u, out)]
<1>1. InCall(u) /\ call[u].op \in RoleOps /\ UNCHANGED hosted
  BY DEF SetMemberRole, At, InCall
<1>2. v \in User /\ call[u].wanted \in GrantableRole /\ DOMAIN call = User
  BY <1>1, FactsOf DEF Named, TeamInv
<1>3. ASSUME NEW o, call' = answered(o), UNCHANGED role
      PROVE  TeamInv'
  BY <1>1, <1>3, RbacAnswer
<1>4. ASSUME NEW o, SetRole(v, NewRole(u), answered(o))
      PROVE  TeamInv'
  <2>1. PICK r \in Roles : r = NewRole(u)
    BY <1>2 DEF NewRole, Roles, GrantableRole
  <2>2. PICK others : others = answered(o)
    OBVIOUS
  <2>3. DOMAIN others = User /\ others[u] = Out(u, o) /\ \A x \in User \ {u} : others[x] = call[x]
    BY <1>2, <2>2
  <2> HIDE DEF v, answered
  <2>4. SetRole(v, r, others)
    BY <1>4, <2>1, <2>2
  <2> QED
    BY <1>1, <1>2, <2>3, <2>4, RoleStep
<1> QED
  BY <1>3, <1>4 DEF SetMemberRole

LEMMA ReadRbacKeeps ==
  ASSUME TeamInv, NEW u \in User, ReadRbac(u)
  PROVE  TeamInv'
<1>1. InCall(u) /\ call[u].op \in RbacReadOps
  BY DEF ReadRbac, At, InCall
<1>2. PICK o : AnswersWith(u, o)
  BY DEF ReadRbac
<1> QED
  BY <1>1, <1>2, RbacAnswer DEF AnswersWith, Proceeds

LEMMA RbacKeeps ==
  ASSUME TeamInv, NEW u \in User, RbacStep(u, Batches)
  PROVE  TeamInv'
  BY BeginRbacCallKeeps, ResolveRbacTeamKeeps, WritePermissionKeeps, SetMemberRoleKeeps,
     ReadRbacKeeps DEF RbacStep

-----------------------------------------------------------------------------
(* Single sign-on. *)

LEMMA SsoRequestKeeps ==
  ASSUME TeamInv, NEW u \in User, SsoRequest(u)
  PROVE  TeamInv'
<1>1. InCall(u) /\ call[u].op \in SsoOps /\ UNCHANGED <<role, row, space, grant, shown>>
  BY DEF SsoRequest, At, InCall
<1>2. ASSUME NEW o, Proceeds(u, Out(u, o)), UNCHANGED sso
      PROVE  TeamInv'
  <2>1. UNCHANGED <<role, hosted>>
    BY <1>1, <1>2 DEF hosted
  <2> QED
    BY <1>1, <1>2, <2>1, RbacAnswer DEF Proceeds
<1>3. ASSUME NEW o, Proceeds(u, [Out(u, o) EXCEPT !.wrote = TRUE]), sso' = SsoEffect(call[u].op)
      PROVE  TeamInv'
  <2>1. sso' \in [provider : BOOLEAN, domain : {"none", "claimed", "verified"}, stale : BOOLEAN]
    <3>1. sso \in [provider : BOOLEAN, domain : {"none", "claimed", "verified"}, stale : BOOLEAN]
      BY TablesNow DEF TablesOK
    <3>2. sso' \in {[sso EXCEPT !.provider = TRUE], [sso EXCEPT !.provider = FALSE],
                    [sso EXCEPT !.domain = "claimed"], [sso EXCEPT !.domain = "verified"], sso}
      BY <1>1, <1>3 DEF SsoEffect, SsoOps
    <3> QED
      BY <3>1, <3>2
  <2>2. TablesOK' /\ Grow /\ PendingStaysHidden'
    BY <1>1, <2>1, TablesNow DEF TablesOK, Grow, TeamInv, PendingStaysHidden, Versions
  <2>3. call[u].op \notin {"publish", "list", "ws_delete", "share_add"} \cup ReportOps
    BY <1>1 DEF SsoOps, ReportOps
  <2> QED
    BY <1>1, <1>3, <2>2, <2>3, WriteKeeps DEF Proceeds
<1> QED
  BY <1>2, <1>3 DEF SsoRequest

LEMMA SsoKeeps ==
  ASSUME TeamInv, NEW u \in User, SsoStep(u)
  PROVE  TeamInv'
<1>1. CASE BeginSsoCall(u)
  <2>1. PICK op \in SsoOps : Begin(u, op, NoCall)
    BY <1>1 DEF BeginSsoCall
  <2>2. op \notin VersionOps \cup SkillOps \cup PlaceOps \cup WriteOps \cup RoleOps \cup ReportOps
        /\ op \notin {"set_permission", "create_policy"}
    BY DEF SsoOps, VersionOps, SkillOps, PlaceOps, WriteOps, RoleOps, ReportOps
  <2> QED
    BY <2>1, <2>2, NewCall, BeginKeeps
<1>2. CASE SendSsoRequest(u)
  <2>1. InCall(u) /\ call[u].pc = "resolve" /\ call[u].op \in SsoOps
    BY <1>2 DEF SendSsoRequest, At, InCall
  <2>2. CASE NoClient(u, "resolve")
    BY <2>1, <2>2, RbacAnswer DEF NoClient, AnswersWith, Proceeds
  <2>3. CASE Proceeds(u, Next_(u, "request")) /\ UNCHANGED <<role, hosted>>
    <3>1. PICK p \in {"request"} : call' = [call EXCEPT ![u] = Next_(u, p)]
      BY <2>3 DEF Proceeds
    <3> QED
      BY <2>1, <2>3, <3>1, RbacNext DEF SsoOps, WriteOps
  <2> QED
    BY <1>2, <2>2, <2>3 DEF SendSsoRequest
<1>3. CASE SsoRequest(u)
  BY <1>3, SsoRequestKeeps
<1> QED
  BY <1>1, <1>2, <1>3 DEF SsoStep

-----------------------------------------------------------------------------
(* The reports. *)

LEMMA ReportGoesOn ==
  ASSUME TeamInv, NEW u \in User, NEW c, InCall(u), call[u].op \in ReportOps,
         call' = [call EXCEPT ![u] = c], UNCHANGED <<role, hosted>>,
         SameCall(u), call'[u].pc # "idle", call'[u].wrote = call[u].wrote,
         call'[u].could = call[u].could, ReportTrue(u)'
  PROVE  TeamInv'
<1>1. call'[u] = c
  BY DEF TeamInv
<1>2. Grow
  BY HostedStill
<1>3. BatchTrue(u)' /\ PublishTrue(u)' /\ ListTrue(u)' /\ DeleteTrue(u)' /\ ShareTrue(u)'
  BY DEF SameCall, ReportOps, WriteOps, BatchTrue, PublishTrue, ListTrue, DeleteTrue, ShareTrue
<1>4. CallTrue(u)'
  BY <1>2, <1>3, TrueAfter DEF ReportOps, WriteOps
<1> QED
  BY <1>1, <1>4, QuietStep, FactsOf DEF SameCall

LEMMA ReportAnswer ==
  ASSUME TeamInv, NEW u \in User, NEW o, InCall(u), call[u].op \in ReportOps, o # "report",
         AnswersWith(u, o)
  PROVE  TeamInv'
  BY AnswerKeeps DEF AnswersWith, Proceeds, ReportOps, PublishMay, ListMay

\* A member alone is told of usage.
LEMMA UsageKeeps ==
  ASSUME TeamInv, NEW u \in User, getToolUsage(u)
  PROVE  TeamInv'
<1>1. InCall(u) /\ call[u].pc = "usage" /\ call[u].op \in ReportOps
  BY DEF getToolUsage, At, InCall
<1>2. DOMAIN call[u] = Fields /\ call[u].read = NoRead /\ (call[u].seat = "out" => ~IsMember(u))
  BY <1>1, FactsOf DEF ReportTrue, SeatTrue
<1>3. CASE AnswersWith(u, "no_client") \/ AnswersWith(u, "rpc_failed")
  BY <1>1, <1>3, ReportAnswer
<1>4. ASSUME UNCHANGED <<role, hosted>>, NEW current \in 0 .. 1, NEW previous \in 0 .. 1, IsMember(u),
             Proceeds(u, [Next_(u, "coverage") EXCEPT !.read.rows = 1, !.read.current = current,
                                                      !.read.previous = previous])
      PROVE  TeamInv'
  <2> DEFINE read == [[[NoRead EXCEPT !.rows = 1] EXCEPT !.current = current]
                        EXCEPT !.previous = previous]
             c == [call[u] EXCEPT !.pc = "coverage", !.out = call[u].out, !.read = read]
  <2>1. /\ DOMAIN read = DOMAIN NoRead /\ read.level = "none" /\ read.counts = {} /\ read.shown = {}
    BY DEF NoRead
  <2>2. [Next_(u, "coverage") EXCEPT !.read.rows = 1, !.read.current = current,
                                     !.read.previous = previous] = c
    <3>1. Next_(u, "coverage").read = NoRead
      BY <1>2 DEF Next_, Fields
    <3> QED
      BY <1>2, <3>1 DEF Next_, Fields
  <2> HIDE DEF read
  <2>3. call' = [call EXCEPT ![u] = c] /\ call'[u] = c
    BY <1>4, <2>2 DEF Proceeds, TeamInv
  <2>4. SameCall(u) /\ call'[u].pc = "coverage" /\ call'[u].read = read
        /\ call'[u].wrote = call[u].wrote /\ call'[u].could = call[u].could
    <3>1. DOMAIN call[u] = Fields
      BY <1>2
    <3>2. call'[u] = [call[u] EXCEPT !.pc = "coverage", !.out = call[u].out, !.read = read]
      BY <2>3
    <3> HIDE DEF c
    <3> QED
      BY ONLY <3>1, <3>2, u \in User DEF SameCall, Fields
  <2>5. ReportTrue(u)'
    BY <1>2, <1>4, <2>1, <2>4 DEF ReportTrue, SameCall, NoRead
  <2> QED
    BY <1>1, <1>4, <2>3, <2>4, <2>5, ReportGoesOn
<1>5. ASSUME UNCHANGED <<role, hosted>>, Proceeds(u, Next_(u, "coverage"))
      PROVE  TeamInv'
  <2>1. call' = [call EXCEPT ![u] = Next_(u, "coverage")] /\ call'[u] = Next_(u, "coverage")
    BY <1>5 DEF Proceeds, TeamInv
  <2>2. /\ SameCall(u) /\ call'[u].pc = "coverage" /\ call'[u].read = NoRead
        /\ call'[u].wrote = call[u].wrote /\ call'[u].could = call[u].could
    BY <1>2, <2>1, GoesOn
  <2>3. ReportTrue(u)'
    BY <2>2 DEF ReportTrue, SameCall, NoRead
  <2> QED
    BY <1>1, <1>5, <2>1, <2>2, <2>3, ReportGoesOn
<1> QED
  BY <1>3, <1>4, <1>5 DEF getToolUsage

\* What is told of a row is in it, and is promised by its level.
LEMMA NoteIsDisclosed ==
  ASSUME NEW c \in CoverageRow
  PROVE  /\ c.level # "none" /\ buildCoverageNote(c) \subseteq c.counts
         /\ buildCoverageNote(c) \subseteq Disclosed[c.level]
<1>1. /\ c.level \in {"full", "aggregate", "qualitative"}
      /\ Disclosed.full = Counts /\ Disclosed.aggregate = {"reporting", "total"}
      /\ Disclosed["full"] = Counts /\ Disclosed["aggregate"] = {"reporting", "total"}
  <2>1. c.level \in {"full", "aggregate", "qualitative"}
    BY DEF CoverageRow
  <2>2. /\ Disclosed.full = Counts /\ Disclosed.aggregate = {"reporting", "total"}
        /\ Disclosed["full"] = Counts /\ Disclosed["aggregate"] = {"reporting", "total"}
    BY DEF Disclosed
  <2> QED
    BY <2>1, <2>2
<1>2. CASE c.level = "full" /\ Counts \subseteq c.counts
  <2>1. buildCoverageNote(c) = Counts
    BY <1>1, <1>2 DEF buildCoverageNote
  <2> QED
    BY <1>1, <1>2, <2>1
<1>3. CASE ~(c.level = "full" /\ Counts \subseteq c.counts)
  <2>1. CASE c.level # "qualitative" /\ {"reporting", "total"} \subseteq c.counts
    <3>1. buildCoverageNote(c) = {"reporting", "total"}
      BY <1>1, <1>3, <2>1 DEF buildCoverageNote
    <3>2. c.level \in {"full", "aggregate"}
      BY <1>1, <2>1
    <3> QED
      BY <1>1, <2>1, <3>1, <3>2 DEF Counts
  <2>2. CASE ~(c.level # "qualitative" /\ {"reporting", "total"} \subseteq c.counts)
    <3>1. buildCoverageNote(c) = {}
      BY <1>1, <1>3, <2>2 DEF buildCoverageNote
    <3> QED
      BY <1>1, <3>1
  <2> QED
    BY <2>1, <2>2
<1> QED
  BY <1>2, <1>3

LEMMA CoverageKeeps ==
  ASSUME TeamInv, NEW u \in User, getReportingCoverage(u)
  PROVE  TeamInv'
<1>1. InCall(u) /\ call[u].pc = "coverage" /\ call[u].op \in ReportOps /\ UNCHANGED <<role, hosted>>
  BY DEF getReportingCoverage, At, InCall
<1>2. /\ DOMAIN call[u] = Fields /\ (call[u].seat = "out" => ~IsMember(u))
      /\ DOMAIN call[u].read = DOMAIN NoRead /\ call[u].read.level = "none"
      /\ call[u].read.counts = {} /\ call[u].read.shown = {}
      /\ call[u].seat = "out" => call[u].read.current = 0 /\ call[u].read.previous = 0
  BY <1>1, FactsOf DEF ReportTrue, SeatTrue
<1>3. PICK s, t :
        LET report == [Out(u, "report") EXCEPT !.read.sections = s, !.read.session = t] IN
        \/ Proceeds(u, report)
        \/ /\ IsMember(u)
           /\ \E c \in CoverageRow :
                Proceeds(u, [report EXCEPT !.read.level = c.level, !.read.counts = c.counts,
                                           !.read.shown = buildCoverageNote(c)])
  BY DEF getReportingCoverage
<1> DEFINE r1 == [[call[u].read EXCEPT !.sections = s] EXCEPT !.session = t]
           report == [Out(u, "report") EXCEPT !.read.sections = s, !.read.session = t]
<1>4. /\ DOMAIN r1 = DOMAIN NoRead /\ r1.level = "none" /\ r1.counts = {} /\ r1.shown = {}
      /\ r1.current = call[u].read.current /\ r1.previous = call[u].read.previous
  BY <1>2 DEF NoRead
<1>5. report = [call[u] EXCEPT !.pc = "done", !.out = "report", !.read = r1]
  BY <1>2 DEF Out, Fields
<1> HIDE DEF r1, report
<1>6. CASE Proceeds(u, report)
  <2>1. call' = [call EXCEPT ![u] = report] /\ call'[u] = report
    BY <1>6 DEF Proceeds, TeamInv
  <2>2. /\ SameCall(u) /\ call'[u].pc = "done" /\ call'[u].read = r1
        /\ call'[u].wrote = call[u].wrote /\ call'[u].could = call[u].could
    <3>1. DOMAIN call[u] = Fields
      BY <1>2
    <3>2. call'[u] = [call[u] EXCEPT !.pc = "done", !.out = "report", !.read = r1]
      BY <1>5, <2>1
    <3> QED
      BY ONLY <3>1, <3>2, u \in User DEF SameCall, Fields
  <2>3. ReportTrue(u)'
    BY <1>2, <1>4, <2>2 DEF ReportTrue, SameCall
  <2> QED
    BY <1>1, <2>1, <2>2, <2>3, ReportGoesOn
<1>7. ASSUME IsMember(u), NEW c \in CoverageRow,
             Proceeds(u, [report EXCEPT !.read.level = c.level, !.read.counts = c.counts,
                                        !.read.shown = buildCoverageNote(c)])
      PROVE  TeamInv'
  <2> DEFINE note == buildCoverageNote(c)
             r2 == [[[r1 EXCEPT !.level = c.level] EXCEPT !.counts = c.counts] EXCEPT !.shown = note]
             d == [call[u] EXCEPT !.pc = "done", !.out = "report", !.read = r2]
  <2>1. note \subseteq c.counts /\ c.level # "none" /\ note \subseteq Disclosed[c.level]
    BY NoteIsDisclosed
  <2> HIDE DEF note
  <2>2. r2.level = c.level /\ r2.counts = c.counts /\ r2.shown = note
    BY <1>4 DEF NoRead
  <2>3. [report EXCEPT !.read.level = c.level, !.read.counts = c.counts, !.read.shown = note] = d
    <3>1. DOMAIN report = Fields /\ report.read = r1
      BY <1>2, <1>5 DEF Fields
    <3> QED
      BY <1>2, <1>5, <3>1 DEF Fields
  <2> HIDE DEF r2
  <2>4. call' = [call EXCEPT ![u] = d] /\ call'[u] = d
    BY <1>7, <2>3 DEF Proceeds, TeamInv, note
  <2>5. /\ SameCall(u) /\ call'[u].pc = "done" /\ call'[u].read = r2
        /\ call'[u].wrote = call[u].wrote /\ call'[u].could = call[u].could
    <3>1. DOMAIN call[u] = Fields
      BY <1>2
    <3>2. call'[u] = [call[u] EXCEPT !.pc = "done", !.out = "report", !.read = r2]
      BY <2>4
    <3> HIDE DEF d
    <3> QED
      BY ONLY <3>1, <3>2, u \in User DEF SameCall, Fields
  <2>6. call'[u].seat # "out"
    BY <1>2, <1>7, <2>5 DEF SameCall
  <2>7. ReportTrue(u)'
    BY <2>1, <2>2, <2>5, <2>6 DEF ReportTrue
  <2> QED
    BY <1>1, <2>4, <2>5, <2>7, ReportGoesOn
<1> QED
  BY <1>3, <1>6, <1>7 DEF report

LEMMA ReportKeeps ==
  ASSUME TeamInv, NEW u \in User, ReportStep(u)
  PROVE  TeamInv'
<1>1. CASE BeginReport(u)
  <2>1. PICK op \in ReportOps : Begin(u, op, [NoCall EXCEPT !.read = NoRead])
    BY <1>1 DEF BeginReport
  <2> DEFINE d == [NoCall EXCEPT !.read = NoRead]
  <2>2. DOMAIN d = Fields /\ d.wrote = FALSE /\ d.could = FALSE /\ d.skill = None /\ d.read = NoRead
    BY DEF NoCall, Fields
  <2>3. Begin(u, op, d)
    BY <2>1
  <2> HIDE DEF d
  <2>4. op \notin VersionOps \cup SkillOps \cup PlaceOps \cup WriteOps \cup RoleOps
        /\ op \notin {"set_permission", "create_policy"}
    BY DEF VersionOps, SkillOps, PlaceOps, WriteOps, RoleOps, ReportOps
  <2> QED
    BY <2>2, <2>3, <2>4, BeginKeeps
<1>2. CASE resolveCloudAnalytics(u)
  <2>1. InCall(u) /\ call[u].pc = "resolve" /\ call[u].op \in ReportOps
    BY <1>2 DEF resolveCloudAnalytics, At, InCall
  <2>2. CASE AnswersWith(u, "not_signed_in") \/ AnswersWith(u, "no_team")
    BY <2>1, <2>2, ReportAnswer
  <2>3. CASE Proceeds(u, Next_(u, "usage")) /\ UNCHANGED <<role, hosted>>
    <3>1. PICK p \in {"usage"} : call' = [call EXCEPT ![u] = Next_(u, p)]
      BY <2>3 DEF Proceeds
    <3> QED
      BY <2>1, <2>3, <3>1, NextKeeps DEF ReportOps, WriteOps
  <2> QED
    BY <1>2, <2>2, <2>3 DEF resolveCloudAnalytics
<1> QED
  BY <1>1, <1>2, UsageKeeps, CoverageKeeps DEF ReportStep

-----------------------------------------------------------------------------
(* Every step, and the start. *)

LEMMA TeamStarts ==
  ASSUME TeamInit
  PROVE  TeamInv
<1>1. \A u \in User : call[u] = NoCall
  BY DEF TeamInit
<1>2. TablesOK
  BY DEF TeamInit, TablesOK, NoRow, NoPolicy
<1>3. \A u \in User : /\ DOMAIN call[u] = Fields /\ call[u].pc = "idle" /\ call[u].seat = None
                      /\ call[u].wrote = FALSE /\ call[u].could = FALSE
  BY <1>1, NewCall
<1>4. role \in [User -> Roles] /\ DOMAIN call = User /\ shown = {}
  BY DEF TeamInit
<1>5. TeamTypeOK
  BY <1>2, <1>3, <1>4 DEF TeamTypeOK, TablesOK
<1>6. \A u \in User : CallTrue(u)
  BY <1>3 DEF CallTrue, InCall
<1> QED
  BY <1>3, <1>4, <1>5, <1>6 DEF TeamInv, PendingStaysHidden

LEMMA TeamSteps ==
  ASSUME TeamInv, [TeamNext]_toolVars
  PROVE  TeamInv'
<1>1. ASSUME NEW u \in User,
             \/ RegistryStep(u) \/ WorkspaceStep(u) \/ RbacStep(u, Batches)
             \/ SsoStep(u) \/ ReportStep(u) \/ MemberJoinsOrLeaves(u)
      PROVE  TeamInv'
  BY <1>1, RegistryKeeps, WorkspaceKeeps, RbacKeeps, SsoKeeps, ReportKeeps,
     MemberJoinsOrLeavesKeeps
<1>2. CASE SessionsGoStale \/ PolicyChanges
  BY <1>2, SessionsGoStaleKeeps, PolicyChangesKeeps
<1>3. CASE UNCHANGED toolVars
  <2>1. UNCHANGED <<role, call>> /\ UNCHANGED hosted
    BY <1>3 DEF toolVars, teamVars
  <2>2. /\ Grow /\ row' = row /\ space' = space /\ grant' = grant /\ sso' = sso /\ shown' = shown
    BY <2>1, HostedStill
  <2>3. TablesOK'
    BY <2>2, TablesNow DEF TablesOK
  <2>4. PendingStaysHidden'
    BY <2>2 DEF TeamInv, PendingStaysHidden, Versions
  <2> QED
    BY <2>1, <2>2, <2>3, <2>4, Elsewhere
<1> QED
  BY <1>1, <1>2, <1>3 DEF TeamNext

LEMMA TeamAlways ==
  TeamSpec => []TeamInv
<1>1. TeamInit => TeamInv
  BY TeamStarts
<1>2. TeamInv /\ [TeamNext]_toolVars => TeamInv'
  BY TeamSteps
<1> QED
  BY <1>1, <1>2, PTL DEF TeamSpec

\* The tables and the calls have their types, whatever the tools do.
THEOREM TeamTyped == TeamSpec => []TeamTypeOK
<1>1. TeamInv => TeamTypeOK
  BY DEF TeamInv
<1> QED
  BY <1>1, TeamAlways, PTL

\* What a tool answers agrees with what happened while it ran: a version that is said to
\* be submitted was written by this call, one that is refused was not; nobody outside the
\* team is told that there are no skills; who is told that a permission is missing did not
\* hold it; a shared skill was allowed by the policy that was read; a report tells an
\* outsider nothing.
THEOREM ToolsAnswerTruly == TeamSpec => []AnswersAreTrue
<1>1. ASSUME TeamInv PROVE AnswersAreTrue
  <2>1. ASSUME NEW u \in User, Answered(u)
        PROVE  /\ PublishTrue(u) /\ ListTrue(u) /\ DeleteTrue(u) /\ ShareTrue(u) /\ ReportTrue(u)
               /\ call[u].pc = "done"
    BY <1>1, <2>1, FactsOf DEF Answered, InCall
  <2>2. PublishAnswerIsTrue
    BY <2>1 DEF PublishAnswerIsTrue, AnswerTo, PublishTrue, MyRow
  <2>3. EmptyListMeansMember
    BY <2>1 DEF EmptyListMeansMember, AnswerTo, ListTrue
  <2>4. WorkspaceDenialIsTrue
    BY <2>1 DEF WorkspaceDenialIsTrue, AnswerTo, DeleteTrue
  <2>5. ShareRespectsPolicy
    BY <2>1 DEF ShareRespectsPolicy, AnswerTo, ShareTrue
  <2>6. ReportsDiscloseNoMore
    BY <2>1 DEF ReportsDiscloseNoMore, ReportTrue
  <2> QED
    BY <2>2, <2>3, <2>4, <2>5, <2>6 DEF AnswersAreTrue
<1> QED
  BY <1>1, TeamAlways, PTL

\* The audit rows that every member can read name no skill that only exists under review
\* or rejected.
THEOREM PendingIsNotTold == TeamSpec => []PendingStaysHidden
<1>1. TeamInv => PendingStaysHidden
  BY DEF TeamInv
<1> QED
  BY <1>1, TeamAlways, PTL

-----------------------------------------------------------------------------
(* Grants. *)

LEMMA RegistryGrantsNothing ==
  ASSUME NEW u \in User, RegistryStep(u)
  PROVE  grant' = grant
<1>1. ASSUME NEW o, AnswersWith(u, o) PROVE grant' = grant
  BY <1>1 DEF AnswersWith, hosted
<1>2. ASSUME NEW p, NEW o, Fails(u, p, o) PROVE grant' = grant
  BY <1>2 DEF Fails
<1>3. ASSUME NEW p, NoClient(u, p) PROVE grant' = grant
  BY <1>1, <1>3 DEF NoClient
<1>4. CASE BeginRegistryCall(u)
  BY <1>4 DEF BeginRegistryCall, Begin, hosted
<1>5. CASE ResolveRegistryTeam(u)
  BY <1>1, <1>5 DEF ResolveRegistryTeam, NoTeam, hosted
<1>6. CASE CheckNamespace(u) \/ InsertRow(u) \/ InsertRefused(u) \/ ReadBack(u)
  BY <1>1, <1>2, <1>3, <1>6 DEF CheckNamespace, InsertRow, InsertRefused, ReadBack, hosted
<1>7. CASE ExplainDenial(u) \/ ListRows(u) \/ ReadNamespace(u) \/ ProbeMembership(u)
  BY <1>1, <1>2, <1>3, <1>7 DEF ExplainDenial, ListRows, ReadNamespace, ProbeMembership, hosted
<1>8. CASE UpdateDeprecated(u) \/ UpdateNothing(u) \/ ExplainUpdate(u) \/ ListSubmissions(u)
  BY <1>1, <1>2, <1>3, <1>8
     DEF UpdateDeprecated, UpdateNothing, ExplainUpdate, ListSubmissions, hosted
<1>9. CASE Review(u) \/ ReviewRefused(u) \/ ReadRow(u) \/ InstallContent(u)
  BY <1>1, <1>2, <1>3, <1>9 DEF Review, ReviewRefused, ReadRow, InstallContent, hosted
<1> QED
  BY <1>4, <1>5, <1>6, <1>7, <1>8, <1>9 DEF RegistryStep

LEMMA WorkspaceGrantsNothing ==
  ASSUME NEW u \in User, WorkspaceStep(u)
  PROVE  grant' = grant
<1>1. ASSUME NEW o, AnswersWith(u, o) PROVE grant' = grant
  BY <1>1 DEF AnswersWith, hosted
<1>2. ASSUME NEW p, NEW o, Fail(u, p, o) PROVE grant' = grant
  BY <1>1, <1>2 DEF Fail
<1>3. ASSUME NEW p, NoClient(u, p) PROVE grant' = grant
  BY <1>1, <1>3 DEF NoClient
<1>4. CASE BeginWorkspaceCall(u)
  BY <1>4 DEF BeginWorkspaceCall, Begin, hosted
<1>5. CASE ResolveSpaceTeam(u) \/ CreateWorkspace(u) \/ ReadWorkspaces(u)
  BY <1>1, <1>2, <1>3, <1>5 DEF ResolveSpaceTeam, NoTeam, CreateWorkspace, ReadWorkspaces, hosted
<1>6. CASE DeleteWorkspace(u) \/ ExplainDelete(u)
  BY <1>1, <1>2, <1>3, <1>6 DEF DeleteWorkspace, ExplainDelete, hosted
<1>7. CASE ReadSettings(u)
  BY <1>1, <1>3, <1>7 DEF ReadSettings, hosted
<1>8. CASE AssertWorkspace(u)
  BY <1>1, <1>3, <1>8 DEF AssertWorkspace, hosted
<1>9. CASE AddSkill(u) \/ RemoveSkill(u) \/ ExplainRemove(u) \/ ListSkills(u)
  BY <1>1, <1>2, <1>3, <1>9 DEF AddSkill, RemoveSkill, ExplainRemove, ListSkills, hosted
<1> QED
  BY <1>4, <1>5, <1>6, <1>7, <1>8, <1>9 DEF WorkspaceStep

LEMMA OthersGrantNothing ==
  ASSUME NEW u \in User, SsoStep(u) \/ ReportStep(u) \/ MemberJoinsOrLeaves(u)
  PROVE  grant' = grant
<1>1. ASSUME NEW o, AnswersWith(u, o) PROVE grant' = grant
  BY <1>1 DEF AnswersWith, hosted
<1>2. CASE SsoStep(u)
  BY <1>1, <1>2 DEF SsoStep, BeginSsoCall, SendSsoRequest, SsoRequest, Begin, NoClient, hosted
<1>3. CASE ReportStep(u)
  BY <1>1, <1>3 DEF ReportStep, BeginReport, resolveCloudAnalytics, getToolUsage,
                    getReportingCoverage, Begin, hosted
<1>4. CASE MemberJoinsOrLeaves(u)
  BY <1>4 DEF MemberJoinsOrLeaves, hosted
<1> QED
  BY <1>2, <1>3, <1>4

\* A gain comes of an allow, or of the reset of a deny to a default.
LEMMA GainIsAuthorized ==
  ASSUME TeamInv, NEW u \in User, WritePermission(u), NEW r \in GrantableRole,
         NEW p \in TeamPermission, Gains(r, p)
  PROVE  p \notin MetaPermission /\ call'[u] # call[u] /\ role[u] \in {"owner", "admin"}
<1> DEFINE s == call[u].ws
           q == Head(call[u].perms)
           e == Effect(u)
<1>1. grant \in [GrantableRole \X TeamPermission -> {"unset", "allow", "deny"}]
  BY TablesNow DEF TablesOK
<1>2. ~(grant' = grant)
  BY DEF Gains, Effective
<1>3. ~WriteRefusal(u, s, q, e) /\ grant' = [grant EXCEPT ![<<s, q>>] = Written(e)]
  BY <1>2 DEF WritePermission
<1>4. e \in {"allow", "deny", "reset"}
  <2>1. call[u].op \in WriteOps /\ InCall(u)
    BY DEF WritePermission, At, InCall, WriteOps
  <2>2. call[u].op \in {"set_permission", "create_policy"} => call[u].wanted \in {"allow", "deny"}
    BY <2>1, FactsOf DEF Named
  <2> QED
    BY <2>2 DEF Effect
<1>5. call'[u] # call[u]
  BY WritePermissionKeeps
<1> HIDE DEF s, q, e
<1>6. r = s /\ p = q /\ grant'[<<r, p>>] = Written(e)
  BY <1>1, <1>3 DEF Gains, Effective
<1>7. CASE e = "allow"
  BY <1>3, <1>5, <1>6, <1>7 DEF WriteRefusal, WouldWiden
<1>8. CASE e = "deny"
  BY <1>6, <1>8 DEF Gains, Effective, Written
<1>9. CASE e = "reset"
  <2>1. DefaultEffect(r, p) = "allow"
    BY <1>6, <1>9 DEF Gains, Effective, Written
  <2>2. p \notin MetaPermission
    BY <2>1 DEF DefaultEffect
  <2> QED
    BY <1>3, <1>5, <1>6, <1>9, <2>1, <2>2 DEF WriteRefusal, WouldWiden
<1> QED
  BY <1>4, <1>7, <1>8, <1>9

\* Whatever calls are made, by whomever, in whatever order and from whatever grants: a
\* role gains no meta-permission, and another only by a call of an owner or an admin.
THEOREM AuthorityIsNotSelfMade == TeamSpec => OnlyAuthorityWidens
<1> DEFINE Authorized == \A r \in GrantableRole, p \in TeamPermission : Gains(r, p) =>
             /\ p \notin MetaPermission
             /\ \E u \in User : call'[u] # call[u] /\ role[u] \in {"owner", "admin"}
<1>1. ASSUME grant' = grant PROVE Authorized
  BY <1>1 DEF Gains, Effective
<1>2. ASSUME TeamInv, [TeamNext]_toolVars PROVE Authorized
  <2>1. CASE UNCHANGED toolVars
    BY <1>1, <2>1 DEF toolVars, teamVars, hosted
  <2>2. CASE SessionsGoStale \/ PolicyChanges
    BY <1>1, <2>2 DEF SessionsGoStale, PolicyChanges
  <2>3. ASSUME NEW u \in User, RegistryStep(u) PROVE Authorized
    BY <1>1, <2>3, RegistryGrantsNothing
  <2>4. ASSUME NEW u \in User, WorkspaceStep(u) PROVE Authorized
    BY <1>1, <2>4, WorkspaceGrantsNothing
  <2>5. ASSUME NEW u \in User, SsoStep(u) \/ ReportStep(u) \/ MemberJoinsOrLeaves(u)
        PROVE  Authorized
    BY <1>1, <2>5, OthersGrantNothing
  <2>6. ASSUME NEW u \in User, RbacStep(u, Batches) PROVE Authorized
    <3>1. CASE WritePermission(u)
      BY <1>2, <3>1, GainIsAuthorized
    <3>2. CASE BeginRbacCall(u, Batches)
      BY <1>1, <3>2 DEF BeginRbacCall, Begin, hosted
    <3>3. CASE ResolveRbacTeam(u) \/ ReadRbac(u)
      BY <1>1, <3>3 DEF ResolveRbacTeam, ReadRbac, NoTeam, AnswersWith, hosted
    <3>4. CASE SetMemberRole(u)
      BY <1>1, <3>4 DEF SetMemberRole, hosted
    <3> QED
      BY <2>6, <3>1, <3>2, <3>3, <3>4 DEF RbacStep
  <2> QED
    BY <1>2, <2>1, <2>2, <2>3, <2>4, <2>5, <2>6 DEF TeamNext
<1>3. TeamInv /\ [TeamNext]_toolVars => [Authorized]_toolVars
  BY <1>2
<1> QED
  BY <1>3, TeamAlways, PTL DEF TeamSpec, OnlyAuthorityWidens
=============================================================================
