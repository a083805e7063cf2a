--------------------------- MODULE ServerProcess ---------------------------
(***************************************************************************)
(* One server process: its life cycle and the telemetry identity it keeps. *)
(* Creating the context installs the identity provider; everything stops   *)
(* when the process ends.                                                  *)
(***************************************************************************)
EXTENDS ServerLifecycle

CONSTANT MaxGeneration  \* bound: identity refreshes and invalidations

ASSUME GenerationAssumption == MaxGeneration \in Nat

VARIABLES generation, cached, refreshing, inFlight, rejectedAt

Identity == INSTANCE TelemetryIdentity

identityVars == <<generation, cached, refreshing, inFlight, rejectedAt>>
processVars  == <<vars, identityVars>>

ProcessInit == Init /\ Identity!Init

\* A step of the life cycle; the one that creates the context also fires the
\* first identity refresh.
LifecycleStep ==
  /\ Next
  /\ IF phase = "starting" /\ phase' = "created"
     THEN Identity!Install
     ELSE UNCHANGED identityVars

\* Refreshes, events and their answers go on until the process is gone.
IdentityStep ==
  /\ Live
  /\ Identity!Next
  /\ UNCHANGED vars

ProcessNext == LifecycleStep \/ IdentityStep

ProcessSpec == ProcessInit /\ [][ProcessNext]_processVars

\* The event loop runs settled continuations, and timers fire (see Fairness in
\* ServerLifecycle).
ProcessFairSpec ==
  /\ ProcessSpec
  /\ WF_processVars(LifecycleStep /\ (QuiesceSettles \/ QuiesceTimesOut))
  /\ WF_processVars(LifecycleStep /\ FlushTelemetry)
  /\ WF_processVars(LifecycleStep /\ ExitOk)

-----------------------------------------------------------------------------
(* Properties *)

\* Types, and what each flag is only ever set on: autosave is armed for the
\* WASM driver alone (shutdown.ts: "WASM + file-backed only").
TypeOK ==
  /\ phase \in {"starting", "created", "serving", "ended"}
  /\ exit \in {"none", "ok", "error", "killed"}
  /\ driver \in Drivers /\ db \in {"none", "open", "closed"}
  /\ mem \in 0..MaxWrites /\ disk \in 0..MaxWrites
  /\ {persistFailed, flushTimer, shuttingDown, stopped, syncFault, llmClosed}
        \subseteq BOOLEAN
  /\ flushTimer => driver = "wasm"
  /\ sequence \in {"idle", "quiescing", "flushing", "done"}
  /\ triggers \in 0..MaxTriggers
  /\ sync \in {"off", "waiting", "running", "hung"}
  /\ llm \in {"off", "pending", "ready", "failed"}
  /\ provider \in {"none", "open"}
  /\ generation \in 0..MaxGeneration /\ cached \in 0..MaxGeneration
  /\ refreshing \subseteq 1..MaxGeneration /\ inFlight \subseteq 1..MaxGeneration
  /\ rejectedAt \in 0..MaxGeneration

\* A process that exits with code 0 has every committed write in the file, or
\* has logged that the closing save failed.  No second trigger, late sync or
\* slow telemetry flush can make it exit before the save.  (shutdown.ts,
\* runShutdownSequence: the latch "is load-bearing".)
GracefulExitLosesNothing ==
  exit = "ok" /\ driver # "memory" /\ ~persistFailed => disk = mem

\* The background sync never writes to the database the coordinator closed,
\* even when its network call outlives the quiesce bound.
NoSyncWriteAfterClose == ~syncFault

\* Nothing is lost by a graceful exit, and nothing is written into a closed
\* database on the way there, whichever of the two is slower.
ShutdownIsClean == GracefulExitLosesNothing /\ NoSyncWriteAfterClose

\* Once shutdown has begun, a WASM database is saved only by the closing save:
\* autosave cannot write the file behind it.
ShutdownOwnsTheFinalSave ==
  [][shuttingDown /\ disk' # disk /\ driver = "wasm"
       => db = "open" /\ db' = "closed"]_processVars

\* A trigger is always followed by the end of the process: neither a hung sync
\* nor a hung telemetry client keeps it alive.
TriggerEndsProcess == triggers > 0 ~> phase = "ended"

\* After a 401 no identity fetched by a refresh that began before that answer is
\* cached again: not the rejected one, nor one a slower timer refresh brings.
RejectedIdentityStaysOut == cached # 0 => cached > rejectedAt

\* Answers are applied in the order the refreshes began: a slow older refresh
\* never replaces what a newer one brought.
NewestRefreshWins ==
  [][cached' # cached /\ cached' # 0 => cached' > cached]_processVars
=============================================================================
