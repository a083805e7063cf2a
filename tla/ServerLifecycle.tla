-------------------------- MODULE ServerLifecycle --------------------------
(***************************************************************************)
(* The life of one MCP server process: context creation, serving, the one  *)
(* shutdown coordinator (quiesce, close the LLM chain, close the database, *)
(* flush telemetry, exit) and the ways a process can end without it.       *)
(*                                                                         *)
(* The database is a count of committed writes: mem is what the open       *)
(* connection holds, disk is what the file holds.  The native driver keeps *)
(* them equal; the WASM driver saves only on close() and on autosave.      *)
(***************************************************************************)
EXTENDS Naturals

CONSTANTS
  Drivers,       \* the database drivers the process may get: wasm, native, memory
  MaxWrites,     \* bound: database writes in one process
  MaxTriggers    \* bound: shutdown triggers (transport close, SIGTERM, SIGINT)

ASSUME BoundsAssumption == MaxWrites \in Nat /\ MaxTriggers \in Nat

ASSUME DriversAssumption == Drivers \subseteq {"wasm", "native", "memory"}

VARIABLES
  phase,         \* starting, created (no signal handler yet), serving, ended
  exit,          \* none, ok (exit code 0), error (exit code 1), killed
  driver,        \* the driver openDatabaseAsync settled on
  db,            \* the handle: none, open, closed
  mem, disk,     \* committed writes in memory and in the file
  persistFailed, \* history: the closing save threw
  flushTimer,    \* the autosave interval is armed
  shuttingDown,  \* the flag autosave looks at
  sequence,      \* shutdownPromise: idle, quiescing, flushing, done
  triggers,      \* shutdown triggers seen
  sync,          \* background sync: off, waiting, running, hung (awaiting the network)
  stopped,       \* its stop() was called: aborted, and its interval cleared
  syncFault,     \* history: a sync write reached a closed database
  llm,           \* initialize(): off, pending, ready, failed
  provider,      \* the LLM provider object: none, open
  llmClosed      \* history: close() was called on the chain

dbVars   == <<driver, db, mem, disk, persistFailed, flushTimer>>
seqVars  == <<shuttingDown, sequence, triggers>>
syncVars == <<sync, stopped, syncFault>>
llmVars  == <<llm, provider, llmClosed>>
vars     == <<phase, exit, dbVars, seqVars, syncVars, llmVars>>

Init ==
  /\ phase = "starting" /\ exit = "none"
  /\ driver \in Drivers /\ db = "none"
  /\ mem = 0 /\ disk = 0 /\ persistFailed = FALSE /\ flushTimer = FALSE
  /\ shuttingDown = FALSE /\ sequence = "idle" /\ triggers = 0
  /\ sync = "off" /\ stopped = FALSE /\ syncFault = FALSE
  /\ llm = "off" /\ provider = "none" /\ llmClosed = FALSE

Live == phase # "ended"

End(code) ==
  /\ phase' = "ended" /\ exit' = code

\* Only a driver with an explicit persist() and a file needs autosave.
StartPeriodicFlush(enabled) == flushTimer' = (enabled /\ driver = "wasm")

-----------------------------------------------------------------------------
(* Startup *)

\* What is on: the background sync and the LLM initialisation are started and not awaited.
StartServices ==
  /\ sync' \in {"off", "running"}
  /\ llm' \in {"off", "pending"}

\* createToolContextAsync, then startPeriodicFlush.
CreateContext ==
  /\ phase = "starting"
  /\ phase' = "created"
  /\ db' = "open"
  /\ StartServices
  /\ \E enabled \in BOOLEAN : StartPeriodicFlush(enabled)
  /\ UNCHANGED <<exit, driver, mem, disk, persistFailed, seqVars, stopped,
                 syncFault, provider, llmClosed>>

\* The database cannot be opened: main logs and exits with code 1.
CreateContextFails ==
  /\ phase = "starting"
  /\ End("error")
  /\ UNCHANGED <<dbVars, seqVars, syncVars, llmVars>>

\* First-run setup and the embedding probe are behind; the three triggers are
\* registered and the transport connected.
Serve ==
  /\ phase = "created"
  /\ phase' = "serving"
  /\ UNCHANGED <<exit, dbVars, seqVars, syncVars, llmVars>>

-----------------------------------------------------------------------------
(* Database *)

\* One committed statement: the native driver writes through to the file.
Write ==
  /\ mem < MaxWrites
  /\ mem' = mem + 1
  /\ disk' = IF driver = "native" THEN mem + 1 ELSE disk

\* A tool call, or a fire-and-forget startup task, writes.
ToolWrite ==
  /\ phase \in {"created", "serving"} /\ db = "open"
  /\ Write
  /\ UNCHANGED <<phase, exit, driver, db, persistFailed, flushTimer, seqVars,
                 syncVars, llmVars>>

(* Faulty: neither the cleared interval nor the flag stops the callback. *)
AutosaveDuringShutdown ==
  /\ Live /\ driver = "wasm" /\ db = "open" /\ disk # mem
  /\ disk' = mem
  /\ UNCHANGED <<phase, exit, driver, db, mem, persistFailed, flushTimer,
                 seqVars, syncVars, llmVars>>

\* The interval fires: persist, unless the shutdown owns the final one.  A
\* persist that throws is logged and leaves the file alone.
Autosave ==
  /\ Live /\ flushTimer /\ ~shuttingDown
  /\ db = "open"
  /\ disk' = mem
  /\ UNCHANGED <<phase, exit, driver, db, mem, persistFailed, flushTimer,
                 seqVars, syncVars, llmVars>>

\* closeDbOnShutdown: close() saves a WASM database first; a save that throws
\* is logged, and the handle may be left open.
CloseDb ==
  \/ /\ db = "open"
     /\ db' = "closed"
     /\ disk' = IF driver = "wasm" THEN mem ELSE disk
     /\ UNCHANGED persistFailed
  \/ /\ db = "open" /\ driver = "wasm"
     /\ db' \in {"open", "closed"}
     /\ persistFailed' = TRUE
     /\ UNCHANGED disk
  \/ /\ db # "open"
     /\ UNCHANGED <<db, disk, persistFailed>>

-----------------------------------------------------------------------------
(* Background sync: SyncEngine and BackgroundSyncService of @skillsmith/core *)

\* The interval starts a run, unless stop() cleared it.
SyncStart ==
  /\ Live /\ sync = "waiting" /\ ~stopped
  /\ sync' = "running"
  /\ UNCHANGED <<phase, exit, dbVars, seqVars, stopped, syncFault, llmVars>>

\* Between two abort checkpoints a run writes one skill.
SyncWrite ==
  /\ Live /\ sync = "running" /\ ~stopped
  /\ IF db = "open" THEN Write /\ UNCHANGED syncFault
                    ELSE syncFault' = TRUE /\ UNCHANGED <<mem, disk>>
  /\ UNCHANGED <<phase, exit, driver, db, persistFailed, flushTimer, seqVars,
                 sync, stopped, llmVars>>

\* A run waits for the network, and may go on or may never hear back.
SyncAwait ==
  /\ Live
  /\ \/ sync = "running" /\ sync' = "hung"
     \/ sync = "hung" /\ sync' = "running"
  /\ UNCHANGED <<phase, exit, dbVars, seqVars, stopped, syncFault, llmVars>>

\* A run ends, by itself or at an abort checkpoint.
SyncSettle ==
  /\ Live /\ sync = "running"
  /\ sync' = "waiting"
  /\ UNCHANGED <<phase, exit, dbVars, seqVars, stopped, syncFault, llmVars>>

-----------------------------------------------------------------------------
(* LLM failover chain *)

\* createMultiLLMProvider answers: doInitialize stores the provider without
\* looking whether close() was called meanwhile.
LlmInitialized ==
  /\ Live /\ llm = "pending"
  /\ llm' = "ready" /\ provider' = "open"
  /\ UNCHANGED <<phase, exit, dbVars, seqVars, syncVars, llmClosed>>

\* The rejected promise stays cached; createToolContextAsync only logs it.
LlmInitFails ==
  /\ Live /\ llm = "pending"
  /\ llm' = "failed"
  /\ UNCHANGED <<phase, exit, dbVars, seqVars, syncVars, provider, llmClosed>>

CloseLlm ==
  /\ provider' = "none"
  /\ llmClosed' = (llm # "off")
  /\ UNCHANGED llm

-----------------------------------------------------------------------------
(* The shutdown coordinator *)

(* Faulty: the sync service is never told to stop. *)
StopSyncNever == UNCHANGED stopped

\* bg.stop(): abort at once and start no further run.
StopSync == stopped' = TRUE

(* Faulty: a second trigger does not find the sequence in flight. *)
TriggerUnlatched ==
  /\ phase = "serving" /\ triggers < MaxTriggers
  /\ triggers' = triggers + 1
  /\ shuttingDown' = TRUE
  /\ flushTimer' = FALSE
  /\ StopSync
  /\ sequence' = IF sequence = "idle" THEN "quiescing" ELSE "done"
  /\ UNCHANGED <<phase, exit, driver, db, mem, disk, persistFailed, sync,
                 syncFault, llmVars>>

\* transport.onclose, SIGTERM or SIGINT.  The first starts the sequence; a
\* later one waits for the same promise.
Trigger ==
  /\ phase = "serving" /\ triggers < MaxTriggers
  /\ triggers' = triggers + 1
  /\ IF sequence = "idle"
     THEN /\ shuttingDown' = TRUE
          /\ flushTimer' = FALSE
          /\ StopSync
          /\ sequence' = "quiescing"
     ELSE UNCHANGED <<shuttingDown, flushTimer, stopped, sequence>>
  /\ UNCHANGED <<phase, exit, driver, db, mem, disk, persistFailed, sync,
                 syncFault, llmVars>>

\* The steps between the two awaits of the sequence.
Teardown ==
  /\ Live /\ sequence = "quiescing"
  /\ CloseLlm
  /\ CloseDb
  /\ sequence' = "flushing"
  /\ UNCHANGED <<phase, exit, driver, mem, flushTimer, shuttingDown, triggers,
                 syncVars>>

\* quiesceBackgroundSync: the stop() promise settles once no run is in flight.
QuiesceSettles ==
  /\ sync \in {"off", "waiting"}
  /\ Teardown

(* Faulty: the stop() promise is not raced against a timer. *)
QuiesceUnbounded ==
  /\ sync \in {"off", "waiting"}
  /\ Teardown

\* ... or its bound elapses first and the sequence goes on regardless.
QuiesceTimesOut ==
  /\ sync \in {"running", "hung"}
  /\ Teardown

\* doFlushTelemetry: the PostHog client answers, throws, or its timer fires.
FlushTelemetry ==
  /\ Live /\ sequence = "flushing"
  /\ sequence' = "done"
  /\ UNCHANGED <<phase, exit, dbVars, shuttingDown, triggers, syncVars, llmVars>>

\* .finally(onDone): process.exit(0).
ExitOk ==
  /\ Live /\ sequence = "done"
  /\ End("ok")
  /\ UNCHANGED <<dbVars, seqVars, syncVars, llmVars>>

-----------------------------------------------------------------------------
(* Ends that no coordinator sees *)

\* uncaughtException or unhandledRejection: log and exit(1) at once.
Uncaught ==
  /\ Live
  /\ End("error")
  /\ UNCHANGED <<dbVars, seqVars, syncVars, llmVars>>

\* SIGKILL at any time; before the handlers are registered, any signal.
Killed ==
  /\ Live
  /\ End("killed")
  /\ UNCHANGED <<dbVars, seqVars, syncVars, llmVars>>

Next ==
  \/ CreateContext \/ CreateContextFails \/ Serve
  \/ ToolWrite \/ Autosave
  \/ SyncStart \/ SyncWrite \/ SyncAwait \/ SyncSettle
  \/ LlmInitialized \/ LlmInitFails
  \/ Trigger \/ QuiesceSettles \/ QuiesceTimesOut \/ FlushTelemetry \/ ExitOk
  \/ Uncaught \/ Killed

Spec == Init /\ [][Next]_vars

\* The timers that bound quiesce and flush always fire, and the event loop runs
\* the continuation of a settled promise.  Nothing is assumed of the sync, of
\* the LLM providers, of the tool calls or of the host.
Fairness ==
  /\ WF_vars(QuiesceSettles \/ QuiesceTimesOut)
  /\ WF_vars(FlushTelemetry)
  /\ WF_vars(ExitOk)

FairSpec == Spec /\ Fairness
=============================================================================
