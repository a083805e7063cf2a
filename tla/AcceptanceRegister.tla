------------------------- MODULE AcceptanceRegister -------------------------
(***************************************************************************)
(* What the acceptance store promises: a register of accepted findings.    *)
(* A request to accept or to revoke takes effect at one instant, entirely  *)
(* and once, and is then reported as applied; or it has no effect and is   *)
(* reported as refused.                                                    *)
(***************************************************************************)
EXTENDS Naturals

CONSTANTS Procs, NoRequest,
          Requests,         \* the requests there can be
          Result(_, _)      \* the acceptances after a request, from those before

VARIABLES active,    \* the acceptances in force
          pending,   \* the request each process has made and not heard of
          outcome,   \* of its last request: none, applied or refused
          crossed,   \* a writer without the lock came in between
          outside    \* changes made by such writers, by hand, by damage

vars == <<active, pending, outcome, crossed, outside>>

Init ==
  /\ active = {}
  /\ pending = [p \in Procs |-> NoRequest]
  /\ outcome = [p \in Procs |-> "none"]
  /\ crossed = [p \in Procs |-> FALSE]
  /\ outside = 0

Ask(p) ==
  /\ pending[p] = NoRequest /\ pending'[p] \in Requests
  /\ pending' = [pending EXCEPT ![p] = pending'[p]]
  /\ outcome' = [outcome EXCEPT ![p] = "none"]
  /\ crossed' = [crossed EXCEPT ![p] = FALSE]
  /\ UNCHANGED <<active, outside>>

\* Nothing is promised about the rest of the store to a request that was
\* crossed by a writer without the lock.
Apply(p) ==
  /\ pending[p] # NoRequest
  /\ crossed[p] \/ active' = Result(pending[p], active)
  /\ pending' = [pending EXCEPT ![p] = NoRequest]
  /\ outcome' = [outcome EXCEPT ![p] = "applied"]
  /\ UNCHANGED <<crossed, outside>>

Refuse(p) ==
  /\ pending[p] # NoRequest
  /\ pending' = [pending EXCEPT ![p] = NoRequest]
  /\ outcome' = [outcome EXCEPT ![p] = "refused"]
  /\ UNCHANGED <<active, crossed, outside>>

\* A process that dies leaves its request undone; if it has been applied it stays so.
Vanish(p) ==
  /\ pending' = [pending EXCEPT ![p] = NoRequest]
  /\ outcome' = [outcome EXCEPT ![p] = "none"]
  /\ UNCHANGED <<active, crossed, outside>>

Outside ==
  /\ outside' = outside + 1
  /\ \A p \in Procs : crossed[p] => crossed'[p]
  /\ crossed' \in [Procs -> BOOLEAN]
  /\ UNCHANGED <<pending, outcome>>

Next ==
  \/ \E p \in Procs : Ask(p) \/ Apply(p) \/ Refuse(p) \/ Vanish(p)
  \/ Outside

Spec == Init /\ [][Next]_vars
=============================================================================
