-------------------------- MODULE AcceptanceStore --------------------------
(***************************************************************************)
(* The security-acceptance store: accepting and revoking findings in one   *)
(* file that several processes share.                                      *)
(*                                                                         *)
(* A call is synchronous, so only other processes come between its steps.  *)
(* It takes the owned lock, loads the file, and writes it back as a whole. *)
(* Readers need no lock.  A file that is damaged or absent loads as empty. *)
(***************************************************************************)
EXTENDS Integers, FiniteSets

CONSTANTS
  Procs,       \* processes: a CLI call or an audit each
  Keys,        \* what an acceptance is for (see SecurityAudit)
  Rulesets,    \* versions of the scanner
  RulesetOf,   \* the version a key was derived under
  MaxRecords,
  Free, Orphan, NoRequest,
  MaxActivity  \* bound: calls and audits started, and changes by others

ASSUME StoreAssumption ==
  /\ RulesetOf \in [Keys -> Rulesets]
  /\ MaxRecords \in Nat \ {0}
  /\ Free \notin Procs /\ Orphan \notin Procs /\ Free # Orphan
  /\ MaxActivity \in Nat

Records == [key : Keys, acceptedAt : Nat]
Requests == [action : {"accept", "revoke"}, key : Keys, at : Nat, ruleset : Rulesets]

ASSUME NoRequestAssumption == NoRequest \notin Requests

VARIABLES
  file,      \* the store on disk
  lock,      \* Free, its owner, or Orphan when the owner died with it
  pc,        \* where each process stands
  request,   \* what it was asked
  loaded,    \* the records it loaded under the lock
  outcome,   \* the answer to its last request
  crossed,   \* history: the file was changed without the lock while it held it
  standing,  \* history: keys accepted and not revoked since
  clock,     \* time of acceptances
  started,   \* calls and audits started
  outside    \* changes made without the lock

storeVars == <<file, lock, pc, request, loaded, outcome, crossed, standing, clock,
               started, outside>>

NoFile == [form |-> "absent", records |-> {}]

StoreInit ==
  /\ file = NoFile /\ lock = Free
  /\ pc = [p \in Procs |-> "idle"]
  /\ request = [p \in Procs |-> NoRequest]
  /\ loaded = [p \in Procs |-> {}]
  /\ outcome = [p \in Procs |-> "none"]
  /\ crossed = [p \in Procs |-> FALSE]
  /\ standing = {} /\ clock = 0 /\ started = 0 /\ outside = 0

-----------------------------------------------------------------------------

CanStart == started + outside < MaxActivity

\* The MAX_RECORDS newest.
Newest(R) == {r \in R : Cardinality({q \in R : q.acceptedAt > r.acceptedAt}) < MaxRecords}

\* loadAcceptanceStore: whatever is wrong with the file, it reads as empty.
Load(f) == IF f.form = "ok" THEN Newest(f.records) ELSE {}

\* Acceptances under another version of the scanner are removed at every write.
WithoutExpired(R, ruleset) == {r \in R : RulesetOf[r.key] = ruleset}

\* What a request makes of the records it found.
Mutate(r, R) ==
  {x \in R : x.key # r.key}
    \cup (IF r.action = "accept" THEN {[key |-> r.key, acceptedAt |-> r.at]} ELSE {})

Result(r, R) == Newest(WithoutExpired(Mutate(r, R), r.ruleset))

Goto(p, place) == pc' = [pc EXCEPT ![p] = place]

\* The request with the answer it is going to get.
Settle(p, answer) ==
  /\ outcome' = [outcome EXCEPT ![p] = answer]
  /\ request' = [request EXCEPT ![p] = NoRequest]

-----------------------------------------------------------------------------

\* The caller accepts a finding its own scanner reported, or revokes any key.
\* (The read before the lock only feeds a warning.)
Ask(p, action, key, ruleset) ==
  /\ pc[p] = "idle" /\ CanStart
  /\ action = "accept" => RulesetOf[key] = ruleset
  /\ request' = [request EXCEPT ![p] =
                   [action |-> action, key |-> key, at |-> clock, ruleset |-> ruleset]]
  /\ clock' = clock + 1 /\ started' = started + 1
  /\ outcome' = [outcome EXCEPT ![p] = "none"]
  /\ crossed' = [crossed EXCEPT ![p] = FALSE]
  /\ Goto(p, "waiting")
  /\ UNCHANGED <<file, lock, loaded, standing, outside>>

(* Faulty: loads the file without the lock. *)
EnterUnlocked(p) ==
  /\ pc[p] = "waiting"
  /\ lock' = p /\ loaded' = [loaded EXCEPT ![p] = Load(file)] /\ Goto(p, "loaded")
  /\ UNCHANGED <<file, request, outcome, crossed, standing, clock, started, outside>>

\* acquireOwnedLock, and the load under it.  A lock whose owner died is taken over.
Enter(p) ==
  /\ pc[p] = "waiting" /\ lock \in {Free, Orphan}
  /\ lock' = p /\ loaded' = [loaded EXCEPT ![p] = Load(file)] /\ Goto(p, "loaded")
  /\ UNCHANGED <<file, request, outcome, crossed, standing, clock, started, outside>>

(* Faulty: the lock is released in a finally that covers its acquisition. *)

\* Five seconds without the lock: the call throws.
TimeOut(p) ==
  /\ pc[p] = "waiting" /\ lock \notin {Free, Orphan}
  /\ Settle(p, "refused") /\ Goto(p, "idle")
  /\ UNCHANGED <<file, lock, loaded, crossed, standing, clock, started, outside>>

Found(p) == \E r \in loaded[p] : r.key = request[p].key

KeyNotFound(p) ==
  /\ pc[p] = "loaded" /\ request[p].action = "revoke" /\ ~Found(p)
  /\ Settle(p, "refused") /\ Goto(p, "leaving")
  /\ UNCHANGED <<file, lock, loaded, crossed, standing, clock, started, outside>>

\* The records are changed, cleared of the expired ones, trimmed, and written
\* in one rename.
Write(p) ==
  /\ pc[p] = "loaded" /\ (request[p].action = "revoke" => Found(p))
  /\ file' = [form |-> "ok", records |-> Result(request[p], loaded[p])]
  /\ standing' = IF request[p].action = "accept" THEN standing \cup {request[p].key}
                 ELSE standing \ {request[p].key}
  /\ Settle(p, "applied") /\ Goto(p, "leaving")
  /\ UNCHANGED <<lock, loaded, crossed, clock, started, outside>>

WriteFails(p) ==
  /\ pc[p] = "loaded" /\ (request[p].action = "revoke" => Found(p))
  /\ Settle(p, "refused") /\ Goto(p, "leaving")
  /\ UNCHANGED <<file, lock, loaded, crossed, standing, clock, started, outside>>

Release(p) ==
  /\ pc[p] = "leaving"
  /\ lock' = Free /\ loaded' = [loaded EXCEPT ![p] = {}] /\ Goto(p, "idle")
  /\ UNCHANGED <<file, request, outcome, crossed, standing, clock, started, outside>>

\* The process dies; what it held stays locked until someone finds it dead.
Die(p) ==
  /\ pc[p] \in {"waiting", "loaded", "leaving"}
  /\ Settle(p, "none") /\ Goto(p, "idle")
  /\ lock' = IF lock = p THEN Orphan ELSE lock
  /\ loaded' = [loaded EXCEPT ![p] = {}]
  /\ UNCHANGED <<file, crossed, standing, clock, started, outside>>

\* The file is deleted, damaged, or edited by hand with a new checksum.
Tamper ==
  /\ CanStart /\ outside' = outside + 1
  /\ \/ file' = NoFile
     \/ file' = [form |-> "damaged", records |-> {}]
     \/ \E R \in SUBSET file.records : file' = [form |-> "ok", records |-> R]
  /\ crossed' = [p \in Procs |-> crossed[p] \/ pc[p] = "loaded"]
  /\ UNCHANGED <<lock, pc, request, loaded, outcome, standing, clock, started>>

StoreStep(p) == \/ Enter(p) \/ TimeOut(p) \/ KeyNotFound(p) \/ Write(p) \/ WriteFails(p)
                \/ Release(p) \/ Die(p)

Register == INSTANCE AcceptanceRegister WITH
              active <- Load(file), pending <- request, Result <- Result
=============================================================================
