------------------------ MODULE SecurityAudit_proofs ------------------------
(***************************************************************************)
(* The theorems of SecurityAudit, for any number of processes, audits,     *)
(* skills, findings and versions of the scanner.                           *)
(***************************************************************************)
EXTENDS SecurityAudit, FiniteSetTheorems, TLAPS

\* A process that has loaded the file holds the lock, and what it has loaded is
\* what the file holds, unless the file was changed without the lock.
StoreInv ==
  /\ StoreTypeOK
  /\ IsFiniteSet(file.records)
  /\ file.form # "ok" => file.records = {}
  /\ \A p \in Procs :
       /\ request[p] # NoRequest <=> pc[p] \in {"waiting", "loaded"}
       /\ pc[p] \in {"loaded", "leaving"} <=> lock = p
       /\ IsFiniteSet(loaded[p])
       /\ pc[p] = "loaded" /\ ~crossed[p] => loaded[p] = Load(file)
       /\ pc[p] = "loaded" => \A r \in loaded[p] : r.key \in standing
  /\ \A r \in file.records : r.key \in standing

-----------------------------------------------------------------------------

\* The records that are kept

LEMMA NewestSubset ==
  ASSUME NEW R
  PROVE  Newest(R) \subseteq R
BY DEF Newest

\* Trimming what has been trimmed removes nothing: the file is in force as written.
LEMMA NewestIdempotent ==
  ASSUME NEW R, IsFiniteSet(R)
  PROVE  Newest(Newest(R)) = Newest(R)
<1> SUFFICES ASSUME NEW r \in Newest(R)
             PROVE  r \in Newest(Newest(R))
  BY NewestSubset
<1> DEFINE Later(S) == {q \in S : q.acceptedAt > r.acceptedAt}
<1>1. Later(Newest(R)) \subseteq Later(R)
  BY NewestSubset
<1>2. IsFiniteSet(Later(R))
  BY FS_Subset
<1>3. Cardinality(Later(Newest(R))) <= Cardinality(Later(R)) /\ IsFiniteSet(Later(Newest(R)))
  BY <1>1, <1>2, FS_Subset
<1>4. Cardinality(Later(R)) \in Nat /\ Cardinality(Later(Newest(R))) \in Nat
  BY <1>2, <1>3, FS_CardinalityType
<1>5. Cardinality(Later(R)) < MaxRecords
  BY DEF Newest
<1>6. Cardinality(Later(Newest(R))) < MaxRecords
  BY <1>3, <1>4, <1>5, StoreAssumption
<1> QED
  BY <1>6 DEF Newest

LEMMA MutateType ==
  ASSUME NEW R \in SUBSET Records, IsFiniteSet(R), NEW r \in Requests
  PROVE  /\ Result(r, R) \in SUBSET Records /\ IsFiniteSet(Result(r, R))
         /\ Newest(Result(r, R)) = Result(r, R)
         /\ \A x \in Result(r, R) :
              \/ x \in R /\ x.key # r.key
              \/ r.action = "accept" /\ x.key = r.key
<1> DEFINE added == [key |-> r.key, acceptedAt |-> r.at]
           kept == {x \in R : x.key # r.key}
<1>1. added \in Records
  BY DEF Requests, Records
<1>2. Mutate(r, R) \subseteq kept \cup {added}
  BY DEF Mutate
<1>3. IsFiniteSet(kept \cup {added})
  BY FS_Subset, FS_AddElement
<1>4. WithoutExpired(Mutate(r, R), r.ruleset) \subseteq Mutate(r, R)
  BY DEF WithoutExpired
<1>5. IsFiniteSet(WithoutExpired(Mutate(r, R), r.ruleset))
  BY <1>2, <1>3, <1>4, FS_Subset
<1>6. Result(r, R) \subseteq Mutate(r, R) /\ IsFiniteSet(Result(r, R))
  BY <1>4, <1>5, NewestSubset, FS_Subset DEF Result
<1>7. Newest(Result(r, R)) = Result(r, R)
  BY <1>5, NewestIdempotent DEF Result
<1>8. \A x \in Mutate(r, R) : \/ x \in R /\ x.key # r.key
                              \/ r.action = "accept" /\ x.key = r.key
  BY DEF Mutate
<1> QED
  BY <1>1, <1>2, <1>6, <1>7, <1>8

LEMMA LoadType ==
  ASSUME StoreTypeOK, IsFiniteSet(file.records)
  PROVE  /\ Load(file) \in SUBSET Records /\ IsFiniteSet(Load(file))
         /\ Load(file) \subseteq file.records
<1>1. file.records \in SUBSET Records
  BY DEF StoreTypeOK
<1>2. Newest(file.records) \subseteq file.records
  BY NewestSubset
<1> QED
  BY <1>1, <1>2, FS_Subset, FS_EmptySet DEF Load
-----------------------------------------------------------------------------

\* The store

LEMMA StoreInitial == StoreInit => StoreInv
BY FS_EmptySet, StoreAssumption DEF StoreInit, StoreInv, StoreTypeOK, NoFile

LEMMA AskKeeps ==
  ASSUME StoreInv, NEW p \in Procs, NEW k \in Keys, NEW r \in Rulesets,
         NEW action \in {"accept", "revoke"}, Ask(p, action, k, r)
  PROVE  StoreInv'
<1>1. [action |-> action, key |-> k, at |-> clock, ruleset |-> r] \in Requests
  BY DEF StoreInv, StoreTypeOK, Requests
<1> QED
  BY <1>1, NoRequestAssumption DEF StoreInv, StoreTypeOK, Ask, Goto

LEMMA EnterKeeps ==
  ASSUME StoreInv, NEW p \in Procs, Enter(p)
  PROVE  StoreInv'
<1>1. /\ Load(file) \in SUBSET Records /\ IsFiniteSet(Load(file))
      /\ \A x \in Load(file) : x.key \in standing
  BY LoadType DEF StoreInv
<1>2. StoreTypeOK'
  BY <1>1 DEF StoreInv, StoreTypeOK, Enter, Goto
<1>3. file' = file /\ Load(file)' = Load(file)
  BY DEF Enter
<1>4. /\ pc' = [pc EXCEPT ![p] = "loaded"] /\ loaded' = [loaded EXCEPT ![p] = Load(file)]
      /\ lock' = p /\ lock \notin Procs
  BY StoreAssumption DEF Enter, Goto
<1> QED
  BY <1>1, <1>2, <1>3, <1>4 DEF StoreInv, StoreTypeOK, Enter

LEMMA WriteKeeps ==
  ASSUME StoreInv, NEW p \in Procs, Write(p)
  PROVE  StoreInv' /\ (crossed[p] \/ Load(file') = Result(request[p], Load(file)))
<1> DEFINE written == Result(request[p], loaded[p])
<1>1. request[p] \in Requests /\ loaded[p] \in SUBSET Records /\ IsFiniteSet(loaded[p])
  BY DEF StoreInv, StoreTypeOK, Write
<1>2. /\ written \in SUBSET Records /\ IsFiniteSet(written) /\ Newest(written) = written
      /\ \A x \in written : \/ x \in loaded[p] /\ x.key # request[p].key
                            \/ request[p].action = "accept" /\ x.key = request[p].key
  BY <1>1, MutateType
<1>3. file'.records = written /\ file'.form = "ok" /\ file' = [form |-> "ok", records |-> written]
  BY DEF Write
<1>4. Load(file') = written
  BY <1>2, <1>3 DEF Load
<1>5. ~crossed[p] => loaded[p] = Load(file)
  BY DEF StoreInv, Write
<1>6. request[p].key \in Keys
  BY <1>1 DEF Requests
<1>7. StoreTypeOK'
  BY <1>2, <1>3, <1>6 DEF StoreInv, StoreTypeOK, Write, Settle, Goto
<1>8. \A x \in written : x.key \in standing'
  <2>1. \A x \in loaded[p] : x.key \in standing
    BY DEF StoreInv, Write
  <2>2. CASE request[p].action = "accept"
    <3>1. standing' = standing \cup {request[p].key}
      BY <2>2 DEF Write
    <3> QED
      BY <1>2, <2>1, <3>1
  <2>3. CASE request[p].action # "accept"
    <3>1. standing' = standing \ {request[p].key}
      BY <2>3 DEF Write
    <3> QED
      BY <1>2, <2>1, <2>3, <3>1
  <2> QED
    BY <2>2, <2>3
<1>9. \A q \in Procs : q # p => pc'[q] = pc[q] /\ pc[q] # "loaded"
  BY DEF StoreInv, StoreTypeOK, Write, Goto
<1>10. \A q \in Procs :
         /\ request'[q] # NoRequest <=> pc'[q] \in {"waiting", "loaded"}
         /\ pc'[q] \in {"loaded", "leaving"} <=> lock' = q
         /\ IsFiniteSet(loaded'[q]) /\ pc'[q] # "loaded"
  BY <1>9 DEF StoreInv, StoreTypeOK, Write, Settle, Goto
<1>11. StoreInv'
  BY <1>2, <1>3, <1>7, <1>8, <1>10 DEF StoreInv
<1> QED
  BY <1>4, <1>5, <1>11

LEMMA StoreStepKeeps ==
  ASSUME StoreInv, NEW p \in Procs, StoreStep(p)
  PROVE  StoreInv'
<1>1. CASE Enter(p)
  BY <1>1, EnterKeeps
<1>2. CASE TimeOut(p)
  BY <1>2 DEF StoreInv, StoreTypeOK, TimeOut, Settle, Goto, Load
<1>3. CASE KeyNotFound(p)
  BY <1>3 DEF StoreInv, StoreTypeOK, KeyNotFound, Settle, Goto, Load
<1>4. CASE Write(p)
  BY <1>4, WriteKeeps
<1>5. CASE WriteFails(p)
  BY <1>5 DEF StoreInv, StoreTypeOK, WriteFails, Settle, Goto, Load
<1>6. CASE Release(p)
  BY <1>6, FS_EmptySet, StoreAssumption DEF StoreInv, StoreTypeOK, Release, Goto, Load
<1>7. CASE Die(p)
  BY <1>7, FS_EmptySet, StoreAssumption DEF StoreInv, StoreTypeOK, Die, Settle, Goto, Load
<1> QED
  BY <1>1, <1>2, <1>3, <1>4, <1>5, <1>6, <1>7 DEF StoreStep

LEMMA TamperKeeps ==
  ASSUME StoreInv, Tamper
  PROVE  StoreInv'
<1>1. \E R \in SUBSET file.records, form \in {"ok", "absent", "damaged"} :
        file' = [form |-> form, records |-> R] /\ (form # "ok" => R = {})
  BY DEF Tamper, NoFile
<1>2. PICK R \in SUBSET file.records, form \in {"ok", "absent", "damaged"} :
        file' = [form |-> form, records |-> R] /\ (form # "ok" => R = {})
  BY <1>1
<1>3. IsFiniteSet(R) /\ R \in SUBSET Records
  BY FS_Subset DEF StoreInv, StoreTypeOK
<1>4. file'.records = R /\ file'.form = form
  BY <1>2
<1>5. StoreTypeOK'
  BY <1>2, <1>3 DEF StoreInv, StoreTypeOK, Tamper
<1> QED
  BY <1>2, <1>3, <1>4, <1>5 DEF StoreInv, StoreTypeOK, Tamper

\* No step of an audit touches the store.
LEMMA StoreUntouched ==
  ASSUME StoreInv, UNCHANGED <<file, lock, pc, request, loaded, outcome, crossed, standing,
                               clock>>, started' \in Nat, outside' \in Nat
  PROVE  StoreInv'
BY DEF StoreInv, StoreTypeOK, Load

\* The steps of audits and of what they read.
AuditStep ==
  \/ \E a \in Audits : \/ \E b \in Bars, lost \in SUBSET Skills : LoadAcceptances(a, b, lost)
                       \/ LoadBaseline(a)
                       \/ \E s \in Skills : Scan(a, s) \/ Preserve(a, s)
                       \/ SaveBaseline(a) \/ EndWithoutSave(a)
  \/ \E s \in Skills : SkillChanges(s)
  \/ BaselineLost

LEMMA AuditStepsLeaveStore ==
  ASSUME StoreInv, AuditStep
  PROVE  /\ UNCHANGED <<file, lock, pc, request, loaded, outcome, crossed, standing, clock>>
         /\ started' \in Nat /\ outside' \in {outside, outside + 1}
<1> USE DEF StoreInv, StoreTypeOK, storeVars
<1>1. ASSUME NEW a \in Audits, NEW b \in Bars, NEW lost \in SUBSET Skills,
             LoadAcceptances(a, b, lost)
      PROVE  /\ UNCHANGED <<file, lock, pc, request, loaded, outcome, crossed, standing, clock>>
             /\ started' \in Nat /\ outside' = outside
  BY <1>1 DEF LoadAcceptances
<1>2. ASSUME NEW a \in Audits, NEW s \in Skills,
             LoadBaseline(a) \/ Scan(a, s) \/ Preserve(a, s) \/ SaveBaseline(a)
               \/ EndWithoutSave(a)
      PROVE  UNCHANGED storeVars
  BY <1>2 DEF LoadBaseline, Scan, Preserve, SaveBaseline, EndWithoutSave, End
<1>3. ASSUME NEW a \in Audits, LoadBaseline(a) \/ SaveBaseline(a) \/ EndWithoutSave(a)
      PROVE  UNCHANGED storeVars
  BY <1>3 DEF LoadBaseline, SaveBaseline, EndWithoutSave, End
<1>4. ASSUME NEW s \in Skills, SkillChanges(s)
      PROVE  /\ UNCHANGED <<file, lock, pc, request, loaded, outcome, crossed, standing, clock>>
             /\ started' = started /\ outside' = outside + 1
  BY <1>4 DEF SkillChanges
<1>5. ASSUME BaselineLost
      PROVE  /\ UNCHANGED <<file, lock, pc, request, loaded, outcome, crossed, standing, clock>>
             /\ started' = started /\ outside' = outside + 1
  BY <1>5 DEF BaselineLost
<1> QED
  BY <1>1, <1>2, <1>3, <1>4, <1>5 DEF AuditStep

LEMMA StoreNextKeeps ==
  ASSUME StoreInv, [Next]_vars
  PROVE  StoreInv'
<1>1. CASE StoreNext
  BY <1>1, AskKeeps, StoreStepKeeps, TamperKeeps DEF StoreNext
<1>2. CASE AuditStep
  <2>1. outside' \in Nat
    BY <1>2, AuditStepsLeaveStore DEF StoreInv, StoreTypeOK
  <2> QED
    BY <1>2, <2>1, AuditStepsLeaveStore, StoreUntouched
<1>3. CASE UNCHANGED vars
  BY <1>3, StoreUntouched DEF vars, storeVars, StoreInv, StoreTypeOK
<1> QED
  BY <1>1, <1>2, <1>3 DEF Next, AuditStep

-----------------------------------------------------------------------------

\* The store implements the register

LEMMA StepIsRegisterStep ==
  ASSUME StoreInv, [Next]_vars
  PROVE  [Register!Next]_(Register!vars)
<1> USE DEF Register!vars
<1>1. ASSUME NEW p \in Procs, NEW k \in Keys, NEW r \in Rulesets,
             NEW action \in {"accept", "revoke"}, Ask(p, action, k, r)
      PROVE  Register!Ask(p)
  <2>1. [action |-> action, key |-> k, at |-> clock, ruleset |-> r] \in Requests
    BY DEF StoreInv, StoreTypeOK, Requests
  <2>2. request'[p] \in Requests /\ request' = [request EXCEPT ![p] = request'[p]]
    BY <1>1, <2>1 DEF Ask, StoreInv, StoreTypeOK
  <2>3. request[p] = NoRequest
    BY <1>1 DEF Ask, StoreInv
  <2> QED
    BY <1>1, <2>2, <2>3 DEF Ask, Register!Ask, Load
<1>2. ASSUME NEW p \in Procs, Enter(p) \/ Release(p)
      PROVE  UNCHANGED Register!vars
  BY <1>2 DEF Enter, Release, Load
<1>3. ASSUME NEW p \in Procs, TimeOut(p) \/ KeyNotFound(p) \/ WriteFails(p)
      PROVE  Register!Refuse(p)
  <2>1. request[p] # NoRequest
    BY <1>3 DEF TimeOut, KeyNotFound, WriteFails, StoreInv
  <2>2. Settle(p, "refused") /\ UNCHANGED <<file, crossed, outside>>
    BY <1>3 DEF TimeOut, KeyNotFound, WriteFails
  <2> QED
    BY <2>1, <2>2 DEF Settle, Register!Refuse, Load
<1>4. ASSUME NEW p \in Procs, Write(p)
      PROVE  Register!Apply(p)
  <2>1. request[p] # NoRequest
    BY <1>4 DEF Write, StoreInv
  <2>2. crossed[p] \/ Load(file') = Result(request[p], Load(file))
    BY <1>4, WriteKeeps
  <2>3. Settle(p, "applied") /\ UNCHANGED <<crossed, outside>>
    BY <1>4 DEF Write
  <2> QED
    BY <2>1, <2>2, <2>3 DEF Settle, Register!Apply
<1>5. ASSUME NEW p \in Procs, Die(p)
      PROVE  Register!Vanish(p)
  BY <1>5 DEF Die, Settle, Register!Vanish, Load
<1>6. ASSUME Tamper
      PROVE  Register!Outside
  <2>1. crossed' \in [Procs -> BOOLEAN] /\ \A p \in Procs : crossed[p] => crossed'[p]
    BY <1>6 DEF Tamper, StoreInv, StoreTypeOK
  <2> QED
    BY <1>6, <2>1 DEF Tamper, Register!Outside
<1>7. CASE StoreNext
  BY <1>1, <1>2, <1>3, <1>4, <1>5, <1>6, <1>7 DEF StoreNext, StoreStep, Register!Next
<1>8. CASE AuditStep
  <2>1. /\ UNCHANGED <<file, request, outcome, crossed>>
        /\ outside' \in {outside, outside + 1}
    BY <1>8, AuditStepsLeaveStore
  <2>2. CASE outside' = outside
    BY <2>1, <2>2 DEF Load
  <2>3. CASE outside' = outside + 1
    BY <2>1, <2>3 DEF Register!Outside, Register!Next, Load, StoreInv, StoreTypeOK
  <2> QED
    BY <2>1, <2>2, <2>3
<1>9. CASE UNCHANGED vars
  BY <1>9 DEF vars, storeVars, Load
<1> QED
  BY <1>7, <1>8, <1>9 DEF Next, AuditStep

LEMMA StoreAlways == Spec => []StoreInv
<1>1. Init => StoreInv
  BY StoreInitial DEF Init
<1> QED
  BY <1>1, StoreNextKeeps, PTL DEF Spec

\* Each accept and revoke takes effect at one instant, on what is in force then,
\* or not at all, and its answer says which (mutateStoreUnderLock).
THEOREM StoreImplementsRegister == Spec => StoreIsRegister
<1>1. Init => Register!Init
  BY DEF Init, StoreInit, Register!Init, Load, NoFile
<1>2. StoreInv /\ [Next]_vars => [Register!Next]_(Register!vars)
  BY StepIsRegisterStep
<1> QED
  BY <1>1, <1>2, StoreAlways, PTL DEF Spec, StoreIsRegister, Register!Spec

-----------------------------------------------------------------------------

\* The audits

\* What an audit has read is in the baseline it builds and has the verdict of its
\* snapshot and prior; its snapshot was standing when it began.
Faithful(a, s) ==
  /\ seen[a][s] # Absent =>
       /\ next[a][s] = [content |-> seen[a][s], bar |-> bar[a]]
       /\ verdict[a][s] = Verdict(a, s, seen[a][s])
  /\ seen[a][s] = Absent => verdict[a][s] = "none"

\* A skill that is left has not been read, and before the scan all are left.
Early(a, s) ==
  /\ s \in todo[a] => seen[a][s] = Absent
  /\ stage[a] # "scanning" => todo[a] = inventory[a] /\ seen[a][s] = Absent

\* An audit that is alone has loaded what is known of a skill that none has missed since,
\* and carries it over.
Informed(a, s) ==
  stage[a] = "scanning" /\ alone[a] /\ known[s] # NoEntry /\ s \notin blind =>
    /\ prior[a][s] = known[s]
    /\ seen[a][s] = Absent /\ s \in inventory[a] \ todo[a] => next[a][s] = known[s]

AuditInv ==
  /\ AuditTypeOK
  /\ \A a \in Audits :
       /\ snapshot[a] \subseteq backed[a]
       /\ alone[a] => Running(a) /\ \A b \in Audits : Running(b) => b = a
       /\ \A s \in Skills : Faithful(a, s) /\ Informed(a, s) /\ Early(a, s)
  /\ \A s \in Skills : known[s] # NoEntry /\ s \notin blind => baseline[s] = known[s]

LEMMA AuditInitial == AuditInit => AuditInv
<1> SUFFICES ASSUME AuditInit
             PROVE  AuditInv
  OBVIOUS
<1>1. SomeBar \in Bars
  BY AuditAssumption DEF SomeBar
<1>2. AuditTypeOK
  BY <1>1 DEF AuditInit, AuditTypeOK, NoBaseline, Baselines
<1> QED
  BY <1>2 DEF AuditInit, AuditInv, Faithful, Informed, Early, NoBaseline, Running

LEMMA VerdictType ==
  ASSUME NEW a \in Audits, NEW s \in Skills, NEW c \in Contents
  PROVE  Verdict(a, s, c) \in {"none", "hostile", "malicious", "suspicious", "accepted"}
<1> DEFINE old == prior[a][s].content
<1>1. Compare(bar[a], old, c) \in {"none", "hostile", "suspicious"}
  <2>1. CASE Passes(bar[a], old) /\ ~Passes(bar[a], c)
    BY <2>1 DEF Compare
  <2>2. CASE ~(Passes(bar[a], old) /\ ~Passes(bar[a], c))
    BY <2>2 DEF Compare
  <2> QED
    BY <2>1, <2>2
<1>2. Transition(a, s, c) \in {"none", "hostile", "suspicious"}
  BY <1>1 DEF Transition
<1>3. CASE Transition(a, s, c) = "hostile"
  BY <1>3 DEF Verdict
<1>4. CASE Transition(a, s, c) # "hostile" /\ ~Passes(bar[a], c)
  BY <1>4 DEF Verdict
<1>5. CASE Transition(a, s, c) # "hostile" /\ Passes(bar[a], c)
  BY <1>2, <1>5 DEF Verdict
<1> QED
  BY <1>3, <1>4, <1>5

LEMMA LoadAcceptancesKeeps ==
  ASSUME StoreInv, AuditInv, NEW a \in Audits, NEW bb \in Bars, NEW lost \in SUBSET Skills,
         LoadAcceptances(a, bb, lost)
  PROVE  AuditInv'
<1> USE DEF AuditInv
<1>1. /\ {x.key : x \in Load(file)} \subseteq standing
      /\ standing \subseteq Keys
  BY LoadType DEF StoreInv, StoreTypeOK
<1>2. AuditTypeOK'
  BY <1>1 DEF LoadAcceptances, AuditTypeOK
<1>3. stage[a] = "idle" /\ stage' = [stage EXCEPT ![a] = "loaded"]
  BY DEF LoadAcceptances
<1>4. ASSUME NEW b \in Audits
      PROVE  /\ snapshot'[b] \subseteq backed'[b]
             /\ alone'[b] => Running(b)' /\ \A d \in Audits : Running(d)' => d = b
  BY <1>1, <1>3 DEF LoadAcceptances, AuditTypeOK, Running
<1>5. ASSUME NEW b \in Audits, NEW s \in Skills
      PROVE  Faithful(b, s)' /\ Informed(b, s)' /\ Early(b, s)'
  <2>1. CASE b = a
    BY <1>3, <2>1 DEF LoadAcceptances, AuditTypeOK, Faithful, Informed, Early
  <2>2. CASE b # a
    <3>1. /\ seen'[b] = seen[b] /\ next'[b] = next[b] /\ bar'[b] = bar[b]
          /\ verdict'[b] = verdict[b] /\ prior'[b] = prior[b] /\ snapshot'[b] = snapshot[b]
          /\ stage'[b] = stage[b] /\ inventory'[b] = inventory[b] /\ todo'[b] = todo[b]
          /\ known' = known /\ blind' = blind /\ (alone'[b] => alone[b])
      BY <2>2 DEF LoadAcceptances, AuditTypeOK
    <3>2. Verdict(b, s, seen[b][s])' = Verdict(b, s, seen[b][s])
      BY <3>1 DEF Verdict, Transition, Comparable, AllAccepted
    <3> QED
      BY <3>1, <3>2 DEF Faithful, Informed, Early
  <2> QED
    BY <2>1, <2>2
<1>6. known' = known /\ baseline' = baseline /\ blind' = blind
  BY DEF LoadAcceptances
<1> QED
  BY <1>2, <1>4, <1>5, <1>6

LEMMA LoadBaselineKeeps ==
  ASSUME AuditInv, NEW a \in Audits, LoadBaseline(a)
  PROVE  AuditInv'
<1> USE DEF AuditInv
<1>1. AuditTypeOK'
  BY DEF LoadBaseline, AuditTypeOK, NoBaseline, Baselines
<1>2. ASSUME NEW b \in Audits
      PROVE  /\ snapshot'[b] \subseteq backed'[b]
             /\ alone'[b] => Running(b)' /\ \A d \in Audits : Running(d)' => d = b
  BY DEF LoadBaseline, AuditTypeOK, Running
<1>3. ASSUME NEW b \in Audits, NEW s \in Skills
      PROVE  Faithful(b, s)' /\ Informed(b, s)' /\ Early(b, s)'
  <2>1. CASE b = a
    <3>0. seen[a][s] = Absent /\ verdict[a][s] = "none" /\ todo[a] = inventory[a]
      <4>1. stage[a] = "loaded" /\ Faithful(a, s) /\ Early(a, s)
        BY DEF LoadBaseline
      <4> QED
        BY <4>1 DEF Faithful, Early
    <3>1. /\ seen'[a][s] = Absent /\ verdict'[a][s] = "none" /\ prior'[a] = baseline
          /\ todo'[a] = inventory'[a] /\ stage'[a] = "scanning" /\ known' = known
          /\ blind' = blind
      BY <3>0 DEF LoadBaseline, AuditTypeOK
    <3>2. Faithful(a, s)' /\ Early(a, s)'
      BY <3>1 DEF Faithful, Early
    <3>3. Informed(a, s)'
      BY <3>1 DEF Informed
    <3> QED
      BY <2>1, <3>2, <3>3
  <2>2. CASE b # a
    <3>1. /\ seen'[b] = seen[b] /\ next'[b] = next[b] /\ bar'[b] = bar[b]
          /\ verdict'[b] = verdict[b] /\ prior'[b] = prior[b] /\ snapshot'[b] = snapshot[b]
          /\ stage'[b] = stage[b] /\ inventory'[b] = inventory[b] /\ todo'[b] = todo[b]
          /\ known' = known /\ alone'[b] = alone[b] /\ blind' = blind
      BY <2>2 DEF LoadBaseline, AuditTypeOK
    <3>2. Verdict(b, s, seen[b][s])' = Verdict(b, s, seen[b][s])
      BY <3>1 DEF Verdict, Transition, Comparable, AllAccepted
    <3> QED
      BY <3>1, <3>2 DEF Faithful, Informed, Early
  <2> QED
    BY <2>1, <2>2
<1>4. known' = known /\ baseline' = baseline /\ blind' = blind
  BY DEF LoadBaseline
<1> QED
  BY <1>1, <1>2, <1>3, <1>4

\* An audit whose own state stays, while what is known stays or is given up.
Undisturbed(b) ==
  /\ seen'[b] = seen[b] /\ next'[b] = next[b] /\ bar'[b] = bar[b]
  /\ verdict'[b] = verdict[b] /\ prior'[b] = prior[b] /\ snapshot'[b] = snapshot[b]
  /\ stage'[b] = stage[b] /\ inventory'[b] = inventory[b] /\ todo'[b] = todo[b]
  /\ alone'[b] => alone[b]
  /\ alone[b] /\ stage[b] = "scanning" =>
       blind' = blind /\ \A s \in Skills : known'[s] \in {known[s], NoEntry}

LEMMA UndisturbedKeeps ==
  ASSUME NEW b \in Audits, NEW s \in Skills, Faithful(b, s), Informed(b, s), Early(b, s),
         Undisturbed(b)
  PROVE  Faithful(b, s)' /\ Informed(b, s)' /\ Early(b, s)'
<1>1. Verdict(b, s, seen[b][s])' = Verdict(b, s, seen[b][s])
  BY DEF Undisturbed, Verdict, Transition, Comparable, AllAccepted
<1> QED
  BY <1>1 DEF Undisturbed, Faithful, Informed, Early

LEMMA ScanKeeps ==
  ASSUME AuditInv, NEW a \in Audits, NEW s \in Skills, Scan(a, s)
  PROVE  AuditInv'
<1> USE DEF AuditInv
<1>1. /\ content[s] \in Contents /\ bar[a] \in Bars /\ stage[a] = "scanning"
      /\ Verdict(a, s, content[s]) \in {"none", "hostile", "malicious", "suspicious", "accepted"}
  BY VerdictType DEF Scan, AuditTypeOK
<1>2. [content |-> content[s], bar |-> bar[a]] \in Entries
  BY <1>1 DEF Entries
<1>3. AuditTypeOK'
  BY <1>1, <1>2 DEF Scan, AuditTypeOK, Baselines
<1>4. UNCHANGED <<content, baseline, stage, bar, snapshot, prior, inventory, alone, backed,
                  missed, known, blind>>
  BY DEF Scan
<1>5. ASSUME NEW b \in Audits
      PROVE  /\ snapshot'[b] \subseteq backed'[b]
             /\ alone'[b] => Running(b)' /\ \A d \in Audits : Running(d)' => d = b
  BY <1>4 DEF Running
<1>6. ASSUME NEW b \in Audits, NEW x \in Skills, b # a \/ x # s
      PROVE  /\ seen'[b][x] = seen[b][x] /\ next'[b][x] = next[b][x]
             /\ verdict'[b][x] = verdict[b][x] /\ (x \in todo'[b] <=> x \in todo[b])
  BY <1>6 DEF Scan, AuditTypeOK, Baselines
<1>7. ASSUME NEW b \in Audits, NEW x \in Skills
      PROVE  Verdict(b, x, seen[b][x])' = Verdict(b, x, seen'[b][x])
  BY <1>4 DEF Verdict, Transition, Comparable, AllAccepted
<1>8. ASSUME NEW b \in Audits, NEW x \in Skills, b # a \/ x # s
      PROVE  Faithful(b, x)' /\ Informed(b, x)' /\ Early(b, x)'
  <2>1. Faithful(b, x) /\ Informed(b, x) /\ Early(b, x)
    OBVIOUS
  <2>2. Faithful(b, x)'
    BY <1>4, <1>6, <1>7, <1>8, <2>1 DEF Faithful
  <2>3. Informed(b, x)'
    BY <1>4, <1>6, <1>8, <2>1 DEF Informed
  <2>4. stage[b] # "scanning" => b # a
    BY <1>1
  <2>5. b # a => todo'[b] = todo[b]
    BY DEF Scan, AuditTypeOK
  <2>6. Early(b, x)'
    BY <1>4, <1>6, <1>8, <2>1, <2>4, <2>5 DEF Early
  <2> QED
    BY <2>2, <2>3, <2>6
<1>9. Faithful(a, s)' /\ Informed(a, s)' /\ Early(a, s)'
  <2>1. /\ seen'[a][s] = content[s] /\ content[s] # Absent
        /\ next'[a][s] = [content |-> content[s], bar |-> bar[a]]
        /\ verdict'[a][s] = Verdict(a, s, content[s]) /\ s \notin todo'[a]
    BY DEF Scan, AuditTypeOK, Baselines
  <2>2. Informed(a, s)
    OBVIOUS
  <2> QED
    BY <1>1, <1>4, <1>7, <2>1, <2>2 DEF Faithful, Informed, Early
<1> QED
  BY <1>3, <1>4, <1>5, <1>8, <1>9

LEMMA PreserveKeeps ==
  ASSUME AuditInv, NEW a \in Audits, NEW s \in Skills, Preserve(a, s)
  PROVE  AuditInv'
<1> USE DEF AuditInv
<1>1. stage[a] = "scanning" /\ prior[a][s] \in Entries \cup {NoEntry} /\ s \in todo[a]
  BY DEF Preserve, AuditTypeOK, Baselines
<1>2. AuditTypeOK'
  BY <1>1 DEF Preserve, AuditTypeOK, Baselines
<1>3. UNCHANGED <<content, baseline, stage, bar, snapshot, prior, inventory, seen, verdict,
                  alone, backed, missed, known, blind>>
  BY DEF Preserve
<1>4. ASSUME NEW b \in Audits, NEW x \in Skills, b # a \/ x # s
      PROVE  next'[b][x] = next[b][x] /\ (x \in todo'[b] <=> x \in todo[b])
  BY <1>4 DEF Preserve, AuditTypeOK, Baselines
<1>5. ASSUME NEW b \in Audits, NEW x \in Skills
      PROVE  Verdict(b, x, seen[b][x])' = Verdict(b, x, seen[b][x])
  BY <1>3 DEF Verdict, Transition, Comparable, AllAccepted
<1>6. next'[a][s] = prior[a][s]
  BY DEF Preserve, AuditTypeOK, Baselines
<1>7. ASSUME NEW b \in Audits, NEW x \in Skills
      PROVE  Faithful(b, x)' /\ Informed(b, x)' /\ Early(b, x)'
  <2>1. Faithful(b, x) /\ Informed(b, x) /\ Early(b, x)
    OBVIOUS
  <2>2. CASE b # a \/ x # s
    <3>1. stage[b] # "scanning" => todo'[b] = todo[b]
      BY <1>1 DEF Preserve, AuditTypeOK
    <3> QED
      BY <1>3, <1>4, <1>5, <2>1, <2>2, <3>1 DEF Faithful, Informed, Early
  <2>3. CASE b = a /\ x = s
    <3>1. s \notin todo'[a]
      BY DEF Preserve, AuditTypeOK
    <3> QED
      BY <1>1, <1>3, <1>6, <2>1, <2>3, <3>1 DEF Faithful, Informed, Early
  <2> QED
    BY <2>2, <2>3
<1>8. ASSUME NEW b \in Audits
      PROVE  /\ snapshot'[b] \subseteq backed'[b]
             /\ alone'[b] => Running(b)' /\ \A d \in Audits : Running(d)' => d = b
  BY <1>3 DEF Running
<1> QED
  BY <1>2, <1>3, <1>7, <1>8

\* After its end an audit holds nothing; the others do not notice.
LEMMA EndKeeps ==
  ASSUME AuditInv, NEW a \in Audits, Running(a), End(a), baseline' \in Baselines,
         known' \in Baselines, blind' \subseteq Skills,
         \A s \in Skills : known'[s] # NoEntry /\ s \notin blind' => baseline'[s] = known'[s],
         \A b \in Audits \ {a} : alone[b] => known' = known /\ blind' = blind
  PROVE  AuditInv'
<1> USE DEF AuditInv
<1>1. SomeBar \in Bars
  BY AuditAssumption DEF SomeBar
<1>2. AuditTypeOK'
  BY <1>1 DEF End, AuditTypeOK, NoBaseline, Baselines
<1>3. ASSUME NEW b \in Audits
      PROVE  /\ snapshot'[b] \subseteq backed'[b]
             /\ alone'[b] => Running(b)' /\ \A d \in Audits : Running(d)' => d = b
  BY DEF End, AuditTypeOK, Running
<1>4. ASSUME NEW b \in Audits, NEW s \in Skills
      PROVE  Faithful(b, s)' /\ Informed(b, s)' /\ Early(b, s)'
  <2>1. CASE b = a
    BY <2>1 DEF End, AuditTypeOK, Faithful, Informed, Early
  <2>2. CASE b # a
    <3>1. Undisturbed(b)
      BY <2>2 DEF End, AuditTypeOK, Undisturbed
    <3>2. Faithful(b, s) /\ Informed(b, s) /\ Early(b, s)
      OBVIOUS
    <3> QED
      BY <3>1, <3>2, UndisturbedKeeps
  <2> QED
    BY <2>1, <2>2
<1> QED
  BY <1>2, <1>3, <1>4

LEMMA SaveBaselineKeeps ==
  ASSUME AuditInv, NEW a \in Audits, SaveBaseline(a)
  PROVE  AuditInv'
<1> USE DEF AuditInv
<1>1. /\ stage[a] = "scanning" /\ Running(a) /\ todo[a] = {} /\ End(a)
      /\ baseline' = next[a] /\ known' = Learned(a)
      /\ blind' = {s \in blind \cup missed[a] : seen[a][s] = Absent}
  BY DEF SaveBaseline, Running
<1>2. baseline' \in Baselines
  BY <1>1 DEF AuditTypeOK
<1>3. ASSUME NEW s \in Skills
      PROVE  /\ known'[s] \in Entries \cup {NoEntry}
             /\ known'[s] # NoEntry /\ s \notin blind' => baseline'[s] = known'[s]
  <2>1. Faithful(a, s) /\ Informed(a, s)
    OBVIOUS
  <2>2. CASE ~alone[a]
    BY <1>1, <2>2 DEF Learned
  <2>3. CASE alone[a] /\ seen[a][s] # Absent
    <3>1. known'[s] = [content |-> seen[a][s], bar |-> bar[a]]
      BY <1>1, <2>3 DEF Learned
    <3>2. seen[a][s] \in Contents /\ bar[a] \in Bars
      BY <2>3 DEF AuditTypeOK
    <3> QED
      BY <1>1, <2>1, <2>3, <3>1, <3>2 DEF Entries, Faithful
  <2>4. CASE alone[a] /\ seen[a][s] = Absent
    <3>1. known'[s] = IF s \in inventory[a] \cup missed[a] THEN known[s] ELSE NoEntry
      BY <1>1, <2>4 DEF Learned
    <3>0. s \notin blind' => s \notin blind /\ s \notin missed[a]
      BY <1>1, <2>4
    <3>2. known[s] \in Entries \cup {NoEntry}
      BY DEF AuditTypeOK, Baselines
    <3> QED
      BY <1>1, <2>1, <2>4, <3>0, <3>1, <3>2 DEF Informed
  <2> QED
    BY <2>2, <2>3, <2>4
<1>4. known' \in Baselines
  BY <1>1, <1>3 DEF Learned, Baselines
<1>5. \A b \in Audits \ {a} : ~alone[b]
  BY <1>1
<1>6. blind' \subseteq Skills
  BY <1>1 DEF AuditTypeOK
<1> QED
  BY <1>1, <1>2, <1>3, <1>4, <1>5, <1>6, EndKeeps

LEMMA OthersKeep ==
  ASSUME AuditInv, AuditTypeOK', UNCHANGED <<alone, snapshot>>,
         \A b \in Audits : Undisturbed(b) /\ backed'[b] = backed[b],
         \A s \in Skills : known'[s] # NoEntry /\ s \notin blind' => baseline'[s] = known'[s]
  PROVE  AuditInv'
<1> USE DEF AuditInv
<1>1. ASSUME NEW b \in Audits
      PROVE  /\ snapshot'[b] \subseteq backed'[b]
             /\ alone'[b] => Running(b)' /\ \A d \in Audits : Running(d)' => d = b
  BY DEF Running, Undisturbed
<1>2. ASSUME NEW b \in Audits, NEW s \in Skills
      PROVE  Faithful(b, s)' /\ Informed(b, s)' /\ Early(b, s)'
  <2>1. Faithful(b, s) /\ Informed(b, s) /\ Early(b, s)
    OBVIOUS
  <2> QED
    BY <2>1, UndisturbedKeeps
<1> QED
  BY <1>1, <1>2

LEMMA AuditStepKeeps ==
  ASSUME StoreInv, AuditInv, AuditStep
  PROVE  AuditInv'
<1>1. ASSUME NEW a \in Audits, EndWithoutSave(a)
      PROVE  AuditInv'
  BY <1>1, EndKeeps DEF EndWithoutSave, AuditInv, AuditTypeOK
<1>2. ASSUME NEW s \in Skills, SkillChanges(s)
      PROVE  AuditInv'
  <2>1. AuditTypeOK'
    BY <1>2 DEF SkillChanges, AuditInv, AuditTypeOK
  <2> QED
    BY <1>2, <2>1, OthersKeep DEF SkillChanges, AuditInv, Undisturbed
<1>3. ASSUME BaselineLost
      PROVE  AuditInv'
  <2>1. AuditTypeOK'
    BY <1>3 DEF BaselineLost, AuditInv, AuditTypeOK, NoBaseline, Baselines
  <2> QED
    BY <1>3, <2>1, OthersKeep DEF BaselineLost, AuditInv, Undisturbed, NoBaseline
<1> QED
  BY <1>1, <1>2, <1>3, LoadAcceptancesKeeps, LoadBaselineKeeps, ScanKeeps, PreserveKeeps,
     SaveBaselineKeeps DEF AuditStep

LEMMA AuditNextKeeps ==
  ASSUME StoreInv, AuditInv, [Next]_vars
  PROVE  AuditInv'
<1>1. CASE AuditStep
  BY <1>1, AuditStepKeeps
<1>2. CASE UNCHANGED auditVars
  <2>1. AuditTypeOK'
    BY <1>2 DEF auditVars, AuditInv, AuditTypeOK
  <2> QED
    BY <1>2, <2>1, OthersKeep DEF auditVars, AuditInv, Undisturbed
<1> QED
  BY <1>1, <1>2 DEF Next, AuditStep, StoreNext, vars

LEMMA Invariants == Spec => [](StoreInv /\ AuditInv)
<1>1. Init => StoreInv /\ AuditInv
  BY StoreInitial, AuditInitial DEF Init
<1>2. StoreInv /\ AuditInv /\ [Next]_vars => (StoreInv /\ AuditInv)'
  BY StoreNextKeeps, AuditNextKeeps
<1> QED
  BY <1>1, <1>2, PTL DEF Spec

\* Store, calls, baseline and audits keep their types, and the lock has at most
\* one owner, who is in its critical section.
THEOREM TypeCorrect == Spec => []TypeOK
<1>1. StoreInv /\ AuditInv => TypeOK
  BY DEF StoreInv, AuditInv, TypeOK
<1> QED
  BY <1>1, Invariants, PTL

\* A failing skill shown as accepted had every finding accepted, in the content
\* that was scanned (security-audit.candidates.ts:100-107).
THEOREM SuppressionIsBacked == Spec => []SuppressedWasAccepted
<1>1. ASSUME AuditInv, NEW a \in Audits, NEW s \in Skills, verdict[a][s] = "accepted"
      PROVE  \A f \in Report[bar[a].ruleset, seen[a][s]] :
               AcceptKey(seen[a][s], f, bar[a].ruleset) \in backed[a]
  <2>1. Faithful(a, s) /\ snapshot[a] \subseteq backed[a]
    BY <1>1 DEF AuditInv
  <2>2. Verdict(a, s, seen[a][s]) = "accepted"
    BY <1>1, <2>1 DEF Faithful
  <2> DEFINE c == seen[a][s]
             t == Transition(a, s, c)
  <2>3. t \in {"none", "hostile", "suspicious"}
    BY DEF Transition, Compare
  <2>4. CASE AllAccepted(a, c)
    BY <2>1, <2>4 DEF AllAccepted
  <2>5. CASE ~AllAccepted(a, c)
    <3>1. CASE t = "hostile"
      BY <2>2, <3>1 DEF Verdict
    <3>2. CASE t # "hostile" /\ ~Passes(bar[a], c)
      BY <2>2, <2>5, <3>2 DEF Verdict
    <3>3. CASE t # "hostile" /\ Passes(bar[a], c)
      BY <2>2, <2>3, <3>3 DEF Verdict
    <3> QED
      BY <3>1, <3>2, <3>3
  <2> QED
    BY <2>4, <2>5
<1>2. AuditInv => SuppressedWasAccepted
  BY <1>1 DEF SuppressedWasAccepted
<1> QED
  BY <1>2, Invariants, PTL

\* A benign skill that turned hostile is reported as such, whatever happened to
\* audits in between, as long as audits do not overlap and none fails to list it.
THEOREM RugPullIsReported == Spec => []RugPullReported
<1>1. ASSUME AuditInv, NEW a \in Audits, NEW s \in Skills \ blind, TurnsHostile(a, s)
      PROVE  verdict[a][s] = "hostile"
  <2>1. Faithful(a, s) /\ Informed(a, s) /\ Early(a, s)
    BY <1>1 DEF AuditInv
  <2>2. /\ prior[a][s] = known[s] /\ verdict[a][s] = Verdict(a, s, seen[a][s])
        /\ prior[a][s] # NoEntry /\ prior[a][s].bar = bar[a]
    BY <1>1, <2>1 DEF Faithful, Informed, Early, TurnsHostile
  <2>3. Passes(bar[a], prior[a][s].content) /\ ~Passes(bar[a], seen[a][s])
    BY <1>1, <2>2 DEF TurnsHostile
  <2>4. Compare(bar[a], prior[a][s].content, seen[a][s]) = "hostile"
    BY <2>3 DEF Compare
  <2>5. Comparable(a, s) /\ prior[a][s].content # seen[a][s]
    BY <2>2, <2>3 DEF Comparable
  <2> QED
    BY <2>2, <2>4, <2>5 DEF Verdict, Transition
<1>2. AuditInv => RugPullReported
  BY <1>1 DEF RugPullReported
<1> QED
  BY <1>2, Invariants, PTL
=============================================================================
