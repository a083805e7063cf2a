------------------------ MODULE RenameEngine_proofs ------------------------
(***************************************************************************)
(* The renames, for any number of calls, names, suggestions and changes    *)
(* from outside: the ledger never claims a rename that did not happen, and *)
(* no rename overwrites a skill.                                           *)
(***************************************************************************)
EXTENDS RenameEngine, FiniteSetTheorems, TLAPS

\* Whatever a call has read of the ledger, and will write back, took place; so did
\* its own rename once it is past it.
ReadsTookPlace ==
  \A c \in Calls :
    pc[c] # "idle" =>
      /\ \A e \in call[c].read : e.id \in renamed
      /\ pc[c] = "moved" /\ call[c].action = "apply" => call[c].id \in renamed

\* As long as nothing interferes there is one call at work, and where it goes is free.
TargetFree ==
  ~disturbed =>
    /\ \A c, d \in Calls : pc[c] # "idle" /\ pc[d] # "idle" => c = d
    /\ \A c \in Calls : pc[c] \in {"checked", "rewritten"}
                          => Source(c) = Target(c) \/ disk[Target(c)] = Nothing

Inv == TypeOK /\ LedgerNeverAhead /\ ReadsTookPlace /\ TargetFree

LEMMA InitEstablishes == Init => Inv
<1> SUFFICES ASSUME Init PROVE Inv
  OBVIOUS
<1> PICK start \in InitStates : disk = start.disk /\ title = start.title /\ ledger = start.ledger
  BY DEF Init
<1>1. start \in [disk: [Names -> Artifacts \cup {Nothing}],
                 title: [Skills -> Names], ledger: SUBSET Overrides]
  BY RenameAssumption
<1>2. \A e \in ledger : e.id \in Nat
  BY <1>1 DEF Overrides
<1>3. TypeOK
  <2>1. form \in {"ok", "malformed", "newer"} /\ 0 \in 0..MaxCalls /\ 0 \in 0..MaxOutside
    BY RenameAssumption DEF Init
  <2>2. disk \in [Names -> Artifacts \cup {Nothing}] /\ title \in [Skills -> Names]
        /\ ledger \subseteq Overrides
    BY <1>1
  <2> QED
    BY <1>2, <2>1, <2>2 DEF Init, TypeOK
<1>4. LedgerNeverAhead /\ ReadsTookPlace /\ TargetFree
  BY DEF Init, LedgerNeverAhead, ReadsTookPlace, TargetFree
<1> QED
  BY <1>3, <1>4 DEF Inv

\* The record a call starts with.
LEMMA StartedCall ==
  ASSUME TypeOK, NEW request \in Requests, started < MaxCalls
  PROVE  [action |-> request.action, s |-> request.s, name |-> request.name,
          id |-> started + 1, read |-> ReadLedger, entry |-> NoEntry]
           \in [action: {"apply", "revert"}, s: Suggestions, name: Names,
                id: 1..(started + 1), read: SUBSET Overrides,
                entry: Overrides \cup {NoEntry}]
BY RenameAssumption DEF TypeOK, Requests, ReadLedger

\* The ledger a call writes is one of overrides.
LEMMA LedgerOfType ==
  ASSUME TypeOK, NEW c \in Calls, pc[c] # "idle"
  PROVE  LedgerOf(c) \subseteq Overrides
<1>1. call[c] \in CallRecord
  BY DEF TypeOK
<1>2. call[c].s \in Suggestions /\ call[c].name \in Names /\ call[c].read \subseteq Overrides
      /\ call[c].id \in Nat
  BY <1>1, RenameAssumption DEF CallRecord, TypeOK
<1>3. Override(call[c].id, call[c].s, call[c].name) \in Overrides
  BY <1>2, RenameAssumption DEF Override, Overrides
<1> QED
  BY <1>2, <1>3 DEF LedgerOf, AppendOverride

\* A picked entry is one of those read.
LEMMA RevertEntriesRead ==
  ASSUME NEW entries, NEW s PROVE RevertEntries(entries, s) \subseteq entries
BY DEF RevertEntries

LEMMA TypeStep == TypeOK /\ [Next]_vars => TypeOK'
<1> SUFFICES ASSUME TypeOK, [Next]_vars PROVE TypeOK'
  OBVIOUS
<1> USE DEF callVars, diskVars, history
<1>1. ASSUME NEW c \in Calls, NEW request \in Requests, ReadLedgerForCall(c, request)
      PROVE  TypeOK'
  <2>1. started < MaxCalls /\ started' = started + 1 /\ started' \in 0..MaxCalls
    BY <1>1, RenameAssumption DEF ReadLedgerForCall, TypeOK
  <2>2. call' = [call EXCEPT ![c] = [action |-> request.action, s |-> request.s,
                                     name |-> request.name, id |-> started + 1,
                                     read |-> ReadLedger, entry |-> NoEntry]]
    BY <1>1 DEF ReadLedgerForCall
  <2>3. call'[c] \in CallRecord'
    BY <2>1, <2>2, StartedCall DEF TypeOK, CallRecord
  <2>4. CallRecord \subseteq CallRecord'
    BY <2>1 DEF CallRecord, TypeOK
  <2>5. pc' = [pc EXCEPT ![c] = "read"]
    BY <1>1 DEF ReadLedgerForCall, Become
  <2>6. \A d \in Calls :
          /\ IF pc'[d] = "idle" THEN call'[d] = NoRequest ELSE call'[d] \in CallRecord'
          /\ pc'[d] \in {"checked", "rewritten", "moved"} /\ call'[d].action = "revert"
               => call'[d].entry \in call'[d].read
    <3> TAKE d \in Calls
    <3>1. CASE d = c
      BY <3>1, <2>3, <2>5 DEF TypeOK
    <3>2. CASE d # c
      BY <3>2, <2>2, <2>4, <2>5 DEF TypeOK
    <3> QED BY <3>1, <3>2
  <2> QED
    BY <1>1, <2>1, <2>2, <2>5, <2>6 DEF TypeOK, ReadLedgerForCall
<1>2. ASSUME NEW c \in Calls, Refuse(c) PROVE TypeOK'
  BY <1>2 DEF TypeOK, Refuse, Return, CallRecord
<1>3. ASSUME NEW c \in Calls, ApplyCheck(c) PROVE TypeOK'
  BY <1>2, <1>3, ZenonT(60) DEF TypeOK, ApplyCheck, Become, CallRecord
<1>4. ASSUME NEW c \in Calls, RevertCheck(c) PROVE TypeOK'
  <2>1. CASE Refuse(c)
    BY <1>2, <2>1
  <2>2. ASSUME NEW e \in RevertEntries(call[c].read, call[c].s),
               Become(c, "checked"), call' = [call EXCEPT ![c].entry = e],
               UNCHANGED <<diskVars, ledger, form, started, outside, renamed, acked, reverted,
                           disturbed>>, misled' \in BOOLEAN
        PROVE  TypeOK'
    <3>1. pc[c] = "read" /\ call[c] \in CallRecord /\ e \in call[c].read
      BY <1>4, RevertEntriesRead DEF RevertCheck, TypeOK
    <3>2. e \in Overrides
      BY <3>1 DEF CallRecord
    <3>3. call'[c] \in CallRecord' /\ call'[c].entry = e /\ call'[c].read = call[c].read
      BY <2>2, <3>1, <3>2 DEF CallRecord, TypeOK
    <3> QED
      BY <2>2, <3>1, <3>3 DEF TypeOK, Become, CallRecord
  <2> QED
    BY <1>4, <2>1, <2>2 DEF RevertCheck
<1>5. ASSUME NEW c \in Calls, CheckFails(c) PROVE TypeOK'
  BY <1>2, <1>5 DEF CheckFails
<1>6. ASSUME NEW c \in Calls, Fail(c), UNCHANGED diskVars PROVE TypeOK'
  BY <1>6 DEF TypeOK, Fail, Return, CallRecord
<1>7. ASSUME NEW c \in Calls, RewriteTitle(c) PROVE TypeOK'
  <2>1. call[c] \in CallRecord /\ (call[c].action # "apply" => call[c].entry \in call[c].read)
    BY <1>7 DEF RewriteTitle, TypeOK, CallRecord
  <2>2. TitleFor(c) \in Names
    BY <2>1 DEF TitleFor, CallRecord, Overrides
  <2>3. title' \in [Skills -> Names]
    BY <1>7, <2>2 DEF RewriteTitle, Retitled, TypeOK
  <2> QED
    BY <1>7, <2>3 DEF RewriteTitle, Become, TypeOK, CallRecord
<1>8. ASSUME NEW c \in Calls, Move(c) PROVE TypeOK'
  <2>1. call[c] \in CallRecord /\ (call[c].action # "apply" => call[c].entry \in call[c].read)
    BY <1>8 DEF Move, TypeOK, CallRecord
  <2>2. Source(c) \in Names /\ Target(c) \in Names
    BY <2>1, RenameAssumption DEF Source, Target, CallRecord, Overrides
  <2>3. disk' \in [Names -> Artifacts \cup {Nothing}]
    BY <1>8, <2>2 DEF Move, Moved, TypeOK
  <2>4. call[c].id \in Nat /\ (call[c].action # "apply" => call[c].entry.id \in Nat)
    BY <2>1 DEF CallRecord, Overrides
  <2>5. renamed' \subseteq Nat /\ reverted' \subseteq Nat
    BY <1>8, <2>4 DEF Move, TypeOK
  <2> QED
    BY <1>8, <2>3, <2>5 DEF Move, Become, TypeOK, CallRecord
<1>9. ASSUME NEW c \in Calls, SaveLedger(c) PROVE TypeOK'
  <2>1. call[c] \in CallRecord /\ LedgerOf(c) \subseteq Overrides
    BY <1>9, LedgerOfType DEF SaveLedger, TypeOK
  <2>2. call[c].id \in Nat
    BY <2>1 DEF CallRecord
  <2> QED
    BY <1>9, <2>1, <2>2 DEF SaveLedger, WriteLedger, Return, TypeOK, CallRecord
<1>10. ASSUME NEW n \in Names, OutsideRemoves(n) PROVE TypeOK'
  BY <1>10, RenameAssumption DEF OutsideRemoves, TypeOK, CallRecord
<1>11. ASSUME NEW n \in Names, NEW a \in Artifacts, OutsideCreates(n, a) PROVE TypeOK'
  BY <1>11, RenameAssumption DEF OutsideCreates, TypeOK, CallRecord
<1>12. CASE UNCHANGED vars
  BY <1>12 DEF vars, TypeOK, CallRecord
<1> QED
  BY <1>1, <1>3, <1>4, <1>5, <1>6, <1>7, <1>8, <1>9, <1>10, <1>11, <1>12
     DEF Next, CallStep, OutsideStep, RewriteFails, MoveFails, SaveLedgerFails, Crash

\* What a call keeps of its reading from step to step, and what it writes.
LEMMA TookPlaceStep ==
  TypeOK /\ LedgerNeverAhead /\ ReadsTookPlace /\ [Next]_vars
    => (LedgerNeverAhead /\ ReadsTookPlace)'
<1> SUFFICES ASSUME TypeOK, LedgerNeverAhead, ReadsTookPlace, [Next]_vars
             PROVE  LedgerNeverAhead' /\ ReadsTookPlace'
  OBVIOUS
<1> USE DEF callVars, diskVars, history, LedgerNeverAhead, ReadsTookPlace
<1>1. ASSUME NEW c \in Calls, NEW request \in Requests, ReadLedgerForCall(c, request)
      PROVE  LedgerNeverAhead' /\ ReadsTookPlace'
  BY <1>1 DEF ReadLedgerForCall, Become, TypeOK, ReadLedger
<1>2. ASSUME NEW c \in Calls, Refuse(c) PROVE LedgerNeverAhead' /\ ReadsTookPlace'
  BY <1>2 DEF Refuse, Return, TypeOK
<1>3. ASSUME NEW c \in Calls, ApplyCheck(c) PROVE LedgerNeverAhead' /\ ReadsTookPlace'
  BY <1>2, <1>3 DEF ApplyCheck, Become, TypeOK
<1>4. ASSUME NEW c \in Calls, RevertCheck(c) PROVE LedgerNeverAhead' /\ ReadsTookPlace'
  <2>1. CASE Refuse(c)
    BY <1>2, <2>1
  <2>2. ASSUME NEW e, Become(c, "checked"), call' = [call EXCEPT ![c].entry = e],
               UNCHANGED <<diskVars, ledger, form, started, outside, renamed, acked, reverted,
                           disturbed>>, misled' \in BOOLEAN
        PROVE  LedgerNeverAhead' /\ ReadsTookPlace'
    <3>1. pc[c] = "read" /\ call[c] \in CallRecord
      BY <1>4 DEF RevertCheck, TypeOK
    <3>2. call'[c].read = call[c].read
      BY <2>2, <3>1 DEF CallRecord, TypeOK
    <3> QED
      BY <2>2, <3>1, <3>2 DEF Become, TypeOK
  <2> QED
    BY <1>4, <2>1, <2>2 DEF RevertCheck
<1>5. ASSUME NEW c \in Calls, Fail(c) PROVE LedgerNeverAhead' /\ ReadsTookPlace'
  BY <1>5 DEF Fail, Return, TypeOK
<1>6. ASSUME NEW c \in Calls, RewriteTitle(c) PROVE LedgerNeverAhead' /\ ReadsTookPlace'
  BY <1>6 DEF RewriteTitle, Become, TypeOK
<1>7. ASSUME NEW c \in Calls, Move(c) PROVE LedgerNeverAhead' /\ ReadsTookPlace'
  <2>1. renamed \subseteq renamed' /\ (call[c].action = "apply" => call[c].id \in renamed')
    BY <1>7 DEF Move
  <2> QED
    BY <1>7, <2>1 DEF Move, Become, TypeOK
<1>8. ASSUME NEW c \in Calls, SaveLedger(c) PROVE LedgerNeverAhead' /\ ReadsTookPlace'
  <2>1. \A e \in LedgerOf(c) : e.id \in renamed
    BY <1>8 DEF SaveLedger, LedgerOf, AppendOverride, Override
  <2> QED
    BY <1>8, <2>1 DEF SaveLedger, WriteLedger, Return, TypeOK
<1>9. ASSUME NEW n \in Names, OutsideRemoves(n) PROVE LedgerNeverAhead' /\ ReadsTookPlace'
  BY <1>9 DEF OutsideRemoves
<1>10. ASSUME NEW n \in Names, NEW a \in Artifacts, OutsideCreates(n, a)
       PROVE  LedgerNeverAhead' /\ ReadsTookPlace'
  BY <1>10 DEF OutsideCreates
<1>11. CASE UNCHANGED vars
  BY <1>11 DEF vars
<1> QED
  BY <1>1, <1>2, <1>3, <1>4, <1>5, <1>6, <1>7, <1>8, <1>9, <1>10, <1>11
     DEF Next, CallStep, OutsideStep, CheckFails, RewriteFails, MoveFails,
         SaveLedgerFails, Crash

\* A call that found its target free goes there undisturbed: every other call, failure
\* or change from outside makes the history disturbed.
LEMMA TargetFreeStep == TypeOK /\ TargetFree /\ [Next]_vars => TargetFree'
<1> SUFFICES ASSUME TypeOK, TargetFree, [Next]_vars PROVE TargetFree'
  OBVIOUS
<1> USE DEF callVars, diskVars, history, TargetFree
<1>1. ASSUME NEW c \in Calls, NEW request \in Requests, ReadLedgerForCall(c, request)
      PROVE  TargetFree'
  BY <1>1 DEF ReadLedgerForCall, Become, TypeOK, InFlight, Source, Target
<1>2. ASSUME NEW c \in Calls, Refuse(c) PROVE TargetFree'
  BY <1>2 DEF Refuse, Return, TypeOK, Source, Target
<1>3. ASSUME NEW c \in Calls, ApplyCheck(c) PROVE TargetFree'
  BY <1>2, <1>3 DEF ApplyCheck, Become, TypeOK, Source, Target
<1>4. ASSUME NEW c \in Calls, RevertCheck(c) PROVE TargetFree'
  <2>1. CASE Refuse(c)
    BY <1>2, <2>1
  <2>2. ASSUME NEW e, e.from = e.to \/ disk[e.from] = Nothing,
               Become(c, "checked"), call' = [call EXCEPT ![c].entry = e],
               UNCHANGED <<diskVars, ledger, form, started, outside, renamed, acked, reverted,
                           disturbed>>, misled' \in BOOLEAN
        PROVE  TargetFree'
    <3>1. pc[c] = "read" /\ call[c].action = "revert" /\ call[c] \in CallRecord
      BY <1>4 DEF RevertCheck, TypeOK
    <3>2. call'[c].entry = e /\ call'[c].action = "revert"
      BY <2>2, <3>1 DEF CallRecord, TypeOK
    <3>3. Source(c)' = e.to /\ Target(c)' = e.from
      BY <3>2 DEF Source, Target
    <3>4. \A d \in Calls : d # c => pc'[d] = pc[d] /\ Source(d)' = Source(d)
                                    /\ Target(d)' = Target(d)
      BY <2>2 DEF Become, TypeOK, Source, Target
    <3>5. pc'[c] = "checked" /\ disk' = disk /\ disturbed' = disturbed
      BY <2>2, <3>1 DEF Become, TypeOK
    <3> QED
      BY <2>2, <3>1, <3>3, <3>4, <3>5
  <2>3. ASSUME NEW e \in RevertEntries(call[c].read, call[c].s),
               ~(disk[e.to] = Nothing \/ (e.from # e.to /\ disk[e.from] # Nothing))
        PROVE  e.from = e.to \/ disk[e.from] = Nothing
    BY <2>3
  <2> QED
    BY <1>4, <2>1, <2>2, <2>3 DEF RevertCheck
<1>5. ASSUME NEW c \in Calls, Fail(c) PROVE TargetFree'
  BY <1>5 DEF Fail
<1>6. ASSUME NEW c \in Calls, RewriteTitle(c) PROVE TargetFree'
  BY <1>6 DEF RewriteTitle, Become, TypeOK, Source, Target
<1>7. ASSUME NEW c \in Calls, Move(c) PROVE TargetFree'
  <2>1. \A d \in Calls : ~disturbed /\ d # c => pc[d] = "idle"
    BY <1>7 DEF Move
  <2> QED
    BY <1>7, <2>1 DEF Move, Become, TypeOK
<1>8. ASSUME NEW c \in Calls, SaveLedger(c) PROVE TargetFree'
  BY <1>8 DEF SaveLedger, Return, TypeOK, Source, Target
<1>9. ASSUME NEW n \in Names, OutsideRemoves(n) PROVE TargetFree'
  BY <1>9 DEF OutsideRemoves
<1>10. ASSUME NEW n \in Names, NEW a \in Artifacts, OutsideCreates(n, a) PROVE TargetFree'
  BY <1>10 DEF OutsideCreates
<1>11. CASE UNCHANGED vars
  BY <1>11 DEF vars, Source, Target
<1> QED
  BY <1>1, <1>2, <1>3, <1>4, <1>5, <1>6, <1>7, <1>8, <1>9, <1>10, <1>11
     DEF Next, CallStep, OutsideStep, CheckFails, RewriteFails, MoveFails,
         SaveLedgerFails, Crash

-----------------------------------------------------------------------------
(* The ledger and the disk *)

\* The entries that brought something to a name since entry i, and those that
\* took something away from it after entry i.
Arrivals(entries, n, i) == {e \in entries : e.from # e.to /\ e.to = n /\ e.id >= i}
Departures(entries, n, i) == {e \in entries : e.from # e.to /\ e.from = n /\ e.id > i}
Presence(files, n) == IF files[n] = Nothing THEN 0 ELSE 1

\* From any entry on, no more has come to a name than has left it or is there.
Balanced(entries, files) ==
  \A n \in Names, i \in Nat :
    Cardinality(Arrivals(entries, n, i))
      <= Cardinality(Departures(entries, n, i)) + Presence(files, n)

\* What stands under its new name goes by it.
Titled(entries, files, titles) ==
  \A e \in entries :
    e.from # e.to /\ ~MovedOn(entries, e) /\ IsSkill(e.to) => titles[files[e.to]] \in KnownAs(e.to)

\* Entries, disk and frontmatter agree; no artifact is in two places.
Agree(entries, files, titles) ==
  /\ IsFiniteSet(entries) /\ entries \subseteq Overrides
  /\ files \in [Names -> Artifacts \cup {Nothing}] /\ titles \in [Skills -> Names]
  /\ \A e \in entries : SameKind(e.from, e.to) /\ e.ident \in KnownAs(e.from)
  /\ \A m, n \in Names : files[m] = files[n] /\ m # n => files[m] = Nothing
  /\ \A n \in Names : files[n] # Nothing => (IsSkill(n) <=> files[n] \in Skills)
  /\ Balanced(entries, files)
  /\ Titled(entries, files, titles)

\* As long as nothing interferes the call at work has read the ledger as it is, and
\* has a number of its own.
ReadsNow ==
  ~disturbed =>
    /\ form = "ok"
    /\ \A e \in ledger : e.id <= started
    /\ \A c \in Calls :
         pc[c] # "idle" =>
           /\ call[c].read = ledger
           /\ \A e \in ledger : e.id < call[c].id
           /\ SameKind(call[c].name, call[c].s.from)
           /\ pc[c] # "read" /\ call[c].action = "apply"
                => FindOverride(call[c].read, call[c].s) = {}

\* Ledger and disk agree before a call's first change and after its last one; in
\* between, the disk as it is about to be agrees with the ledger about to be written.
Agreement ==
  ~disturbed /\ ~misled =>
    /\ (\A c \in Calls : pc[c] \in {"idle", "read", "checked"}) => Agree(ledger, disk, title)
    /\ \A c \in Calls :
         /\ pc[c] = "checked" /\ call[c].action = "revert" =>
              /\ ~MovedOn(ledger, call[c].entry)
              /\ SameKind(call[c].entry.from, call[c].s.from)
         /\ pc[c] = "rewritten" => Agree(LedgerOf(c), Moved(Source(c), Target(c)), title)
         /\ pc[c] = "moved" => Agree(LedgerOf(c), disk, title)

LEMMA CountsAreNumbers ==
  ASSUME NEW entries, IsFiniteSet(entries), NEW n, NEW i
  PROVE  /\ IsFiniteSet(Arrivals(entries, n, i)) /\ IsFiniteSet(Departures(entries, n, i))
         /\ Cardinality(Arrivals(entries, n, i)) \in Nat
         /\ Cardinality(Departures(entries, n, i)) \in Nat
<1>1. Arrivals(entries, n, i) \subseteq entries /\ Departures(entries, n, i) \subseteq entries
  BY DEF Arrivals, Departures
<1>2. IsFiniteSet(Arrivals(entries, n, i)) /\ IsFiniteSet(Departures(entries, n, i))
  BY <1>1, FS_Subset
<1> QED
  BY <1>2, FS_CardinalityType

\* Nothing has left a name since an entry that was not moved on from.
LEMMA NoneLeft ==
  ASSUME NEW entries, NEW e \in entries, ~MovedOn(entries, e)
  PROVE  Departures(entries, e.to, e.id) = {}
BY DEF MovedOn, Departures

\* What an entry brought is there until it is moved on from.
LEMMA StandingIsThere ==
  ASSUME NEW entries, NEW files, IsFiniteSet(entries), entries \subseteq Overrides,
         Balanced(entries, files), NEW e \in entries, e.from # e.to, ~MovedOn(entries, e)
  PROVE  files[e.to] # Nothing
<1> DEFINE arrived == Arrivals(entries, e.to, e.id)
<1>1. e.to \in Names /\ e.id \in Nat
  BY DEF Overrides
<1>2. Cardinality(arrived) <= 0 + Presence(files, e.to)
  BY <1>1, NoneLeft, FS_EmptySet DEF Balanced
<1>3. arrived # {}
  BY <1>1 DEF Arrivals
<1>4. Cardinality(arrived) \in Nat /\ Cardinality(arrived) # 0
  BY <1>3, CountsAreNumbers, FS_EmptySet
<1>5. Presence(files, e.to) # 0
  <2> SUFFICES ASSUME Presence(files, e.to) = 0 PROVE FALSE
    OBVIOUS
  <2> HIDE DEF arrived
  <2> QED
    BY <1>2, <1>4
<1> QED
  BY <1>5 DEF Presence

\* And nothing else has come to the name since.
LEMMA StandingAlone ==
  ASSUME NEW entries, NEW files, IsFiniteSet(entries), entries \subseteq Overrides,
         Balanced(entries, files), NEW e \in entries, e.from # e.to, ~MovedOn(entries, e),
         NEW o \in entries, o.from # o.to, o.to = e.to, o.id >= e.id
  PROVE  o = e
<1> SUFFICES ASSUME o # e PROVE FALSE
  OBVIOUS
<1> DEFINE arrived == Arrivals(entries, e.to, e.id)
<1>1. e.to \in Names /\ e.id \in Nat
  BY DEF Overrides
<1>2. Cardinality(arrived) <= 0 + Presence(files, e.to)
  BY <1>1, NoneLeft, FS_EmptySet DEF Balanced
<1>3. {e, o} \subseteq arrived
  BY <1>1 DEF Arrivals
<1>4. Cardinality({e, o}) = 2
  <2>1. IsFiniteSet({e}) /\ Cardinality({e}) = 1
    BY FS_Singleton
  <2>2. {e, o} = {e} \cup {o} /\ o \notin {e}
    OBVIOUS
  <2>3. Cardinality({e} \cup {o}) = Cardinality({e}) + 1
    BY <2>1, <2>2, FS_AddElement
  <2> QED
    BY <2>1, <2>2, <2>3
<1>5. Cardinality({e, o}) <= Cardinality(arrived) /\ Cardinality(arrived) \in Nat
  BY <1>3, CountsAreNumbers, FS_Subset
<1>6. Presence(files, e.to) \in {0, 1}
  BY DEF Presence
<1> HIDE DEF arrived
<1> QED
  BY <1>2, <1>4, <1>5, <1>6

\* The disk with one artifact moved.
MovedIn(files, from, to) ==
  IF from = to THEN files ELSE [files EXCEPT ![from] = Nothing, ![to] = files[from]]

LEMMA MovedWhere ==
  ASSUME NEW files \in [Names -> Artifacts \cup {Nothing}], NEW from \in Names,
         NEW to \in Names
  PROVE  /\ MovedIn(files, from, to) \in [Names -> Artifacts \cup {Nothing}]
         /\ MovedIn(files, from, to)[to] = files[from]
         /\ from # to => MovedIn(files, from, to)[from] = Nothing
         /\ \A n \in Names \ {from, to} : MovedIn(files, from, to)[n] = files[n]
BY DEF MovedIn

\* A rename keeps the balance: what comes to the new name leaves the old one.
LEMMA ApplyBalances ==
  ASSUME NEW entries, NEW files \in [Names -> Artifacts \cup {Nothing}],
         IsFiniteSet(entries), entries \subseteq Overrides, Balanced(entries, files),
         NEW e \in Overrides, \A o \in entries : o.id < e.id,
         files[e.from] # Nothing, e.from = e.to \/ files[e.to] = Nothing
  PROVE  Balanced(entries \cup {e}, MovedIn(files, e.from, e.to))
<1> DEFINE after == MovedIn(files, e.from, e.to)
           more == entries \cup {e}
<1>0. e.from \in Names /\ e.to \in Names /\ e.id \in Nat
  BY DEF Overrides
<1>1. /\ after[e.to] = files[e.from]
      /\ e.from # e.to => after[e.from] = Nothing
      /\ \A n \in Names \ {e.from, e.to} : after[n] = files[n]
  BY <1>0, MovedWhere
<1>2. e \notin entries
  BY <1>0
<1> SUFFICES ASSUME NEW n \in Names, NEW i \in Nat
             PROVE  Cardinality(Arrivals(more, n, i))
                      <= Cardinality(Departures(more, n, i)) + Presence(after, n)
  BY DEF Balanced
<1>3. /\ Cardinality(Arrivals(entries, n, i))
           <= Cardinality(Departures(entries, n, i)) + Presence(files, n)
      /\ IsFiniteSet(Arrivals(entries, n, i)) /\ IsFiniteSet(Departures(entries, n, i))
      /\ Cardinality(Arrivals(entries, n, i)) \in Nat
      /\ Cardinality(Departures(entries, n, i)) \in Nat
  BY CountsAreNumbers DEF Balanced
<1>4. e \notin Arrivals(entries, n, i) /\ e \notin Departures(entries, n, i)
  BY <1>2 DEF Arrivals, Departures
<1>5. Presence(files, n) \in {0, 1}
  BY DEF Presence
<1> HIDE DEF after
<1>6. CASE e.from = e.to \/ n \notin {e.from, e.to}
  <2>1. Arrivals(more, n, i) = Arrivals(entries, n, i)
        /\ Departures(more, n, i) = Departures(entries, n, i)
    BY <1>6 DEF Arrivals, Departures
  <2>2. Presence(after, n) = Presence(files, n)
    <3>1. after[n] = files[n]
      BY <1>0, <1>1, <1>6
    <3> QED
      BY <3>1 DEF Presence
  <2> QED
    BY <1>3, <2>1, <2>2
<1>7. CASE e.from # e.to /\ n = e.to
  <2>1. Departures(more, n, i) = Departures(entries, n, i)
    BY <1>7 DEF Departures
  <2>2. Presence(after, n) = 1 /\ Presence(files, n) = 0
    BY <1>1, <1>7 DEF Presence
  <2>3. Arrivals(more, n, i) \in {Arrivals(entries, n, i), Arrivals(entries, n, i) \cup {e}}
    BY DEF Arrivals
  <2>4. Cardinality(Arrivals(entries, n, i) \cup {e}) = Cardinality(Arrivals(entries, n, i)) + 1
    BY <1>3, <1>4, FS_AddElement
  <2>5. Cardinality(Arrivals(more, n, i)) \in
          {Cardinality(Arrivals(entries, n, i)), Cardinality(Arrivals(entries, n, i)) + 1}
    BY <2>3, <2>4
  <2> QED
    BY <1>3, <2>1, <2>2, <2>5
<1>8. CASE e.from # e.to /\ n = e.from
  <2>1. Arrivals(more, n, i) = Arrivals(entries, n, i)
    BY <1>8 DEF Arrivals
  <2>2. Presence(after, n) = 0
    BY <1>1, <1>8 DEF Presence
  <2>3. CASE i < e.id
    <3>1. Departures(more, n, i) = Departures(entries, n, i) \cup {e}
      BY <1>8, <2>3 DEF Departures
    <3>2. Cardinality(Departures(more, n, i)) = Cardinality(Departures(entries, n, i)) + 1
      BY <1>3, <1>4, <3>1, FS_AddElement
    <3> QED
      BY <1>3, <1>5, <2>1, <2>2, <3>2
  <2>4. CASE ~(i < e.id)
    <3>1. \A o \in entries : o.id \in Nat /\ ~(o.id >= i)
      BY <1>0, <2>4 DEF Overrides
    <3>2. Arrivals(entries, n, i) = {}
      BY <3>1 DEF Arrivals
    <3>3. Cardinality(Departures(more, n, i)) \in Nat
      <4>1. IsFiniteSet(more)
        BY FS_AddElement
      <4> QED
        BY <4>1, CountsAreNumbers
    <3>4. Cardinality(Arrivals(more, n, i)) = 0
      BY <2>1, <3>2, FS_EmptySet
    <3> QED
      BY <2>2, <3>3, <3>4
  <2> QED
    BY <2>3, <2>4
<1> QED
  BY <1>6, <1>7, <1>8

\* So does the revert of a rename that was not built on.
LEMMA RevertBalances ==
  ASSUME NEW entries, NEW files \in [Names -> Artifacts \cup {Nothing}],
         IsFiniteSet(entries), entries \subseteq Overrides, Balanced(entries, files),
         NEW e \in entries, ~MovedOn(entries, e),
         files[e.to] # Nothing, e.from = e.to \/ files[e.from] = Nothing
  PROVE  Balanced(entries \ {e}, MovedIn(files, e.to, e.from))
<1> DEFINE after == MovedIn(files, e.to, e.from)
           less == entries \ {e}
<1>0. e.from \in Names /\ e.to \in Names /\ e.id \in Nat
  BY DEF Overrides
<1>1. /\ after[e.from] = files[e.to]
      /\ e.from # e.to => after[e.to] = Nothing
      /\ \A n \in Names \ {e.from, e.to} : after[n] = files[n]
  BY <1>0, MovedWhere
<1> SUFFICES ASSUME NEW n \in Names, NEW i \in Nat
             PROVE  Cardinality(Arrivals(less, n, i))
                      <= Cardinality(Departures(less, n, i)) + Presence(after, n)
  BY DEF Balanced
<1>3. /\ Cardinality(Arrivals(entries, n, i))
           <= Cardinality(Departures(entries, n, i)) + Presence(files, n)
      /\ IsFiniteSet(Arrivals(entries, n, i)) /\ IsFiniteSet(Departures(entries, n, i))
      /\ Cardinality(Arrivals(entries, n, i)) \in Nat
      /\ Cardinality(Departures(entries, n, i)) \in Nat
  BY CountsAreNumbers DEF Balanced
<1>5. Presence(files, n) \in {0, 1}
  BY DEF Presence
<1> HIDE DEF after
<1>6. CASE e.from = e.to \/ n \notin {e.from, e.to}
  <2>1. Arrivals(less, n, i) = Arrivals(entries, n, i)
        /\ Departures(less, n, i) = Departures(entries, n, i)
    BY <1>6 DEF Arrivals, Departures
  <2>2. Presence(after, n) = Presence(files, n)
    <3>1. after[n] = files[n]
      BY <1>0, <1>1, <1>6
    <3> QED
      BY <3>1 DEF Presence
  <2> QED
    BY <1>3, <2>1, <2>2
<1>7. CASE e.from # e.to /\ n = e.from
  <2>1. Arrivals(less, n, i) = Arrivals(entries, n, i)
    BY <1>7 DEF Arrivals
  <2>2. Presence(after, n) = 1 /\ Presence(files, n) = 0
    BY <1>1, <1>7 DEF Presence
  <2>3. Departures(less, n, i) = Departures(entries, n, i) \ {e}
    BY DEF Departures
  <2>4. Cardinality(Departures(less, n, i)) >= Cardinality(Departures(entries, n, i)) - 1
        /\ Cardinality(Departures(less, n, i)) \in Nat
    <3>1. CASE e \in Departures(entries, n, i)
      <4>1. Cardinality(Departures(entries, n, i) \ {e})
              = Cardinality(Departures(entries, n, i)) - 1
        <5> DEFINE D == Departures(entries, n, i)
        <5>1. IsFiniteSet(D) /\ e \in D
          BY <1>3, <3>1
        <5> HIDE DEF D
        <5>2. Cardinality(D \ {e}) = Cardinality(D) - 1
          BY <5>1, FS_RemoveElement
        <5> QED
          BY <5>2 DEF D
      <4>2. Cardinality(Departures(less, n, i)) \in Nat
        <5>1. IsFiniteSet(less)
          BY FS_Subset
        <5> QED
          BY <5>1, CountsAreNumbers
      <4> QED
        BY <1>3, <2>3, <4>1, <4>2
    <3>2. CASE e \notin Departures(entries, n, i)
      <4>1. Departures(less, n, i) = Departures(entries, n, i)
        BY <2>3, <3>2
      <4> QED
        BY <1>3, <4>1
    <3> QED
      BY <3>1, <3>2
  <2> QED
    BY <1>3, <2>1, <2>2, <2>4
<1>8. CASE e.from # e.to /\ n = e.to
  <2>1. Departures(less, n, i) = Departures(entries, n, i)
    BY <1>8 DEF Departures
  <2>2. Presence(after, n) = 0
    BY <1>1, <1>8 DEF Presence
  <2>3. CASE i <= e.id
    <3>1. Arrivals(less, n, i) = Arrivals(entries, n, i) \ {e} /\ e \in Arrivals(entries, n, i)
      BY <1>8, <2>3 DEF Arrivals
    <3>2. Cardinality(Arrivals(less, n, i)) = Cardinality(Arrivals(entries, n, i)) - 1
      <4> DEFINE A == Arrivals(entries, n, i)
      <4>1. IsFiniteSet(A) /\ e \in A
        BY <1>3, <3>1
      <4> HIDE DEF A
      <4>2. Cardinality(A \ {e}) = Cardinality(A) - 1
        BY <4>1, FS_RemoveElement
      <4> QED
        BY <3>1, <4>2 DEF A
    <3> QED
      BY <1>3, <1>5, <2>1, <2>2, <3>2
  <2>4. CASE ~(i <= e.id)
    <3>1. Arrivals(less, n, i) = {}
      <4> SUFFICES ASSUME NEW o \in Arrivals(less, n, i) PROVE FALSE
        OBVIOUS
      <4>1. o \in entries /\ o # e /\ o.from # o.to /\ o.to = e.to /\ o.id >= i
        BY <1>8 DEF Arrivals
      <4>2. o.id >= e.id
        BY <1>0, <2>4, <4>1 DEF Overrides
      <4> QED
        BY <1>8, <4>1, <4>2, StandingAlone
    <3>2. Cardinality(Arrivals(less, n, i)) = 0
      BY <3>1, FS_EmptySet
    <3> HIDE DEF less
    <3> QED
      BY <1>3, <2>1, <2>2, <3>2
  <2> QED
    BY <2>3, <2>4
<1> QED
  BY <1>6, <1>7, <1>8

\* Artifacts stay in one place, skills where skills belong.
InPlace(files) ==
  /\ \A m, n \in Names : files[m] = files[n] /\ m # n => files[m] = Nothing
  /\ \A n \in Names : files[n] # Nothing => (IsSkill(n) <=> files[n] \in Skills)

LEMMA MovedInPlace ==
  ASSUME NEW files \in [Names -> Artifacts \cup {Nothing}], NEW from \in Names,
         NEW to \in Names, SameKind(from, to), InPlace(files),
         from = to \/ files[to] = Nothing
  PROVE  InPlace(MovedIn(files, from, to))
<1>1. CASE from = to
  BY <1>1 DEF MovedIn
<1>2. CASE from # to
  <2> DEFINE after == MovedIn(files, from, to)
  <2>1. /\ after[to] = files[from] /\ after[from] = Nothing
        /\ \A n \in Names \ {from, to} : after[n] = files[n]
    BY <1>2, MovedWhere
  <2> HIDE DEF after
  <2>2. ASSUME NEW m \in Names, NEW n \in Names, after[m] = after[n], m # n
        PROVE  after[m] = Nothing
    BY <1>2, <2>1, <2>2 DEF InPlace
  <2>3. ASSUME NEW n \in Names, after[n] # Nothing
        PROVE  IsSkill(n) <=> after[n] \in Skills
    BY <2>1, <2>3 DEF InPlace, SameKind
  <2> QED
    BY <2>2, <2>3 DEF InPlace, after
<1> QED
  BY <1>1, <1>2

LEMMA RetitleOthers ==
  ASSUME NEW titles \in [Skills -> Names], NEW x, NEW name \in Names
  PROVE  /\ [titles EXCEPT ![x] = name] \in [Skills -> Names]
         /\ x \in Skills => [titles EXCEPT ![x] = name][x] = name
         /\ \A z \in Skills : z # x => [titles EXCEPT ![x] = name][z] = titles[z]
OBVIOUS

\* A rename with its entry keeps ledger and disk in agreement.
LEMMA ApplyAgrees ==
  ASSUME NEW entries, NEW files, NEW titles, Agree(entries, files, titles),
         NEW e \in Overrides, \A o \in entries : o.id < e.id,
         SameKind(e.from, e.to), e.ident \in KnownAs(e.from),
         files[e.from] # Nothing, e.from = e.to \/ files[e.to] = Nothing
  PROVE  Agree(entries \cup {e}, MovedIn(files, e.from, e.to),
               IF IsSkill(e.from) THEN [titles EXCEPT ![files[e.from]] = e.to] ELSE titles)
<1> DEFINE after == MovedIn(files, e.from, e.to)
           more == entries \cup {e}
           retitled == IF IsSkill(e.from) THEN [titles EXCEPT ![files[e.from]] = e.to]
                                          ELSE titles
<1>0. e.from \in Names /\ e.to \in Names /\ e.id \in Nat
  BY DEF Overrides
<1>1. /\ IsFiniteSet(entries) /\ entries \subseteq Overrides
      /\ files \in [Names -> Artifacts \cup {Nothing}] /\ titles \in [Skills -> Names]
      /\ InPlace(files) /\ Balanced(entries, files) /\ Titled(entries, files, titles)
      /\ \A o \in entries : SameKind(o.from, o.to) /\ o.ident \in KnownAs(o.from)
  BY DEF Agree, InPlace
<1>2. /\ after \in [Names -> Artifacts \cup {Nothing}]
      /\ after[e.to] = files[e.from]
      /\ e.from # e.to => after[e.from] = Nothing
      /\ \A n \in Names \ {e.from, e.to} : after[n] = files[n]
  BY <1>0, <1>1, MovedWhere
<1>3. Balanced(more, after)
  BY <1>1, ApplyBalances
<1>4. InPlace(after)
  BY <1>0, <1>1, MovedInPlace
<1>5. IsFiniteSet(more) /\ more \subseteq Overrides
  BY <1>1, FS_AddElement
<1>6. /\ retitled \in [Skills -> Names]
      /\ IsSkill(e.from) => files[e.from] \in Skills /\ retitled[files[e.from]] = e.to
      /\ \A z \in Skills : z # files[e.from] => retitled[z] = titles[z]
  <2>1. IsSkill(e.from) => files[e.from] \in Skills
    BY <1>0, <1>1 DEF InPlace
  <2> QED
    BY <1>0, <1>1, <2>1, RetitleOthers
<1> HIDE DEF after, retitled
<1>7. ASSUME NEW o \in more, o.from # o.to, ~MovedOn(more, o), IsSkill(o.to)
      PROVE  retitled[after[o.to]] \in KnownAs(o.to)
  <2>1. CASE o = e
    BY <1>2, <1>6, <1>7, <2>1 DEF SameKind, KnownAs
  <2>2. CASE o # e
    <3>1. o \in entries /\ ~MovedOn(entries, o) /\ o.to \in Names /\ o.id < e.id
      BY <1>1, <1>7, <2>2 DEF MovedOn, Overrides
    <3>2. files[o.to] # Nothing /\ titles[files[o.to]] \in KnownAs(o.to)
      BY <1>1, <1>7, <3>1, StandingIsThere DEF Titled
    <3>3. files[o.to] \in Skills
      BY <1>1, <1>7, <3>1, <3>2 DEF InPlace
    <3>4. CASE o.to # e.from
      <4>1. o.to # e.to
        BY <3>2, <3>4
      <4>2. after[o.to] = files[o.to] /\ files[o.to] # files[e.from]
        BY <1>0, <1>1, <1>2, <3>1, <3>2, <3>4, <4>1 DEF InPlace
      <4> QED
        BY <1>6, <3>2, <3>3, <4>2
    <3>5. CASE o.to = e.from
      <4>1. e.to = e.from
        BY <1>0, <1>7, <3>1, <3>5 DEF MovedOn, Overrides
      <4> QED
        BY <1>2, <1>6, <1>7, <3>5, <4>1 DEF KnownAs
    <3> QED
      BY <3>4, <3>5
  <2> QED
    BY <2>1, <2>2
<1>8. Titled(more, after, retitled)
  BY <1>7 DEF Titled
<1>9. Agree(more, after, retitled)
  BY <1>1, <1>2, <1>3, <1>4, <1>5, <1>6, <1>8 DEF Agree, InPlace
<1> QED
  BY <1>9 DEF after, retitled

\* So does the revert of a rename that was not built on.
LEMMA RevertAgrees ==
  ASSUME NEW entries, NEW files, NEW titles, Agree(entries, files, titles),
         NEW e \in entries, ~MovedOn(entries, e),
         files[e.to] # Nothing, e.from = e.to \/ files[e.from] = Nothing
  PROVE  Agree(entries \ {e}, MovedIn(files, e.to, e.from),
               IF IsSkill(e.from) THEN [titles EXCEPT ![files[e.to]] = e.ident] ELSE titles)
<1> DEFINE after == MovedIn(files, e.to, e.from)
           less == entries \ {e}
           retitled == IF IsSkill(e.from) THEN [titles EXCEPT ![files[e.to]] = e.ident]
                                          ELSE titles
<1>1. /\ IsFiniteSet(entries) /\ entries \subseteq Overrides
      /\ files \in [Names -> Artifacts \cup {Nothing}] /\ titles \in [Skills -> Names]
      /\ InPlace(files) /\ Balanced(entries, files) /\ Titled(entries, files, titles)
      /\ \A o \in entries : SameKind(o.from, o.to) /\ o.ident \in KnownAs(o.from)
  BY DEF Agree, InPlace
<1>0. e.from \in Names /\ e.to \in Names /\ e.ident \in Names /\ SameKind(e.to, e.from)
  BY <1>1 DEF Overrides, SameKind
<1>2. /\ after \in [Names -> Artifacts \cup {Nothing}]
      /\ after[e.from] = files[e.to]
      /\ e.from # e.to => after[e.to] = Nothing
      /\ \A n \in Names \ {e.from, e.to} : after[n] = files[n]
  BY <1>0, <1>1, MovedWhere
<1>3. Balanced(less, after)
  BY <1>1, RevertBalances
<1>4. InPlace(after)
  BY <1>0, <1>1, MovedInPlace
<1>5. IsFiniteSet(less) /\ less \subseteq Overrides
  BY <1>1, FS_Subset
<1>6. /\ retitled \in [Skills -> Names]
      /\ IsSkill(e.from) => files[e.to] \in Skills /\ retitled[files[e.to]] = e.ident
      /\ \A z \in Skills : z # files[e.to] => retitled[z] = titles[z]
  <2>1. IsSkill(e.from) => files[e.to] \in Skills
    BY <1>0, <1>1 DEF InPlace, SameKind
  <2> QED
    BY <1>0, <1>1, <2>1, RetitleOthers
<1> HIDE DEF after, retitled
<1>7. ASSUME NEW o \in less, o.from # o.to, ~MovedOn(less, o), IsSkill(o.to)
      PROVE  retitled[after[o.to]] \in KnownAs(o.to)
  <2>0. o \in entries /\ o # e /\ o.to \in Names
    BY <1>1 DEF Overrides
  <2>1. CASE MovedOn(entries, o)
    <3>1. e.from = o.to
      BY <1>7, <2>1 DEF MovedOn
    <3> QED
      BY <1>1, <1>2, <1>6, <1>7, <3>1
  <2>2. CASE ~MovedOn(entries, o)
    <3>2. files[o.to] # Nothing /\ titles[files[o.to]] \in KnownAs(o.to)
      BY <1>1, <1>7, <2>0, <2>2, StandingIsThere DEF Titled
    <3>3. files[o.to] \in Skills
      BY <1>1, <1>7, <2>0, <3>2 DEF InPlace
    <3>4. CASE o.to = e.from /\ o.to = e.to
      BY <1>1, <1>2, <1>6, <1>7, <3>4
    <3>5. CASE e.from # e.to
      <4>1. o.to # e.to
        <5> SUFFICES ASSUME o.to = e.to PROVE FALSE
          OBVIOUS
        <5>1. o.id >= e.id \/ e.id >= o.id
          BY <1>1, <2>0 DEF Overrides
        <5>2. CASE o.id >= e.id
          BY <1>1, <1>7, <2>0, <3>5, <5>2, StandingAlone
        <5>3. CASE e.id >= o.id
          BY <1>1, <1>7, <2>0, <2>2, <3>5, <5>3, StandingAlone
        <5> QED
          BY <5>1, <5>2, <5>3
      <4>2. o.to # e.from
        BY <3>2, <3>5
      <4>3. after[o.to] = files[o.to] /\ files[o.to] # files[e.to]
        BY <1>0, <1>1, <1>2, <2>0, <3>2, <4>1, <4>2 DEF InPlace
      <4> QED
        BY <1>6, <3>2, <3>3, <4>3
    <3>6. CASE e.from = e.to /\ o.to # e.to
      <4>1. after[o.to] = files[o.to] /\ files[o.to] # files[e.to]
        BY <1>0, <1>1, <1>2, <2>0, <3>2, <3>6 DEF InPlace
      <4> QED
        BY <1>6, <3>2, <3>3, <4>1
    <3> QED
      BY <3>4, <3>5, <3>6
  <2> QED
    BY <2>1, <2>2
<1>8. Titled(less, after, retitled)
  BY <1>7 DEF Titled
<1>9. Agree(less, after, retitled)
  BY <1>1, <1>2, <1>3, <1>4, <1>5, <1>6, <1>8 DEF Agree, InPlace
<1> QED
  BY <1>9 DEF after, retitled

\* The ledger that an undisturbed rename writes has its entry.
LEMMA AppliedLedger ==
  ASSUME NEW c \in Calls, call[c].action = "apply",
         FindOverride(call[c].read, call[c].s) = {}
  PROVE  LedgerOf(c) = call[c].read \cup {Override(call[c].id, call[c].s, call[c].name)}
BY DEF LedgerOf, AppendOverride, FindOverride, Override

\* The first change of a call, the frontmatter, foresees the other two.
LEMMA RewriteAgrees ==
  ASSUME TypeOK, TargetFree, ReadsNow, Agreement, ~disturbed, ~misled,
         NEW c \in Calls, pc[c] = "checked", disk[Source(c)] # Nothing
  PROVE  Agree(LedgerOf(c), Moved(Source(c), Target(c)), Retitled(c))
<1>1. /\ call[c] \in CallRecord /\ call[c].read = ledger
      /\ \A o \in ledger : o.id < call[c].id
      /\ SameKind(call[c].name, call[c].s.from)
      /\ Source(c) = Target(c) \/ disk[Target(c)] = Nothing
  BY DEF TypeOK, ReadsNow, TargetFree
<1>2. Agree(ledger, disk, title)
  BY DEF Agreement, TargetFree
<1>3. Moved(Source(c), Target(c)) = MovedIn(disk, Source(c), Target(c))
  BY DEF Moved, MovedIn
<1>4. CASE call[c].action = "apply"
  <2> DEFINE e == Override(call[c].id, call[c].s, call[c].name)
  <2>1. call[c].s \in Suggestions /\ call[c].name \in Names /\ call[c].id \in Nat
    BY <1>1 DEF CallRecord, TypeOK
  <2>2. call[c].s.from \in Names /\ call[c].s.ident \in Names
    BY <2>1, RenameAssumption
  <2>3. e \in Overrides
    BY <2>1, <2>2 DEF Override, Overrides
  <2>4. /\ e.from = call[c].s.from /\ e.to = call[c].name
        /\ e.ident = call[c].s.ident /\ e.id = call[c].id
    BY DEF Override
  <2>5. e.ident \in KnownAs(e.from)
    BY <2>1, <2>4 DEF KnownAs
  <2>6. LedgerOf(c) = ledger \cup {e}
    BY <1>1, <1>4, AppliedLedger DEF ReadsNow
  <2>7. Source(c) = e.from /\ Target(c) = e.to
    BY <1>4, <2>4 DEF Source, Target
  <2>8. Retitled(c) = IF IsSkill(e.from) THEN [title EXCEPT ![disk[e.from]] = e.to] ELSE title
    BY <1>4, <2>4, <2>7 DEF Retitled, Rewrites, TitleFor
  <2>9. SameKind(e.from, e.to) /\ \A o \in ledger : o.id < e.id
    BY <1>1, <2>4 DEF SameKind
  <2> HIDE DEF e
  <2> QED
    BY <1>1, <1>2, <1>3, <2>3, <2>5, <2>6, <2>7, <2>8, <2>9, ApplyAgrees
<1>5. CASE call[c].action # "apply"
  <2> DEFINE e == call[c].entry
  <2>1. call[c].action = "revert" /\ e \in ledger
    BY <1>1, <1>5 DEF TypeOK, CallRecord
  <2>2. ~MovedOn(ledger, e) /\ SameKind(e.from, call[c].s.from)
    BY <2>1 DEF Agreement
  <2>3. LedgerOf(c) = ledger \ {e} /\ Source(c) = e.to /\ Target(c) = e.from
    BY <1>1, <1>5 DEF LedgerOf, Source, Target
  <2>4. Retitled(c) = IF IsSkill(e.from) THEN [title EXCEPT ![disk[e.to]] = e.ident] ELSE title
    BY <1>5, <2>2, <2>3 DEF Retitled, Rewrites, TitleFor, SameKind
  <2> HIDE DEF e
  <2> QED
    BY <1>1, <1>2, <1>3, <2>1, <2>2, <2>3, <2>4, RevertAgrees, SMTT(60)
<1> QED
  BY <1>4, <1>5

\* With nobody else at work the ledger read is the ledger there is.
LEMMA ReadsNowStep == TypeOK /\ TargetFree /\ ReadsNow /\ [Next]_vars => ReadsNow'
<1> SUFFICES ASSUME TypeOK, TargetFree, ReadsNow, [Next]_vars PROVE ReadsNow'
  OBVIOUS
<1> USE DEF callVars, diskVars, history
<1>1. ASSUME NEW c \in Calls, NEW request \in Requests, ReadLedgerForCall(c, request)
      PROVE  ReadsNow'
  <2>1. /\ disturbed' = (disturbed \/ InFlight # {}) /\ ledger' = ledger /\ form' = form
        /\ started' = started + 1 /\ started \in Nat /\ pc' = [pc EXCEPT ![c] = "read"]
        /\ call'[c] = [action |-> request.action, s |-> request.s, name |-> request.name,
                       id |-> started + 1, read |-> ReadLedger, entry |-> NoEntry]
    BY <1>1 DEF ReadLedgerForCall, Become, TypeOK
  <2>2. \A e \in ledger : e.id \in Nat
    BY DEF TypeOK, Overrides
  <2>3. SameKind(request.name, request.s.from)
    BY DEF Requests
  <2>4. ~disturbed' => \A k \in Calls \ {c} : pc'[k] = "idle"
    BY <2>1 DEF InFlight, TypeOK
  <2>5. pc'[c] = "read" /\ (~disturbed => call'[c].read = ledger)
    BY <2>1 DEF TypeOK, ReadsNow, ReadLedger
  <2>6. ASSUME ~disturbed'
        PROVE  /\ form' = "ok" /\ \A e \in ledger' : e.id <= started'
               /\ call'[c].read = ledger' /\ \A e \in ledger' : e.id < call'[c].id
               /\ SameKind(call'[c].name, call'[c].s.from)
    <3>1. ~disturbed /\ form = "ok" /\ \A e \in ledger : e.id <= started
      BY <2>1, <2>6 DEF ReadsNow
    <3>2. call'[c].id = started + 1 /\ call'[c].name = request.name /\ call'[c].s = request.s
      BY <2>1
    <3> QED
      BY <2>1, <2>2, <2>3, <2>5, <3>1, <3>2
  <2> QED
    BY <2>4, <2>5, <2>6 DEF ReadsNow
<1>2. ASSUME NEW c \in Calls, Refuse(c) PROVE ReadsNow'
  BY <1>2 DEF Refuse, Return, TypeOK, ReadsNow
<1>3. ASSUME NEW c \in Calls, ApplyCheck(c) PROVE ReadsNow'
  BY <1>2, <1>3 DEF ApplyCheck, Become, TypeOK, ReadsNow
<1>4. ASSUME NEW c \in Calls, RevertCheck(c) PROVE ReadsNow'
  <2>1. CASE Refuse(c)
    BY <1>2, <2>1
  <2>2. ASSUME NEW e, Become(c, "checked"), call' = [call EXCEPT ![c].entry = e],
               UNCHANGED <<ledger, form, started, disturbed>>
        PROVE  ReadsNow'
    <3>1. pc[c] = "read" /\ call[c].action = "revert" /\ call[c] \in CallRecord
      BY <1>4 DEF RevertCheck, TypeOK
    <3>2. /\ call'[c].read = call[c].read /\ call'[c].id = call[c].id
          /\ call'[c].name = call[c].name /\ call'[c].s = call[c].s
          /\ call'[c].action = "revert"
      BY <2>2, <3>1 DEF CallRecord, TypeOK
    <3>3. \A k \in Calls \ {c} : pc'[k] = pc[k] /\ call'[k] = call[k]
      BY <2>2 DEF Become, TypeOK
    <3> QED
      BY <2>2, <3>1, <3>2, <3>3 DEF ReadsNow
  <2> QED
    BY <1>4, <2>1, <2>2 DEF RevertCheck
<1>5. ASSUME NEW c \in Calls, Fail(c) PROVE ReadsNow'
  BY <1>5 DEF Fail, ReadsNow
<1>6. ASSUME NEW c \in Calls, RewriteTitle(c) PROVE ReadsNow'
  BY <1>6 DEF RewriteTitle, Become, TypeOK, ReadsNow
<1>7. ASSUME NEW c \in Calls, Move(c) PROVE ReadsNow'
  BY <1>7 DEF Move, Become, TypeOK, ReadsNow
<1>8. ASSUME NEW c \in Calls, SaveLedger(c) PROVE ReadsNow'
  <2>1. /\ ledger' = LedgerOf(c) /\ form' = "ok" /\ UNCHANGED <<started, disturbed>>
        /\ pc[c] = "moved" /\ pc' = [pc EXCEPT ![c] = "idle"]
    BY <1>8 DEF SaveLedger, WriteLedger, Return
  <2>2. ~disturbed => \A k \in Calls : pc'[k] = "idle"
    BY <2>1 DEF TargetFree, TypeOK
  <2>3. ASSUME ~disturbed, NEW e \in LedgerOf(c) PROVE e.id <= started
    <3>1. call[c].id \in 1..started /\ started \in Nat
      BY <2>1 DEF TypeOK, CallRecord
    <3>2. call[c].read = ledger
      BY <2>1, <2>3 DEF ReadsNow
    <3>3. e \in ledger \/ e.id = call[c].id
      BY <2>3, <3>2 DEF LedgerOf, AppendOverride, Override
    <3> QED
      BY <2>3, <3>1, <3>3 DEF ReadsNow
  <2> QED
    BY <2>1, <2>2, <2>3 DEF ReadsNow
<1>9. ASSUME NEW n \in Names, OutsideRemoves(n) PROVE ReadsNow'
  BY <1>9 DEF OutsideRemoves, ReadsNow
<1>10. ASSUME NEW n \in Names, NEW a \in Artifacts, OutsideCreates(n, a) PROVE ReadsNow'
  BY <1>10 DEF OutsideCreates, ReadsNow
<1>11. CASE UNCHANGED vars
  BY <1>11 DEF vars, ReadsNow
<1> QED
  BY <1>1, <1>2, <1>3, <1>4, <1>5, <1>6, <1>7, <1>8, <1>9, <1>10, <1>11
     DEF Next, CallStep, OutsideStep, CheckFails, RewriteFails, MoveFails,
         SaveLedgerFails, Crash

\* One step after the other a call carries the agreement to the new ledger and disk.
LEMMA AgreementStep ==
  TypeOK /\ TargetFree /\ ReadsNow /\ Agreement /\ [Next]_vars => Agreement'
<1> SUFFICES ASSUME TypeOK, TargetFree, ReadsNow, Agreement, [Next]_vars,
                    ~disturbed', ~misled'
             PROVE  Agreement'
  BY DEF Agreement
<1> USE DEF callVars, diskVars, history
<1>1. ASSUME NEW c \in Calls, NEW request \in Requests, ReadLedgerForCall(c, request)
      PROVE  Agreement'
  <2>1. ~disturbed /\ ~misled /\ \A k \in Calls : pc[k] = "idle"
    BY <1>1 DEF ReadLedgerForCall, InFlight
  <2>2. Agree(ledger, disk, title)
    BY <2>1 DEF Agreement
  <2>3. UNCHANGED <<ledger, disk, title>> /\ \A k \in Calls : pc'[k] \in {"idle", "read"}
    BY <1>1, <2>1 DEF ReadLedgerForCall, Become, TypeOK
  <2>4. Agree(ledger, disk, title)'
    BY <2>2, <2>3 DEF Agree, Balanced, Titled, Presence, Arrivals, Departures, MovedOn
  <2> QED
    BY <2>3, <2>4 DEF Agreement
<1>2. ASSUME NEW c \in Calls, Refuse(c), pc[c] = "read" PROVE Agreement'
  <2>1. ~disturbed /\ ~misled /\ UNCHANGED <<ledger, disk, title>>
        /\ pc' = [pc EXCEPT ![c] = "idle"]
    BY <1>2 DEF Refuse, Return
  <2>2. \A k \in Calls : pc[k] \in {"idle", "read"} /\ pc'[k] = "idle"
    BY <1>2, <2>1 DEF TargetFree, TypeOK
  <2>3. Agree(ledger, disk, title)
    BY <2>1, <2>2 DEF Agreement
  <2>4. Agree(ledger, disk, title)'
    BY <2>1, <2>3 DEF Agree, Balanced, Titled, Presence, Arrivals, Departures, MovedOn
  <2> QED
    BY <2>2, <2>4 DEF Agreement
<1>3. ASSUME NEW c \in Calls, pc[c] = "read", pc' = [pc EXCEPT ![c] = "checked"],
             UNCHANGED <<ledger, disk, title, disturbed>>, ~misled,
             call'[c].action = "revert" =>
               /\ ~MovedOn(ledger, call'[c].entry)
               /\ SameKind(call'[c].entry.from, call'[c].s.from)
      PROVE  Agreement'
  <2>1. \A k \in Calls : k # c => pc[k] = "idle" /\ pc'[k] = "idle"
    BY <1>3 DEF TargetFree, TypeOK
  <2>2. pc'[c] = "checked"
    BY <1>3 DEF TypeOK
  <2>3. Agree(ledger, disk, title)
    BY <1>3, <2>1 DEF Agreement
  <2>4. Agree(ledger, disk, title)'
    BY <1>3, <2>3 DEF Agree, Balanced, Titled, Presence, Arrivals, Departures, MovedOn
  <2>5. ~MovedOn(ledger, call'[c].entry) => ~MovedOn(ledger, call[c].entry)'
    BY <1>3 DEF MovedOn
  <2> QED
    BY <1>3, <2>1, <2>2, <2>4, <2>5 DEF Agreement
<1>4. ASSUME NEW c \in Calls, ApplyCheck(c) PROVE Agreement'
  <2>1. CASE Refuse(c)
    BY <1>2, <1>4, <2>1 DEF ApplyCheck
  <2>2. CASE ~Refuse(c)
    BY <1>3, <1>4, <2>2 DEF ApplyCheck, Become
  <2> QED
    BY <2>1, <2>2
<1>5. ASSUME NEW c \in Calls, RevertCheck(c) PROVE Agreement'
  <2>0. pc[c] = "read" /\ call[c].action = "revert" /\ call[c] \in CallRecord
    BY <1>5 DEF RevertCheck, TypeOK
  <2>1. CASE Refuse(c)
    BY <1>2, <2>0, <2>1
  <2>2. ASSUME NEW e, Become(c, "checked"), call' = [call EXCEPT ![c].entry = e],
               misled' = (misled \/ MovedOn(call[c].read, e)
                                 \/ ~SameKind(e.from, call[c].s.from)),
               UNCHANGED <<diskVars, ledger, disturbed>>
        PROVE  Agreement'
    <3>1. call'[c].entry = e /\ call'[c].s = call[c].s
      BY <2>0, <2>2 DEF CallRecord, TypeOK
    <3>2. call[c].read = ledger
      BY <2>0, <2>2 DEF ReadsNow
    <3>3. ~misled /\ ~MovedOn(ledger, e) /\ SameKind(e.from, call[c].s.from)
      BY <2>2, <3>2
    <3> QED
      BY <1>3, <2>0, <2>2, <3>1, <3>3 DEF Become
  <2> QED
    BY <1>5, <2>1, <2>2 DEF RevertCheck
<1>6. ASSUME NEW c \in Calls, Fail(c) PROVE Agreement'
  BY <1>6 DEF Fail
<1>7. ASSUME NEW c \in Calls, RewriteTitle(c) PROVE Agreement'
  <2>1. /\ ~disturbed /\ ~misled /\ pc[c] = "checked" /\ disk[Source(c)] # Nothing
        /\ pc' = [pc EXCEPT ![c] = "rewritten"] /\ title' = Retitled(c)
        /\ UNCHANGED <<disk, ledger, call>>
    BY <1>7 DEF RewriteTitle, Become
  <2>2. pc'[c] = "rewritten" /\ \A k \in Calls : k # c => pc'[k] = "idle"
    BY <2>1 DEF TargetFree, TypeOK
  <2>3. Agree(LedgerOf(c), Moved(Source(c), Target(c)), Retitled(c))
    BY <2>1, RewriteAgrees
  <2>4. LedgerOf(c)' = LedgerOf(c) /\ Moved(Source(c), Target(c))' = Moved(Source(c), Target(c))
    BY <2>1 DEF LedgerOf, AppendOverride, FindOverride, Moved, Source, Target
  <2>5. Agree(LedgerOf(c), Moved(Source(c), Target(c)), title)'
    BY <2>1, <2>3, <2>4 DEF Agree, Balanced, Titled, Presence, Arrivals, Departures, MovedOn
  <2> QED
    BY <2>2, <2>5 DEF Agreement
<1>8. ASSUME NEW c \in Calls, Move(c) PROVE Agreement'
  <2>1. /\ ~disturbed /\ ~misled /\ pc[c] = "rewritten"
        /\ pc' = [pc EXCEPT ![c] = "moved"] /\ disk' = Moved(Source(c), Target(c))
        /\ UNCHANGED <<title, ledger, call>>
    BY <1>8 DEF Move, Become
  <2>2. pc'[c] = "moved" /\ \A k \in Calls : k # c => pc'[k] = "idle"
    BY <2>1 DEF TargetFree, TypeOK
  <2>3. Agree(LedgerOf(c), Moved(Source(c), Target(c)), title)
    BY <2>1 DEF Agreement
  <2>4. LedgerOf(c)' = LedgerOf(c)
    BY <2>1 DEF LedgerOf, AppendOverride, FindOverride
  <2>5. Agree(LedgerOf(c), disk, title)'
    BY <2>1, <2>3, <2>4 DEF Agree, Balanced, Titled, Presence, Arrivals, Departures, MovedOn
  <2> QED
    BY <2>2, <2>5 DEF Agreement
<1>9. ASSUME NEW c \in Calls, SaveLedger(c) PROVE Agreement'
  <2>1. /\ ~disturbed /\ ~misled /\ pc[c] = "moved" /\ pc' = [pc EXCEPT ![c] = "idle"]
        /\ ledger' = LedgerOf(c) /\ UNCHANGED <<disk, title>>
    BY <1>9 DEF SaveLedger, WriteLedger, Return
  <2>2. \A k \in Calls : pc'[k] = "idle"
    BY <2>1 DEF TargetFree, TypeOK
  <2>3. Agree(LedgerOf(c), disk, title)
    BY <2>1 DEF Agreement
  <2>4. Agree(ledger, disk, title)'
    BY <2>1, <2>3 DEF Agree, Balanced, Titled, Presence, Arrivals, Departures, MovedOn
  <2> QED
    BY <2>2, <2>4 DEF Agreement
<1>10. ASSUME NEW n \in Names, OutsideRemoves(n) PROVE Agreement'
  BY <1>10 DEF OutsideRemoves
<1>11. ASSUME NEW n \in Names, NEW a \in Artifacts, OutsideCreates(n, a) PROVE Agreement'
  BY <1>11 DEF OutsideCreates
<1>12. CASE UNCHANGED vars
  <2>1. UNCHANGED <<ledger, disk, title, pc, call>> /\ ~disturbed /\ ~misled
    BY <1>12 DEF vars
  <2>2. Agree(ledger, disk, title) => Agree(ledger, disk, title)'
    BY <2>1 DEF Agree, Balanced, Titled, Presence, Arrivals, Departures, MovedOn
  <2>3. ASSUME NEW c \in Calls
        PROVE  LedgerOf(c)' = LedgerOf(c)
               /\ Moved(Source(c), Target(c))' = Moved(Source(c), Target(c))
    BY <2>1 DEF LedgerOf, AppendOverride, FindOverride, Moved, Source, Target
  <2>4. ASSUME NEW c \in Calls
        PROVE  /\ Agree(LedgerOf(c), disk, title) => Agree(LedgerOf(c), disk, title)'
               /\ Agree(LedgerOf(c), Moved(Source(c), Target(c)), title)
                    => Agree(LedgerOf(c), Moved(Source(c), Target(c)), title)'
    BY <2>1, <2>3 DEF Agree, Balanced, Titled, Presence, Arrivals, Departures, MovedOn
  <2>5. \A c \in Calls : MovedOn(ledger, call[c].entry)' <=> MovedOn(ledger, call[c].entry)
    BY <2>1 DEF MovedOn
  <2> QED
    BY <2>1, <2>2, <2>4, <2>5 DEF Agreement
<1> QED
  BY <1>1, <1>2, <1>4, <1>5, <1>6, <1>7, <1>8, <1>9, <1>10, <1>11, <1>12
     DEF Next, CallStep, OutsideStep, CheckFails, RewriteFails, MoveFails,
         SaveLedgerFails, Crash

\* What earlier calls left behind agrees with itself.
LEMMA StandingAgrees ==
  ASSUME Init PROVE ReadsNow /\ Agreement
<1> PICK start \in InitStates : disk = start.disk /\ title = start.title /\ ledger = start.ledger
  BY DEF Init
<1>1. start \in [disk: [Names -> Artifacts \cup {Nothing}],
                 title: [Skills -> Names], ledger: SUBSET Overrides]
      /\ Standing(start)
  BY RenameAssumption
<1>2. /\ disk \in [Names -> Artifacts \cup {Nothing}] /\ title \in [Skills -> Names]
      /\ ledger \subseteq Overrides /\ IsFiniteSet(ledger)
  BY <1>1 DEF Standing
<1>3. /\ \A m, n \in Names : disk[m] = disk[n] /\ m # n => disk[m] = Nothing
      /\ \A n \in Names : disk[n] # Nothing => (IsSkill(n) <=> disk[n] \in Skills)
      /\ \A e, o \in ledger : e.to = o.to => e = o
      /\ \A e \in ledger : /\ e.id = 0 /\ SameKind(e.from, e.to)
                           /\ disk[e.to] # Nothing
                           /\ IsSkill(e.to) => title[disk[e.to]] = e.to
                           /\ \E s \in Suggestions : s.from = e.from /\ s.ident = e.ident
  BY <1>1 DEF Standing
<1>4. Balanced(ledger, disk)
  <2> SUFFICES ASSUME NEW n \in Names, NEW i \in Nat
               PROVE  Cardinality(Arrivals(ledger, n, i))
                        <= Cardinality(Departures(ledger, n, i)) + Presence(disk, n)
    BY DEF Balanced
  <2>1. /\ Cardinality(Departures(ledger, n, i)) \in Nat
        /\ IsFiniteSet(Arrivals(ledger, n, i))
    BY <1>2, CountsAreNumbers
  <2>2. CASE Arrivals(ledger, n, i) = {}
    BY <2>1, <2>2, FS_EmptySet DEF Presence
  <2>3. CASE Arrivals(ledger, n, i) # {}
    <3>1. PICK e : e \in Arrivals(ledger, n, i)
      BY <2>3
    <3>2. Arrivals(ledger, n, i) = {e} /\ disk[n] # Nothing
      BY <1>3, <3>1 DEF Arrivals
    <3>3. Cardinality(Arrivals(ledger, n, i)) = 1
      BY <3>2, FS_Singleton
    <3> QED
      BY <2>1, <3>2, <3>3 DEF Presence
  <2> QED
    BY <2>2, <2>3
<1>5. Titled(ledger, disk, title)
  BY <1>3 DEF Titled, KnownAs
<1>6. \A e \in ledger : e.ident \in KnownAs(e.from)
  BY <1>3 DEF KnownAs
<1>7. Agree(ledger, disk, title)
  BY <1>2, <1>3, <1>4, <1>5, <1>6 DEF Agree
<1> QED
  <2>1. \A c \in Calls : pc[c] = "idle"
    BY DEF Init
  <2>2. started = 0 /\ (~disturbed => form = "ok")
    BY DEF Init
  <2> QED
    BY <1>3, <1>7, <2>1, <2>2 DEF ReadsNow, Agreement

\* The inductive invariant holds, the type invariant with it.
THEOREM InvHolds == Spec => []Inv
<1>1. Inv /\ [Next]_vars => Inv'
  BY TypeStep, TookPlaceStep, TargetFreeStep DEF Inv
<1> QED
  BY InitEstablishes, <1>1, PTL DEF Spec

\* With nobody else at work the agreement goes with it.
LEMMA AgreementHolds == Spec => [](ReadsNow /\ Agreement)
<1>1. Init => ReadsNow /\ Agreement
  BY StandingAgrees
<1>2. Inv /\ (ReadsNow /\ Agreement) /\ [Next]_vars => (ReadsNow /\ Agreement)'
  BY ReadsNowStep, AgreementStep DEF Inv
<1> QED
  BY <1>1, <1>2, InvHolds, PTL DEF Spec

\* Calls and the ledger keep their types, and a revert past its checks works on an
\* entry it has read.  (applyRename, revertRename)
THEOREM TypeCorrect == Spec => []TypeOK
<1>1. Inv => TypeOK
  BY DEF Inv
<1> QED
  BY InvHolds, <1>1, PTL

\* The ledger never claims a rename that did not take place: a copy read earlier may
\* be stale and lose entries, but every entry in it is of a rename that happened.
\* (applyRename mutates the disk first and then writes the ledger.)
THEOREM NeverAhead == Spec => []LedgerNeverAhead
<1>1. Inv => LedgerNeverAhead
  BY DEF Inv
<1> QED
  BY InvHolds, <1>1, PTL

\* Undisturbed, and with reverts asked last in first out, the ledger agrees with the
\* disk after every call, however many renames are chained: each entry was renamed on
\* from, or its new name is there and, for a skill, in its frontmatter.
\* (applyRename, revertRename)
THEOREM LedgerAndDiskAgree == Spec => []LedgerMatchesDisk
<1>1. ReadsNow /\ Agreement => LedgerMatchesDisk
  <2> SUFFICES ASSUME Agreement, ~disturbed, ~misled, InFlight = {}, NEW e \in ledger,
                      e.from # e.to, ~MovedOn(ledger, e)
               PROVE  /\ disk[e.to] # Nothing
                      /\ IsSkill(e.to) => title[disk[e.to]] \in KnownAs(e.to)
    BY DEF LedgerMatchesDisk
  <2>1. Agree(ledger, disk, title)
    BY DEF InFlight, Agreement
  <2> QED
    BY <2>1, StandingIsThere DEF Agree, Titled
<1> QED
  BY AgreementHolds, <1>1, PTL

\* No call makes a skill vanish, and none a file unless it was overtaken between its
\* look at the target and its rename.  (applyRename's and revertRename's target checks)
THEOREM OverwritesNothing == Spec => NothingOverwritten
<1> DEFINE Kept == \A n \in Names :
                     disk[n] # Nothing /\ (\A m \in Names : disk'[m] # disk[n])
                       => \/ outside' # outside
                          \/ disturbed /\ ~IsSkill(n)
<1>1. Inv /\ [Next]_vars => [Kept]_vars
  <2> SUFFICES ASSUME Inv, [Next]_vars PROVE Kept
    OBVIOUS
  <2>1. ASSUME NEW c \in Calls, Move(c) PROVE Kept
    <3>1. call[c] \in CallRecord /\ (call[c].action # "apply" => call[c].entry \in call[c].read)
      BY <2>1 DEF Inv, TypeOK, CallRecord, Move
    <3>2. Source(c) \in Names /\ Target(c) \in Names
      BY <3>1, RenameAssumption DEF Source, Target, CallRecord, Overrides
    <3>3. \A n \in Names : n # Source(c) /\ n # Target(c) => disk'[n] = disk[n]
      BY <2>1, <3>2 DEF Move, Moved, Inv, TypeOK
    <3>4. disk'[Target(c)] = disk[Source(c)]
      BY <2>1, <3>2 DEF Move, Moved, Inv, TypeOK
    <3>5. disk[Target(c)] # Nothing /\ Source(c) # Target(c)
            => disturbed /\ ~IsSkill(Target(c))
      BY <2>1 DEF Move, Movable, Inv, TargetFree
    <3> QED
      BY <3>2, <3>3, <3>4, <3>5
  <2>2. ASSUME NEW c \in Calls, CallStep(c), ~Move(c) PROVE disk' = disk
    BY <2>2 DEF CallStep, ReadLedgerForCall, ApplyCheck, RevertCheck, CheckFails, Refuse,
                RewriteTitle, RewriteFails, MoveFails, SaveLedger, SaveLedgerFails, Crash,
                diskVars
  <2>3. CASE OutsideStep
    BY <2>3 DEF OutsideStep, OutsideRemoves, OutsideCreates, Inv, TypeOK
  <2>4. CASE UNCHANGED vars
    BY <2>4 DEF vars, diskVars
  <2> QED
    BY <2>1, <2>2, <2>3, <2>4 DEF Next
<1> QED
  BY InvHolds, <1>1, PTL DEF Spec, NothingOverwritten
=============================================================================
