------------------------ MODULE SkillInstall_proofs ------------------------
(***************************************************************************)
(* The theorems of SkillInstall, for any number of clients, skills, calls  *)
(* and backups kept.                                                       *)
(***************************************************************************)
EXTENDS SkillInstall, TLAPS

CallRecord ==
  [site: Sites, name: Names \cup {NoName}, force: BOOLEAN, action: Actions,
   link: BOOLEAN, effective: Names \cup {NoName}, hash: Entries,
   problem: BOOLEAN, unlisted: BOOLEAN,
   saved: Contents, newer: Nat, shared: BOOLEAN,
   result: {"none", "blocked", "refused", "cancelled", "failed",
            "installed", "removed"},
   before: Contents, entry: Entries, displaced: Contents]

Places == {"idle", "replay", "scan", "manifest", "guard", "check", "backup",
           "cleanup", "core", "record", "link", "remove", "unlink", "done"}

\* A call at work has a skill to work on.
Named == \A c \in Calls : pc[c] # "idle" => call[c].name \in Names

Typed ==
  /\ disk \in [Sites -> [Names -> Contents]]
  /\ manifest \in [Sites -> [Names -> Entries]]
  /\ readable \in BOOLEAN
  /\ overrides \in [Names -> Names \cup {NoName}]
  /\ backups \in [Names -> Seq(Contents)]
  /\ links \subseteq Names \X Sites
  /\ taken \subseteq Names /\ mode \in Modes
  /\ pc \in [Calls -> Places]
  /\ call \in [Calls -> CallRecord]
  /\ started \in Nat /\ changes \in 0 .. MaxChanges

LEMMA ContentsType ==
  /\ Absent \in Contents /\ Upstream \in Contents
  /\ \A k \in 0 .. MaxChanges : k < MaxChanges =>
       k + 1 \in 0 .. MaxChanges /\ k + 2 \in Contents
BY InstallAssumption DEF Contents, Absent, Upstream

\* The fields of a call, and what a change of one of them gives.

Results == {"none", "blocked", "refused", "cancelled", "failed",
            "installed", "removed"}

LEMMA CallFields ==
  ASSUME NEW r \in CallRecord
  PROVE  /\ r.site \in Sites /\ r.name \in Names \cup {NoName}
         /\ r.problem \in BOOLEAN /\ r.unlisted \in BOOLEAN /\ r.newer \in Nat
         /\ r.saved \in Contents /\ r.before \in Contents
BY DEF CallRecord

InstallCall(r) ==
  [NoCall EXCEPT !.site = r.site, !.name = r.name, !.force = r.force,
                 !.action = r.action, !.link = r.link,
                 !.before = disk[r.site][r.name],
                 !.entry = manifest[r.site][r.name]]
RemovalCall(r) ==
  [NoCall EXCEPT !.site = r.site, !.name = r.name, !.force = r.force]

LEMMA InstallRecord ==
  ASSUME Typed, NEW r \in Requests
  PROVE  InstallCall(r) \in CallRecord /\ InstallCall(r).name \in Names
<1>1. r \in [site: Sites, name: Names, force: BOOLEAN, action: Actions, link: BOOLEAN]
      /\ Canonical \in Sites
  BY InstallAssumption
<1>2. disk[r.site][r.name] \in Contents /\ manifest[r.site][r.name] \in Entries
  BY <1>1 DEF Typed
<1> QED
  BY <1>1, <1>2, ContentsType DEF InstallCall, NoCall, CallRecord, Actions, Entries

LEMMA RemovalRecord ==
  ASSUME NEW r \in Removals
  PROVE  RemovalCall(r) \in CallRecord /\ RemovalCall(r).name \in Names
<1>1. r \in [site: Sites, name: Names, force: BOOLEAN] /\ Canonical \in Sites
  BY InstallAssumption
<1> QED
  BY <1>1, ContentsType DEF RemovalCall, NoCall, CallRecord, Actions, Entries

\* What the history operators do to the calls.

LEMMA DisturbedType ==
  ASSUME call \in [Calls -> CallRecord], NEW P
  PROVE  /\ Disturbed(P) \in [Calls -> CallRecord]
         /\ \A d \in Calls : Disturbed(P)[d].name = call[d].name
BY ContentsType DEF Disturbed, CallRecord

LEMMA DisturbedKeeps ==
  ASSUME NEW P, NEW d \in Calls
  PROVE  Disturbed(P)[d] =
           IF <<call[d].site, call[d].name>> \in P
           THEN [call[d] EXCEPT !.before = Absent] ELSE call[d]
BY DEF Disturbed

LEMMA AgedType ==
  ASSUME NEW n, NEW calls \in [Calls -> CallRecord]
  PROVE  /\ Aged(n, calls) \in [Calls -> CallRecord]
         /\ \A d \in Calls : Aged(n, calls)[d].name = calls[d].name
BY DEF Aged, CallRecord

SetProblem(calls, c, b) == [calls EXCEPT ![c] = [calls[c] EXCEPT !.problem = b]]

LEMMA SetProblemType ==
  ASSUME NEW calls \in [Calls -> CallRecord], NEW c \in Calls, NEW b \in BOOLEAN
  PROVE  /\ SetProblem(calls, c, b) \in [Calls -> CallRecord]
         /\ \A d \in Calls : SetProblem(calls, c, b)[d].name = calls[d].name
BY DEF SetProblem, CallRecord, Results

SetUnlisted(calls, c, b) == [calls EXCEPT ![c] = [calls[c] EXCEPT !.unlisted = b]]

LEMMA SetUnlistedType ==
  ASSUME NEW calls \in [Calls -> CallRecord], NEW c \in Calls, NEW b \in BOOLEAN
  PROVE  /\ SetUnlisted(calls, c, b) \in [Calls -> CallRecord]
         /\ \A d \in Calls : SetUnlisted(calls, c, b)[d].name = calls[d].name
BY DEF SetUnlisted, CallRecord, Results

LEMMA JoinedType ==
  ASSUME call \in [Calls -> CallRecord], NEW D
  PROVE  /\ Joined(D) \in [Calls -> CallRecord]
         /\ \A d \in Calls : Joined(D)[d].name = call[d].name
<1>1. ASSUME NEW d \in Calls
      PROVE  Joined(D)[d] \in CallRecord /\ Joined(D)[d].name = call[d].name
  <2> DEFINE q == call[d]
  <2>0. q \in CallRecord
    OBVIOUS
  <2> HIDE DEF q
  <2>1. [q EXCEPT !.shared = TRUE] \in CallRecord /\ [q EXCEPT !.shared = TRUE].name = q.name
    BY <2>0 DEF CallRecord
  <2>2. Joined(D)[d] \in {q, [q EXCEPT !.shared = TRUE]}
    BY DEF Joined, q
  <2> QED
    BY <2>0, <2>1, <2>2 DEF q
<1>2. Joined(D) = [d \in Calls |-> Joined(D)[d]]
  BY DEF Joined
<1> QED
  BY <1>1, <1>2

SetResult(calls, c, x) == [calls EXCEPT ![c] = [calls[c] EXCEPT !.result = x]]

LEMMA SetResultType ==
  ASSUME NEW calls \in [Calls -> CallRecord], NEW c \in Calls, NEW x \in Results
  PROVE  /\ SetResult(calls, c, x) \in [Calls -> CallRecord]
         /\ \A d \in Calls : SetResult(calls, c, x)[d].name = calls[d].name
BY DEF SetResult, CallRecord, Results

SetEffective(calls, c, n) == [calls EXCEPT ![c] = [calls[c] EXCEPT !.effective = n]]

LEMMA SetEffectiveType ==
  ASSUME NEW calls \in [Calls -> CallRecord], NEW c \in Calls, NEW n \in Names
  PROVE  /\ SetEffective(calls, c, n) \in [Calls -> CallRecord]
         /\ \A d \in Calls : SetEffective(calls, c, n)[d].name = calls[d].name
BY DEF SetEffective, CallRecord, Results

SetHash(calls, c, e) == [calls EXCEPT ![c] = [calls[c] EXCEPT !.hash = e]]

LEMMA SetHashType ==
  ASSUME NEW calls \in [Calls -> CallRecord], NEW c \in Calls, NEW e \in Entries
  PROVE  /\ SetHash(calls, c, e) \in [Calls -> CallRecord]
         /\ \A d \in Calls : SetHash(calls, c, e)[d].name = calls[d].name
BY DEF SetHash, CallRecord, Results

SetSaved(calls, c, x) == [calls EXCEPT ![c] = [calls[c] EXCEPT !.saved = x, !.newer = 0]]

LEMMA SetSavedType ==
  ASSUME NEW calls \in [Calls -> CallRecord], NEW c \in Calls, NEW x \in Contents
  PROVE  /\ SetSaved(calls, c, x) \in [Calls -> CallRecord]
         /\ \A d \in Calls : SetSaved(calls, c, x)[d].name = calls[d].name
BY ZenonT(60) DEF SetSaved, CallRecord, Results

LEMMA DisplacedType ==
  ASSUME NEW r \in CallRecord, NEW x \in Contents
  PROVE  /\ [r EXCEPT !.displaced = x] \in CallRecord
         /\ [r EXCEPT !.displaced = x].name = r.name
BY DEF CallRecord

LEMMA SetCall ==
  ASSUME NEW calls \in [Calls -> CallRecord], NEW c \in Calls,
         NEW r \in CallRecord, r.name = calls[c].name
  PROVE  /\ [calls EXCEPT ![c] = r] \in [Calls -> CallRecord]
         /\ \A d \in Calls : [calls EXCEPT ![c] = r][d].name = calls[d].name
OBVIOUS

LEMMA PushType ==
  ASSUME backups \in [Names -> Seq(Contents)],
         NEW n \in Names, NEW x \in Contents, PushBackup(n, x)
  PROVE  backups' \in [Names -> Seq(Contents)]
<1>1. <<x>> \o backups[n] \in Seq(Contents)
  OBVIOUS
<1> QED
  BY <1>1 DEF PushBackup

LEMMA ReplacedSeq ==
  ASSUME NEW s \in Seq(Contents), NEW x \in Contents
  PROVE  /\ <<x>> \o SubSeq(s, 2, Len(s)) \in Seq(Contents)
         /\ (<<x>> \o SubSeq(s, 2, Len(s)))[1] = x
         /\ Len(<<x>> \o SubSeq(s, 2, Len(s))) >= 1
         /\ Len(<<x>> \o SubSeq(s, 2, Len(s))) >= Len(s)
         /\ \A k \in 2 .. Len(s) : (<<x>> \o SubSeq(s, 2, Len(s)))[k] = s[k]
<1>1. SubSeq(s, 2, Len(s)) \in Seq(Contents)
  OBVIOUS
<1>2. /\ Len(SubSeq(s, 2, Len(s))) = (IF 2 <= Len(s) THEN Len(s) - 1 ELSE 0)
      /\ \A k \in 1 .. Len(s) - 1 : SubSeq(s, 2, Len(s))[k] = s[k + 1]
  OBVIOUS
<1> DEFINE t == SubSeq(s, 2, Len(s))
<1> HIDE DEF t
<1>3. /\ <<x>> \o t \in Seq(Contents) /\ (<<x>> \o t)[1] = x
      /\ Len(<<x>> \o t) = Len(t) + 1
      /\ \A k \in 2 .. Len(t) + 1 : (<<x>> \o t)[k] = t[k - 1]
  BY <1>1 DEF t
<1>4. \A k \in 2 .. Len(s) : k \in 2 .. Len(t) + 1 /\ t[k - 1] = s[k]
  BY <1>2 DEF t
<1>5. Len(s) \in Nat /\ Len(t) \in Nat /\ Len(t) + 1 >= Len(s)
  BY <1>1, <1>2 DEF t
<1> QED
  BY <1>3, <1>4, <1>5 DEF t

LEMMA ReplaceType ==
  ASSUME backups \in [Names -> Seq(Contents)],
         NEW n \in Names, NEW x \in Contents, ReplaceBackup(n, x)
  PROVE  backups' \in [Names -> Seq(Contents)]
<1>1. <<x>> \o SubSeq(backups[n], 2, Len(backups[n])) \in Seq(Contents)
  BY ReplacedSeq
<1> QED
  BY <1>1 DEF ReplaceBackup

LEMMA NoteType ==
  ASSUME call \in [Calls -> CallRecord], NEW c \in Calls, Note(c)
  PROVE  /\ call' \in [Calls -> CallRecord]
         /\ \A d \in Calls : call'[d].name = call[d].name
<1>1. call' = SetProblem(call, c, TRUE)
  BY DEF Note, SetProblem
<1> QED
  BY <1>1, SetProblemType

LEMMA AnswerType ==
  ASSUME call \in [Calls -> CallRecord], pc \in [Calls -> Places],
         NEW c \in Calls, NEW from \in Places \ {"idle"}, NEW r \in Results,
         Answer(c, from, r)
  PROVE  /\ call' \in [Calls -> CallRecord] /\ pc' \in [Calls -> Places]
         /\ \A d \in Calls : /\ call'[d].name = call[d].name
                            /\ pc'[d] # "idle" => pc[d] # "idle"
<1>1. call' = [call EXCEPT ![c] = [call[c] EXCEPT !.result = r]]
      /\ pc' = [pc EXCEPT ![c] = "done"] /\ pc[c] = from
  BY DEF Answer, Goto
<1>2. pc' \in [Calls -> Places]
  BY <1>1 DEF Places
<1>r. call' = SetResult(call, c, r)
  BY <1>1 DEF SetResult
<1>3. call' \in [Calls -> CallRecord]
      /\ \A d \in Calls : call'[d].name = call[d].name
  BY <1>r, SetResultType
<1> QED
  BY <1>1, <1>2, <1>3

-----------------------------------------------------------------------------

\* Types

Inductive == Typed /\ Named

LEMMA TypeStep ==
  ASSUME Inductive, [Next]_vars
  PROVE  Inductive'
<1> USE DEF Inductive, Typed, Named
<1>1. ASSUME NEW c \in Calls, StartInstall(c)  PROVE Inductive'
  <2>1. PICK r \in Requests : call' = [call EXCEPT ![c] = InstallCall(r)]
    BY <1>1 DEF StartInstall, InstallCall
  <2>2. InstallCall(r) \in CallRecord /\ InstallCall(r).name \in Names
    BY InstallRecord
  <2>3. call' \in [Calls -> CallRecord] /\ call'[c].name \in Names
        /\ \A d \in Calls : d # c => call'[d] = call[d]
    BY <2>1, <2>2
  <2>4. pc' \in [Calls -> Places] /\ started' \in Nat
    BY <1>1 DEF StartInstall, Places
  <2>5. Named'
    BY <1>1, <2>3 DEF StartInstall
  <2> QED
    BY <1>1, <2>3, <2>4, <2>5 DEF StartInstall, world, settings
<1>2. ASSUME NEW c \in Calls, StartUninstall(c)  PROVE Inductive'
  <2>1. PICK r \in Removals : call' = [call EXCEPT ![c] = RemovalCall(r)]
    BY <1>2 DEF StartUninstall, RemovalCall
  <2>2. RemovalCall(r) \in CallRecord /\ RemovalCall(r).name \in Names
    BY RemovalRecord
  <2>3. call' \in [Calls -> CallRecord] /\ call'[c].name \in Names
        /\ \A d \in Calls : d # c => call'[d] = call[d]
    BY <2>1, <2>2
  <2>4. pc' \in [Calls -> Places] /\ started' \in Nat
    BY <1>2 DEF StartUninstall, Places
  <2>5. Named'
    BY <1>2, <2>3 DEF StartUninstall
  <2> QED
    BY <1>2, <2>3, <2>4, <2>5 DEF StartUninstall, world, settings
<1>3. ASSUME NEW c \in Calls, Gate(c)  PROVE Inductive'
  <2> USE DEF world, settings, Frame
  <2>1. CASE ReplayLedger(c)
    <3>1. call[c].name \in Names
      BY <2>1 DEF ReplayLedger, Goto
    <3>2. PICK p \in Replays(call[c].name) : call' = [call EXCEPT ![c].effective = p[Len(p)]]
      BY <2>1 DEF ReplayLedger
    <3>b. PICK k \in 0 .. (Cardinality(Names) + 1) : p \in [1 .. k -> Names]
      BY <3>2 DEF Replays, BoundedSeq, SeqOf
    <3>3. p \in Seq(Names) /\ p # <<>>
      <4>1. k \in Nat
        BY <3>b
      <4>2. p \in Seq(Names)
        BY <3>b, <4>1
      <4>3. p # <<>>
        BY <3>2 DEF Replays
      <4> QED
        BY <4>2, <4>3
    <3>4. p[Len(p)] \in Names
      BY <3>3
    <3>e. call' = SetEffective(call, c, p[Len(p)])
      BY <3>2 DEF SetEffective
    <3>5. call' \in [Calls -> CallRecord]
          /\ \A d \in Calls : call'[d].name = call[d].name
      BY <3>4, <3>e, SetEffectiveType
    <3> QED
      BY <2>1, <3>2, <3>5 DEF ReplayLedger, Goto, Places
  <2>2. CASE LedgerUnreadable(c)
    BY <2>2, NoteType DEF LedgerUnreadable, Goto, PastGate, Places
  <2>3. CASE GateBlocks(c)
    <3>1. "scan" \in Places \ {"idle"} /\ "blocked" \in Results
      BY DEF Places, Results
    <3>2. Answer(c, "scan", "blocked")
      BY <2>3 DEF GateBlocks
    <3>3. /\ call' \in [Calls -> CallRecord] /\ pc' \in [Calls -> Places]
          /\ \A d \in Calls : /\ call'[d].name = call[d].name
                             /\ pc'[d] # "idle" => pc[d] # "idle"
      BY <3>1, <3>2, AnswerType
    <3> QED
      BY <2>3, <3>3 DEF GateBlocks, Answer, Goto
  <2>4. CASE GateOpens(c)
    <3>1. PICK missed \in SUBSET Holders(call[c].effective) :
            call' = [call EXCEPT ![c].unlisted = @ \/ missed # {}]
      BY <2>4 DEF GateOpens
    <3> DEFINE b == call[c].unlisted \/ missed # {}
    <3>2. call' = SetUnlisted(call, c, b)
      BY <3>1 DEF SetUnlisted
    <3>3. b \in BOOLEAN
      OBVIOUS
    <3> HIDE DEF b
    <3>4. call' \in [Calls -> CallRecord]
          /\ \A d \in Calls : call'[d].name = call[d].name
      BY <3>2, <3>3, SetUnlistedType
    <3> QED
      BY <2>4, <3>4 DEF GateOpens, Goto, PastGate, Places
  <2>5. CASE GateFails(c)
    BY <2>5, NoteType DEF GateFails, Goto, PastGate, Places
  <2> QED
    BY <1>3, <2>1, <2>2, <2>3, <2>4, <2>5 DEF Gate
<1>4. ASSUME NEW c \in Calls, Preflight(c)  PROVE Inductive'
  <2> USE DEF world, settings, Frame
  <2>1. CASE LookUpEntry(c)
    <3>1. call[c].name \in Names /\ call[c].site \in Sites
      BY <2>1, CallFields DEF LookUpEntry, Goto
    <3> DEFINE e == manifest[call[c].site][call[c].name]
    <3>e. e \in Entries /\ call' = SetHash(call, c, e)
      BY <2>1, <3>1 DEF LookUpEntry, SetHash
    <3> HIDE DEF e
    <3>2. call' \in [Calls -> CallRecord]
          /\ \A d \in Calls : call'[d].name = call[d].name
      BY <3>e, SetHashType
    <3> QED
      BY <2>1, <3>2 DEF LookUpEntry, Goto, Places
  <2>2. CASE ManifestDegraded(c)
    BY <2>2, NoteType DEF ManifestDegraded, Goto, Places
  <2>3. CASE GuardPasses(c)
    BY <2>3 DEF GuardPasses, Goto, Places
  <2>4. CASE GuardRefuses(c)
    <3>1. "guard" \in Places \ {"idle"} /\ "refused" \in Results
      BY DEF Places, Results
    <3>2. Answer(c, "guard", "refused")
      BY <2>4 DEF GuardRefuses
    <3>3. /\ call' \in [Calls -> CallRecord] /\ pc' \in [Calls -> Places]
          /\ \A d \in Calls : /\ call'[d].name = call[d].name
                             /\ pc'[d] # "idle" => pc[d] # "idle"
      BY <3>1, <3>2, AnswerType
    <3> QED
      BY <2>4, <3>3 DEF GuardRefuses, Answer, Goto
  <2>5. CASE CheckThrows(c)
    BY <2>5, NoteType DEF CheckThrows, Goto, Places
  <2>6. CASE CheckPasses(c)
    BY <2>6 DEF CheckPasses, Goto, Places
  <2>7. CASE CheckCancels(c)
    <3>1. "check" \in Places \ {"idle"} /\ "cancelled" \in Results
      BY DEF Places, Results
    <3>2. Answer(c, "check", "cancelled")
      BY <2>7 DEF CheckCancels
    <3>3. /\ call' \in [Calls -> CallRecord] /\ pc' \in [Calls -> Places]
          /\ \A d \in Calls : /\ call'[d].name = call[d].name
                             /\ pc'[d] # "idle" => pc[d] # "idle"
      BY <3>1, <3>2, AnswerType
    <3> QED
      BY <2>7, <3>3 DEF CheckCancels, Answer, Goto
  <2>8. CASE CheckBacksUp(c)
    BY <2>8 DEF CheckBacksUp, Goto, Places
  <2>9. CASE CreateBackup(c)
    <3> DEFINE n == call[c].name
               x == disk[call[c].site][n]
    <3>1. n \in Names /\ x \in Contents
      BY <2>9, CallFields DEF CreateBackup, Goto
    <3>2. Aged(n, call) \in [Calls -> CallRecord]
          /\ \A d \in Calls : Aged(n, call)[d].name = call[d].name
      BY AgedType
    <3>3. call' = [Aged(n, call) EXCEPT ![c].saved = x, ![c].newer = 0]
      BY <2>9 DEF CreateBackup
    <3>s. call' = SetSaved(Aged(n, call), c, x)
      BY <3>2, <3>3 DEF SetSaved
    <3> HIDE DEF x, n
    <3>4. call' \in [Calls -> CallRecord]
          /\ \A d \in Calls : call'[d].name = Aged(n, call)[d].name
      BY <3>1, <3>2, <3>s, SetSavedType
    <3>5. \A d \in Calls : call'[d].name = call[d].name
      BY <3>2, <3>4
    <3>6. backups' \in [Names -> Seq(Contents)]
      BY <2>9, <3>1, PushType DEF CreateBackup, n, x
    <3>7. pc' \in [Calls -> Places] /\ Named'
      BY <2>9, <3>5 DEF CreateBackup, Goto, Places
    <3> QED
      BY <2>9, <3>4, <3>6, <3>7 DEF CreateBackup
  <2>s. CASE ShareBackup(c)
    <3> DEFINE n == call[c].name
               x == disk[call[c].site][n]
               J == Joined(Twins(c))
    <3>1. n \in Names /\ x \in Contents
      BY <2>s, CallFields DEF ShareBackup, Goto
    <3>2. J \in [Calls -> CallRecord] /\ \A d \in Calls : J[d].name = call[d].name
      BY JoinedType
    <3>3. call' = [J EXCEPT ![c].saved = x, ![c].newer = 0]
      BY <2>s DEF ShareBackup
    <3>s. call' = SetSaved(J, c, x)
      BY <3>2, <3>3 DEF SetSaved
    <3>6. backups' \in [Names -> Seq(Contents)]
      BY <2>s, <3>1, ReplaceType DEF ShareBackup, n, x
    <3> HIDE DEF x, n, J
    <3>4. call' \in [Calls -> CallRecord]
          /\ \A d \in Calls : call'[d].name = J[d].name
      BY <3>1, <3>2, <3>s, SetSavedType
    <3>5. \A d \in Calls : call'[d].name = call[d].name
      BY <3>2, <3>4
    <3>7. pc' \in [Calls -> Places] /\ Named'
      BY <2>s, <3>5 DEF ShareBackup, Goto, Places
    <3> QED
      BY <2>s, <3>4, <3>6, <3>7 DEF ShareBackup
  <2>10. CASE BackupThrows(c)
    <3> DEFINE n == call[c].name
    <3>1. n \in Names
      BY <2>10 DEF BackupThrows, Goto
    <3>2. Aged(n, call) \in [Calls -> CallRecord]
          /\ \A d \in Calls : Aged(n, call)[d].name = call[d].name
      BY AgedType
    <3>3. call' = SetProblem(Aged(n, call), c, TRUE)
      BY <2>10 DEF BackupThrows, SetProblem
    <3>4. call' \in [Calls -> CallRecord]
          /\ \A d \in Calls : call'[d].name = Aged(n, call)[d].name
      BY <3>2, <3>3, SetProblemType
    <3>5. \A d \in Calls : call'[d].name = call[d].name
      BY <3>2, <3>4
    <3>6. backups' \in [Names -> Seq(Contents)]
      BY <2>10, <3>1, PushType, ContentsType DEF BackupThrows
    <3>7. pc' \in [Calls -> Places] /\ Named'
      BY <2>10, <3>5 DEF BackupThrows, Goto, Places
    <3> QED
      BY <2>10, <3>4, <3>6, <3>7 DEF BackupThrows
  <2>11. CASE CleanupOldBackups(c)
    <3> DEFINE b == backups[call[c].name]
               k == IF Len(b) < KeepCount THEN Len(b) ELSE KeepCount
    <3>1. b \in Seq(Contents)
      BY <2>11 DEF CleanupOldBackups, Goto
    <3>2. SubSeq(b, 1, k) \in Seq(Contents)
      BY <3>1, InstallAssumption
    <3>3. backups' = [backups EXCEPT ![call[c].name] = SubSeq(b, 1, k)]
      BY <2>11 DEF CleanupOldBackups
    <3>4. backups' \in [Names -> Seq(Contents)]
      BY <3>2, <3>3
    <3> QED
      BY <2>11, <3>4 DEF CleanupOldBackups, Goto, Places
  <2> QED
    BY <1>4, <2>1, <2>2, <2>3, <2>4, <2>5, <2>6, <2>7, <2>8, <2>9, <2>s, <2>10, <2>11 DEF Preflight
<1>5. ASSUME NEW c \in Calls, Core(c)  PROVE Inductive'
  <2> USE DEF world, settings, Frame
  <2>1. CASE CoreRefuses(c)
    <3>1. "core" \in Places \ {"idle"} /\ "failed" \in Results
      BY DEF Places, Results
    <3>2. Answer(c, "core", "failed")
      BY <2>1 DEF CoreRefuses
    <3>3. /\ call' \in [Calls -> CallRecord] /\ pc' \in [Calls -> Places]
          /\ \A d \in Calls : /\ call'[d].name = call[d].name
                             /\ pc'[d] # "idle" => pc[d] # "idle"
      BY <3>1, <3>2, AnswerType
    <3> QED
      BY <2>1, <3>3 DEF CoreRefuses, Answer, Goto
  <2>2. CASE CoreWrites(c)
    <3> DEFINE s == call[c].site
               n == call[c].name
    <3>1. n \in Names /\ s \in Sites
      BY <2>2, CallFields DEF CoreWrites, Goto
    <3>2. call' = [Disturbed({<<s, n>>}) EXCEPT
                    ![c] = [call[c] EXCEPT !.displaced = disk[s][n]]]
      BY <2>2 DEF CoreWrites
    <3> DEFINE r == [call[c] EXCEPT !.displaced = disk[s][n]]
               D == Disturbed({<<s, n>>})
    <3>3. r \in CallRecord /\ r.name = call[c].name
      <4>1. call[c] \in CallRecord /\ disk[s][n] \in Contents
        BY <3>1
      <4> QED
        BY <4>1, DisplacedType
    <3>4. D \in [Calls -> CallRecord] /\ \A d \in Calls : D[d].name = call[d].name
      BY DisturbedType
    <3>n. r.name = D[c].name
      BY <3>3, <3>4
    <3>5. call' = [D EXCEPT ![c] = r]
      BY <3>2
    <3>6. disk' \in [Sites -> [Names -> Contents]]
      BY <2>2, <3>1, ContentsType DEF CoreWrites
    <3> HIDE DEF r, D
    <3>7. call' \in [Calls -> CallRecord] /\ \A d \in Calls : call'[d].name = call[d].name
      BY <3>3, <3>4, <3>5, <3>n, SetCall
    <3> QED
      BY <2>2, <3>6, <3>7 DEF CoreWrites, Goto, Places
  <2>3. CASE CoreRecords(c)
    <3>1. call[c].name \in Names /\ call[c].site \in Sites
      BY <2>3, CallFields DEF CoreRecords, Goto
    <3>r. call' = SetResult(call, c, "installed")
      BY <2>3 DEF CoreRecords, SetResult
    <3>2. call' \in [Calls -> CallRecord]
          /\ \A d \in Calls : call'[d].name = call[d].name
      BY <3>r, SetResultType DEF Results
    <3>3. manifest' \in [Sites -> [Names -> Entries]]
      BY <2>3, <3>1 DEF CoreRecords, Entries
    <3> QED
      BY <2>3, <3>2, <3>3 DEF CoreRecords, Goto, Places
  <2>4. CASE CoreCannotRecord(c)
    <3>1. "record" \in Places \ {"idle"} /\ "failed" \in Results
      BY DEF Places, Results
    <3>2. Answer(c, "record", "failed")
      BY <2>4 DEF CoreCannotRecord
    <3>3. /\ call' \in [Calls -> CallRecord] /\ pc' \in [Calls -> Places]
          /\ \A d \in Calls : /\ call'[d].name = call[d].name
                             /\ pc'[d] # "idle" => pc[d] # "idle"
      BY <3>1, <3>2, AnswerType
    <3> QED
      BY <2>4, <3>3 DEF CoreCannotRecord, Answer, Goto
  <2>5. CASE AddLinks(c)
    <3> DEFINE s == call[c].site
               n == call[c].name
    <3>1. n \in Names /\ s \in Sites
      BY <2>5, CallFields DEF AddLinks, Goto
    <3>2. PICK served \in SUBSET {t \in Sites \ {s} : disk[s][n] # Absent
                 /\ (disk[t][n] = Absent \/ <<n, t>> \in links)} :
          /\ disk' = [t \in Sites |-> IF t \in served
                        THEN [disk[t] EXCEPT ![n] = disk[s][n]] ELSE disk[t]]
          /\ links' = links \cup ({n} \X served)
          /\ call' = [Disturbed(served \X {n}) EXCEPT
                        ![c].problem = @ \/ served # Sites \ {s}]
      BY <2>5 DEF AddLinks
    <3>3. disk' \in [Sites -> [Names -> Contents]]
      BY <3>1, <3>2
    <3>4. links' \subseteq Names \X Sites
      BY <3>1, <3>2
    <3> HIDE DEF s, n
    <3> DEFINE D == Disturbed(served \X {n})
               b == D[c].problem \/ served # Sites \ {s}
    <3>5. D \in [Calls -> CallRecord] /\ \A d \in Calls : D[d].name = call[d].name
      BY DisturbedType
    <3>6. b \in BOOLEAN /\ call' = SetProblem(D, c, b)
      BY <3>2 DEF SetProblem
    <3> HIDE DEF D, b
    <3>7. call' \in [Calls -> CallRecord] /\ \A d \in Calls : call'[d].name = call[d].name
      BY <3>5, <3>6, SetProblemType
    <3> QED
      BY <2>5, <3>3, <3>4, <3>7 DEF AddLinks, Goto, Places
  <2> QED
    BY <1>5, <2>1, <2>2, <2>3, <2>4, <2>5 DEF Core
<1>6. ASSUME NEW c \in Calls, CoreRemoves(c) \/ CoreWillNotRemove(c)
                                \/ RemoveLinks(c) \/ LinksUnreadable(c)
      PROVE  Inductive'
  <2> USE DEF world, settings, Frame
  <2>1. CASE CoreRemoves(c)
    <3> DEFINE s == call[c].site
               n == call[c].name
    <3>1. n \in Names /\ s \in Sites
      BY <2>1, CallFields DEF CoreRemoves, Goto
    <3>2. call' = [Disturbed({<<s, n>>}) EXCEPT ![c].result = "removed"]
      BY <2>1 DEF CoreRemoves
    <3> DEFINE D == Disturbed({<<s, n>>})
    <3>3. D \in [Calls -> CallRecord] /\ \A d \in Calls : D[d].name = call[d].name
      BY DisturbedType
    <3>4. call' = SetResult(D, c, "removed")
      BY <3>2 DEF SetResult
    <3>6. disk' \in [Sites -> [Names -> Contents]]
      BY <2>1, <3>1, ContentsType DEF CoreRemoves
    <3>7. manifest' \in [Sites -> [Names -> Entries]]
      BY <2>1, <3>1 DEF CoreRemoves, Entries
    <3> HIDE DEF D
    <3>8. call' \in [Calls -> CallRecord] /\ \A d \in Calls : call'[d].name = call[d].name
      BY <3>3, <3>4, SetResultType DEF Results
    <3> QED
      BY <2>1, <3>6, <3>7, <3>8 DEF CoreRemoves, Goto, Places
  <2>2. CASE CoreWillNotRemove(c)
    <3>1. "remove" \in Places \ {"idle"} /\ "failed" \in Results
      BY DEF Places, Results
    <3>2. Answer(c, "remove", "failed")
      BY <2>2 DEF CoreWillNotRemove
    <3>3. /\ call' \in [Calls -> CallRecord] /\ pc' \in [Calls -> Places]
          /\ \A d \in Calls : /\ call'[d].name = call[d].name
                             /\ pc'[d] # "idle" => pc[d] # "idle"
      BY <3>1, <3>2, AnswerType
    <3> QED
      BY <2>2, <3>3 DEF CoreWillNotRemove, Answer, Goto
  <2>3. CASE RemoveLinks(c)
    <3> DEFINE n == call[c].name
    <3>1. n \in Names
      BY <2>3 DEF RemoveLinks, Goto
    <3>2. PICK gone \in SUBSET {l \in links : l[1] = n} :
          /\ links' = links \ gone
          /\ disk' = [t \in Sites |-> IF <<n, t>> \in gone
                        THEN [disk[t] EXCEPT ![n] = Absent] ELSE disk[t]]
          /\ call' = [Disturbed({<<l[2], n>> : l \in gone}) EXCEPT
                        ![c].problem = @ \/ \E l \in links \ gone : l[1] = n]
      BY <2>3 DEF RemoveLinks
    <3>3. disk' \in [Sites -> [Names -> Contents]]
      BY <3>1, <3>2, ContentsType
    <3>4. links' \subseteq Names \X Sites
      BY <3>2
    <3> DEFINE D == Disturbed({<<l[2], n>> : l \in gone})
               b == D[c].problem \/ \E l \in links \ gone : l[1] = n
    <3>5. D \in [Calls -> CallRecord] /\ \A d \in Calls : D[d].name = call[d].name
      BY DisturbedType
    <3>6. b \in BOOLEAN /\ call' = SetProblem(D, c, b)
      BY <3>2 DEF SetProblem
    <3> HIDE DEF D, b
    <3>7. call' \in [Calls -> CallRecord] /\ \A d \in Calls : call'[d].name = call[d].name
      BY <3>5, <3>6, SetProblemType
    <3> QED
      BY <2>3, <3>3, <3>4, <3>7 DEF RemoveLinks, Goto, Places
  <2>4. CASE LinksUnreadable(c)
    BY <2>4 DEF LinksUnreadable, Goto, Places
  <2> QED
    BY <1>6, <2>1, <2>2, <2>3, <2>4
<1>7. ASSUME User  PROVE Inductive'
  <2> USE DEF Change, settings
  <2>1. ASSUME NEW s \in Sites, NEW n \in Names, Edit(s, n)  PROVE Inductive'
    <3>1. disk' \in [Sites -> [Names -> Contents]]
      BY <2>1, ContentsType DEF Edit
    <3>2. call' \in [Calls -> CallRecord] /\ \A d \in Calls : call'[d].name = call[d].name
      BY <2>1, DisturbedType DEF Edit
    <3>3. changes' \in 0 .. MaxChanges
      BY <2>1, ContentsType DEF Edit
    <3> QED
      BY <2>1, <3>1, <3>2, <3>3 DEF Edit
  <2>2. ASSUME NEW s \in Sites, NEW n \in Names, Delete(s, n)  PROVE Inductive'
    <3>1. disk' \in [Sites -> [Names -> Contents]]
      BY <2>2, ContentsType DEF Delete
    <3>2. call' \in [Calls -> CallRecord] /\ \A d \in Calls : call'[d].name = call[d].name
      BY <2>2, DisturbedType DEF Delete
    <3>3. changes' \in 0 .. MaxChanges
      BY <2>2, ContentsType DEF Delete
    <3> QED
      BY <2>2, <3>1, <3>2, <3>3 DEF Delete
  <2>3. ASSUME NEW n \in Names, NEW m \in Names, RenameSkill(n, m)  PROVE Inductive'
    <3> DEFINE D == Disturbed({Canonical} \X {n, m})
    <3>1. disk' \in [Sites -> [Names -> Contents]]
      BY <2>3, ContentsType DEF RenameSkill
    <3>2. D \in [Calls -> CallRecord] /\ \A d \in Calls : D[d].name = call[d].name
      BY DisturbedType
    <3>3. call' = Aged(n, D)
      BY <2>3 DEF RenameSkill
    <3> HIDE DEF D
    <3>4. call' \in [Calls -> CallRecord] /\ \A d \in Calls : call'[d].name = call[d].name
      BY <3>2, <3>3, AgedType
    <3>7. backups' \in [Names -> Seq(Contents)]
      BY <2>3, PushType, InstallAssumption DEF RenameSkill
    <3>8. overrides' \in [Names -> Names \cup {NoName}]
      BY <2>3 DEF RenameSkill
    <3>9. changes' \in 0 .. MaxChanges
      BY <2>3, ContentsType DEF RenameSkill
    <3> QED
      BY <2>3, <3>1, <3>4, <3>7, <3>8, <3>9 DEF RenameSkill
  <2>4. CASE SpoilManifest
    BY <2>4, ContentsType DEF SpoilManifest
  <2> QED
    BY <1>7, <2>1, <2>2, <2>3, <2>4 DEF User
<1>8. CASE UNCHANGED vars
  BY <1>8 DEF vars
<1> QED
  BY <1>1, <1>2, <1>3, <1>4, <1>5, <1>6, <1>7, <1>8 DEF Next, Uninstall

LEMMA TypeInit ==
  Init => Inductive
<1> SUFFICES ASSUME Init PROVE Inductive
  OBVIOUS
<1> USE ContentsType, InstallAssumption DEF Init
<1>1. PICK s \in Starts :
       /\ manifest = s.entries /\ taken = s.taken /\ mode = s.mode
       /\ disk = [t \in Sites |-> [n \in Names |->
                    IF s.entries[t][n] = "none" THEN Absent ELSE Upstream]]
  OBVIOUS
<1>2. s.entries \in [Sites -> [Names -> Entries]] /\ s.taken \subseteq Names /\ s.mode \in Modes
  OBVIOUS
<1>3. NoCall \in CallRecord
  BY DEF NoCall, CallRecord, Actions, Entries
<1>4. call \in [Calls -> CallRecord] /\ pc \in [Calls -> Places]
  BY <1>3 DEF Places
<1>5. backups \in [Names -> Seq(Contents)]
  OBVIOUS
<1> QED
  BY <1>1, <1>2, <1>4, <1>5 DEF Inductive, Typed, Named

\* Every variable keeps its type, for any clients, skills and calls.
THEOREM TypeCorrect == Spec => []TypeOK
<1>1. Inductive => TypeOK
  BY DEF Inductive, Typed, TypeOK, CallRecord, Places
<1> QED
  BY <1>1, TypeInit, TypeStep, PTL DEF Spec

-----------------------------------------------------------------------------

\* What a step does to one call

\* The request and the history of a call at work: an answer once noted as
\* incomplete stays so, and what was there is kept or struck out.
Steady(d) ==
  /\ call'[d].site = call[d].site /\ call'[d].name = call[d].name
  /\ call'[d].force = call[d].force /\ call'[d].action = call[d].action
  /\ call'[d].entry = call[d].entry
  /\ call[d].problem => call'[d].problem
  /\ call[d].unlisted => call'[d].unlisted
  /\ call'[d].before \in {call[d].before, Absent}

\* ... and what it has found out.
Quiet(d) ==
  /\ Steady(d)
  /\ call'[d].effective = call[d].effective /\ call'[d].hash = call[d].hash
  /\ call'[d].result = call[d].result /\ call'[d].displaced = call[d].displaced

Moves(d, from, to) == pc[d] = from /\ pc'[d] = to

Begins(d) ==
  /\ pc'[d] \in {"replay", "remove"} /\ call'[d].name \in Names
  /\ call'[d].effective = NoName /\ call'[d].result = "none"
  /\ call'[d].displaced = Absent
  /\ IF pc'[d] = "remove" THEN call'[d].action = "none"
     ELSE /\ call'[d].before = disk[call'[d].site][call'[d].name]
          /\ call'[d].entry = manifest[call'[d].site][call'[d].name]
          /\ UNCHANGED <<disk, manifest>>

Gates(d) ==
  \/ /\ Moves(d, "replay", "scan") /\ Steady(d)
     /\ call'[d].hash = call[d].hash /\ call'[d].result = call[d].result
     /\ call'[d].displaced = call[d].displaced
  \/ /\ pc[d] \in {"replay", "scan"} /\ pc'[d] = PastGate(d) /\ Quiet(d)
     /\ \/ call'[d].problem \/ call'[d].unlisted
        \/ pc[d] = "scan" /\ ~(mode = "preventative" /\ Collides(d))

Checks(d) ==
  \/ /\ pc[d] = "manifest" /\ Steady(d)
     /\ call'[d].hash = manifest[call[d].site][call[d].name]
     /\ pc'[d] = (IF call'[d].hash = "none" THEN "core" ELSE "guard")
     /\ call'[d].effective = call[d].effective
     /\ call'[d].result = call[d].result /\ call'[d].displaced = call[d].displaced
  \/ Moves(d, "guard", "check") /\ Quiet(d)
  \/ pc[d] = "check" /\ pc'[d] = "core" /\ (Modified(d) => call[d].action = "merge") /\ Quiet(d)
  \/ pc[d] = "check" /\ pc'[d] = "backup" /\ call[d].action = "overwrite" /\ Quiet(d)
  \/ pc[d] \in {"backup", "cleanup"} /\ pc'[d] \in {"cleanup", "core"} /\ Quiet(d)
  \/ /\ pc[d] \in {"manifest", "guard", "check", "backup", "cleanup"}
     /\ pc'[d] = "core" /\ Quiet(d) /\ call'[d].problem

Works(d) ==
  \/ /\ Moves(d, "core", "record") /\ Steady(d)
     /\ call'[d].effective = call[d].effective /\ call'[d].hash = call[d].hash
     /\ call'[d].result = call[d].result
     /\ call'[d].displaced = disk[call[d].site][call[d].name]
  \/ /\ pc[d] \in {"record", "link", "remove", "unlink"} /\ Steady(d)
     /\ pc'[d] \in (IF pc[d] = "remove" THEN {"unlink", "done"} ELSE {"link", "done"})
     /\ call'[d].effective = call[d].effective /\ call'[d].hash = call[d].hash
     /\ call'[d].displaced = call[d].displaced
     /\ call'[d].result \in {call[d].result, "installed", "removed"}

Fails(d) ==
  /\ pc'[d] = "done" /\ Steady(d)
  /\ call'[d].effective = call[d].effective /\ call'[d].hash = call[d].hash
  /\ call'[d].displaced = call[d].displaced
  /\ call'[d].result \in {"blocked", "refused", "cancelled", "failed"}

Stays(d) == pc'[d] = pc[d] /\ Quiet(d)

\* A skill and its entry change only where the calls that came in before lose
\* what they had seen; a writer of its own skill apart.
Watched(d) ==
  LET s == call[d].site
      n == call[d].name
  IN pc[d] \in {"replay", "scan", "manifest", "guard", "check", "backup", "cleanup", "core"}
     => \/ call'[d].before = Absent \/ Moves(d, "core", "record")
        \/ /\ disk'[s][n] = disk[s][n]
           /\ manifest[s][n] = "hashed" => manifest'[s][n] = "hashed"

Summary(d) ==
  \/ Begins(d)
  \/ /\ Gates(d) \/ Checks(d) \/ Works(d) \/ Fails(d) \/ Stays(d)
     /\ Watched(d)

LEMMA NoteSteady ==
  ASSUME Inductive, NEW c \in Calls, Note(c), NEW d \in Calls
  PROVE  Quiet(d) /\ (d = c => call'[d].problem)
<1>1. call \in [Calls -> CallRecord] /\ call' = SetProblem(call, c, TRUE)
  BY DEF Inductive, Typed, Note, SetProblem
<1> QED
  BY <1>1 DEF SetProblem, Quiet, Steady, CallRecord

LEMMA AnswerSteady ==
  ASSUME Inductive, NEW c \in Calls, NEW from \in Places, NEW r \in Results,
         Answer(c, from, r), NEW d \in Calls
  PROVE  /\ Steady(d)
         /\ call'[d].effective = call[d].effective /\ call'[d].hash = call[d].hash
         /\ call'[d].displaced = call[d].displaced
         /\ call'[d].before = call[d].before
         /\ IF d = c THEN pc'[d] = "done" /\ call'[d].result = r
            ELSE pc'[d] = pc[d] /\ call'[d].result = call[d].result
<1>1. /\ call \in [Calls -> CallRecord] /\ pc \in [Calls -> Places]
      /\ call' = SetResult(call, c, r) /\ pc' = [pc EXCEPT ![c] = "done"]
  BY DEF Inductive, Typed, Answer, Goto, SetResult
<1> QED
  BY <1>1 DEF SetResult, Steady, CallRecord

\* The history operators leave the request and the findings of a call alone.
Same(q, r) ==
  /\ q.site = r.site /\ q.name = r.name /\ q.force = r.force
  /\ q.action = r.action /\ q.entry = r.entry /\ q.problem = r.problem
  /\ q.unlisted = r.unlisted
  /\ q.effective = r.effective /\ q.hash = r.hash
  /\ q.result = r.result /\ q.displaced = r.displaced

LEMMA DisturbedQuiet ==
  ASSUME Inductive, NEW P, NEW d \in Calls
  PROVE  /\ Same(Disturbed(P)[d], call[d])
         /\ Disturbed(P)[d].saved = call[d].saved /\ Disturbed(P)[d].shared = call[d].shared
         /\ Disturbed(P)[d].newer = call[d].newer
         /\ Disturbed(P)[d].before \in {call[d].before, Absent}
         /\ <<call[d].site, call[d].name>> \in P => Disturbed(P)[d].before = Absent
<1>1. call[d] \in CallRecord
  BY DEF Inductive, Typed
<1>2. CASE <<call[d].site, call[d].name>> \in P
  <2>1. Disturbed(P)[d] = [call[d] EXCEPT !.before = Absent]
    BY <1>2 DEF Disturbed
  <2> QED
    BY <1>1, <1>2, <2>1 DEF Same, CallRecord
<1>3. CASE <<call[d].site, call[d].name>> \notin P
  <2>1. Disturbed(P)[d] = call[d]
    BY <1>3 DEF Disturbed
  <2> QED
    BY <1>1, <1>3, <2>1 DEF Same
<1> QED
  BY <1>2, <1>3

\* ... and so a step that ends in such a call is quiet.
LEMMA QuietAfterDisturbed ==
  ASSUME Inductive, NEW P, NEW d \in Calls, NEW q,
         q = Disturbed(P)[d], Same(call'[d], q), call'[d].before = q.before
  PROVE  /\ Quiet(d)
         /\ <<call[d].site, call[d].name>> \in P => call'[d].before = Absent
<1>1. /\ Same(q, call[d]) /\ q.before \in {call[d].before, Absent}
      /\ <<call[d].site, call[d].name>> \in P => q.before = Absent
  BY DisturbedQuiet
<1> QED
  BY <1>1 DEF Same, Quiet, Steady

\* Aged only counts.
LEMMA AgedQuiet ==
  ASSUME NEW calls \in [Calls -> CallRecord], NEW n, NEW d \in Calls
  PROVE  /\ Same(Aged(n, calls)[d], calls[d])
         /\ Aged(n, calls)[d].saved = calls[d].saved
         /\ Aged(n, calls)[d].shared = calls[d].shared
         /\ Aged(n, calls)[d].before = calls[d].before
         /\ Aged(n, calls)[d].newer =
              IF calls[d].name = n /\ calls[d].saved # Absent
              THEN calls[d].newer + 1 ELSE calls[d].newer
BY DEF Aged, CallRecord, Same

\* Joined only marks.
LEMMA JoinedQuiet ==
  ASSUME call \in [Calls -> CallRecord], NEW D, NEW d \in Calls
  PROVE  /\ Same(Joined(D)[d], call[d])
         /\ Joined(D)[d].saved = call[d].saved /\ Joined(D)[d].newer = call[d].newer
         /\ Joined(D)[d].before = call[d].before
         /\ Joined(D)[d].shared = (d \in D \/ call[d].shared)
<1>1. call[d] \in CallRecord
  OBVIOUS
<1>2. CASE d \in D
  <2>1. Joined(D)[d] = [call[d] EXCEPT !.shared = TRUE]
    BY <1>2 DEF Joined
  <2> QED
    BY <1>1, <1>2, <2>1 DEF Same, CallRecord
<1>3. CASE d \notin D
  <2>1. Joined(D)[d] = call[d]
    BY <1>3 DEF Joined
  <2> QED
    BY <1>1, <1>3, <2>1 DEF Same, CallRecord
<1> QED
  BY <1>2, <1>3

\* The gate, the check and the failures leave the disk and the manifest alone.
LEMMA WatchedWhenStill ==
  ASSUME NEW d, UNCHANGED <<disk, manifest>>
  PROVE  Watched(d)
BY DEF Watched

\* Who does not move and is only watched, stays.
LEMMA StaysWhenQuiet ==
  ASSUME NEW d, pc'[d] = pc[d], Quiet(d), Watched(d)
  PROVE  Summary(d)
BY DEF Stays, Summary

LEMMA SummaryStep ==
  ASSUME Inductive, Next, NEW d \in Calls
  PROVE  Summary(d)
<1>t. /\ call \in [Calls -> CallRecord] /\ pc \in [Calls -> Places]
      /\ disk \in [Sites -> [Names -> Contents]]
      /\ manifest \in [Sites -> [Names -> Entries]]
      /\ \A e \in Calls : pc[e] # "idle" => call[e].name \in Names
      /\ \A e \in Calls : call[e].site \in Sites
  BY CallFields DEF Inductive, Typed, Named
<1>q. UNCHANGED <<pc, call, disk, manifest>> => Summary(d)
  BY StaysWhenQuiet, WatchedWhenStill DEF Quiet, Steady
<1>1. ASSUME NEW c \in Calls, StartInstall(c)  PROVE Summary(d)
  <2>1. PICK r \in Requests : call' = [call EXCEPT ![c] = InstallCall(r)]
    BY <1>1 DEF StartInstall, InstallCall
  <2>2. UNCHANGED <<disk, manifest>> /\ pc' = [pc EXCEPT ![c] = "replay"]
    BY <1>1 DEF StartInstall, world
  <2>3. CASE d = c
    <3>1. call'[d] = InstallCall(r) /\ pc'[d] = "replay"
      BY <1>t, <2>1, <2>2, <2>3
    <3>2. r \in [site: Sites, name: Names, force: BOOLEAN, action: Actions, link: BOOLEAN]
      BY InstallAssumption
    <3>3. /\ InstallCall(r).name = r.name /\ InstallCall(r).site = r.site
          /\ InstallCall(r).effective = NoName /\ InstallCall(r).result = "none"
          /\ InstallCall(r).displaced = Absent
          /\ InstallCall(r).before = disk[r.site][r.name]
          /\ InstallCall(r).entry = manifest[r.site][r.name]
      BY DEF InstallCall, NoCall
    <3> QED
      BY <2>2, <3>1, <3>2, <3>3 DEF Summary, Begins
  <2>4. CASE d # c
    BY <1>t, <2>1, <2>2, <2>4, StaysWhenQuiet, WatchedWhenStill DEF Quiet, Steady
  <2> QED
    BY <2>3, <2>4
<1>2. ASSUME NEW c \in Calls, StartUninstall(c)  PROVE Summary(d)
  <2>1. PICK r \in Removals : call' = [call EXCEPT ![c] = RemovalCall(r)]
    BY <1>2 DEF StartUninstall, RemovalCall
  <2>2. UNCHANGED <<disk, manifest>> /\ pc' = [pc EXCEPT ![c] = "remove"]
    BY <1>2 DEF StartUninstall, world
  <2>3. CASE d = c
    <3>1. call'[d] = RemovalCall(r) /\ pc'[d] = "remove"
      BY <1>t, <2>1, <2>2, <2>3
    <3>2. r \in [site: Sites, name: Names, force: BOOLEAN]
      BY InstallAssumption
    <3>3. /\ RemovalCall(r).name = r.name /\ RemovalCall(r).action = "none"
          /\ RemovalCall(r).effective = NoName /\ RemovalCall(r).result = "none"
          /\ RemovalCall(r).displaced = Absent
      BY DEF RemovalCall, NoCall
    <3> QED
      BY <3>1, <3>2, <3>3 DEF Summary, Begins
  <2>4. CASE d # c
    BY <1>t, <2>1, <2>2, <2>4, StaysWhenQuiet, WatchedWhenStill DEF Quiet, Steady
  <2> QED
    BY <2>3, <2>4
<1>3. ASSUME NEW c \in Calls, Gate(c)  PROVE Summary(d)
  <2>w. Watched(d)
    BY <1>3, WatchedWhenStill
       DEF Gate, ReplayLedger, LedgerUnreadable, GateBlocks, GateOpens, GateFails, world
  <2>1. CASE ReplayLedger(c)
    <3>1. PICK p \in Replays(call[c].name) : call' = SetEffective(call, c, p[Len(p)])
      BY <2>1 DEF ReplayLedger, SetEffective
    <3>2. pc' = [pc EXCEPT ![c] = "scan"] /\ pc[c] = "replay"
      BY <2>1 DEF ReplayLedger, Goto
    <3>3. CASE d = c
      BY <1>t, <2>w, <3>1, <3>2, <3>3
         DEF SetEffective, Summary, Gates, Moves, Steady, CallRecord
    <3>4. CASE d # c
      BY <1>t, <2>w, <3>1, <3>2, <3>4, StaysWhenQuiet DEF SetEffective, Quiet, Steady
    <3> QED
      BY <3>3, <3>4
  <2>2. CASE LedgerUnreadable(c) \/ GateFails(c)
    <3>1. Quiet(d) /\ (d = c => call'[d].problem)
      BY <2>2, NoteSteady DEF LedgerUnreadable, GateFails
    <3>2. pc[c] \in {"replay", "scan"} /\ pc' = [pc EXCEPT ![c] = PastGate(c)]
      BY <2>2 DEF LedgerUnreadable, GateFails, Goto
    <3> QED
      BY <1>t, <2>w, <3>1, <3>2, StaysWhenQuiet DEF Summary, Gates
  <2>3. CASE GateBlocks(c)
    <3>1. "scan" \in Places /\ "blocked" \in Results /\ Answer(c, "scan", "blocked")
      BY <2>3 DEF GateBlocks, Places, Results
    <3> QED
      BY <2>w, <3>1, AnswerSteady, StaysWhenQuiet DEF Summary, Fails, Quiet
  <2>4. CASE GateOpens(c)
    <3> DEFINE h == Holders(call[c].effective)
    <3>1. PICK missed \in SUBSET h :
            /\ mode = "preventative" => missed = h
            /\ call' = [call EXCEPT ![c].unlisted = @ \/ missed # {}]
      BY <2>4 DEF GateOpens
    <3> DEFINE b == call[c].unlisted \/ missed # {}
    <3>2. pc[c] = "scan" /\ pc' = [pc EXCEPT ![c] = PastGate(c)]
          /\ call' = SetUnlisted(call, c, b)
      BY <2>4, <3>1 DEF GateOpens, Goto, SetUnlisted
    <3>3. b \/ ~(mode = "preventative" /\ Collides(c))
      BY <3>1 DEF Collides
    <3>4. call[c].unlisted => b
      OBVIOUS
    <3> HIDE DEF b, h
    <3>5. Quiet(d) /\ (d = c => call'[d].unlisted = b)
      BY <1>t, <3>2, <3>4 DEF SetUnlisted, Quiet, Steady, CallRecord
    <3> QED
      BY <1>t, <2>w, <3>2, <3>3, <3>5, StaysWhenQuiet DEF Summary, Gates
  <2> QED
    BY <1>3, <2>1, <2>2, <2>3, <2>4 DEF Gate
<1>4. ASSUME NEW c \in Calls, Preflight(c)  PROVE Summary(d)
  <2>w. Watched(d)
    BY <1>4, WatchedWhenStill
       DEF Preflight, LookUpEntry, ManifestDegraded, GuardPasses, GuardRefuses, CheckThrows,
           CheckPasses, CheckCancels, CheckBacksUp, CreateBackup, ShareBackup,
           BackupThrows, CleanupOldBackups, world
  <2>1. CASE LookUpEntry(c)
    <3> DEFINE e == manifest[call[c].site][call[c].name]
    <3>1. /\ call' = SetHash(call, c, e) /\ pc[c] = "manifest"
          /\ pc' = [pc EXCEPT ![c] = IF e = "none" THEN "core" ELSE "guard"]
      BY <2>1 DEF LookUpEntry, SetHash, Goto
    <3> HIDE DEF e
    <3>2. CASE d = c
      <4>1. call'[d].hash = e /\ Steady(d)
            /\ call'[d].effective = call[d].effective /\ call'[d].result = call[d].result
            /\ call'[d].displaced = call[d].displaced
        BY <1>t, <3>1, <3>2 DEF SetHash, Steady, CallRecord
      <4> QED
        BY <1>t, <2>w, <3>1, <3>2, <4>1 DEF Summary, Checks, e
    <3>3. CASE d # c
      BY <1>t, <2>w, <3>1, <3>3, StaysWhenQuiet DEF SetHash, Quiet, Steady
    <3> QED
      BY <3>2, <3>3
  <2>2. CASE ManifestDegraded(c) \/ CheckThrows(c)
    <3>1. Quiet(d) /\ (d = c => call'[d].problem)
      BY <2>2, NoteSteady DEF ManifestDegraded, CheckThrows
    <3>2. pc[c] \in {"manifest", "guard", "check", "backup", "cleanup"}
          /\ pc' = [pc EXCEPT ![c] = "core"]
      BY <2>2 DEF ManifestDegraded, CheckThrows, Goto
    <3> QED
      BY <1>t, <2>w, <3>1, <3>2, StaysWhenQuiet DEF Summary, Checks
  <2>3. CASE GuardPasses(c) \/ CheckPasses(c) \/ CheckBacksUp(c) \/ CleanupOldBackups(c)
    <3>1. Quiet(d)
      BY <2>3 DEF GuardPasses, CheckPasses, CheckBacksUp, CleanupOldBackups, Quiet, Steady
    <3>2. CASE d # c
      BY <1>t, <2>3, <2>w, <3>1, <3>2, StaysWhenQuiet
         DEF GuardPasses, CheckPasses, CheckBacksUp, CleanupOldBackups, Goto
    <3>3. CASE d = c
      BY <1>t, <2>3, <2>w, <3>1, <3>3
         DEF GuardPasses, CheckPasses, CheckBacksUp, CleanupOldBackups, Goto, Summary, Checks, Moves
    <3> QED
      BY <3>2, <3>3
  <2>4. CASE GuardRefuses(c)
    <3>1. "guard" \in Places /\ "refused" \in Results /\ Answer(c, "guard", "refused")
      BY <2>4 DEF GuardRefuses, Places, Results
    <3> QED
      BY <2>w, <3>1, AnswerSteady, StaysWhenQuiet DEF Summary, Fails, Quiet
  <2>5. CASE CheckCancels(c)
    <3>1. "check" \in Places /\ "cancelled" \in Results /\ Answer(c, "check", "cancelled")
      BY <2>5 DEF CheckCancels, Places, Results
    <3> QED
      BY <2>w, <3>1, AnswerSteady, StaysWhenQuiet DEF Summary, Fails, Quiet
  <2>6. CASE CreateBackup(c) \/ BackupThrows(c)
    <3> DEFINE A == Aged(call[c].name, call)
               x == disk[call[c].site][call[c].name]
    <3>1. call' = SetSaved(A, c, x) \/ call' = SetProblem(A, c, TRUE)
      BY <2>6 DEF CreateBackup, BackupThrows, SetSaved, SetProblem
    <3> HIDE DEF x, A
    <3>2. A \in [Calls -> CallRecord]
      BY <1>t, AgedType DEF A
    <3>3. /\ call'[d].site = A[d].site /\ call'[d].name = A[d].name
          /\ call'[d].force = A[d].force /\ call'[d].action = A[d].action
          /\ call'[d].entry = A[d].entry /\ (A[d].problem => call'[d].problem)
          /\ call'[d].effective = A[d].effective /\ call'[d].hash = A[d].hash
          /\ call'[d].result = A[d].result /\ call'[d].displaced = A[d].displaced
          /\ call'[d].before = A[d].before /\ call'[d].unlisted = A[d].unlisted
      <4>1. CASE call' = SetSaved(A, c, x)
        BY <3>2, <4>1 DEF SetSaved, CallRecord
      <4>2. CASE call' = SetProblem(A, c, TRUE)
        BY <3>2, <4>2 DEF SetProblem, CallRecord
      <4> QED
        BY <3>1, <4>1, <4>2
    <3>4. Quiet(d)
      BY <1>t, <3>3, AgedQuiet DEF A, Same, Quiet, Steady
    <3>5. CASE d # c
      BY <1>t, <2>6, <2>w, <3>4, <3>5, StaysWhenQuiet DEF CreateBackup, BackupThrows, Goto
    <3>6. CASE d = c
      BY <1>t, <2>6, <2>w, <3>4, <3>6
         DEF CreateBackup, BackupThrows, Goto, Summary, Checks
    <3> QED
      BY <3>5, <3>6
  <2>7. CASE ShareBackup(c)
    <3> DEFINE J == Joined(Twins(c))
               x == disk[call[c].site][call[c].name]
    <3>1. call' = SetSaved(J, c, x)
      BY <2>7 DEF ShareBackup, SetSaved
    <3>2. J \in [Calls -> CallRecord]
      BY <1>t, JoinedType
    <3>3. Same(J[d], call[d]) /\ J[d].before = call[d].before
      BY <1>t, JoinedQuiet
    <3> HIDE DEF x, J
    <3>4. Same(call'[d], J[d]) /\ call'[d].before = J[d].before
      BY <3>1, <3>2 DEF SetSaved, Same, CallRecord
    <3>5. Quiet(d)
      BY <3>3, <3>4 DEF Same, Quiet, Steady
    <3>6. CASE d # c
      BY <1>t, <2>7, <2>w, <3>5, <3>6, StaysWhenQuiet DEF ShareBackup, Goto
    <3>7. CASE d = c
      BY <1>t, <2>7, <2>w, <3>5, <3>7 DEF ShareBackup, Goto, Summary, Checks
    <3> QED
      BY <3>6, <3>7
  <2> QED
    BY <1>4, <2>1, <2>2, <2>3, <2>4, <2>5, <2>6, <2>7 DEF Preflight
<1>5. ASSUME NEW c \in Calls, Core(c)  PROVE Summary(d)
  <2>1. CASE CoreRefuses(c) \/ CoreCannotRecord(c)
    <3>1. PICK from \in {"core", "record"} : Answer(c, from, "failed")
      BY <2>1 DEF CoreRefuses, CoreCannotRecord
    <3>2. from \in Places /\ "failed" \in Results
      BY DEF Places, Results
    <3>3. Watched(d)
      BY <2>1, WatchedWhenStill DEF CoreRefuses, CoreCannotRecord, world
    <3> QED
      BY <3>1, <3>2, <3>3, AnswerSteady, StaysWhenQuiet DEF Summary, Fails, Quiet
  <2>2. CASE CoreWrites(c)
    <3> DEFINE s == call[c].site
               n == call[c].name
               D == Disturbed({<<s, n>>})
               x == disk[s][n]
    <3>1. /\ pc[c] = "core" /\ pc' = [pc EXCEPT ![c] = "record"]
          /\ disk' = [disk EXCEPT ![s][n] = Upstream] /\ manifest' = manifest
          /\ call' = [D EXCEPT ![c] = [call[c] EXCEPT !.displaced = x]]
      BY <2>2 DEF CoreWrites, Goto
    <3>2. D \in [Calls -> CallRecord]
      BY <1>t, DisturbedType
    <3> HIDE DEF D, x
    <3>3. CASE d = c
      <4>1. call'[d] = [call[c] EXCEPT !.displaced = x]
        BY <3>1, <3>2, <3>3
      <4>2. /\ Steady(d) /\ call'[d].effective = call[d].effective
            /\ call'[d].hash = call[d].hash /\ call'[d].result = call[d].result
            /\ call'[d].displaced = x
        BY <1>t, <3>3, <4>1 DEF Steady, CallRecord
      <4>3. Moves(d, "core", "record")
        BY <1>t, <3>1, <3>3 DEF Moves
      <4> QED
        BY <3>3, <4>2, <4>3 DEF Summary, Works, Watched, x
    <3>4. CASE d # c
      <4>1. call'[d] = D[d] /\ pc'[d] = pc[d]
        BY <1>t, <3>1, <3>2, <3>4
      <4>2. /\ Quiet(d)
            /\ call[d].site = s /\ call[d].name = n => call'[d].before = Absent
        BY <4>1, QuietAfterDisturbed DEF D, Same
      <4>3. Watched(d)
        <5>1. CASE call[d].site = s /\ call[d].name = n
          BY <4>2, <5>1 DEF Watched
        <5>2. CASE ~(call[d].site = s /\ call[d].name = n) /\ pc[d] # "idle"
          BY <1>t, <3>1, <5>2 DEF Watched
        <5> QED
          BY <5>1, <5>2 DEF Watched
      <4> QED
        BY <4>1, <4>2, <4>3, StaysWhenQuiet
    <3> QED
      BY <3>3, <3>4
  <2>3. CASE CoreRecords(c)
    <3>1. /\ pc[c] = "record" /\ disk' = disk /\ call' = SetResult(call, c, "installed")
          /\ pc' = [pc EXCEPT ![c] = IF call[c].link THEN "link" ELSE "done"]
          /\ manifest' = [manifest EXCEPT ![call[c].site][call[c].name] = "hashed"]
      BY <2>3 DEF CoreRecords, Goto, SetResult
    <3>2. pc[d] # "idle" => (manifest[call[d].site][call[d].name] = "hashed"
                              => manifest'[call[d].site][call[d].name] = "hashed")
      BY <1>t, <3>1
    <3>3. Watched(d)
      BY <3>1, <3>2 DEF Watched
    <3>4. CASE d = c
      BY <1>t, <3>1, <3>3, <3>4 DEF SetResult, Summary, Works, Steady, CallRecord
    <3>5. CASE d # c
      BY <1>t, <3>1, <3>3, <3>5, StaysWhenQuiet DEF SetResult, Quiet, Steady
    <3> QED
      BY <3>4, <3>5
  <2>4. CASE AddLinks(c)
    <3> DEFINE s == call[c].site
               n == call[c].name
    <3>1. PICK served \in SUBSET {t \in Sites \ {s} : disk[s][n] # Absent
                 /\ (disk[t][n] = Absent \/ <<n, t>> \in links)} :
          /\ disk' = [t \in Sites |-> IF t \in served
                        THEN [disk[t] EXCEPT ![n] = disk[s][n]] ELSE disk[t]]
          /\ call' = [Disturbed(served \X {n}) EXCEPT
                        ![c].problem = @ \/ served # Sites \ {s}]
      BY <2>4 DEF AddLinks
    <3> DEFINE D == Disturbed(served \X {n})
               b == D[c].problem \/ served # Sites \ {s}
    <3>2. /\ pc[c] = "link" /\ pc' = [pc EXCEPT ![c] = "done"] /\ manifest' = manifest
          /\ call' = SetProblem(D, c, b)
      BY <2>4, <3>1 DEF AddLinks, Goto, SetProblem
    <3>3. D \in [Calls -> CallRecord] /\ (D[c].problem => b)
      BY <1>t, DisturbedType
    <3>4. Watched(d)
      <4>1. CASE pc[d] # "idle" /\ call[d].site \in served /\ call[d].name = n
        <5>1. D[d].before = Absent
          BY <4>1, DisturbedQuiet
        <5> HIDE DEF D, b
        <5>2. call'[d].before = Absent
          BY <3>2, <3>3, <5>1 DEF SetProblem, CallRecord
        <5> QED
          BY <5>2 DEF Watched
      <4>2. CASE pc[d] # "idle" /\ ~(call[d].site \in served /\ call[d].name = n)
        BY <1>t, <3>1, <3>2, <4>2 DEF Watched
      <4> QED
        BY <4>1, <4>2 DEF Watched
    <3> HIDE DEF b
    <3>5. Quiet(d)
      <4>1. /\ call'[d].site = D[d].site /\ call'[d].name = D[d].name
            /\ call'[d].force = D[d].force /\ call'[d].action = D[d].action
            /\ call'[d].entry = D[d].entry /\ (D[d].problem => call'[d].problem)
            /\ call'[d].effective = D[d].effective /\ call'[d].hash = D[d].hash
            /\ call'[d].result = D[d].result /\ call'[d].displaced = D[d].displaced
            /\ call'[d].before = D[d].before /\ call'[d].unlisted = D[d].unlisted
        <5> HIDE DEF D
        <5> QED
          BY <3>2, <3>3 DEF SetProblem, CallRecord
      <4>2. Same(D[d], call[d]) /\ D[d].before \in {call[d].before, Absent}
        BY DisturbedQuiet
      <4> HIDE DEF D
      <4> QED
        BY <4>1, <4>2 DEF Same, Quiet, Steady
    <3> QED
      BY <1>t, <3>2, <3>4, <3>5, StaysWhenQuiet DEF Summary, Works, Quiet
  <2> QED
    BY <1>5, <2>1, <2>2, <2>3, <2>4 DEF Core
<1>6. ASSUME NEW c \in Calls, CoreRemoves(c) \/ CoreWillNotRemove(c)
                                \/ RemoveLinks(c) \/ LinksUnreadable(c)
      PROVE  Summary(d)
  <2>1. CASE CoreRemoves(c)
    <3> DEFINE s == call[c].site
               n == call[c].name
               D == Disturbed({<<s, n>>})
    <3>1. /\ pc[c] = "remove" /\ call' = SetResult(D, c, "removed")
          /\ pc' = [pc EXCEPT ![c] = IF s = Canonical THEN "unlink" ELSE "done"]
          /\ disk' = [disk EXCEPT ![s][n] = Absent]
          /\ manifest' = [manifest EXCEPT ![s][n] = "none"]
      BY <2>1 DEF CoreRemoves, Goto, SetResult
    <3>2. D \in [Calls -> CallRecord]
      BY <1>t, DisturbedType
    <3>3. /\ call'[d].site = D[d].site /\ call'[d].name = D[d].name
          /\ call'[d].force = D[d].force /\ call'[d].action = D[d].action
          /\ call'[d].entry = D[d].entry /\ (D[d].problem => call'[d].problem)
          /\ call'[d].effective = D[d].effective /\ call'[d].hash = D[d].hash
          /\ call'[d].result = (IF d = c THEN "removed" ELSE D[d].result)
          /\ call'[d].displaced = D[d].displaced
          /\ call'[d].before = D[d].before /\ call'[d].unlisted = D[d].unlisted
      <4> HIDE DEF D
      <4> QED
        BY <3>1, <3>2 DEF SetResult, CallRecord
    <3>s. /\ Same(D[d], call[d]) /\ D[d].before \in {call[d].before, Absent}
          /\ call[d].site = s /\ call[d].name = n => D[d].before = Absent
      BY DisturbedQuiet
    <3> HIDE DEF D
    <3>4. Watched(d)
      <4>1. CASE call[d].site = s /\ call[d].name = n
        BY <3>3, <3>s, <4>1 DEF Watched
      <4>2. CASE pc[d] # "idle" /\ ~(call[d].site = s /\ call[d].name = n)
        BY <1>t, <3>1, <4>2 DEF Watched
      <4> QED
        BY <4>1, <4>2 DEF Watched
    <3>5. Steady(d) /\ (d # c => Quiet(d))
          /\ call'[d].effective = call[d].effective /\ call'[d].hash = call[d].hash
          /\ call'[d].displaced = call[d].displaced
      BY <3>3, <3>s DEF Same, Quiet, Steady
    <3>6. CASE d = c
      BY <1>t, <3>1, <3>3, <3>4, <3>5, <3>6 DEF Summary, Works
    <3>7. CASE d # c
      BY <1>t, <3>1, <3>4, <3>5, <3>7, StaysWhenQuiet
    <3> QED
      BY <3>6, <3>7
  <2>2. CASE CoreWillNotRemove(c)
    <3>1. "remove" \in Places /\ "failed" \in Results /\ Answer(c, "remove", "failed")
      BY <2>2 DEF CoreWillNotRemove, Places, Results
    <3>2. Watched(d)
      BY <2>2, WatchedWhenStill DEF CoreWillNotRemove, world
    <3> QED
      BY <3>1, <3>2, AnswerSteady, StaysWhenQuiet DEF Summary, Fails, Quiet
  <2>3. CASE RemoveLinks(c)
    <3> DEFINE n == call[c].name
    <3>1. PICK gone \in SUBSET {l \in links : l[1] = n} :
          /\ links' = links \ gone
          /\ disk' = [t \in Sites |-> IF <<n, t>> \in gone
                        THEN [disk[t] EXCEPT ![n] = Absent] ELSE disk[t]]
          /\ call' = [Disturbed({<<l[2], n>> : l \in gone}) EXCEPT
                        ![c].problem = @ \/ \E l \in links \ gone : l[1] = n]
      BY <2>3 DEF RemoveLinks
    <3> DEFINE P == {<<l[2], n>> : l \in gone}
               D == Disturbed(P)
               b == D[c].problem \/ \E l \in links \ gone : l[1] = n
    <3>2. /\ pc[c] = "unlink" /\ pc' = [pc EXCEPT ![c] = "done"] /\ manifest' = manifest
          /\ call' = SetProblem(D, c, b)
      BY <2>3, <3>1 DEF RemoveLinks, Goto, SetProblem
    <3>3. D \in [Calls -> CallRecord] /\ (D[c].problem => b)
      BY <1>t, DisturbedType
    <3>4. Watched(d)
      <4>1. CASE pc[d] # "idle" /\ <<n, call[d].site>> \in gone /\ call[d].name = n
        <5>1. <<call[d].site, call[d].name>> \in P
          BY <4>1
        <5>2. D[d].before = Absent
          BY <5>1, DisturbedQuiet
        <5> HIDE DEF D, b
        <5>3. call'[d].before = Absent
          BY <3>2, <3>3, <5>2 DEF SetProblem, CallRecord
        <5> QED
          BY <5>3 DEF Watched
      <4>2. CASE pc[d] # "idle" /\ ~(<<n, call[d].site>> \in gone /\ call[d].name = n)
        BY <1>t, <3>1, <3>2, <4>2 DEF Watched
      <4> QED
        BY <4>1, <4>2 DEF Watched
    <3> HIDE DEF b
    <3>5. Quiet(d)
      <4>1. /\ call'[d].site = D[d].site /\ call'[d].name = D[d].name
            /\ call'[d].force = D[d].force /\ call'[d].action = D[d].action
            /\ call'[d].entry = D[d].entry /\ (D[d].problem => call'[d].problem)
            /\ call'[d].effective = D[d].effective /\ call'[d].hash = D[d].hash
            /\ call'[d].result = D[d].result /\ call'[d].displaced = D[d].displaced
            /\ call'[d].before = D[d].before /\ call'[d].unlisted = D[d].unlisted
        <5> HIDE DEF D
        <5> QED
          BY <3>2, <3>3 DEF SetProblem, CallRecord
      <4>2. Same(D[d], call[d]) /\ D[d].before \in {call[d].before, Absent}
        BY DisturbedQuiet
      <4> HIDE DEF D
      <4> QED
        BY <4>1, <4>2 DEF Same, Quiet, Steady
    <3> QED
      BY <1>t, <3>2, <3>4, <3>5, StaysWhenQuiet DEF Summary, Works, Quiet
  <2>4. CASE LinksUnreadable(c)
    <3>1. /\ pc[c] = "unlink" /\ pc' = [pc EXCEPT ![c] = "done"]
          /\ UNCHANGED <<call, disk, manifest>>
      BY <2>4 DEF LinksUnreadable, Goto, world
    <3>2. Watched(d) /\ Quiet(d)
      BY <3>1, WatchedWhenStill DEF Quiet, Steady
    <3> QED
      BY <1>t, <3>1, <3>2, StaysWhenQuiet DEF Summary, Works, Quiet
  <2> QED
    BY <1>6, <2>1, <2>2, <2>3, <2>4
<1>7. ASSUME User  PROVE Summary(d)
  <2>1. ASSUME NEW s \in Sites, NEW n \in Names, Edit(s, n) \/ Delete(s, n)
        PROVE  Summary(d)
    <3>1. /\ call' = Disturbed({<<s, n>>}) /\ pc' = pc /\ manifest' = manifest
      BY <2>1 DEF Edit, Delete, Change
    <3>2. PICK x : disk' = [disk EXCEPT ![s][n] = x]
      BY <2>1 DEF Edit, Delete
    <3>3. /\ Quiet(d)
          /\ call[d].site = s /\ call[d].name = n => call'[d].before = Absent
      BY <3>1, QuietAfterDisturbed DEF Same
    <3>4. Watched(d)
      <4>1. CASE call[d].site = s /\ call[d].name = n
        BY <3>3, <4>1 DEF Watched
      <4>2. CASE pc[d] # "idle" /\ ~(call[d].site = s /\ call[d].name = n)
        BY <1>t, <3>1, <3>2, <4>2 DEF Watched
      <4> QED
        BY <4>1, <4>2 DEF Watched
    <3> QED
      BY <3>1, <3>3, <3>4, StaysWhenQuiet
  <2>2. ASSUME NEW n \in Names, NEW m \in Names, RenameSkill(n, m)  PROVE Summary(d)
    <3> DEFINE P == {Canonical} \X {n, m}
               D == Disturbed(P)
    <3>1. /\ call' = Aged(n, D) /\ pc' = pc /\ manifest' = manifest
          /\ disk' = [disk EXCEPT ![Canonical] = [@ EXCEPT ![m] = changes + 2, ![n] = Absent]]
      BY <2>2 DEF RenameSkill, Change
    <3>2. D \in [Calls -> CallRecord]
      BY <1>t, DisturbedType
    <3>3. Same(call'[d], D[d]) /\ call'[d].before = D[d].before
      <4> HIDE DEF D
      <4> QED
        BY <3>1, <3>2, AgedQuiet
    <3>4. /\ Quiet(d)
          /\ <<call[d].site, call[d].name>> \in P => call'[d].before = Absent
      <4> HIDE DEF P
      <4> QED
        BY <3>3, QuietAfterDisturbed
    <3>5. Watched(d)
      <4>1. CASE call[d].site = Canonical /\ call[d].name \in {n, m}
        <5>1. <<call[d].site, call[d].name>> \in P
          BY <4>1
        <5> QED
          BY <3>4, <5>1 DEF Watched
      <4>2. CASE pc[d] # "idle" /\ ~(call[d].site = Canonical /\ call[d].name \in {n, m})
        BY <1>t, <3>1, <4>2, InstallAssumption DEF Watched
      <4> QED
        BY <4>1, <4>2 DEF Watched
    <3> QED
      BY <3>1, <3>4, <3>5, StaysWhenQuiet
  <2>3. CASE SpoilManifest
    BY <1>q, <2>3 DEF SpoilManifest, Change
  <2> QED
    BY <1>7, <2>1, <2>2, <2>3 DEF User
<1> QED
  BY <1>1, <1>2, <1>3, <1>4, <1>5, <1>6, <1>7 DEF Next, Uninstall

-----------------------------------------------------------------------------

\* Preventative mode

\* Past the gate a call under a taken name has a problem to report.
GateInv ==
  \A d \in Calls :
    /\ pc[d] \in {"idle", "replay", "remove", "unlink"} => call[d].effective = NoName
    /\ pc[d] \in {"replay", "scan"} => call[d].result = "none"
    /\ /\ mode = "preventative" /\ call[d].name \in taken
       /\ call[d].effective = call[d].name /\ ~call[d].problem /\ ~call[d].unlisted
       => pc[d] \in {"scan", "done"} /\ call[d].result # "installed"

LEMMA SettingsStay ==
  ASSUME [Next]_vars
  PROVE  UNCHANGED <<mode, taken>>
<1>1. ASSUME NEW c \in Calls, StartInstall(c) \/ Gate(c)  PROVE UNCHANGED settings
  BY <1>1 DEF Gate, Frame, StartInstall, ReplayLedger, LedgerUnreadable, GateBlocks, GateOpens,
       GateFails
<1>2. ASSUME NEW c \in Calls, Preflight(c)  PROVE UNCHANGED settings
  BY <1>2 DEF Preflight, Frame, LookUpEntry, ManifestDegraded, GuardPasses, GuardRefuses,
       CheckThrows, CheckPasses, CheckCancels, CheckBacksUp, CreateBackup, ShareBackup,
       BackupThrows, CleanupOldBackups
<1>3. ASSUME NEW c \in Calls, Core(c)  PROVE UNCHANGED settings
  BY <1>3 DEF Core, Frame, CoreRefuses, CoreWrites, CoreRecords, CoreCannotRecord, AddLinks
<1>4. ASSUME NEW c \in Calls, Uninstall(c)  PROVE UNCHANGED settings
  BY <1>4 DEF Uninstall, Frame, StartUninstall, CoreRemoves, CoreWillNotRemove, RemoveLinks,
       LinksUnreadable
<1>5. ASSUME User  PROVE UNCHANGED settings
  BY <1>5 DEF User, Change, Edit, Delete, RenameSkill, SpoilManifest
<1>6. UNCHANGED settings
  BY <1>1, <1>2, <1>3, <1>4, <1>5 DEF Next, vars, settings
<1> QED
  BY <1>6 DEF settings

LEMMA GateStep ==
  ASSUME Inductive, GateInv, [Next]_vars
  PROVE  GateInv'
<1> SUFFICES ASSUME NEW d \in Calls
             PROVE
    /\ pc'[d] \in {"idle", "replay", "remove", "unlink"} => call'[d].effective = NoName
    /\ pc'[d] \in {"replay", "scan"} => call'[d].result = "none"
    /\ (/\ mode = "preventative" /\ call'[d].name \in taken
        /\ call'[d].effective = call'[d].name /\ ~call'[d].problem /\ ~call'[d].unlisted)
       => pc'[d] \in {"scan", "done"} /\ call'[d].result # "installed"
  BY SettingsStay DEF GateInv
<1>1. /\ pc[d] \in {"idle", "replay", "remove", "unlink"} => call[d].effective = NoName
      /\ pc[d] \in {"replay", "scan"} => call[d].result = "none"
      /\ (/\ mode = "preventative" /\ call[d].name \in taken
          /\ call[d].effective = call[d].name /\ ~call[d].problem /\ ~call[d].unlisted)
         => pc[d] \in {"scan", "done"} /\ call[d].result # "installed"
      /\ NoName \notin taken
  BY InstallAssumption DEF GateInv, Inductive, Typed
<1>2. CASE UNCHANGED vars
  BY <1>1, <1>2 DEF vars
<1>3. CASE Begins(d)
  BY <1>1, <1>3 DEF Begins
<1>4. CASE Gates(d)
  <2>1. PastGate(d) \in {"manifest", "core"}
    BY DEF PastGate
  <2>2. CASE pc[d] = "scan" /\ ~(mode = "preventative" /\ Collides(d)) /\ Quiet(d)
             /\ pc'[d] = PastGate(d)
    <3>1. call[d].name \in taken /\ call[d].effective = call[d].name => Holders(call[d].effective) # {}
      BY DEF Holders
    <3> QED
      BY <1>1, <2>1, <2>2, <3>1 DEF Collides, Quiet, Steady
  <2>3. CASE (call'[d].problem \/ call'[d].unlisted) /\ pc'[d] = PastGate(d) /\ Quiet(d)
    BY <2>1, <2>3
  <2>4. CASE Moves(d, "replay", "scan") /\ call'[d].result = call[d].result
    BY <1>1, <2>4 DEF Moves
  <2> QED
    BY <1>4, <2>2, <2>3, <2>4 DEF Gates
<1>5. CASE Checks(d)
  BY <1>1, <1>5 DEF Checks, Moves, Quiet, Steady
<1>6. CASE Works(d)
  BY <1>1, <1>6 DEF Works, Moves, Steady
<1>7. CASE Fails(d)
  BY <1>1, <1>7 DEF Fails, Steady
<1>8. CASE Stays(d)
  BY <1>1, <1>8 DEF Stays, Quiet, Steady
<1> QED
  BY <1>2, <1>3, <1>4, <1>5, <1>6, <1>7, <1>8, SummaryStep DEF Summary

\* In preventative mode nothing is installed under the name of a command or an
\* agent without the answer saying that the gate did not run, where the scan
\* could list the directory that holds the name.
THEOREM PreventativeTheorem == Spec => []PreventativeModeHolds
<1>1. Init => GateInv
  <2> SUFFICES ASSUME Init PROVE GateInv
    OBVIOUS
  <2>1. NoName \notin taken
    BY TypeInit, InstallAssumption DEF Inductive, Typed
  <2>2. \A d \in Calls : /\ pc[d] = "idle" /\ call[d].effective = NoName
                          /\ call[d].name = NoName /\ call[d].result = "none"
    BY DEF Init, NoCall
  <2> QED
    BY <2>1, <2>2 DEF GateInv
<1>2. GateInv => PreventativeModeHolds
  BY DEF GateInv, PreventativeModeHolds
<1>3. Inductive /\ GateInv /\ [Next]_vars => Inductive' /\ GateInv'
  BY TypeStep, GateStep
<1> QED
  BY <1>1, <1>2, <1>3, TypeInit, PTL DEF Spec

-----------------------------------------------------------------------------

\* Cancel

\* A call that came in on an edit of a skill with a hash, and was to cancel.
Shielded(d) ==
  /\ call[d].action = "cancel" /\ call[d].force /\ call[d].entry = "hashed"
  /\ IsEdit(call[d].before)

\* Until the core service has written, the edit is where it was, and the call
\* is on its way to find it, or has a problem to report.
ShieldInv ==
  \A d \in Calls :
    Shielded(d) =>
      /\ pc[d] \in {"replay", "scan", "manifest", "guard", "check", "core"} =>
           /\ disk[call[d].site][call[d].name] = call[d].before
           /\ manifest[call[d].site][call[d].name] = "hashed"
      /\ pc[d] \in {"guard", "check"} => call[d].hash = "hashed"
      /\ pc[d] \notin {"backup", "cleanup"}
      /\ pc[d] = "core" => call[d].problem
      /\ call[d].displaced = call[d].before => call[d].problem

LEMMA ShieldStep ==
  ASSUME Inductive, ShieldInv, [Next]_vars
  PROVE  ShieldInv'
<1> SUFFICES ASSUME NEW d \in Calls, Shielded(d)'
             PROVE
      /\ pc'[d] \in {"replay", "scan", "manifest", "guard", "check", "core"} =>
           /\ disk'[call'[d].site][call'[d].name] = call'[d].before
           /\ manifest'[call'[d].site][call'[d].name] = "hashed"
      /\ pc'[d] \in {"guard", "check"} => call'[d].hash = "hashed"
      /\ pc'[d] \notin {"backup", "cleanup"}
      /\ pc'[d] = "core" => call'[d].problem
      /\ call'[d].displaced = call'[d].before => call'[d].problem
  BY DEF ShieldInv
<1>1. call'[d].action = "cancel" /\ call'[d].force /\ call'[d].entry = "hashed"
      /\ call'[d].before \in Nat /\ call'[d].before > Upstream /\ Absent # Upstream
      /\ call'[d].before # Absent /\ call'[d].before # Upstream
  <2>1. call'[d] \in CallRecord
    BY TypeStep DEF Inductive, Typed
  <2>2. call'[d].before \in Nat
    BY <2>1, InstallAssumption DEF CallRecord, Contents
  <2> QED
    BY <2>2 DEF Shielded, IsEdit, Absent, Upstream
<1>2. CASE UNCHANGED vars
  BY <1>2 DEF ShieldInv, Shielded, vars
<1>3. CASE Begins(d)
  BY <1>1, <1>3 DEF Begins
<1>4. ASSUME Steady(d), Watched(d)
      PROVE  /\ Shielded(d) /\ call'[d].before = call[d].before
             /\ call'[d].site = call[d].site /\ call'[d].name = call[d].name
             /\ pc[d] \notin {"backup", "cleanup"}
             /\ pc[d] \in {"guard", "check"} => call[d].hash = "hashed"
             /\ pc[d] = "core" => call[d].problem
             /\ call[d].displaced = call[d].before => call[d].problem
             /\ call[d].problem => call'[d].problem
             /\ pc[d] \in {"replay", "scan", "manifest", "guard", "check", "core"} =>
                  /\ disk[call[d].site][call[d].name] = call[d].before
                  /\ manifest[call[d].site][call[d].name] = "hashed"
                  /\ ~Moves(d, "core", "record") =>
                       /\ disk'[call'[d].site][call'[d].name] = call'[d].before
                       /\ manifest'[call'[d].site][call'[d].name] = "hashed"
  <2>1. call'[d].before = call[d].before /\ Shielded(d)
    BY <1>1, <1>4 DEF Steady, Shielded, IsEdit
  <2> QED
    BY <1>1, <1>4, <2>1 DEF Steady, Watched, ShieldInv
<1>5. CASE Gates(d) /\ Watched(d)
  <2>1. Steady(d) /\ PastGate(d) = "manifest" /\ call'[d].displaced = call[d].displaced
    BY <1>1, <1>5 DEF Gates, Quiet, Steady, PastGate, Checked
  <2> QED
    BY <1>4, <1>5, <2>1 DEF Gates, Moves
<1>6. CASE Checks(d) /\ Watched(d)
  <2>1. Steady(d) /\ call'[d].displaced = call[d].displaced
    BY <1>6 DEF Checks, Quiet
  <2>2. pc[d] = "check" => Modified(d) /\ call[d].action = "cancel"
    BY <1>1, <1>4, <1>6, <2>1 DEF Modified, Steady
  <2> QED
    BY <1>1, <1>4, <1>6, <2>1, <2>2 DEF Checks, Moves, Quiet
<1>7. CASE Works(d) /\ Watched(d)
  BY <1>1, <1>4, <1>7 DEF Works, Moves
<1>8. CASE Fails(d) /\ Watched(d)
  BY <1>4, <1>8 DEF Fails
<1>9. CASE Stays(d) /\ Watched(d)
  BY <1>4, <1>9 DEF Stays, Quiet, Moves
<1> QED
  BY <1>2, <1>3, <1>5, <1>6, <1>7, <1>8, <1>9, SummaryStep DEF Summary

\* No install that was to be cancelled writes over an edit without saying that
\* the check was not made.
THEOREM CancelTheorem == Spec => []CancelProtectsEdits
<1>1. Init => ShieldInv
  BY DEF Init, ShieldInv, Shielded, NoCall
<1>2. ShieldInv => CancelProtectsEdits
  BY DEF ShieldInv, Shielded, CancelProtectsEdits
<1>3. Inductive /\ ShieldInv /\ [Next]_vars => Inductive' /\ ShieldInv'
  BY TypeStep, ShieldStep
<1> QED
  BY <1>1, <1>2, <1>3, TypeInit, PTL DEF Spec

-----------------------------------------------------------------------------

\* Overwrite

\* A call's own backup lies below the newer ones, and above those that are pruned.
BackupInv ==
  \A d \in Calls :
    call[d].saved # Absent =>
      /\ pc[d] # "idle"
      /\ call[d].newer < KeepCount /\ ~call[d].shared =>
           /\ call[d].newer < Len(backups[call[d].name])
           /\ backups[call[d].name][call[d].newer + 1] = call[d].saved

\* What keeps the invariant of one call.
Settled(d) ==
  \/ call'[d].saved = Absent
  \/ /\ pc[d] # "idle" => pc'[d] # "idle"
     /\ call'[d].name = call[d].name /\ call'[d].saved = call[d].saved /\ call'[d].shared = call[d].shared
     /\ call'[d].newer = call[d].newer

LEMMA SettledKeeps ==
  ASSUME BackupInv, backups' = backups, \A d \in Calls : Settled(d)
  PROVE  BackupInv'
BY DEF BackupInv, Settled

LEMMA PushKeeps ==
  ASSUME Inductive, BackupInv, NEW n \in Names, NEW x \in Contents, PushBackup(n, x),
         NEW d \in Calls,
         call'[d].name = call[d].name, call'[d].saved = call[d].saved /\ call'[d].shared = call[d].shared,
         call'[d].newer = IF call[d].name = n /\ call[d].saved # Absent
                          THEN call[d].newer + 1 ELSE call[d].newer,
         call'[d].saved # Absent
  PROVE  /\ pc[d] # "idle"
         /\ call'[d].newer < KeepCount /\ ~call'[d].shared =>
              /\ call'[d].newer < Len(backups'[call'[d].name])
              /\ backups'[call'[d].name][call'[d].newer + 1] = call'[d].saved
<1>i. pc[d] # "idle"
  BY DEF BackupInv
<1> SUFFICES ASSUME call'[d].newer < KeepCount, ~call'[d].shared
             PROVE  /\ call'[d].newer < Len(backups'[call'[d].name])
                    /\ backups'[call'[d].name][call'[d].newer + 1] = call'[d].saved
  BY <1>i
<1>1. /\ call[d].newer \in Nat /\ call[d].name \in Names /\ KeepCount \in Nat
      /\ backups[n] \in Seq(Contents) /\ backups' = [backups EXCEPT ![n] = <<x>> \o backups[n]]
      /\ backups \in [Names -> Seq(Contents)]
  BY <1>i, CallFields, InstallAssumption DEF Inductive, Typed, Named, PushBackup
<1>2. CASE call[d].name = n
  <2>1. /\ call[d].newer < Len(backups[n])
        /\ backups[n][call[d].newer + 1] = call[d].saved
    <3>1. call'[d].newer = call[d].newer + 1
      BY <1>2
    <3>2. call[d].saved # Absent /\ call[d].newer < KeepCount /\ ~call[d].shared
      BY <1>1, <3>1
    <3>3. /\ call[d].newer < Len(backups[call[d].name])
          /\ backups[call[d].name][call[d].newer + 1] = call[d].saved
      BY <3>2 DEF BackupInv
    <3> QED
      BY <1>2, <3>3
  <2>2. backups'[n] = <<x>> \o backups[n]
    BY <1>1
  <2>3. /\ Len(<<x>> \o backups[n]) = Len(backups[n]) + 1
        /\ \A k \in 1 .. Len(backups[n]) : (<<x>> \o backups[n])[k + 1] = backups[n][k]
    BY <1>1
  <2>4. call[d].newer + 1 \in 1 .. Len(backups[n])
    BY <1>1, <2>1, SMTT(30)
  <2>5. call'[d].newer = call[d].newer + 1 /\ call'[d].name = n
    BY <1>2
  <2> QED
    BY <1>1, <2>1, <2>2, <2>3, <2>4, <2>5, SMTT(30)
<1>3. CASE call[d].name # n
  BY <1>1, <1>3 DEF BackupInv
<1> QED
  BY <1>2, <1>3

LEMMA DisturbedSettles ==
  ASSUME Inductive, BackupInv, backups' = backups,
         \A d \in Calls : pc[d] # "idle" => pc'[d] # "idle",
         NEW D, \E P : D = Disturbed(P),
         \A d \in Calls : /\ call'[d].name = D[d].name /\ call'[d].saved = D[d].saved
                          /\ call'[d].newer = D[d].newer /\ call'[d].shared = D[d].shared
  PROVE  BackupInv'
<1>1. PICK P : D = Disturbed(P)
  OBVIOUS
<1>2. ASSUME NEW d \in Calls  PROVE Settled(d)
  <2>1. /\ Disturbed(P)[d].name = call[d].name /\ Disturbed(P)[d].saved = call[d].saved
        /\ Disturbed(P)[d].newer = call[d].newer /\ Disturbed(P)[d].shared = call[d].shared
    BY DisturbedQuiet DEF Same
  <2> QED
    BY <1>1, <2>1 DEF Settled
<1> QED
  BY <1>2, SettledKeeps

LEMMA BackupStep ==
  ASSUME Inductive, BackupInv, [Next]_vars
  PROVE  BackupInv'
<1>t. /\ call \in [Calls -> CallRecord] /\ pc \in [Calls -> Places]
      /\ disk \in [Sites -> [Names -> Contents]]
      /\ backups \in [Names -> Seq(Contents)] /\ KeepCount \in Nat \ {0}
      /\ \A e \in Calls : pc[e] # "idle" => call[e].name \in Names
      /\ \A e \in Calls : call[e].site \in Sites /\ call[e].newer \in Nat
  BY CallFields, InstallAssumption DEF Inductive, Typed, Named
<1>1. ASSUME NEW c \in Calls, StartInstall(c) \/ StartUninstall(c)  PROVE BackupInv'
  <2>1. backups' = backups
    BY <1>1 DEF StartInstall, StartUninstall, world
  <2>2. PICK p : pc' = [pc EXCEPT ![c] = p]
    BY <1>1 DEF StartInstall, StartUninstall
  <2>3. \E q : call' = [call EXCEPT ![c] = q] /\ q.saved = Absent
    <3>1. CASE StartInstall(c)
      <4>1. PICK r \in Requests : call' = [call EXCEPT ![c] = InstallCall(r)]
        BY <3>1 DEF StartInstall, InstallCall
      <4>2. InstallCall(r).saved = Absent
        BY DEF InstallCall, NoCall
      <4> QED
        BY <4>1, <4>2
    <3>2. CASE StartUninstall(c)
      <4>1. PICK r \in Removals : call' = [call EXCEPT ![c] = RemovalCall(r)]
        BY <3>2 DEF StartUninstall, RemovalCall
      <4>2. RemovalCall(r).saved = Absent
        BY DEF RemovalCall, NoCall
      <4> QED
        BY <4>1, <4>2
    <3> QED
      BY <1>1, <3>1, <3>2
  <2>4. \A d \in Calls : Settled(d)
    BY <1>t, <2>2, <2>3 DEF Settled
  <2> QED
    BY <2>1, <2>4, SettledKeeps
<1>2. ASSUME NEW c \in Calls, CreateBackup(c)  PROVE BackupInv'
  <2> DEFINE n == call[c].name
             x == disk[call[c].site][n]
             A == Aged(n, call)
  <2>1. /\ n \in Names /\ x \in Contents /\ pc[c] = "backup"
        /\ PushBackup(n, x) /\ call' = SetSaved(A, c, x)
        /\ pc' = [pc EXCEPT ![c] = "cleanup"]
    BY <1>t, <1>2 DEF CreateBackup, Goto, SetSaved
  <2>2. A \in [Calls -> CallRecord]
    BY <1>t, AgedType
  <2> SUFFICES ASSUME NEW d \in Calls, call'[d].saved # Absent
               PROVE  /\ pc'[d] # "idle"
                      /\ call'[d].newer < KeepCount /\ ~call'[d].shared =>
                           /\ call'[d].newer < Len(backups'[call'[d].name])
                           /\ backups'[call'[d].name][call'[d].newer + 1] = call'[d].saved
    BY DEF BackupInv
  <2>3. CASE d = c
    <3>1. A[c].name = n
      BY <1>t, AgedQuiet DEF Same
    <3> HIDE DEF A, x, n
    <3>2. call'[d].saved = x /\ call'[d].newer = 0 /\ call'[d].name = n
      BY <2>1, <2>2, <2>3, <3>1 DEF SetSaved, CallRecord
    <3>3. backups'[n] = <<x>> \o backups[n] /\ backups[n] \in Seq(Contents)
      BY <1>t, <2>1 DEF PushBackup
    <3>4. Len(<<x>> \o backups[n]) = Len(backups[n]) + 1 /\ (<<x>> \o backups[n])[1] = x
      BY <2>1, <3>3
    <3>5. Len(backups[n]) \in Nat /\ pc'[d] # "idle"
      BY <1>t, <2>1, <2>3, <3>3
    <3> QED
      BY <3>2, <3>3, <3>4, <3>5
  <2>4. CASE d # c
    <3>1. call'[d] = A[d] /\ pc'[d] = pc[d]
      BY <1>t, <2>1, <2>2, <2>4 DEF SetSaved
    <3>2. /\ call'[d].name = call[d].name /\ call'[d].saved = call[d].saved /\ call'[d].shared = call[d].shared
          /\ call'[d].newer = IF call[d].name = n /\ call[d].saved # Absent
                              THEN call[d].newer + 1 ELSE call[d].newer
      BY <1>t, <3>1, AgedQuiet DEF Same
    <3> HIDE DEF x, n, A
    <3> QED
      BY <2>1, <3>1, <3>2, PushKeeps
  <2> QED
    BY <2>3, <2>4
<1>s. ASSUME NEW c \in Calls, ShareBackup(c)  PROVE BackupInv'
  <2> DEFINE n == call[c].name
             x == disk[call[c].site][n]
             J == Joined(Twins(c))
             t == <<x>> \o SubSeq(backups[n], 2, Len(backups[n]))
  <2>1. /\ n \in Names /\ x \in Contents /\ pc[c] = "backup"
        /\ ReplaceBackup(n, x) /\ call' = SetSaved(J, c, x)
        /\ pc' = [pc EXCEPT ![c] = "cleanup"]
    BY <1>t, <1>s DEF ShareBackup, Goto, SetSaved
  <2>2. J \in [Calls -> CallRecord]
    BY <1>t, JoinedType
  <2>t. /\ backups' = [backups EXCEPT ![n] = t] /\ backups[n] \in Seq(Contents)
        /\ t[1] = x /\ Len(t) \in Nat /\ Len(t) >= 1 /\ Len(t) >= Len(backups[n])
        /\ \A k \in 2 .. Len(backups[n]) : t[k] = backups[n][k]
    BY <1>t, <2>1, ReplacedSeq DEF ReplaceBackup
  <2> SUFFICES ASSUME NEW d \in Calls, call'[d].saved # Absent
               PROVE  /\ pc'[d] # "idle"
                      /\ call'[d].newer < KeepCount /\ ~call'[d].shared =>
                           /\ call'[d].newer < Len(backups'[call'[d].name])
                           /\ backups'[call'[d].name][call'[d].newer + 1] = call'[d].saved
    BY DEF BackupInv
  <2>3. CASE d = c
    <3>1. J[c].name = n
      BY <1>t, JoinedQuiet DEF Same
    <3> HIDE DEF J, x, n, t
    <3>2. call'[d].saved = x /\ call'[d].newer = 0 /\ call'[d].name = n
      BY <2>1, <2>2, <2>3, <3>1 DEF SetSaved, CallRecord
    <3>3. backups'[n] = t /\ pc'[d] # "idle"
      BY <1>t, <2>1, <2>3, <2>t
    <3> QED
      BY <2>t, <3>2, <3>3
  <2>4. CASE d # c
    <3>1. call'[d] = J[d] /\ pc'[d] = pc[d]
      BY <1>t, <2>1, <2>2, <2>4 DEF SetSaved
    <3>2. /\ call'[d].name = call[d].name /\ call'[d].saved = call[d].saved
          /\ call'[d].newer = call[d].newer
          /\ call'[d].shared = (d \in Twins(c) \/ call[d].shared)
      BY <1>t, <3>1, JoinedQuiet DEF Same
    <3>3. /\ pc[d] # "idle" /\ call[d].name \in Names /\ call[d].newer \in Nat
          /\ call[d].newer < KeepCount /\ ~call[d].shared =>
               /\ call[d].newer < Len(backups[call[d].name])
               /\ backups[call[d].name][call[d].newer + 1] = call[d].saved
      BY <1>t, <3>2 DEF BackupInv
    <3>4. call[d].name = n /\ call[d].newer = 0 => call'[d].shared
      BY <2>4, <3>2 DEF Twins
    <3> HIDE DEF J, x, n, t
    <3>5. CASE call[d].name = n /\ call[d].newer # 0 /\ call[d].newer < KeepCount
               /\ ~call[d].shared
      <4>1. call[d].newer + 1 \in 2 .. Len(backups[n]) /\ call[d].newer < Len(backups[n])
        BY <2>t, <3>3, <3>5
      <4>2. call[d].newer < Len(t) /\ t[call[d].newer + 1] = backups[n][call[d].newer + 1]
        BY <2>t, <3>3, <4>1
      <4>3. backups'[n] = t
        BY <1>t, <2>1, <2>t
      <4> QED
        BY <3>1, <3>2, <3>3, <3>5, <4>2, <4>3
    <3>6. CASE call[d].name # n
      BY <1>t, <2>t, <3>1, <3>2, <3>3, <3>6
    <3> QED
      BY <3>1, <3>2, <3>3, <3>4, <3>5, <3>6
  <2> QED
    BY <2>3, <2>4
<1>3. ASSUME NEW c \in Calls, BackupThrows(c)  PROVE BackupInv'
  <2> DEFINE n == call[c].name
             A == Aged(n, call)
  <2>1. /\ n \in Names /\ Absent \in Contents /\ pc[c] = "backup"
        /\ PushBackup(n, Absent) /\ call' = SetProblem(A, c, TRUE)
        /\ pc' = [pc EXCEPT ![c] = "core"]
    BY <1>t, <1>3, ContentsType DEF BackupThrows, Goto, SetProblem
  <2>2. A \in [Calls -> CallRecord]
    BY <1>t, AgedType
  <2> SUFFICES ASSUME NEW d \in Calls, call'[d].saved # Absent
               PROVE  /\ pc'[d] # "idle"
                      /\ call'[d].newer < KeepCount /\ ~call'[d].shared =>
                           /\ call'[d].newer < Len(backups'[call'[d].name])
                           /\ backups'[call'[d].name][call'[d].newer + 1] = call'[d].saved
    BY DEF BackupInv
  <2>3. /\ call'[d].name = A[d].name /\ call'[d].saved = A[d].saved /\ call'[d].shared = A[d].shared
        /\ call'[d].newer = A[d].newer /\ (pc[d] # "idle" => pc'[d] # "idle")
    <3> HIDE DEF A, n
    <3> QED
      BY <1>t, <2>1, <2>2 DEF SetProblem, CallRecord
  <2>4. /\ call'[d].name = call[d].name /\ call'[d].saved = call[d].saved /\ call'[d].shared = call[d].shared
        /\ call'[d].newer = IF call[d].name = n /\ call[d].saved # Absent
                            THEN call[d].newer + 1 ELSE call[d].newer
    BY <1>t, <2>3, AgedQuiet DEF Same
  <2> HIDE DEF n, A
  <2> QED
    BY <2>1, <2>3, <2>4, PushKeeps
<1>4. ASSUME NEW c \in Calls, CleanupOldBackups(c)  PROVE BackupInv'
  <2> DEFINE n == call[c].name
             k == IF Len(backups[n]) < KeepCount THEN Len(backups[n]) ELSE KeepCount
  <2>1. /\ n \in Names /\ backups' = [backups EXCEPT ![n] = SubSeq(backups[n], 1, k)]
        /\ call' = call /\ \A d \in Calls : pc[d] # "idle" => pc'[d] # "idle"
    BY <1>t, <1>4 DEF CleanupOldBackups, Goto
  <2>2. backups[n] \in Seq(Contents)
    BY <1>t, <2>1
  <2>3. /\ k \in Nat /\ k <= Len(backups[n])
        /\ \A i \in Nat : i < KeepCount /\ i < Len(backups[n]) => i < k
    BY <1>t, <2>2
  <2>4. /\ Len(SubSeq(backups[n], 1, k)) = k
        /\ \A i \in 1 .. k : SubSeq(backups[n], 1, k)[i] = backups[n][i]
    BY <2>2, <2>3
  <2> HIDE DEF k
  <2> SUFFICES ASSUME NEW d \in Calls, call[d].saved # Absent, call[d].newer < KeepCount,
                      ~call[d].shared
               PROVE  /\ call[d].newer < Len(backups'[call[d].name])
                      /\ backups'[call[d].name][call[d].newer + 1] = call[d].saved
    BY <2>1 DEF BackupInv
  <2>5. /\ call[d].newer < Len(backups[call[d].name]) /\ call[d].newer \in Nat
        /\ backups[call[d].name][call[d].newer + 1] = call[d].saved
        /\ call[d].name \in Names
    BY <1>t, <2>1 DEF BackupInv
  <2>6. CASE call[d].name = n
    <3>1. backups'[n] = SubSeq(backups[n], 1, k)
      BY <1>t, <2>1
    <3>2. call[d].newer < k /\ call[d].newer + 1 \in 1 .. k
      BY <2>3, <2>5, <2>6
    <3> QED
      BY <2>4, <2>5, <2>6, <3>1, <3>2
  <2>7. CASE call[d].name # n
    BY <1>t, <2>1, <2>5, <2>7
  <2> QED
    BY <2>6, <2>7
<1>5. ASSUME NEW n \in Names, NEW m \in Names, RenameSkill(n, m)  PROVE BackupInv'
  <2> DEFINE D == Disturbed({Canonical} \X {n, m})
             x == disk[Canonical][n]
  <2>1. x \in Contents /\ PushBackup(n, x) /\ call' = Aged(n, D) /\ pc' = pc
    BY <1>t, <1>5, InstallAssumption DEF RenameSkill, Change
  <2>2. D \in [Calls -> CallRecord]
    BY <1>t, DisturbedType
  <2> SUFFICES ASSUME NEW d \in Calls, call'[d].saved # Absent
               PROVE  /\ pc'[d] # "idle"
                      /\ call'[d].newer < KeepCount /\ ~call'[d].shared =>
                           /\ call'[d].newer < Len(backups'[call'[d].name])
                           /\ backups'[call'[d].name][call'[d].newer + 1] = call'[d].saved
    BY DEF BackupInv
  <2>3. /\ D[d].name = call[d].name /\ D[d].saved = call[d].saved /\ D[d].newer = call[d].newer
        /\ D[d].shared = call[d].shared
    BY DisturbedQuiet DEF Same
  <2> HIDE DEF D, x
  <2>4. /\ call'[d].name = call[d].name /\ call'[d].saved = call[d].saved /\ call'[d].shared = call[d].shared
        /\ call'[d].newer = IF call[d].name = n /\ call[d].saved # Absent
                            THEN call[d].newer + 1 ELSE call[d].newer
    BY <2>1, <2>2, <2>3, AgedQuiet DEF Same
  <2> QED
    BY <2>1, <2>4, PushKeeps
<1>6. ASSUME NEW c \in Calls,
             \/ ReplayLedger(c) \/ LedgerUnreadable(c) \/ GateBlocks(c) \/ GateOpens(c)
             \/ GateFails(c) \/ LookUpEntry(c) \/ ManifestDegraded(c) \/ GuardPasses(c)
             \/ GuardRefuses(c) \/ CheckThrows(c) \/ CheckPasses(c) \/ CheckCancels(c)
             \/ CheckBacksUp(c) \/ CoreRefuses(c) \/ CoreRecords(c) \/ CoreCannotRecord(c)
             \/ CoreWillNotRemove(c) \/ LinksUnreadable(c)
      PROVE  BackupInv'
  <2>1. backups' = backups
    BY <1>6 DEF ReplayLedger, LedgerUnreadable, GateBlocks, GateOpens, GateFails, LookUpEntry,
         ManifestDegraded, GuardPasses, GuardRefuses, CheckThrows, CheckPasses, CheckCancels,
         CheckBacksUp, CoreRefuses, CoreRecords, CoreCannotRecord, CoreWillNotRemove,
         LinksUnreadable, world
  <2>2. \E p : p # "idle" /\ pc' = [pc EXCEPT ![c] = p]
    BY <1>6 DEF ReplayLedger, LedgerUnreadable, GateBlocks, GateOpens, GateFails, LookUpEntry,
         ManifestDegraded, GuardPasses, GuardRefuses, CheckThrows, CheckPasses, CheckCancels,
         CheckBacksUp, CoreRefuses, CoreRecords, CoreCannotRecord, CoreWillNotRemove,
         LinksUnreadable, Answer, Goto, PastGate
  <2>3. \/ call' = call \/ call' = SetProblem(call, c, TRUE)
        \/ \E v : \/ call' = SetEffective(call, c, v) \/ call' = SetHash(call, c, v)
                 \/ call' = SetResult(call, c, v) \/ call' = SetUnlisted(call, c, v)
    BY <1>6 DEF ReplayLedger, LedgerUnreadable, GateBlocks, GateOpens, GateFails, LookUpEntry,
         ManifestDegraded, GuardPasses, GuardRefuses, CheckThrows, CheckPasses, CheckCancels,
         CheckBacksUp, CoreRefuses, CoreRecords, CoreCannotRecord, CoreWillNotRemove,
         LinksUnreadable, Answer, Note, SetProblem, SetEffective, SetHash, SetResult, SetUnlisted
  <2>4. \A d \in Calls : call'[d].name = call[d].name /\ call'[d].saved = call[d].saved /\ call'[d].shared = call[d].shared
                         /\ call'[d].newer = call[d].newer
    <3>1. CASE call' = SetProblem(call, c, TRUE)
      BY <1>t, <3>1 DEF SetProblem, CallRecord
    <3>2. ASSUME NEW v, call' = SetEffective(call, c, v)
          PROVE  \A d \in Calls : call'[d].name = call[d].name /\ call'[d].saved = call[d].saved /\ call'[d].shared = call[d].shared
                                 /\ call'[d].newer = call[d].newer
      BY <1>t, <3>2 DEF SetEffective, CallRecord
    <3>3. ASSUME NEW v, call' = SetHash(call, c, v)
          PROVE  \A d \in Calls : call'[d].name = call[d].name /\ call'[d].saved = call[d].saved /\ call'[d].shared = call[d].shared
                                 /\ call'[d].newer = call[d].newer
      BY <1>t, <3>3 DEF SetHash, CallRecord
    <3>4. ASSUME NEW v, call' = SetResult(call, c, v)
          PROVE  \A d \in Calls : call'[d].name = call[d].name /\ call'[d].saved = call[d].saved /\ call'[d].shared = call[d].shared
                                 /\ call'[d].newer = call[d].newer
      BY <1>t, <3>4 DEF SetResult, CallRecord
    <3>5. ASSUME NEW v, call' = SetUnlisted(call, c, v)
          PROVE  \A d \in Calls : call'[d].name = call[d].name /\ call'[d].saved = call[d].saved /\ call'[d].shared = call[d].shared
                                 /\ call'[d].newer = call[d].newer
      BY <1>t, <3>5 DEF SetUnlisted, CallRecord
    <3> QED
      BY <2>3, <3>1, <3>2, <3>3, <3>4, <3>5
  <2>5. \A d \in Calls : Settled(d)
    BY <1>t, <2>2, <2>4 DEF Settled
  <2> QED
    BY <2>1, <2>5, SettledKeeps
<1>d. ASSUME NEW P  PROVE Disturbed(P) \in [Calls -> CallRecord]
  BY <1>t, DisturbedType
<1>8. ASSUME NEW c \in Calls, CoreWrites(c)  PROVE BackupInv'
  <2> DEFINE P == {<<call[c].site, call[c].name>>}
             D == Disturbed(P)
             x == disk[call[c].site][call[c].name]
  <2>1. /\ backups' = backups /\ pc[c] = "core" /\ pc' = [pc EXCEPT ![c] = "record"]
        /\ call' = [D EXCEPT ![c] = [call[c] EXCEPT !.displaced = x]]
    BY <1>8 DEF CoreWrites, Goto
  <2>2. D \in [Calls -> CallRecord]
    BY <1>d
  <2>3. /\ D[c].name = call[c].name /\ D[c].saved = call[c].saved
        /\ D[c].newer = call[c].newer /\ D[c].shared = call[c].shared
    BY DisturbedQuiet DEF Same
  <2>s. \E Q : D = Disturbed(Q)
    OBVIOUS
  <2> HIDE DEF D, x
  <2>4. \A d \in Calls : call'[d].name = D[d].name /\ call'[d].saved = D[d].saved /\ call'[d].shared = D[d].shared
                         /\ call'[d].newer = D[d].newer
    BY <1>t, <2>1, <2>2, <2>3 DEF CallRecord
  <2> QED
    BY <1>t, <2>1, <2>4, <2>s, DisturbedSettles
<1>9. ASSUME NEW c \in Calls, CoreRemoves(c)  PROVE BackupInv'
  <2> DEFINE P == {<<call[c].site, call[c].name>>}
             D == Disturbed(P)
  <2>1. /\ backups' = backups /\ pc[c] = "remove" /\ call' = SetResult(D, c, "removed")
        /\ \E p : p # "idle" /\ pc' = [pc EXCEPT ![c] = p]
    BY <1>9 DEF CoreRemoves, Goto, SetResult
  <2>2. D \in [Calls -> CallRecord]
    BY <1>d
  <2>s. \E Q : D = Disturbed(Q)
    OBVIOUS
  <2> HIDE DEF D
  <2>3. \A d \in Calls : call'[d].name = D[d].name /\ call'[d].saved = D[d].saved /\ call'[d].shared = D[d].shared
                         /\ call'[d].newer = D[d].newer
    BY <2>1, <2>2 DEF SetResult, CallRecord
  <2>4. \A d \in Calls : pc[d] # "idle" => pc'[d] # "idle"
    BY <1>t, <2>1
  <2> QED
    BY <2>1, <2>3, <2>4, <2>s, DisturbedSettles
<1>10. ASSUME NEW c \in Calls, AddLinks(c) \/ RemoveLinks(c)  PROVE BackupInv'
  <2>1. \E P, b : call' = SetProblem(Disturbed(P), c, b)
    <3>1. CASE AddLinks(c)
      BY <3>1 DEF AddLinks, SetProblem
    <3>2. CASE RemoveLinks(c)
      BY <3>2 DEF RemoveLinks, SetProblem
    <3> QED
      BY <1>10, <3>1, <3>2
  <2>2. PICK P, b : call' = SetProblem(Disturbed(P), c, b)
    BY <2>1
  <2>3. /\ backups' = backups /\ pc[c] # "idle" /\ pc' = [pc EXCEPT ![c] = "done"]
    BY <1>10 DEF AddLinks, RemoveLinks, Goto
  <2> DEFINE D == Disturbed(P)
  <2>4. D \in [Calls -> CallRecord] /\ call' = SetProblem(D, c, b)
    BY <1>d, <2>2
  <2>s. \E Q : D = Disturbed(Q)
    OBVIOUS
  <2> HIDE DEF D
  <2>5. \A d \in Calls : call'[d].name = D[d].name /\ call'[d].saved = D[d].saved /\ call'[d].shared = D[d].shared
                         /\ call'[d].newer = D[d].newer
    BY <2>4 DEF SetProblem, CallRecord
  <2> QED
    BY <1>t, <2>3, <2>5, <2>s, DisturbedSettles
<1>11. ASSUME NEW s \in Sites, NEW n \in Names, Edit(s, n) \/ Delete(s, n)  PROVE BackupInv'
  <2>1. backups' = backups /\ pc' = pc /\ call' = Disturbed({<<s, n>>})
    BY <1>11 DEF Edit, Delete, Change
  <2> QED
    BY <2>1, DisturbedSettles
<1>12. CASE SpoilManifest \/ UNCHANGED vars
  <2>1. backups' = backups /\ pc' = pc /\ call' = call
    BY <1>12 DEF SpoilManifest, Change, vars
  <2> QED
    BY <2>1 DEF BackupInv
<1> QED
  BY <1>1, <1>2, <1>s, <1>3, <1>4, <1>5, <1>6, <1>8, <1>9, <1>10, <1>11, <1>12
     DEF Next, Gate, Preflight, Core, Uninstall, User

\* What an install asked to overwrite has backed up can be got back, until as
\* many newer backups of the skill as are kept have been made, or another
\* overwrite has taken its backup's directory in the same millisecond.
THEOREM OverwriteTheorem == Spec => []OverwrittenEditIsKept
<1>1. Init => BackupInv
  <2>1. NoCall.saved = Absent
    BY DEF NoCall
  <2>2. ASSUME Init  PROVE \A d \in Calls : call[d].saved = Absent
    BY <2>1, <2>2 DEF Init
  <2> QED
    BY <2>2 DEF BackupInv
<1>2. Inductive /\ BackupInv => OverwrittenEditIsKept
  <2> SUFFICES ASSUME Inductive, BackupInv, NEW c \in Calls,
                      IsEdit(call[c].displaced), call[c].displaced = call[c].saved,
                      call[c].newer < KeepCount, ~call[c].shared
               PROVE  Contains(backups[call[c].name], call[c].saved)
    BY DEF OverwrittenEditIsKept
  <2>1. call[c].saved # Absent
    BY DEF IsEdit, Upstream, Absent
  <2>2. pc[c] # "idle"
    BY <2>1 DEF BackupInv
  <2>3. /\ call[c].newer \in Nat
        /\ backups[call[c].name] \in Seq(Contents)
    BY <2>2, CallFields DEF Inductive, Typed, Named
  <2>4. /\ call[c].newer + 1 \in 1 .. Len(backups[call[c].name])
        /\ backups[call[c].name][call[c].newer + 1] = call[c].saved
    BY <2>1, <2>3 DEF BackupInv
  <2> QED
    BY <2>4 DEF Contains
<1>3. Inductive /\ BackupInv /\ [Next]_vars => Inductive' /\ BackupInv'
  BY TypeStep, BackupStep
<1> QED
  BY <1>1, <1>2, <1>3, TypeInit, PTL DEF Spec

=============================================================================
