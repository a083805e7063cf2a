---------------------- MODULE ManifestReconcile_proofs ----------------------
(* Proofs of the safety properties of ManifestReconcile, for all constants. *)
EXTENDS ManifestReconcile, TLAPS

-----------------------------------------------------------------------------
(* The inductive invariant, in the order its parts are proved. *)

\* A call in flight has one of the inputs, and a verification keeps the rows it planned.
CallOK(c) ==
  /\ c.step # "idle" => c.request \in Requests
  /\ c.step = "check" => c.request.action # "revert"
  /\ c.step = "findEntry" => c.request.action = "revert"
  /\ c.step \in {"compare", "backup", "lock", "commit"} /\ c.request.action = "verify" =>
       \A k \in c.plan : c.pre[k] # NoEntry

TypeInv == TypeOK /\ \A p \in Procs : CallOK(calls[p])

\* The lock's owner is the call between lock and save, and it works on the current rows.
LockInv ==
  \A p \in Procs :
    /\ lock = p <=> calls[p].step = "commit"
    /\ calls[p].step = "commit" => calls[p].snap = manifest

\* A row or recorded state is legal, and certified by the evidence ev.
Sound(e, ev) ==
  /\ e.provenance = "local" => e.source = Unknown
  /\ e.verifiedAt # 0 => [at |-> e.verifiedAt, id |-> e.id, path |-> e.path] \in ev

\* A ledger entry has its row's name, goes between sound states, and is one of the
\* writes ws.
RecordSound(w, ev, ws) ==
  /\ w.name = w.key[1]
  /\ Sound(w.before, ev)
  /\ w.after # NoEntry => Sound(w.after, ev)
  /\ [w EXCEPT !.id = 0] \in ws

\* The rows a verification is about to stamp were compared at the time it will record,
\* and every ledger entry a call holds is sound.
CallSound(c, ev, ws) ==
  /\ c.step \in {"backup", "lock", "commit"} /\ c.request.action = "verify" =>
       \A k \in c.plan : [at |-> c.stamp, id |-> c.pre[k].id, path |-> c.pre[k].path] \in ev
  /\ \A w \in c.todo \cup c.view \cup c.target : RecordSound(w, ev, ws)

RowsSound == \A k \in Keys : manifest[k] # NoEntry => Sound(manifest[k], checked)
LedgerSound == \A e \in ledger : RecordSound(e, checked, writes)
CallsSound == \A p \in Procs : CallSound(calls[p], checked, writes)
SoundInv == RowsSound /\ LedgerSound /\ CallsSound
-----------------------------------------------------------------------------
(* Types of the helpers. *)

LEMMA IdleCallType == IdleCall \in ToolCall
  BY ConstantsAssumption
     DEF IdleCall, ToolCall, Steps, EmptyManifest, Manifests

\* A step of one call keeps every call well formed when its new state is.
LEMMA BecomeOK ==
  ASSUME TypeInv, NEW p \in Procs, NEW c \in ToolCall, CallOK(c), Become(p, c)
  PROVE  /\ calls' \in [Procs -> ToolCall]
         /\ \A q \in Procs : CallOK(calls'[q])
  BY DEF Become, TypeInv, TypeOK

LEMMA ReturnOK ==
  ASSUME TypeInv, NEW p \in Procs, Return(p)
  PROVE  /\ calls' \in [Procs -> ToolCall]
         /\ \A q \in Procs : CallOK(calls'[q])
  <1>1. CallOK(IdleCall)
    BY DEF CallOK, IdleCall
  <1> QED
    BY <1>1, IdleCallType, BecomeOK DEF Return

\* The input of a call in flight.
LEMMA RequestType ==
  ASSUME TypeInv, NEW p \in Procs, calls[p].step # "idle"
  PROVE  /\ calls[p].request \in Requests
         /\ calls[p].request \in ValidRequests
  BY RequestsAssumption DEF TypeInv, CallOK

\* A call names its row only by inputs that were given.
LEMMA CallKeyType ==
  ASSUME TypeInv, NEW p \in Procs, calls[p].step # "idle", calls[p].request.name # NoName
  PROVE  CallKey(p) \in Keys
  BY RequestType DEF CallKey, ManifestKeyFor, Keys, ValidRequests

LEMMA RevertKeyType == ASSUME NEW t \in LedgerEntry PROVE RevertKey(t) \in Keys
  BY DEF RevertKey, ManifestKeyFor, Keys, LedgerEntry
-----------------------------------------------------------------------------
(* Types. *)

LEMMA OnlyCallsType ==
  ASSUME TypeInv, UNCHANGED <<files, nextId, clock, activity, history>>,
         calls' \in [Procs -> ToolCall] /\ \A q \in Procs : CallOK(calls'[q])
  PROVE  TypeInv'
  BY DEF TypeInv, TypeOK, files, history

\* What the steps read of the state has its type.
LEMMA CallTyped ==
  ASSUME TypeInv, NEW p \in Procs
  PROVE  calls[p] \in ToolCall /\ manifest \in Manifests /\ ledger \subseteq LedgerEntry
  BY DEF TypeInv, TypeOK

LEMMA StartType == ASSUME TypeInv, NEW p \in Procs, Start(p) PROVE TypeInv'
  <1>1. PICK r \in Requests :
          Become(p, [calls[p] EXCEPT !.request = r,
                       !.step = IF r.action = "revert" THEN "findEntry" ELSE "check"])
    BY DEF Start
  <1> DEFINE c == [calls[p] EXCEPT !.request = r,
                     !.step = IF r.action = "revert" THEN "findEntry" ELSE "check"]
  <1>2. r \in ValidRequests
    BY RequestsAssumption
  <1>3. c \in ToolCall
    BY <1>2, CallTyped, ZenonT(60) DEF ToolCall, Steps
  <1>4. CallOK(c)
    <2>1. c.request = r /\ c.step = (IF r.action = "revert" THEN "findEntry" ELSE "check")
      BY DEF TypeInv, TypeOK, ToolCall
    <2> HIDE DEF c
    <2>2. CASE r.action = "revert"
      BY <2>1, <2>2 DEF CallOK
    <2>3. CASE r.action # "revert"
      BY <2>1, <2>3 DEF CallOK
    <2> QED
      BY <2>2, <2>3
  <1>5. calls' \in [Procs -> ToolCall] /\ \A q \in Procs : CallOK(calls'[q])
    BY <1>1, <1>3, <1>4, BecomeOK
  <1> QED
    BY <1>5 DEF TypeInv, TypeOK, Start, Active, files, history

LEMMA PreCheckType == ASSUME TypeInv, NEW p \in Procs, PreCheck(p) PROVE TypeInv'
  <1> DEFINE r == calls[p].request
             c == [calls[p] EXCEPT !.step = AfterCheck(r.action),
                     !.pre = IF r.action = "drop_entry" THEN manifest ELSE @]
  <1>1. r.action \in {"mark_local", "relink", "drop_entry"}
    BY RequestType DEF PreCheck, TypeInv, CallOK, ValidRequests, MutatingActions
  <1>2. c \in ToolCall
    BY <1>1, CallTyped, ZenonT(60) DEF ToolCall, Steps, AfterCheck
  <1>3. CallOK(c)
    <2>1. c.request = r /\ c.step \in {"backup", "validate", "stat"}
      BY <1>1 DEF TypeInv, TypeOK, ToolCall, AfterCheck
    <2>2. r \in Requests
      BY RequestType DEF PreCheck
    <2> HIDE DEF c
    <2> QED
      BY <1>1, <2>1, <2>2 DEF CallOK
  <1>4. calls' \in [Procs -> ToolCall] /\ \A q \in Procs : CallOK(calls'[q])
    BY <1>2, <1>3, BecomeOK, ReturnOK DEF PreCheck
  <1> QED
    BY <1>4 DEF TypeInv, TypeOK, PreCheck, files, history

LEMMA ValidateRelinkType == ASSUME TypeInv, NEW p \in Procs, ValidateRelink(p) PROVE TypeInv'
  <1> DEFINE c == [calls[p] EXCEPT !.step = "backup"]
  <1>1. c \in ToolCall
    BY CallTyped, ZenonT(60) DEF ToolCall, Steps
  <1>2. CallOK(c)
    BY DEF ValidateRelink, At, CallOK, TypeInv, TypeOK, ToolCall
  <1> QED
    BY <1>1, <1>2, BecomeOK, ReturnOK, OnlyCallsType DEF ValidateRelink

LEMMA StatDropTargetType == ASSUME TypeInv, NEW p \in Procs, StatDropTarget(p) PROVE TypeInv'
  <1> DEFINE c == [calls[p] EXCEPT !.step = "backup", !.pre = EmptyManifest]
  <1>1. c \in ToolCall
    BY CallTyped, ZenonT(60) DEF ToolCall, Steps, EmptyManifest, Manifests
  <1>2. CallOK(c)
    BY DEF StatDropTarget, At, CallOK, TypeInv, TypeOK, ToolCall
  <1> QED
    BY <1>1, <1>2, BecomeOK, ReturnOK, OnlyCallsType DEF StatDropTarget

LEMMA VerifyLoadType == ASSUME TypeInv, NEW p \in Procs, VerifyLoad(p) PROVE TypeInv'
  <1> DEFINE r == calls[p].request
             c == [calls[p] EXCEPT !.step = "compare", !.pre = manifest, !.plan = VerifyTargets(p)]
  <1>1. CASE Return(p)
    BY <1>1, ReturnOK, OnlyCallsType DEF VerifyLoad
  <1>2. CASE /\ r.name # NoName => Resolves(manifest, r.name, r.client)
             /\ Become(p, c)
    <2>1. VerifyTargets(p) \in SUBSET Keys
      BY CallKeyType DEF VerifyTargets, VerifyLoad, At
    <2>2. \A k \in VerifyTargets(p) : manifest[k] # NoEntry
      BY <1>2 DEF VerifyTargets, Resolves, CallKey
    <2>3. c \in ToolCall
      BY <2>1, CallTyped, ZenonT(60) DEF ToolCall, Steps
    <2>4. CallOK(c)
      BY <2>2 DEF VerifyLoad, At, CallOK, TypeInv, TypeOK, ToolCall
    <2> QED
      BY <1>2, <2>3, <2>4, BecomeOK, OnlyCallsType DEF VerifyLoad
  <1> QED
    BY <1>1, <1>2 DEF VerifyLoad

LEMMA VerifyCompareType == ASSUME TypeInv, NEW p \in Procs, VerifyCompare(p) PROVE TypeInv'
  <1>1. PICK matched \in SUBSET {k \in calls[p].plan : calls[p].pre[k].path \in onDisk} :
          IF matched = {}
            THEN Return(p) /\ UNCHANGED <<clock, checked>>
            ELSE /\ clock' = clock + 1
                 /\ Become(p, [calls[p] EXCEPT !.step = "backup", !.plan = matched,
                                               !.stamp = clock + 1])
                 /\ checked' = checked \cup
                      {[at |-> clock + 1, id |-> calls[p].pre[k].id,
                        path |-> calls[p].pre[k].path] : k \in matched}
    BY DEF VerifyCompare
  <1> DEFINE c == [calls[p] EXCEPT !.step = "backup", !.plan = matched, !.stamp = clock + 1]
             found == {[at |-> clock + 1, id |-> calls[p].pre[k].id,
                        path |-> calls[p].pre[k].path] : k \in matched}
  <1>2. CASE matched = {}
    <2>1. Return(p) /\ UNCHANGED <<clock, checked>>
      BY <1>1, <1>2
    <2>2. calls' \in [Procs -> ToolCall] /\ \A q \in Procs : CallOK(calls'[q])
      BY <2>1, ReturnOK
    <2> QED
      BY <2>1, <2>2 DEF VerifyCompare, TypeInv, TypeOK, files
  <1>3. CASE matched # {}
    <2>0. matched \in SUBSET Keys /\ clock + 1 \in Nat
      BY DEF TypeInv, TypeOK, ToolCall
    <2>1. c \in ToolCall
      BY <2>0, CallTyped, ZenonT(60) DEF ToolCall, Steps
    <2>2. CallOK(c)
      BY DEF VerifyCompare, At, CallOK, TypeInv, TypeOK, ToolCall
    <2>3. \A k \in matched : calls[p].pre[k] \in Entry
      BY DEF VerifyCompare, At, CallOK, TypeInv, TypeOK, ToolCall, Manifests
    <2>4. found \subseteq Evidence
      BY <2>3 DEF Evidence, Entry, TypeInv, TypeOK
    <2>5. calls' \in [Procs -> ToolCall] /\ \A q \in Procs : CallOK(calls'[q])
      BY <1>1, <1>3, <2>1, <2>2, BecomeOK
    <2> QED
      BY <1>1, <1>3, <2>4, <2>5 DEF VerifyCompare, TypeInv, TypeOK, files
  <1> QED
    BY <1>2, <1>3

LEMMA BackupType == ASSUME TypeInv, NEW p \in Procs, Backup(p) PROVE TypeInv'
  <1> DEFINE c == [calls[p] EXCEPT !.step = "lock"]
  <1>1. c \in ToolCall
    BY CallTyped, ZenonT(60) DEF ToolCall, Steps
  <1>2. CallOK(c)
    BY DEF Backup, CallOK, TypeInv, TypeOK, ToolCall
  <1> QED
    BY <1>1, <1>2, BecomeOK, ReturnOK, OnlyCallsType DEF Backup

LEMMA AcquireLockType == ASSUME TypeInv, NEW p \in Procs, AcquireLock(p) PROVE TypeInv'
  <1> DEFINE c == [calls[p] EXCEPT !.step = "commit", !.snap = manifest]
  <1>1. c \in ToolCall
    BY CallTyped, ZenonT(60) DEF ToolCall, Steps
  <1>2. CallOK(c)
    BY DEF AcquireLock, CallOK, TypeInv, TypeOK, ToolCall
  <1>3. calls' \in [Procs -> ToolCall] /\ \A q \in Procs : CallOK(calls'[q])
    BY <1>1, <1>2, BecomeOK DEF AcquireLock
  <1> QED
    BY <1>3 DEF AcquireLock, TypeInv, TypeOK, history

LEMMA LockTimeoutType == ASSUME TypeInv, NEW p \in Procs, LockTimeout(p) PROVE TypeInv'
  BY ReturnOK, OnlyCallsType DEF LockTimeout

\* What a commit writes is a well-typed manifest and well-typed ledger entries.
LEMMA SaveType ==
  ASSUME TypeInv, NEW p \in Procs, calls[p].step = "commit",
         NEW new \in Manifests, NEW made \in SUBSET LedgerEntry,
         NEW next \in {"ledgerRead", "removeRead"},
         Save(p, new, made, next), undone' \subseteq Nat
  PROVE  TypeInv'
  <1> DEFINE c == [IdleCall EXCEPT !.step = next, !.request = calls[p].request,
                                   !.target = calls[p].target, !.todo = made]
  <1>1. c \in ToolCall
    BY IdleCallType, CallTyped, ZenonT(60) DEF ToolCall, Steps
  <1>2. CallOK(c)
    BY RequestType DEF CallOK, IdleCall
  <1>3. calls' \in [Procs -> ToolCall] /\ \A q \in Procs : CallOK(calls'[q])
    BY <1>1, <1>2, BecomeOK DEF Save
  <1> QED
    BY <1>3 DEF Save, TypeInv, TypeOK

LEMMA WriteOfType ==
  ASSUME TypeInv, NEW p \in Procs, calls[p].step # "idle",
         calls[p].request.action \in MutatingActions,
         NEW k \in Keys, NEW before \in Entry, NEW after \in Entry \cup {NoEntry}
  PROVE  WriteOf(p, k, before, after) \in LedgerEntry
  BY RequestType DEF WriteOf, LedgerEntry, ValidRequests, Keys

LEMMA CommitRowType ==
  ASSUME TypeInv, NEW p \in Procs, NEW action \in {"mark_local", "relink", "drop_entry"},
         NEW after, LockedRow(p) \in Entry => after \in Entry \cup {NoEntry},
         CommitRow(p, action, after)
  PROVE  TypeInv'
  <1>1. calls[p].step = "commit" /\ calls[p].request.action = action
    BY DEF CommitRow, At
  <1>2. CallKey(p) \in Keys
    BY <1>1, RequestType, RequestsAssumption, CallKeyType
  <1>3. calls[p].snap \in Manifests
    BY DEF TypeInv, TypeOK, ToolCall
  <1>4. LockedRow(p) \in Entry /\ after \in Entry \cup {NoEntry}
    BY <1>2, <1>3 DEF CommitRow, StillResolves, Resolves, LockedRow, CallKey, Manifests
  <1>5. [calls[p].snap EXCEPT ![CallKey(p)] = after] \in Manifests
    BY <1>2, <1>3, <1>4 DEF Manifests
  <1>6. {WriteOf(p, CallKey(p), LockedRow(p), after)} \in SUBSET LedgerEntry
    BY <1>1, <1>2, <1>4, WriteOfType DEF MutatingActions
  <1>7. undone' \subseteq Nat
    BY DEF CommitRow, TypeInv, TypeOK
  <1> QED
    BY <1>1, <1>5, <1>6, <1>7, SaveType DEF CommitRow

LEMMA CommitMarkLocalType == ASSUME TypeInv, NEW p \in Procs, CommitMarkLocal(p) PROVE TypeInv'
  <1>1. LockedRow(p) \in Entry => MarkedLocal(LockedRow(p)) \in Entry
    BY ConstantsAssumption DEF MarkedLocal, Entry
  <1> QED
    BY <1>1, CommitRowType DEF CommitMarkLocal

LEMMA CommitRelinkType == ASSUME TypeInv, NEW p \in Procs, CommitRelink(p) PROVE TypeInv'
  <1> DEFINE r == calls[p].request
  <1>1. r \in Requests /\ r \in ValidRequests /\ r.action = "relink"
    BY RequestType DEF CommitRelink, CommitRow, At
  <1>2. r.id \in Ids /\ r.source \in Sources
    BY <1>1, RequestsAssumption DEF ValidRequests
  <1>3. LockedRow(p) \in Entry => Relinked(LockedRow(p), r.id, r.source) \in Entry
    BY <1>2 DEF Relinked, Entry
  <1> QED
    BY <1>3, CommitRowType DEF CommitRelink

LEMMA CommitDropType == ASSUME TypeInv, NEW p \in Procs, CommitDrop(p) PROVE TypeInv'
  BY CommitRowType DEF CommitDrop

\* The rows a verification stamps exist, and so do their stamped versions.
LEMMA StampableType ==
  ASSUME TypeInv, NEW p \in Procs, calls[p].step = "commit",
         calls[p].request.action = "verify", NEW k \in Stampable(p)
  PROVE  /\ k \in Keys
         /\ calls[p].snap[k] \in Entry
         /\ StampWrite(p, k) \in LedgerEntry
         /\ StampWrite(p, k).after \in Entry
  <1>1. k \in Keys /\ calls[p].snap \in Manifests /\ calls[p].stamp \in Nat
    BY DEF Stampable, TypeInv, TypeOK, ToolCall
  <1>2. calls[p].snap[k] \in Entry
    BY <1>1 DEF Stampable, SameIdentity, Manifests
  <1>3. [calls[p].snap[k] EXCEPT !.verifiedAt = calls[p].stamp] \in Entry
    BY <1>1, <1>2 DEF Entry
  <1>4. StampWrite(p, k) \in LedgerEntry
    BY <1>1, <1>2, <1>3, WriteOfType DEF StampWrite, MutatingActions
  <1> QED
    BY <1>1, <1>2, <1>3, <1>4 DEF StampWrite, WriteOf

LEMMA CommitVerifyType == ASSUME TypeInv, NEW p \in Procs, CommitVerify(p) PROVE TypeInv'
  <1> DEFINE new == [k \in Keys |-> IF k \in Stampable(p) THEN StampWrite(p, k).after
                                                         ELSE calls[p].snap[k]]
             made == {StampWrite(p, k) : k \in Stampable(p)}
  <1>1. calls[p].step = "commit" /\ calls[p].request.action = "verify"
    BY DEF CommitVerify, At
  <1>2. calls[p].snap \in Manifests
    BY DEF TypeInv, TypeOK, ToolCall
  <1>3. new \in Manifests
    BY <1>1, <1>2, StampableType DEF Manifests
  <1>4. made \in SUBSET LedgerEntry
    BY <1>1, StampableType
  <1>5. undone' \subseteq Nat
    BY DEF CommitVerify, TypeInv, TypeOK
  <1>6. Save(p, new, made, "ledgerRead")
    BY DEF CommitVerify
  <1> HIDE DEF new, made
  <1> QED
    BY <1>1, <1>3, <1>4, <1>5, <1>6, SaveType

LEMMA CommitRevertType == ASSUME TypeInv, NEW p \in Procs, CommitRevert(p) PROVE TypeInv'
  <1>1. PICK t \in calls[p].target :
          /\ At(p, "revert", "commit")
          /\ Save(p, [calls[p].snap EXCEPT ![RevertKey(t)] = t.before], {}, "removeRead")
          /\ undone' = undone \cup {t.id}
    BY DEF CommitRevert
  <1>2. t \in LedgerEntry /\ calls[p].snap \in Manifests
    BY DEF TypeInv, TypeOK, ToolCall
  <1>3. t.id \in Nat /\ t.before \in Entry
    BY <1>2 DEF LedgerEntry
  <1>4. [calls[p].snap EXCEPT ![RevertKey(t)] = t.before] \in Manifests
    BY <1>2, <1>3, RevertKeyType DEF Manifests
  <1>5. undone' \subseteq Nat
    BY <1>1, <1>3 DEF TypeInv, TypeOK
  <1> QED
    BY <1>1, <1>4, <1>5, SaveType DEF At

LEMMA CommitRefusedType == ASSUME TypeInv, NEW p \in Procs, CommitRefused(p) PROVE TypeInv'
  <1>1. calls' \in [Procs -> ToolCall] /\ \A q \in Procs : CallOK(calls'[q])
    BY ReturnOK DEF CommitRefused
  <1> QED
    BY <1>1 DEF CommitRefused, TypeInv, TypeOK, history

LEMMA LedgerReadType == ASSUME TypeInv, NEW p \in Procs, LedgerRead(p) PROVE TypeInv'
  <1> DEFINE c == [calls[p] EXCEPT !.step = "ledgerWrite",
                                   !.view = IF ledgerForm = "ok" THEN ledger ELSE {}]
  <1>1. c \in ToolCall
    BY CallTyped, ZenonT(60) DEF ToolCall, Steps
  <1>2. CallOK(c)
    BY DEF LedgerRead, CallOK, TypeInv, TypeOK, ToolCall
  <1> QED
    BY <1>1, <1>2, BecomeOK, OnlyCallsType DEF LedgerRead

LEMMA LedgerWriteType == ASSUME TypeInv, NEW p \in Procs, LedgerWrite(p) PROVE TypeInv'
  <1>1. PICK w \in calls[p].todo :
          /\ ledger' = calls[p].view \cup {[w EXCEPT !.id = nextId]}
          /\ IF calls[p].todo = {w}
               THEN Return(p)
               ELSE Become(p, [calls[p] EXCEPT !.step = "ledgerRead", !.todo = @ \ {w},
                                               !.view = {}])
    BY DEF LedgerWrite
  <1> DEFINE c == [calls[p] EXCEPT !.step = "ledgerRead", !.todo = @ \ {w}, !.view = {}]
  <1>2. c \in ToolCall
    BY CallTyped, ZenonT(60) DEF ToolCall, Steps
  <1>3. CallOK(c)
    BY DEF LedgerWrite, CallOK, TypeInv, TypeOK, ToolCall
  <1>4. calls' \in [Procs -> ToolCall] /\ \A q \in Procs : CallOK(calls'[q])
    BY <1>1, <1>2, <1>3, BecomeOK, ReturnOK
  <1>5. w \in LedgerEntry /\ calls[p].view \subseteq LedgerEntry
    BY DEF TypeInv, TypeOK, ToolCall
  <1>6. [w EXCEPT !.id = nextId] \in LedgerEntry
    BY <1>5 DEF LedgerEntry, TypeInv, TypeOK
  <1> QED
    BY <1>1, <1>4, <1>5, <1>6 DEF LedgerWrite, TypeInv, TypeOK

LEMMA FindEntryType == ASSUME TypeInv, NEW p \in Procs, FindEntry(p) PROVE TypeInv'
  <1> DEFINE c == [calls[p] EXCEPT !.step = "lock", !.target = Matches(p)]
  <1>1. CASE Return(p)
    BY <1>1, ReturnOK, OnlyCallsType DEF FindEntry
  <1>2. CASE Become(p, c)
    <2>1. c \in ToolCall
      BY CallTyped, ZenonT(60) DEF ToolCall, Steps, Matches
    <2>2. CallOK(c)
      BY <1>2 DEF FindEntry, CallOK, TypeInv, TypeOK, ToolCall
    <2> QED
      BY <1>2, <2>1, <2>2, BecomeOK, OnlyCallsType DEF FindEntry
  <1> QED
    BY <1>1, <1>2 DEF FindEntry

LEMMA RemoveReadType == ASSUME TypeInv, NEW p \in Procs, RemoveRead(p) PROVE TypeInv'
  <1> DEFINE c == [calls[p] EXCEPT !.step = "removeWrite", !.view = ledger]
  <1>1. c \in ToolCall
    BY CallTyped, ZenonT(60) DEF ToolCall, Steps
  <1>2. CallOK(c)
    BY DEF RemoveRead, CallOK, TypeInv, TypeOK, ToolCall
  <1> QED
    BY <1>1, <1>2, BecomeOK, ReturnOK, OnlyCallsType DEF RemoveRead

LEMMA RemoveWriteType == ASSUME TypeInv, NEW p \in Procs, RemoveWrite(p) PROVE TypeInv'
  <1>1. calls' \in [Procs -> ToolCall] /\ \A q \in Procs : CallOK(calls'[q])
    BY ReturnOK DEF RemoveWrite
  <1>2. ledger' \subseteq LedgerEntry
    BY DEF RemoveWrite, TypeInv, TypeOK, ToolCall
  <1> QED
    BY <1>1, <1>2 DEF RemoveWrite, TypeInv, TypeOK, history

LEMMA LedgerThrowsType == ASSUME TypeInv, NEW p \in Procs, LedgerThrows(p) PROVE TypeInv'
  BY ReturnOK, OnlyCallsType DEF LedgerThrows

LEMMA CrashType == ASSUME TypeInv, NEW p \in Procs, Crash(p) PROVE TypeInv'
  <1>1. calls' \in [Procs -> ToolCall] /\ \A q \in Procs : CallOK(calls'[q])
    BY ReturnOK DEF Crash
  <1> QED
    BY <1>1 DEF Crash, TypeInv, TypeOK, history

LEMMA InstallType == ASSUME TypeInv, NEW k \in Keys, Install(k) PROVE TypeInv'
  <1>1. PICK i \in Ids, s \in Sources \ {Unknown}, d \in DirsFor[k] :
          /\ manifest' = [manifest EXCEPT ![k] =
               [id |-> i, source |-> s, provenance |-> "registry", verifiedAt |-> 0,
                path |-> d, client |-> k[2]]]
          /\ onDisk' = onDisk \cup {d}
    BY DEF Install
  <1>2. d \in Paths
    BY ConstantsAssumption
  <1>3. [id |-> i, source |-> s, provenance |-> "registry", verifiedAt |-> 0,
         path |-> d, client |-> k[2]] \in Entry
    BY <1>2 DEF Entry, Keys
  <1> QED
    BY <1>1, <1>2, <1>3 DEF Install, Active, TypeInv, TypeOK, Manifests, history

LEMMA UninstallType == ASSUME TypeInv, NEW k \in Keys, Uninstall(k) PROVE TypeInv'
  BY DEF Uninstall, Active, TypeInv, TypeOK, Manifests, history

LEMMA DeleteDirectoryType == ASSUME TypeInv, NEW d \in Paths, DeleteDirectory(d) PROVE TypeInv'
  BY DEF DeleteDirectory, Active, TypeInv, TypeOK, history

LEMMA InitType == Init => TypeInv
  <1>1. Init => TypeOK
    BY IdleCallType, ConstantsAssumption, InitManifestsAssumption DEF Init, TypeOK
  <1>2. CallOK(IdleCall)
    BY DEF CallOK, IdleCall
  <1> QED
    BY <1>1, <1>2 DEF Init, TypeInv

LEMMA NextType == TypeInv /\ [Next]_vars => TypeInv'
  <1> SUFFICES ASSUME TypeInv, [Next]_vars PROVE TypeInv'
    OBVIOUS
  <1>1. CASE UNCHANGED vars
    BY <1>1 DEF vars, files, history, TypeInv, TypeOK
  <1>2. ASSUME NEW p \in Procs, Start(p) \/ Crash(p) PROVE TypeInv'
    BY <1>2, StartType, CrashType
  <1>3. ASSUME NEW p \in Procs, CallStep(p) PROVE TypeInv'
    BY <1>3, PreCheckType, ValidateRelinkType, StatDropTargetType, VerifyLoadType,
       VerifyCompareType, BackupType, AcquireLockType, LockTimeoutType, CommitMarkLocalType,
       CommitRelinkType, CommitDropType, CommitVerifyType, CommitRevertType,
       CommitRefusedType, LedgerReadType, LedgerWriteType, FindEntryType, RemoveReadType,
       RemoveWriteType, LedgerThrowsType
       DEF CallStep
  <1>4. CASE ReclaimLock
    BY <1>4 DEF ReclaimLock, TypeInv, TypeOK, history
  <1>5. CASE OtherWriters
    BY <1>5, InstallType, UninstallType, DeleteDirectoryType DEF OtherWriters
  <1> QED
    BY <1>1, <1>2, <1>3, <1>4, <1>5 DEF Next

LEMMA TypeInvariant == Spec => []TypeInv
  BY InitType, NextType, PTL DEF Spec

\* Every variable keeps its type, whatever the constants: the tool never writes a
\* malformed row or ledger entry.
THEOREM TypeCorrect == Spec => []TypeOK
  <1>1. TypeInv => TypeOK
    BY DEF TypeInv
  <1> QED
    BY <1>1, TypeInvariant, PTL
-----------------------------------------------------------------------------
(* Mutual exclusion. *)

\* The owner leaves the lock free, or orphaned, and stops committing.
LEMMA ReleaseLock ==
  ASSUME TypeInv, LockInv, NEW p \in Procs, NEW c \in ToolCall, Become(p, c),
         lock = p, c.step # "commit", lock' \in {Free, Orphan, Stuck}
  PROVE  LockInv'
  BY ConstantsAssumption DEF Become, LockInv, TypeInv, TypeOK

LEMMA TakeLock == ASSUME TypeInv, LockInv, NEW p \in Procs, AcquireLock(p) PROVE LockInv'
  <1>1. /\ calls'[p].step = "commit" /\ calls'[p].snap = manifest
        /\ \A q \in Procs : q # p => calls'[q] = calls[q]
    BY DEF AcquireLock, Become, TypeInv, TypeOK, ToolCall
  <1> QED
    BY <1>1, ConstantsAssumption DEF AcquireLock, LockInv

\* The steps that neither take nor hold the lock.
LEMMA QuietSteps ==
  ASSUME TypeInv, LockInv, NEW p \in Procs,
         \/ Start(p) \/ PreCheck(p) \/ ValidateRelink(p) \/ StatDropTarget(p) \/ VerifyLoad(p)
         \/ VerifyCompare(p) \/ Backup(p) \/ LockTimeout(p) \/ LedgerRead(p) \/ LedgerWrite(p)
         \/ FindEntry(p) \/ RemoveRead(p) \/ RemoveWrite(p) \/ LedgerThrows(p)
  PROVE  LockInv'
  <1>1. calls[p].step # "commit" /\ UNCHANGED <<manifest, lock>>
    BY DEF Start, PreCheck, ValidateRelink, StatDropTarget, VerifyLoad, VerifyCompare, Backup,
           LockTimeout, LedgerRead, LedgerWrite, FindEntry, RemoveRead, RemoveWrite,
           LedgerThrows, At, files
  <1>2. calls'[p].step # "commit"
    <2>1. CASE Return(p)
      BY <2>1 DEF Return, Become, IdleCall, TypeInv, TypeOK
    <2>2. CASE Start(p)
      BY <2>2 DEF Start, Become, TypeInv, TypeOK, ToolCall
    <2>3. CASE PreCheck(p)
      <3>1. calls[p].request.action \in {"mark_local", "relink", "drop_entry"}
        BY <2>3, RequestType DEF PreCheck, TypeInv, CallOK, ValidRequests, MutatingActions
      <3> QED
        BY <2>1, <2>3, <3>1 DEF PreCheck, Become, AfterCheck, TypeInv, TypeOK, ToolCall
    <2>4. CASE ValidateRelink(p) \/ StatDropTarget(p) \/ VerifyLoad(p) \/ Backup(p)
               \/ LockTimeout(p) \/ LedgerThrows(p)
      BY <2>1, <2>4
         DEF ValidateRelink, StatDropTarget, VerifyLoad, Backup, LockTimeout, LedgerThrows,
             Become, TypeInv, TypeOK, ToolCall
    <2>5. CASE VerifyCompare(p)
      BY <2>1, <2>5 DEF VerifyCompare, Become, TypeInv, TypeOK, ToolCall
    <2>6. CASE LedgerRead(p) \/ LedgerWrite(p)
      BY <2>1, <2>6 DEF LedgerRead, LedgerWrite, Become, TypeInv, TypeOK, ToolCall
    <2>7. CASE FindEntry(p) \/ RemoveRead(p) \/ RemoveWrite(p)
      BY <2>1, <2>7 DEF FindEntry, RemoveRead, RemoveWrite, Become, TypeInv, TypeOK, ToolCall
    <2> QED
      BY <2>2, <2>3, <2>4, <2>5, <2>6, <2>7
  <1>3. \A q \in Procs : q # p => calls'[q] = calls[q]
    BY DEF Start, PreCheck, ValidateRelink, StatDropTarget, VerifyLoad, VerifyCompare, Backup,
           LockTimeout, LedgerRead, LedgerWrite, FindEntry, RemoveRead, RemoveWrite,
           LedgerThrows, Return, Become, TypeInv, TypeOK
  <1> QED
    BY <1>1, <1>2, <1>3 DEF LockInv

\* The steps that commit: the manifest may change, and the lock is released.
CommitStep(p) ==
  \/ CommitMarkLocal(p) \/ CommitRelink(p) \/ CommitDrop(p) \/ CommitVerify(p)
  \/ CommitRevert(p) \/ CommitRefused(p)

LEMMA CommitReleases ==
  ASSUME TypeInv, LockInv, NEW p \in Procs, CommitStep(p)
  PROVE  /\ calls[p].step = "commit" /\ calls[p].snap = manifest
         /\ lock' = Free
         /\ calls'[p].step # "commit"
         /\ \A q \in Procs : q # p => calls'[q] = calls[q]
  <1>1. calls[p].step = "commit" /\ calls[p].snap = manifest
    BY DEF CommitStep, CommitMarkLocal, CommitRelink, CommitDrop, CommitRow, CommitVerify,
           CommitRevert, CommitRefused, At, LockInv
  <1>2. CASE CommitRefused(p)
    BY <1>1, <1>2 DEF CommitRefused, Return, Become, IdleCall, TypeInv, TypeOK
  <1>3. CASE \E new, made : \E next \in {"ledgerRead", "removeRead"} : Save(p, new, made, next)
    BY <1>1, <1>3 DEF Save, Become, IdleCall, TypeInv, TypeOK
  <1> QED
    BY <1>2, <1>3 DEF CommitStep, CommitMarkLocal, CommitRelink, CommitDrop, CommitRow,
                      CommitVerify, CommitRevert

LEMMA CrashLock == ASSUME TypeInv, LockInv, NEW p \in Procs, Crash(p) PROVE LockInv'
  <1>1. /\ calls'[p].step # "commit" /\ manifest' = manifest
        /\ \A q \in Procs : q # p => calls'[q] = calls[q]
    BY DEF Crash, Return, Become, IdleCall, TypeInv, TypeOK
  <1> QED
    BY <1>1, ConstantsAssumption DEF Crash, LockInv

LEMMA InitLock == Init => LockInv
  BY ConstantsAssumption DEF Init, LockInv, IdleCall

LEMMA NextLock == TypeInv /\ LockInv /\ [Next]_vars => LockInv'
  <1> SUFFICES ASSUME TypeInv, LockInv, [Next]_vars PROVE LockInv'
    OBVIOUS
  <1>1. CASE UNCHANGED vars
    BY <1>1 DEF vars, files, LockInv
  <1>2. ASSUME NEW p \in Procs, Start(p) \/ CallStep(p) \/ Crash(p) PROVE LockInv'
    <2>1. CASE CommitStep(p)
      BY <2>1, CommitReleases, ConstantsAssumption DEF LockInv
    <2> QED
      BY <1>2, <2>1, TakeLock, QuietSteps, CrashLock DEF CallStep, CommitStep
  <1>3. CASE ReclaimLock
    BY <1>3, ConstantsAssumption DEF ReclaimLock, LockInv
  <1>4. CASE OtherWriters
    BY <1>4, ConstantsAssumption
       DEF OtherWriters, Install, Uninstall, DeleteDirectory, LockInv
  <1> QED
    BY <1>1, <1>2, <1>3, <1>4 DEF Next

LEMMA LockInvariant == Spec => [](TypeInv /\ LockInv)
  <1>1. Init => TypeInv /\ LockInv
    BY InitType, InitLock
  <1>2. TypeInv /\ LockInv /\ [Next]_vars => (TypeInv /\ LockInv)'
    BY NextType, NextLock
  <1> QED
    BY <1>1, <1>2, PTL DEF Spec

\* Only the commits of a call change its rows, and only the rows it is about.
LEMMA CommitOwnRows ==
  ASSUME TypeInv, LockInv, NEW p \in Procs, CommitStep(p), NEW k \in Keys,
         manifest'[k] # manifest[k]
  PROVE  k \in OwnRows(p)
  <1>1. calls[p].snap = manifest /\ manifest \in Manifests
    BY CommitReleases DEF TypeInv, TypeOK
  <1>2. CASE \E action \in {"mark_local", "relink", "drop_entry"} :
               \E after : CommitRow(p, action, after)
    BY <1>1, <1>2 DEF CommitRow, Save, At, OwnRows, Manifests
  <1>3. CASE CommitVerify(p)
    BY <1>1, <1>3 DEF CommitVerify, Save, Stampable, At, OwnRows, Manifests
  <1>4. CASE CommitRevert(p)
    BY <1>1, <1>4 DEF CommitRevert, Save, At, OwnRows, Manifests
  <1>5. CASE CommitRefused(p)
    BY <1>5 DEF CommitRefused
  <1> QED
    BY <1>2, <1>3, <1>4, <1>5
       DEF CommitStep, CommitMarkLocal, CommitRelink, CommitDrop

\* A call that stops committing has committed, was refused, or crashed.
LEMMA CommitsBySteps ==
  ASSUME TypeInv, LockInv, [Next]_vars, NEW p \in Procs, Commits(p)
  PROVE  CommitStep(p) \/ manifest' = manifest
  <1>1. ASSUME NEW q \in Procs, q # p, Start(q) \/ CallStep(q) \/ Crash(q) PROVE FALSE
    <2>1. calls'[p] = calls[p]
      BY <1>1, QuietSteps, CommitReleases
         DEF Start, CallStep, Crash, PreCheck, ValidateRelink, StatDropTarget, VerifyLoad,
             VerifyCompare, Backup, AcquireLock, LockTimeout, LedgerRead, LedgerWrite,
             FindEntry, RemoveRead, RemoveWrite, LedgerThrows, CommitStep, Return, Become,
             TypeInv, TypeOK
    <2> QED
      BY <2>1 DEF Commits
  <1>2. ASSUME Start(p) \/ CallStep(p) \/ Crash(p) PROVE CommitStep(p) \/ manifest' = manifest
    BY <1>2 DEF Start, CallStep, Crash, PreCheck, ValidateRelink, StatDropTarget, VerifyLoad,
                VerifyCompare, Backup, AcquireLock, LockTimeout, LedgerRead, LedgerWrite,
                FindEntry, RemoveRead, RemoveWrite, LedgerThrows, CommitStep, files
  <1>3. ASSUME ReclaimLock \/ OtherWriters \/ UNCHANGED vars PROVE FALSE
    BY <1>3 DEF ReclaimLock, OtherWriters, Install, Uninstall, DeleteDirectory, vars, Commits
  <1> QED
    BY <1>1, <1>2, <1>3 DEF Next

\* For any number of callers: a locked update never undoes a concurrent change of a
\* row it is not about.
THEOREM OwnRowsTheorem == Spec => OnlyOwnRowsChange
  <1>1. TypeInv /\ LockInv /\ [Next]_vars =>
          [\A p \in Procs : Commits(p) =>
             \A k \in Keys : manifest'[k] # manifest[k] => k \in OwnRows(p)]_vars
    BY CommitsBySteps, CommitOwnRows
  <1> QED
    BY <1>1, LockInvariant, PTL DEF Spec, OnlyOwnRowsChange
-----------------------------------------------------------------------------
(* Soundness of rows and ledger entries. *)

\* Evidence and writes only accumulate.
LEMMA HistoryGrows ==
  ASSUME [Next]_vars
  PROVE  checked \subseteq checked' /\ writes \subseteq writes'
  BY ZenonT(90) DEF Next, Start, CallStep, Crash, ReclaimLock, OtherWriters, Install, Uninstall,
         DeleteDirectory, PreCheck, ValidateRelink, StatDropTarget, VerifyLoad, VerifyCompare,
         Backup, AcquireLock, LockTimeout, CommitMarkLocal, CommitRelink, CommitDrop,
         CommitRow, CommitVerify, CommitRevert, CommitRefused, Save, LedgerRead, LedgerWrite,
         FindEntry, RemoveRead, RemoveWrite, LedgerThrows, history, vars

\* What was sound stays sound.
LEMMA SoundGrows ==
  ASSUME NEW ev, NEW ev2, ev \subseteq ev2, NEW ws, NEW ws2, ws \subseteq ws2
  PROVE  /\ \A e : Sound(e, ev) => Sound(e, ev2)
         /\ \A w : RecordSound(w, ev, ws) => RecordSound(w, ev2, ws2)
         /\ \A c : CallSound(c, ev, ws) => CallSound(c, ev2, ws2)
  <1>1. \A e : Sound(e, ev) => Sound(e, ev2)
    BY DEF Sound
  <1>2. \A w : RecordSound(w, ev, ws) => RecordSound(w, ev2, ws2)
    BY <1>1 DEF RecordSound
  <1> QED
    BY <1>1, <1>2 DEF CallSound

\* The calls are sound after a step of one call into a sound state.
LEMMA CallsSoundStep ==
  ASSUME SoundInv, [Next]_vars, NEW p \in Procs,
         \A q \in Procs : q # p => calls'[q] = calls[q],
         CallSound(calls'[p], checked', writes')
  PROVE  CallsSound'
  <1>1. \A q \in Procs : CallSound(calls[q], checked', writes')
    BY HistoryGrows, SoundGrows DEF SoundInv, CallsSound
  <1> QED
    BY <1>1 DEF CallsSound

LEMMA ReturnSound ==
  ASSUME TypeInv, SoundInv, [Next]_vars, NEW p \in Procs, Return(p)
  PROVE  CallsSound'
  <1>1. CallSound(IdleCall, checked', writes')
    BY DEF CallSound, IdleCall
  <1>2. calls'[p] = IdleCall /\ \A q \in Procs : q # p => calls'[q] = calls[q]
    BY DEF Return, Become, TypeInv, TypeOK
  <1> QED
    BY <1>1, <1>2, CallsSoundStep

LEMMA CallsSoundSame ==
  ASSUME SoundInv, [Next]_vars, calls' = calls
  PROVE  CallsSound'
  BY HistoryGrows, SoundGrows DEF SoundInv, CallsSound

LEMMA RowsSoundSame ==
  ASSUME SoundInv, [Next]_vars, manifest' = manifest
  PROVE  RowsSound'
  BY HistoryGrows, SoundGrows DEF SoundInv, RowsSound

LEMMA LedgerSoundSame ==
  ASSUME SoundInv, [Next]_vars, ledger' = ledger
  PROVE  LedgerSound'
  BY HistoryGrows, SoundGrows DEF SoundInv, LedgerSound

\* A call that goes on with the same entries in hand and the same plan, or with a plan
\* that is not a verification's.
LEMMA StepSound ==
  ASSUME SoundInv, [Next]_vars, NEW p \in Procs, NEW c,
         \A w \in c.todo \cup c.view \cup c.target :
           w \in calls[p].todo \cup calls[p].view \cup calls[p].target \cup ledger,
         \/ c.step \notin {"backup", "lock", "commit"}
         \/ c.request.action # "verify"
         \/ /\ calls[p].step \in {"backup", "lock", "commit"} /\ calls[p].request = c.request
            /\ c.plan = calls[p].plan /\ c.pre = calls[p].pre /\ c.stamp = calls[p].stamp
  PROVE  CallSound(c, checked', writes')
  <1>1. CallSound(calls[p], checked', writes')
    BY HistoryGrows, SoundGrows DEF SoundInv, CallsSound
  <1>2. \A e \in ledger : RecordSound(e, checked', writes')
    BY HistoryGrows, SoundGrows DEF SoundInv, LedgerSound
  <1> QED
    BY <1>1, <1>2 DEF CallSound

\* The steps that change neither a row nor the ledger.
LEMMA PreLockSound ==
  ASSUME TypeInv, SoundInv, [Next]_vars, NEW p \in Procs,
         \/ Start(p) \/ PreCheck(p) \/ ValidateRelink(p) \/ StatDropTarget(p) \/ VerifyLoad(p)
         \/ Backup(p) \/ AcquireLock(p) \/ LockTimeout(p)
  PROVE  CallsSound'
  <1>1. \A q \in Procs : q # p => calls'[q] = calls[q]
    BY DEF Start, PreCheck, ValidateRelink, StatDropTarget, VerifyLoad, Backup, AcquireLock,
           LockTimeout, Return, Become, TypeInv, TypeOK
  <1>2. CASE Return(p)
    BY <1>2, ReturnSound
  <1>3. ASSUME ~Return(p) PROVE CallSound(calls'[p], checked', writes')
    <2> DEFINE SameEntries == /\ calls'[p].todo = calls[p].todo
                              /\ calls'[p].view = calls[p].view
                              /\ calls'[p].target = calls[p].target
    <2>1. calls[p] \in ToolCall /\ \A c : Become(p, c) => calls'[p] = c
      BY DEF Become, TypeInv, TypeOK
    <2>2. CASE Start(p)
      <3>1. PICK r \in Requests :
              calls'[p] = [calls[p] EXCEPT !.request = r,
                             !.step = IF r.action = "revert" THEN "findEntry" ELSE "check"]
        BY <2>1, <2>2 DEF Start
      <3>2. calls'[p].step \notin {"backup", "lock", "commit"} /\ SameEntries
        BY <2>1, <3>1 DEF ToolCall
      <3> QED
        BY <3>2, StepSound
    <2>3. CASE VerifyLoad(p)
      <3>1. calls'[p] = [calls[p] EXCEPT !.step = "compare", !.pre = manifest,
                                         !.plan = VerifyTargets(p)]
        BY <1>3, <2>1, <2>3 DEF VerifyLoad
      <3>2. calls'[p].step \notin {"backup", "lock", "commit"} /\ SameEntries
        BY <2>1, <3>1 DEF ToolCall
      <3> QED
        BY <3>2, StepSound
    <2>4. CASE PreCheck(p) \/ ValidateRelink(p) \/ StatDropTarget(p)
      <3>1. calls[p].request.action # "verify"
        BY <2>4 DEF PreCheck, ValidateRelink, StatDropTarget, At
      <3>2. PICK step, pre : calls'[p] = [calls[p] EXCEPT !.step = step, !.pre = pre]
        <4>1. CASE PreCheck(p)
          <5>1. calls'[p] = [calls[p] EXCEPT !.step = AfterCheck(calls[p].request.action),
                               !.pre = IF calls[p].request.action = "drop_entry" THEN manifest
                                       ELSE calls[p].pre]
            BY <1>3, <2>1, <4>1 DEF PreCheck
          <5> QED
            BY <5>1
        <4>2. CASE ValidateRelink(p)
          <5>1. calls'[p] = [calls[p] EXCEPT !.step = "backup"]
            BY <1>3, <2>1, <4>2 DEF ValidateRelink
          <5>2. calls'[p] = [calls[p] EXCEPT !.step = "backup", !.pre = calls[p].pre]
            BY <2>1, <5>1 DEF ToolCall
          <5> QED
            BY <5>2
        <4>3. CASE StatDropTarget(p)
          <5>1. calls'[p] = [calls[p] EXCEPT !.step = "backup", !.pre = EmptyManifest]
            BY <1>3, <2>1, <4>3 DEF StatDropTarget
          <5> QED
            BY <5>1
        <4> QED
          BY <2>4, <4>1, <4>2, <4>3
      <3>3. SameEntries /\ calls'[p].request = calls[p].request
        BY <2>1, <3>2 DEF ToolCall
      <3> QED
        BY <3>1, <3>3, StepSound
    <2>5. CASE Backup(p) \/ AcquireLock(p)
      <3>1. calls[p].step \in {"backup", "lock"}
        BY <2>5 DEF Backup, AcquireLock
      <3>2. \/ calls'[p] = [calls[p] EXCEPT !.step = "lock"]
            \/ calls'[p] = [calls[p] EXCEPT !.step = "commit", !.snap = manifest]
        BY <1>3, <2>1, <2>5 DEF Backup, AcquireLock
      <3>3. /\ calls'[p].request = calls[p].request
            /\ calls'[p].plan = calls[p].plan /\ calls'[p].pre = calls[p].pre
            /\ calls'[p].stamp = calls[p].stamp
        BY <2>1, <3>2 DEF ToolCall
      <3>4. SameEntries
        BY <2>1, <3>2 DEF ToolCall
      <3> QED
        BY <3>1, <3>3, <3>4, StepSound
    <2>6. CASE LockTimeout(p)
      BY <1>3, <2>6 DEF LockTimeout
    <2> QED
      BY <2>2, <2>3, <2>4, <2>5, <2>6
  <1> QED
    BY <1>1, <1>2, <1>3, CallsSoundStep

\* The stamp of a verification is backed by the comparison it has just made.
LEMMA VerifyCompareSound ==
  ASSUME TypeInv, SoundInv, [Next]_vars, NEW p \in Procs, VerifyCompare(p)
  PROVE  CallsSound'
  <1>1. PICK matched \in SUBSET {k \in calls[p].plan : calls[p].pre[k].path \in onDisk} :
          IF matched = {}
            THEN Return(p) /\ UNCHANGED <<clock, checked>>
            ELSE /\ clock' = clock + 1
                 /\ Become(p, [calls[p] EXCEPT !.step = "backup", !.plan = matched,
                                               !.stamp = clock + 1])
                 /\ checked' = checked \cup
                      {[at |-> clock + 1, id |-> calls[p].pre[k].id,
                        path |-> calls[p].pre[k].path] : k \in matched}
    BY DEF VerifyCompare
  <1>2. CASE matched = {}
    BY <1>1, <1>2, ReturnSound
  <1>3. CASE matched # {}
    <2>1. /\ calls'[p].plan = matched /\ calls'[p].pre = calls[p].pre
          /\ calls'[p].stamp = clock + 1
          /\ calls'[p].todo = calls[p].todo /\ calls'[p].view = calls[p].view
          /\ calls'[p].target = calls[p].target
          /\ \A q \in Procs : q # p => calls'[q] = calls[q]
      BY <1>1, <1>3 DEF Become, TypeInv, TypeOK, ToolCall
    <2>2. \A k \in matched :
            [at |-> clock + 1, id |-> calls[p].pre[k].id, path |-> calls[p].pre[k].path] \in checked'
      BY <1>1, <1>3
    <2>3. CallSound(calls[p], checked', writes')
      BY HistoryGrows, SoundGrows DEF SoundInv, CallsSound
    <2>4. CallSound(calls'[p], checked', writes')
      BY <2>1, <2>2, <2>3 DEF CallSound
    <2> QED
      BY <2>1, <2>4, CallsSoundStep
  <1> QED
    BY <1>2, <1>3

\* Reading the ledger takes sound entries in hand.
LEMMA LedgerReadSound ==
  ASSUME TypeInv, SoundInv, [Next]_vars, NEW p \in Procs,
         LedgerRead(p) \/ FindEntry(p) \/ RemoveRead(p) \/ LedgerThrows(p)
  PROVE  CallsSound'
  <1>1. \A q \in Procs : q # p => calls'[q] = calls[q]
    BY DEF LedgerRead, FindEntry, RemoveRead, LedgerThrows, Return, Become, TypeInv, TypeOK
  <1>2. CASE Return(p)
    BY <1>2, ReturnSound
  <1>3. ASSUME ~Return(p) PROVE CallSound(calls'[p], checked', writes')
    <2>0. calls[p] \in ToolCall /\ \A c : Become(p, c) => calls'[p] = c
      BY DEF Become, TypeInv, TypeOK
    <2>1. CASE LedgerRead(p)
      <3>1. calls'[p] = [calls[p] EXCEPT !.step = "ledgerWrite",
                                         !.view = IF ledgerForm = "ok" THEN ledger ELSE {}]
        BY <2>0, <2>1 DEF LedgerRead
      <3>2. /\ calls'[p].step = "ledgerWrite" /\ calls'[p].view \subseteq ledger
            /\ calls'[p].todo = calls[p].todo /\ calls'[p].target = calls[p].target
        BY <2>0, <3>1 DEF ToolCall
      <3> QED
        BY <3>2, StepSound
    <2>2. CASE FindEntry(p)
      <3>0. calls'[p] = [calls[p] EXCEPT !.step = "lock", !.target = Matches(p)]
        BY <1>3, <2>0, <2>2 DEF FindEntry
      <3>1. /\ calls'[p].request = calls[p].request /\ calls'[p].target = Matches(p)
            /\ calls'[p].todo = calls[p].todo /\ calls'[p].view = calls[p].view
        BY <2>0, <3>0 DEF ToolCall
      <3>2. Matches(p) \subseteq ledger
        BY DEF Matches
      <3>3. calls[p].request.action = "revert"
        BY <2>2 DEF FindEntry, TypeInv, CallOK
      <3> QED
        BY <3>1, <3>2, <3>3, StepSound
    <2>3. CASE RemoveRead(p)
      <3>1. calls'[p] = [calls[p] EXCEPT !.step = "removeWrite", !.view = ledger]
        BY <1>3, <2>0, <2>3 DEF RemoveRead
      <3>2. /\ calls'[p].step = "removeWrite" /\ calls'[p].view = ledger
            /\ calls'[p].todo = calls[p].todo /\ calls'[p].target = calls[p].target
        BY <2>0, <3>1 DEF ToolCall
      <3> QED
        BY <3>2, StepSound
    <2> QED
      BY <1>3, <2>1, <2>2, <2>3 DEF LedgerThrows
  <1> QED
    BY <1>1, <1>2, <1>3, CallsSoundStep

\* What is appended to the ledger is a write that was made, under a new id.
LEMMA LedgerWriteSound ==
  ASSUME TypeInv, SoundInv, [Next]_vars, NEW p \in Procs, LedgerWrite(p)
  PROVE  LedgerSound' /\ CallsSound'
  <1>1. PICK w \in calls[p].todo :
          /\ ledger' = calls[p].view \cup {[w EXCEPT !.id = nextId]}
          /\ IF calls[p].todo = {w}
               THEN Return(p)
               ELSE Become(p, [calls[p] EXCEPT !.step = "ledgerRead", !.todo = @ \ {w},
                                               !.view = {}])
    BY DEF LedgerWrite
  <1>2. CallSound(calls[p], checked', writes')
    BY HistoryGrows, SoundGrows DEF SoundInv, CallsSound
  <1>3. w \in LedgerEntry
    BY DEF TypeInv, TypeOK, ToolCall
  <1>4. RecordSound([w EXCEPT !.id = nextId], checked', writes')
    <2>1. RecordSound(w, checked', writes')
      BY <1>2 DEF CallSound
    <2>2. /\ [w EXCEPT !.id = nextId].before = w.before
          /\ [w EXCEPT !.id = nextId].after = w.after
          /\ [w EXCEPT !.id = nextId].name = w.name
          /\ [w EXCEPT !.id = nextId].key = w.key
          /\ [[w EXCEPT !.id = nextId] EXCEPT !.id = 0] = [w EXCEPT !.id = 0]
      BY <1>3 DEF LedgerEntry
    <2> QED
      BY <2>1, <2>2 DEF RecordSound
  <1>5. LedgerSound'
    BY <1>1, <1>2, <1>4 DEF LedgerSound, CallSound
  <1>6. CASE Return(p)
    BY <1>5, <1>6, ReturnSound
  <1>7. CASE calls[p].todo # {w}
    <2>1. /\ calls'[p].step = "ledgerRead" /\ calls'[p].view = {}
          /\ calls'[p].todo \subseteq calls[p].todo /\ calls'[p].target = calls[p].target
          /\ \A q \in Procs : q # p => calls'[q] = calls[q]
      <3> DEFINE c == [calls[p] EXCEPT !.step = "ledgerRead", !.todo = @ \ {w}, !.view = {}]
      <3>1. Become(p, c)
        BY <1>1, <1>7
      <3>2. calls'[p] = c /\ \A q \in Procs : q # p => calls'[q] = calls[q]
        BY <3>1 DEF Become, TypeInv, TypeOK
      <3>3. /\ c.step = "ledgerRead" /\ c.view = {} /\ c.todo = calls[p].todo \ {w}
            /\ c.target = calls[p].target
        BY DEF TypeInv, TypeOK, ToolCall
      <3> QED
        BY <3>2, <3>3
    <2>2. CallSound(calls'[p], checked', writes')
      BY <2>1, StepSound
    <2> QED
      BY <1>5, <2>1, <2>2, CallsSoundStep
  <1> QED
    BY <1>1, <1>6, <1>7

LEMMA RemoveWriteSound ==
  ASSUME TypeInv, SoundInv, [Next]_vars, NEW p \in Procs, RemoveWrite(p)
  PROVE  LedgerSound' /\ CallsSound'
  <1>1. CallSound(calls[p], checked', writes')
    BY HistoryGrows, SoundGrows DEF SoundInv, CallsSound
  <1>2. LedgerSound'
    BY <1>1 DEF RemoveWrite, LedgerSound, CallSound
  <1> QED
    BY <1>2, ReturnSound DEF RemoveWrite

\* A commit whose new rows are sound and whose records are what it did to the file.
LEMMA SaveSound ==
  ASSUME TypeInv, LockInv, SoundInv, [Next]_vars, NEW p \in Procs,
         NEW new \in Manifests, NEW made \in SUBSET LedgerEntry,
         NEW next \in {"ledgerRead", "removeRead"}, Save(p, new, made, next),
         \A k \in Keys : new[k] # NoEntry => Sound(new[k], checked),
         \A w \in made : /\ w.id = 0 /\ w.name = w.key[1]
                       /\ w.before = manifest[w.key] /\ w.after = new[w.key]
                       /\ Sound(w.before, checked)
  PROVE  RowsSound' /\ LedgerSound' /\ CallsSound'
  <1>1. /\ manifest' = new /\ ledger' = ledger /\ checked' = checked
        /\ made \subseteq writes'
    BY DEF Save
  <1>2. RowsSound'
    BY <1>1 DEF RowsSound
  <1>3. LedgerSound'
    BY <1>1, LedgerSoundSame
  <1>4. ASSUME NEW w \in made PROVE RecordSound(w, checked', writes')
    <2>1. w \in LedgerEntry /\ w.id = 0 /\ w.key \in Keys
      BY DEF LedgerEntry
    <2>2. [w EXCEPT !.id = 0] = w
      BY <2>1 DEF LedgerEntry
    <2> QED
      BY <1>1, <2>1, <2>2 DEF RecordSound
  <1>5. /\ calls'[p].step = next /\ calls'[p].todo = made /\ calls'[p].view = {}
        /\ calls'[p].target = calls[p].target
        /\ \A q \in Procs : q # p => calls'[q] = calls[q]
    <2> DEFINE c == [IdleCall EXCEPT !.step = next, !.request = calls[p].request,
                                     !.target = calls[p].target, !.todo = made]
    <2>1. calls'[p] = c /\ \A q \in Procs : q # p => calls'[q] = calls[q]
      BY DEF Save, Become, TypeInv, TypeOK
    <2>2. c.step = next /\ c.todo = made /\ c.view = {} /\ c.target = calls[p].target
      BY DEF IdleCall
    <2> QED
      BY <2>1, <2>2
  <1>6. CallSound(calls[p], checked', writes')
    BY HistoryGrows, SoundGrows DEF SoundInv, CallsSound
  <1>7. CallSound(calls'[p], checked', writes')
    BY <1>4, <1>5, <1>6 DEF CallSound
  <1> QED
    BY <1>2, <1>3, <1>5, <1>7, CallsSoundStep

\* The single-row repairs: a sound row becomes a sound row or none.
LEMMA CommitRowSound ==
  ASSUME TypeInv, LockInv, SoundInv, [Next]_vars, NEW p \in Procs,
         NEW action \in {"mark_local", "relink", "drop_entry"}, NEW after,
         LockedRow(p) \in Entry => after \in Entry \cup {NoEntry},
         LockedRow(p) \in Entry /\ Sound(LockedRow(p), checked) /\ after # NoEntry
           => Sound(after, checked),
         CommitRow(p, action, after)
  PROVE  RowsSound' /\ LedgerSound' /\ CallsSound'
  <1> DEFINE new == [calls[p].snap EXCEPT ![CallKey(p)] = after]
             w == WriteOf(p, CallKey(p), LockedRow(p), after)
  <1>1. calls[p].step = "commit" /\ calls[p].request.action = action
    BY DEF CommitRow, At
  <1>2. CallKey(p) \in Keys
    BY <1>1, RequestType, RequestsAssumption, CallKeyType
  <1>3. calls[p].snap = manifest /\ manifest \in Manifests
    BY <1>1 DEF LockInv, TypeInv, TypeOK
  <1>4. LockedRow(p) = manifest[CallKey(p)] /\ LockedRow(p) \in Entry
    BY <1>2, <1>3 DEF CommitRow, StillResolves, Resolves, LockedRow, CallKey, Manifests
  <1>5. after \in Entry \cup {NoEntry} /\ Sound(LockedRow(p), checked)
        /\ (after # NoEntry => Sound(after, checked))
    BY <1>2, <1>4, ConstantsAssumption DEF SoundInv, RowsSound
  <1>6. new \in Manifests /\ new[CallKey(p)] = after
    BY <1>2, <1>3, <1>5 DEF Manifests
  <1>7. \A k \in Keys : new[k] # NoEntry => Sound(new[k], checked)
    BY <1>2, <1>3, <1>5 DEF SoundInv, RowsSound, Manifests
  <1>8. {w} \in SUBSET LedgerEntry
    BY <1>1, <1>2, <1>4, <1>5, WriteOfType DEF MutatingActions
  <1>9. /\ w.id = 0 /\ w.name = w.key[1]
        /\ w.before = manifest[w.key] /\ w.after = new[w.key]
        /\ Sound(w.before, checked)
    BY <1>4, <1>5, <1>6 DEF WriteOf
  <1>10. Save(p, new, {w}, "ledgerRead")
    BY DEF CommitRow
  <1> HIDE DEF new, w
  <1> QED
    BY <1>6, <1>7, <1>8, <1>9, <1>10, SaveSound

LEMMA CommitMarkLocalSound ==
  ASSUME TypeInv, LockInv, SoundInv, [Next]_vars, NEW p \in Procs, CommitMarkLocal(p)
  PROVE  RowsSound' /\ LedgerSound' /\ CallsSound'
  <1> DEFINE e == LockedRow(p)
  <1>1. e \in Entry => MarkedLocal(e) \in Entry
    BY ConstantsAssumption DEF MarkedLocal, Entry
  <1>2. e \in Entry /\ Sound(e, checked) => Sound(MarkedLocal(e), checked)
    BY DEF MarkedLocal, Entry, Sound
  <1> QED
    BY <1>1, <1>2, CommitRowSound DEF CommitMarkLocal

\* The new identity is not certified, and its provenance is the registry's.
LEMMA CommitRelinkSound ==
  ASSUME TypeInv, LockInv, SoundInv, [Next]_vars, NEW p \in Procs, CommitRelink(p)
  PROVE  RowsSound' /\ LedgerSound' /\ CallsSound'
  <1> DEFINE e == LockedRow(p)
             r == calls[p].request
  <1>1. r \in Requests /\ r \in ValidRequests /\ r.action = "relink"
    BY RequestType DEF CommitRelink, CommitRow, At
  <1>2. r.id \in Ids /\ r.source \in Sources
    BY <1>1, RequestsAssumption DEF ValidRequests
  <1>3. e \in Entry => Relinked(e, r.id, r.source) \in Entry
    BY <1>2 DEF Relinked, Entry
  <1>4. e \in Entry => Sound(Relinked(e, r.id, r.source), checked)
    BY DEF Relinked, Entry, Sound
  <1> QED
    BY <1>3, <1>4, CommitRowSound DEF CommitRelink

LEMMA CommitDropSound ==
  ASSUME TypeInv, LockInv, SoundInv, [Next]_vars, NEW p \in Procs, CommitDrop(p)
  PROVE  RowsSound' /\ LedgerSound' /\ CallsSound'
  BY CommitRowSound DEF CommitDrop

\* The identity re-checked under the lock is the one that was compared.
LEMMA CommitVerifySound ==
  ASSUME TypeInv, LockInv, SoundInv, [Next]_vars, NEW p \in Procs, CommitVerify(p)
  PROVE  RowsSound' /\ LedgerSound' /\ CallsSound'
  <1> DEFINE new == [k \in Keys |-> IF k \in Stampable(p) THEN StampWrite(p, k).after
                                                         ELSE calls[p].snap[k]]
             made == {StampWrite(p, k) : k \in Stampable(p)}
  <1>1. calls[p].step = "commit" /\ calls[p].request.action = "verify"
    BY DEF CommitVerify, At
  <1>2. calls[p].snap = manifest /\ manifest \in Manifests
    BY <1>1 DEF LockInv, TypeInv, TypeOK
  <1>3. ASSUME NEW k \in Stampable(p)
        PROVE  /\ k \in Keys /\ manifest[k] \in Entry
               /\ StampWrite(p, k) \in LedgerEntry /\ StampWrite(p, k).after \in Entry
               /\ StampWrite(p, k).id = 0 /\ StampWrite(p, k).key = k
               /\ StampWrite(p, k).name = k[1]
               /\ StampWrite(p, k).before = manifest[k]
               /\ StampWrite(p, k).after = [manifest[k] EXCEPT !.verifiedAt = calls[p].stamp]
    BY <1>1, <1>2, StampableType DEF StampWrite, WriteOf
  <1>4. ASSUME NEW k \in Stampable(p)
        PROVE  /\ Sound(manifest[k], checked)
               /\ Sound(StampWrite(p, k).after, checked)
    <2>1. Sound(manifest[k], checked)
      BY <1>3, ConstantsAssumption DEF SoundInv, RowsSound
    <2>2. /\ k \in calls[p].plan
          /\ manifest[k].id = calls[p].pre[k].id /\ manifest[k].path = calls[p].pre[k].path
      BY <1>2 DEF Stampable, SameIdentity
    <2>3. [at |-> calls[p].stamp, id |-> manifest[k].id, path |-> manifest[k].path] \in checked
      BY <1>1, <2>2 DEF SoundInv, CallsSound, CallSound
    <2> DEFINE stamped == [manifest[k] EXCEPT !.verifiedAt = calls[p].stamp]
    <2>4. /\ stamped.verifiedAt = calls[p].stamp /\ stamped.id = manifest[k].id
          /\ stamped.path = manifest[k].path /\ stamped.source = manifest[k].source
          /\ stamped.provenance = manifest[k].provenance
      BY <1>3 DEF Entry
    <2> HIDE DEF stamped
    <2>5. Sound(stamped, checked)
      BY <2>1, <2>3, <2>4 DEF Sound
    <2> QED
      BY <1>3, <2>1, <2>5 DEF stamped
  <1>5. new \in Manifests
    BY <1>2, <1>3 DEF Manifests
  <1>6. \A k \in Keys : new[k] # NoEntry => Sound(new[k], checked)
    BY <1>2, <1>4 DEF SoundInv, RowsSound
  <1>7. made \in SUBSET LedgerEntry
    BY <1>3
  <1>8. \A w \in made : /\ w.id = 0 /\ w.name = w.key[1]
                      /\ w.before = manifest[w.key] /\ w.after = new[w.key]
                      /\ Sound(w.before, checked)
    <2> TAKE w \in made
    <2>1. PICK k \in Stampable(p) : w = StampWrite(p, k)
      OBVIOUS
    <2>2. k \in Keys /\ w.key = k /\ w.name = k[1] /\ w.id = 0 /\ w.before = manifest[k]
      BY <1>3, <2>1
    <2>3. new[k] = w.after
      BY <2>1, <2>2
    <2>4. Sound(w.before, checked)
      BY <1>4, <2>2
    <2> QED
      BY <2>2, <2>3, <2>4
  <1>9. Save(p, new, made, "ledgerRead")
    BY DEF CommitVerify
  <1> HIDE DEF new, made
  <1> QED
    BY <1>5, <1>6, <1>7, <1>8, <1>9, SaveSound

\* The state a revert puts back was recorded by a sound ledger entry.
LEMMA CommitRevertSound ==
  ASSUME TypeInv, LockInv, SoundInv, [Next]_vars, NEW p \in Procs, CommitRevert(p)
  PROVE  RowsSound' /\ LedgerSound' /\ CallsSound'
  <1>1. PICK t \in calls[p].target :
          /\ At(p, "revert", "commit")
          /\ Save(p, [calls[p].snap EXCEPT ![RevertKey(t)] = t.before], {}, "removeRead")
    BY DEF CommitRevert
  <1> DEFINE new == [calls[p].snap EXCEPT ![RevertKey(t)] = t.before]
  <1>2. calls[p].snap = manifest /\ manifest \in Manifests
    BY <1>1 DEF LockInv, TypeInv, TypeOK, At
  <1>3. t \in LedgerEntry /\ t.before \in Entry
    BY DEF TypeInv, TypeOK, ToolCall, LedgerEntry
  <1>4. Sound(t.before, checked)
    BY DEF SoundInv, CallsSound, CallSound, RecordSound
  <1>5. new \in Manifests
    BY <1>2, <1>3, RevertKeyType DEF Manifests
  <1>6. \A k \in Keys : new[k] # NoEntry => Sound(new[k], checked)
    BY <1>2, <1>3, <1>4, RevertKeyType DEF SoundInv, RowsSound, Manifests
  <1>7. Save(p, new, {}, "removeRead")
    BY <1>1
  <1> HIDE DEF new
  <1> QED
    BY <1>5, <1>6, <1>7, SaveSound

\* Installed rows carry no stamp; removed rows and deleted directories change no row's.
LEMMA OtherWritersSound ==
  ASSUME TypeInv, SoundInv, [Next]_vars, OtherWriters
  PROVE  RowsSound' /\ LedgerSound' /\ CallsSound'
  <1>1. CASE \E k \in Keys : Install(k)
    <2>1. PICK k \in Keys : Install(k)
      BY <1>1
    <2>2. PICK i \in Ids, s \in Sources \ {Unknown}, d \in DirsFor[k] :
            manifest' = [manifest EXCEPT ![k] =
              [id |-> i, source |-> s, provenance |-> "registry", verifiedAt |-> 0,
               path |-> d, client |-> k[2]]]
      BY <2>1 DEF Install
    <2>3. \A j \in Keys : manifest'[j] # NoEntry => Sound(manifest'[j], checked)
      BY <2>2 DEF SoundInv, RowsSound, Sound, TypeInv, TypeOK, Manifests
    <2>4. UNCHANGED <<ledger, calls, checked>>
      BY <2>1 DEF Install, history
    <2> QED
      BY <2>3, <2>4, LedgerSoundSame, CallsSoundSame DEF RowsSound
  <1>2. CASE \E k \in Keys : Uninstall(k)
    <2>1. UNCHANGED <<ledger, calls, checked>>
      BY <1>2 DEF Uninstall, history
    <2>2. RowsSound'
      BY <1>2, <2>1 DEF Uninstall, SoundInv, RowsSound, TypeInv, TypeOK, Manifests
    <2> QED
      BY <2>1, <2>2, LedgerSoundSame, CallsSoundSame
  <1>3. CASE \E d \in Paths : DeleteDirectory(d)
    BY <1>3, RowsSoundSame, LedgerSoundSame, CallsSoundSame DEF DeleteDirectory
  <1> QED
    BY <1>1, <1>2, <1>3 DEF OtherWriters

LEMMA InitSound == Init => SoundInv
  <1> SUFFICES ASSUME Init PROVE SoundInv
    OBVIOUS
  <1>1. RowsSound
    BY InitManifestsAssumption DEF Init, RowsSound, Sound
  <1>2. LedgerSound
    BY DEF Init, LedgerSound
  <1>3. CallSound(IdleCall, checked, writes)
    BY DEF CallSound, IdleCall
  <1>4. CallsSound
    BY <1>3 DEF Init, CallsSound
  <1> QED
    BY <1>1, <1>2, <1>4 DEF SoundInv

LEMMA NextSound == TypeInv /\ LockInv /\ SoundInv /\ [Next]_vars => SoundInv'
  <1> SUFFICES ASSUME TypeInv, LockInv, SoundInv, [Next]_vars
               PROVE  RowsSound' /\ LedgerSound' /\ CallsSound'
    BY DEF SoundInv
  <1>1. CASE UNCHANGED vars \/ ReclaimLock
    <2>1. UNCHANGED <<manifest, ledger, calls>>
      BY <1>1 DEF vars, files, ReclaimLock
    <2> QED
      BY <2>1, RowsSoundSame, LedgerSoundSame, CallsSoundSame
  <1>2. ASSUME NEW p \in Procs, Start(p) \/ CallStep(p) \/ Crash(p)
        PROVE  RowsSound' /\ LedgerSound' /\ CallsSound'
    <2>1. CASE \/ Start(p) \/ PreCheck(p) \/ ValidateRelink(p) \/ StatDropTarget(p)
               \/ VerifyLoad(p) \/ Backup(p) \/ AcquireLock(p) \/ LockTimeout(p)
      <3>1. UNCHANGED <<manifest, ledger>>
        BY <2>1 DEF Start, PreCheck, ValidateRelink, StatDropTarget, VerifyLoad, Backup,
                    AcquireLock, LockTimeout, files
      <3> QED
        BY <2>1, <3>1, PreLockSound, RowsSoundSame, LedgerSoundSame
    <2>2. CASE VerifyCompare(p)
      BY <2>2, VerifyCompareSound, RowsSoundSame, LedgerSoundSame DEF VerifyCompare, files
    <2>3. CASE CommitStep(p)
      <3>1. CASE CommitRefused(p)
        BY <3>1, ReturnSound, RowsSoundSame, LedgerSoundSame DEF CommitRefused
      <3> QED
        BY <2>3, <3>1, CommitMarkLocalSound, CommitRelinkSound, CommitDropSound,
           CommitVerifySound, CommitRevertSound DEF CommitStep
    <2>4. CASE LedgerRead(p) \/ FindEntry(p) \/ RemoveRead(p) \/ LedgerThrows(p)
      <3>1. UNCHANGED <<manifest, ledger>>
        BY <2>4 DEF LedgerRead, FindEntry, RemoveRead, LedgerThrows, files
      <3> QED
        BY <2>4, <3>1, LedgerReadSound, RowsSoundSame, LedgerSoundSame
    <2>5. CASE LedgerWrite(p)
      BY <2>5, LedgerWriteSound, RowsSoundSame DEF LedgerWrite
    <2>6. CASE RemoveWrite(p)
      BY <2>6, RemoveWriteSound, RowsSoundSame DEF RemoveWrite
    <2>7. CASE Crash(p)
      BY <2>7, ReturnSound, RowsSoundSame, LedgerSoundSame DEF Crash
    <2> QED
      BY <1>2, <2>1, <2>2, <2>3, <2>4, <2>5, <2>6, <2>7 DEF CallStep, CommitStep
  <1>3. CASE OtherWriters
    BY <1>3, OtherWritersSound
  <1> QED
    BY <1>1, <1>2, <1>3 DEF Next

\* The inductive invariant.
IInv == TypeInv /\ LockInv /\ SoundInv

LEMMA IInvariant == Spec => []IInv
  <1>1. Init => IInv
    BY InitType, InitLock, InitSound DEF IInv
  <1>2. IInv /\ [Next]_vars => IInv'
    BY NextType, NextLock, NextSound DEF IInv
  <1> QED
    BY <1>1, <1>2, PTL DEF Spec

-----------------------------------------------------------------------------
(* The properties. *)

\* Whatever the callers, installs and crashes: a stamp in the manifest or in a state a
\* revert restores certifies an identity that was compared with the registry; and every
\* ledger entry, also after lost updates, is a change that really was made.
THEOREM TrueRecords == Spec => []RecordsAreTrue
  <1>1. IInv => VerifiedIdentityWasChecked
    BY DEF IInv, SoundInv, RowsSound, LedgerSound, RecordSound, Sound,
           VerifiedIdentityWasChecked, Certified
  <1>2. IInv => NoPhantomLedgerEntry
    BY DEF IInv, SoundInv, LedgerSound, RecordSound, NoPhantomLedgerEntry
  <1>3. IInv => RecordsAreTrue
    BY <1>1, <1>2 DEF RecordsAreTrue
  <1> QED
    BY <1>3, IInvariant, PTL

\* Local provenance with a registry source never appears, reverts included.
THEOREM LocalSourceTheorem == Spec => []LocalHasNoSource
  <1>1. IInv => LocalHasNoSource
    BY DEF IInv, SoundInv, RowsSound, LedgerSound, RecordSound, Sound, LocalHasNoSource
  <1> QED
    BY <1>1, IInvariant, PTL

\* A revert replaces exactly a recorded after-state by its before-state.
THEOREM RevertTheorem == Spec => RevertNeverClobbers
  <1>1. IInv /\ [Next]_vars =>
          [\A p \in Procs : Commits(p) /\ calls[p].request.action = "revert" /\ manifest' # manifest =>
             \E t \in calls[p].target, k \in Keys :
                Reverts(p, t, k) /\ (t.client = t.key[2] => k = t.key)]_vars
    <2> SUFFICES ASSUME IInv, [Next]_vars, NEW p \in Procs, Commits(p),
                        calls[p].request.action = "revert", manifest' # manifest
                 PROVE  \E t \in calls[p].target, k \in Keys :
                           Reverts(p, t, k) /\ (t.client = t.key[2] => k = t.key)
      OBVIOUS
    <2>1. CommitRevert(p)
      BY CommitsBySteps
         DEF IInv, CommitStep, CommitMarkLocal, CommitRelink, CommitDrop, CommitRow,
             CommitVerify, CommitRefused, At
    <2>2. PICK t \in calls[p].target :
            /\ calls[p].snap[RevertKey(t)] = t.after
            /\ Save(p, [calls[p].snap EXCEPT ![RevertKey(t)] = t.before], {}, "removeRead")
      BY <2>1 DEF CommitRevert
    <2>3. calls[p].snap = manifest /\ manifest \in Manifests
      BY <2>1, CommitReleases DEF IInv, CommitStep, TypeInv, TypeOK
    <2>4. t \in LedgerEntry
      BY DEF IInv, TypeInv, TypeOK, ToolCall
    <2>5. [t EXCEPT !.id = 0] \in writes /\ t.name = t.key[1]
      BY DEF IInv, SoundInv, CallsSound, CallSound, RecordSound
    <2>6. RevertKey(t) \in Keys
      BY <2>4, RevertKeyType
    <2>7. Reverts(p, t, RevertKey(t))
      BY <2>2, <2>3, <2>5 DEF Reverts, Save
    <2>8. t.client = t.key[2] => RevertKey(t) = t.key
      BY <2>4, <2>5 DEF RevertKey, ManifestKeyFor, LedgerEntry, Keys
    <2> QED
      BY <2>6, <2>7, <2>8
  <1> QED
    BY <1>1, IInvariant, PTL DEF Spec, RevertNeverClobbers
=============================================================================
