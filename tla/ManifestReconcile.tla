-------------------------- MODULE ManifestReconcile --------------------------
(***************************************************************************)
(* The apply_manifest_reconcile tool: concurrent calls (of one or several  *)
(* MCP server processes) that repair rows of one skill manifest and keep a *)
(* revert ledger beside it.                                                *)
(*                                                                         *)
(* A call checks the row on an unlocked read, backs the manifest up,       *)
(* changes the row under the manifest lock, and only then appends to the   *)
(* ledger with an unlocked read followed by a whole-file write.  Every     *)
(* stretch of code between two awaits is an action here; a process may     *)
(* crash between any two of them.                                          *)
(***************************************************************************)
EXTENDS Naturals, FiniteSets

CONSTANTS
  Procs,         \* tool calls that can be in flight at once
  Names,         \* skill names
  Clients,       \* client ids
  Canonical,     \* the canonical client (claude-code), whose keys are bare names
  Ids,           \* registry identities
  Sources,       \* source references an entry may record
  Unknown,       \* the source 'unknown' that mark_local writes
  Paths,         \* install directories
  DirsFor,       \* DirsFor[k]: the directories row k may be installed to
  NoEntry,       \* no such row
  NoClient,      \* an entry that records no client (legacy, implicitly canonical)
  NoName, NoId,  \* inputs not given
  NoRequest,     \* the request of an idle call
  Free, Orphan,  \* lock file absent; left behind by a dead process
  Stuck,         \* left behind, and not to be reclaimed
  InitManifests, \* the manifests the system may start from
  InitForms,     \* the forms the ledger file may be found in
  Requests,      \* the inputs callers send
  MaxActivity    \* bound: calls started, plus steps of the other writers and the user

Entry == [id: Ids, source: Sources, provenance: {"registry", "local"},
          verifiedAt: Nat, path: Paths, client: Clients \cup {NoClient}]

\* A bare name for the canonical client, name::client for the others: the pair
\* <<n, Canonical>> stands for the bare key n.
Keys == Names \X Clients
ManifestKeyFor(name, client) == <<name, client>>

Manifests == [Keys -> Entry \cup {NoEntry}]
EmptyManifest == [k \in Keys |-> NoEntry]

ASSUME ConstantsAssumption ==
  /\ Canonical \in Clients /\ NoClient \notin Clients
  /\ NoName \notin Names /\ NoId \notin Ids \cup Sources
  /\ Unknown \in Sources
  /\ Procs \cap {Free, Orphan, Stuck} = {} /\ Free \notin {Orphan, Stuck}
  /\ NoEntry \notin Entry
  /\ DirsFor \in [Keys -> SUBSET Paths]
  /\ InitForms \subseteq {"ok", "malformed", "newer"}
  /\ MaxActivity \in Nat

\* No reconcile has run yet: no row is stamped, and provenance is the installer's.
ASSUME InitManifestsAssumption ==
  \A m \in InitManifests :
    /\ m \in Manifests
    /\ \A k \in Keys : m[k] # NoEntry => m[k].verifiedAt = 0 /\ m[k].provenance = "registry"

MutatingActions == {"mark_local", "relink", "drop_entry", "verify"}

\* The inputs the zod schema lets through.  entry is revert's ledgerEntryId, 0 when not
\* given; relink alone has an id and a source, and only verify may leave the name out.
ValidRequests ==
  [action: MutatingActions \cup {"revert"}, name: Names \cup {NoName}, client: Clients,
   id: Ids \cup {NoId}, source: Sources \cup {NoId}, entry: Nat]

ASSUME RequestsAssumption ==
  \A r \in Requests :
    /\ r \in ValidRequests
    /\ r.action \in {"mark_local", "relink", "drop_entry"} => r.name # NoName
    /\ r.action = "relink" <=> r.id # NoId
    /\ r.action = "relink" <=> r.source # NoId
    /\ r.action = "revert" => r.name # NoName \/ r.entry # 0
    /\ r.action # "revert" => r.entry = 0

\* A ledger entry (id > 0), or a manifest write the ledger does not hold yet (id = 0).
LedgerEntry ==
  [id: Nat, key: Keys, name: Names, client: Clients, action: MutatingActions,
   before: Entry, after: Entry \cup {NoEntry}]

VARIABLES
  manifest,     \* the manifest file: key -> row
  lock,         \* the manifest's lock file: its owner
  ledgerForm,   \* the ledger file is "ok", "malformed", or "newer" than this version
  ledger,       \* the entries in the ledger file
  nextId,       \* next ledger entry id (a ulid)
  onDisk,       \* install directories that resolve
  clock,        \* timestamps handed out by verifications
  calls,        \* per call: its step, input and local variables
  activity,     \* counter of the bound
  \* History, read by the properties only:
  writes,       \* row changes the reconcile calls made
  checked,      \* identities whose content was found equal to the registry's
  acked,        \* ledger ids returned to a caller with a success
  undone        \* ledger ids whose revert changed the manifest

files == <<manifest, lock, ledgerForm, ledger, onDisk>>
history == <<writes, checked, acked, undone>>
vars == <<files, nextId, clock, calls, activity, history>>

Steps == {"idle", "check", "validate", "stat", "compare", "backup", "lock", "commit",
          "ledgerRead", "ledgerWrite", "findEntry", "removeRead", "removeWrite"}

ToolCall ==
  [step: Steps,
   request: ValidRequests \cup {NoRequest},
   pre: Manifests,             \* drop_entry, verify: the manifest read before the lock
   plan: SUBSET Keys,          \* verify: the rows whose content matched
   stamp: Nat,                 \* verify: their verifiedAt
   snap: Manifests,            \* the manifest read under the lock
   todo: SUBSET LedgerEntry,   \* its manifest writes not yet in the ledger
   view: SUBSET LedgerEntry,   \* the ledger it read
   target: SUBSET LedgerEntry] \* revert: the one entry being undone

IdleCall ==
  [step |-> "idle", request |-> NoRequest, pre |-> EmptyManifest, plan |-> {}, stamp |-> 0,
   snap |-> EmptyManifest, todo |-> {}, view |-> {}, target |-> {}]

Evidence == [at: Nat, id: Ids, path: Paths]

Init ==
  /\ manifest \in InitManifests
  /\ lock = Free
  /\ ledgerForm \in InitForms
  /\ ledger = {} /\ nextId = 1 /\ clock = 0 /\ activity = 0
  /\ onDisk \in SUBSET Paths
  /\ calls = [p \in Procs |-> IdleCall]
  /\ writes = {} /\ checked = {} /\ acked = {} /\ undone = {}

-----------------------------------------------------------------------------
(* Helpers *)

At(p, action, step) == calls[p].step = step /\ calls[p].request.action = action

\* resolveReconcileEntry: the row exists and is not recorded under another client.
Resolves(m, name, client) ==
  LET e == m[ManifestKeyFor(name, client)]
  IN  e # NoEntry /\ e.client \in {NoClient, client}

CallKey(p) == ManifestKeyFor(calls[p].request.name, calls[p].request.client)

\* The row named by the call, still resolved by the manifest read under the lock.
LockedRow(p) == calls[p].snap[CallKey(p)]
StillResolves(p) == Resolves(calls[p].snap, calls[p].request.name, calls[p].request.client)

\* The call goes on in state c; or it ends, with success or with an error.
Become(p, c) == calls' = [calls EXCEPT ![p] = c]
Return(p) == Become(p, IdleCall)

\* What appendReconcileLedgerEntry is given: the key's own name, the caller's client.
WriteOf(p, key, before, after) ==
  [id |-> 0, key |-> key, name |-> key[1], client |-> calls[p].request.client,
   action |-> calls[p].request.action, before |-> before, after |-> after]

\* Operators whose comment says "Faulty" take no part in Spec: each is a mistake that a
\* property of this module must catch when it stands in for the next operator.

\* ADR-145: source and provenance are written together.
MarkedLocal(e) == [e EXCEPT !.source = Unknown, !.provenance = "local"]

\* Faulty: the stamp outlives the identity it was given to.
RelinkedKeepingStamp(e, id, source) ==
  [e EXCEPT !.id = id, !.source = source, !.provenance = "registry"]

\* A new identity loses the stamp recorded against the old one.
Relinked(e, id, source) ==
  [e EXCEPT !.id = id, !.source = source, !.provenance = "registry", !.verifiedAt = 0]

\* Same identity as when its content was compared.
SameIdentity(e, f) == e # NoEntry /\ f # NoEntry /\ e.id = f.id /\ e.path = f.path

EntryIds(entries) == {e.id : e \in entries}
-----------------------------------------------------------------------------
(* A call starts. *)

Active == activity < MaxActivity /\ activity' = activity + 1

Start(p) ==
  /\ calls[p].step = "idle" /\ Active
  /\ \E r \in Requests :
       Become(p, [calls[p] EXCEPT !.request = r,
                    !.step = IF r.action = "revert" THEN "findEntry" ELSE "check"])
  /\ UNCHANGED <<files, nextId, clock, history>>

(* The checks before the lock, all on a manifest that may change underneath. *)

AfterCheck(action) == CASE action = "mark_local" -> "backup"
                        [] action = "relink"     -> "validate"
                        [] action = "drop_entry" -> "stat"

PreCheck(p) ==
  /\ calls[p].step = "check" /\ calls[p].request.action # "verify"
  /\ IF Resolves(manifest, calls[p].request.name, calls[p].request.client)
       THEN Become(p, [calls[p] EXCEPT !.step = AfterCheck(calls[p].request.action),
              !.pre = IF calls[p].request.action = "drop_entry" THEN manifest ELSE @])
       ELSE Return(p)
  /\ UNCHANGED <<files, nextId, clock, activity, history>>

\* The registry confirms the id, or does not (unknown id, offline, lookup failed).
ValidateRelink(p) ==
  /\ At(p, "relink", "validate")
  /\ Become(p, [calls[p] EXCEPT !.step = "backup"]) \/ Return(p)
  /\ UNCHANGED <<files, nextId, clock, activity, history>>

\* assertDropTargetNoLongerResolves, on the entry of the unlocked read.
StatDropTarget(p) ==
  /\ At(p, "drop_entry", "stat")
  /\ IF calls[p].pre[CallKey(p)].path \in onDisk
       THEN Return(p)
       ELSE Become(p, [calls[p] EXCEPT !.step = "backup", !.pre = EmptyManifest])
  /\ UNCHANGED <<files, nextId, clock, activity, history>>

\* The rows a verification compares: the named one, or every row of the manifest.
VerifyTargets(p) ==
  IF calls[p].request.name = NoName
    THEN {k \in Keys : manifest[k] # NoEntry}
    ELSE {CallKey(p)}

VerifyLoad(p) ==
  /\ At(p, "verify", "check")
  /\ \/ calls[p].request.name # NoName /\ Return(p)  \* offline, or the row does not resolve
     \/ /\ calls[p].request.name # NoName => Resolves(manifest, calls[p].request.name, calls[p].request.client)
        /\ Become(p, [calls[p] EXCEPT !.step = "compare", !.pre = manifest,
                                      !.plan = VerifyTargets(p)])
  /\ UNCHANGED <<files, nextId, clock, activity, history>>

\* One comparison per target.  Installed content is needed; the registry's answer
\* (match, mismatch, no record, network error, quota exhausted) is its own.
VerifyCompare(p) ==
  /\ At(p, "verify", "compare")
  /\ \E matched \in SUBSET {k \in calls[p].plan : calls[p].pre[k].path \in onDisk} :
       IF matched = {}
         THEN Return(p) /\ UNCHANGED <<clock, checked>>
         ELSE /\ clock' = clock + 1
              /\ Become(p, [calls[p] EXCEPT !.step = "backup", !.plan = matched,
                                            !.stamp = clock + 1])
              /\ checked' = checked \cup
                   {[at |-> clock + 1, id |-> calls[p].pre[k].id, path |-> calls[p].pre[k].path]
                      : k \in matched}
  /\ UNCHANGED <<files, nextId, activity, writes, acked, undone>>

\* takeManifestBackup succeeds, or the call ends with backup_failed.
Backup(p) ==
  /\ calls[p].step = "backup"
  /\ Become(p, [calls[p] EXCEPT !.step = "lock"]) \/ Return(p)
  /\ UNCHANGED <<files, nextId, clock, activity, history>>
-----------------------------------------------------------------------------
(* ManifestManager.updateSafely: lock, strict read, mutate, save, release. *)

AcquireLock(p) ==
  /\ calls[p].step = "lock" /\ lock = Free
  /\ lock' = p
  /\ Become(p, [calls[p] EXCEPT !.step = "commit", !.snap = manifest])
  /\ UNCHANGED <<manifest, ledgerForm, ledger, onDisk, nextId, clock, activity, history>>

LockTimeout(p) ==
  /\ calls[p].step = "lock" /\ lock # Free
  /\ Return(p)
  /\ UNCHANGED <<files, nextId, clock, activity, history>>

\* Save and release; the writes made are what is left to record.  The other local
\* variables are dead after the lock.  History keeps the writes the file really went
\* through.
Save(p, newManifest, made, next) ==
  /\ manifest' = newManifest
  /\ lock' = Free
  /\ writes' = writes \cup {w \in made : /\ w.before = manifest[w.key]
                                        /\ w.after = newManifest[w.key]}
  /\ Become(p, [IdleCall EXCEPT !.step = next, !.request = calls[p].request,
                                !.target = calls[p].target, !.todo = made])
  /\ UNCHANGED <<ledgerForm, ledger, onDisk, nextId, clock, activity, checked, acked>>

CommitRow(p, action, after) ==
  /\ At(p, action, "commit") /\ StillResolves(p)
  /\ Save(p, [calls[p].snap EXCEPT ![CallKey(p)] = after],
          {WriteOf(p, CallKey(p), LockedRow(p), after)}, "ledgerRead")
  /\ UNCHANGED undone

CommitMarkLocal(p) == CommitRow(p, "mark_local", MarkedLocal(LockedRow(p)))
CommitRelink(p) ==
  CommitRow(p, "relink", Relinked(LockedRow(p), calls[p].request.id, calls[p].request.source))
CommitDrop(p) == CommitRow(p, "drop_entry", NoEntry)

\* Planned stamps whose row is gone or has another identity by now are skipped.
Stampable(p) == {k \in calls[p].plan : SameIdentity(calls[p].snap[k], calls[p].pre[k])}

\* Faulty: stamps and records the row as it was before the lock.
StampWritePlanned(p, k) ==
  WriteOf(p, k, calls[p].pre[k], [calls[p].pre[k] EXCEPT !.verifiedAt = calls[p].stamp])
StampWrite(p, k) ==
  WriteOf(p, k, calls[p].snap[k], [calls[p].snap[k] EXCEPT !.verifiedAt = calls[p].stamp])

CommitVerify(p) ==
  /\ At(p, "verify", "commit") /\ Stampable(p) # {}
  /\ Save(p, [k \in Keys |-> IF k \in Stampable(p) THEN StampWrite(p, k).after
                                                  ELSE calls[p].snap[k]],
          {StampWrite(p, k) : k \in Stampable(p)}, "ledgerRead")
  /\ UNCHANGED undone

\* Restore the recorded before-state, unless the row changed since.  The key comes
\* from the ledger entry's name and client, not from its manifestKey.
RevertKey(t) == ManifestKeyFor(t.name, t.client)

\* Faulty: no comparison with the recorded after-state.
CommitRevertBlindly(p) ==
  \E t \in calls[p].target :
    /\ At(p, "revert", "commit")
    /\ Save(p, [calls[p].snap EXCEPT ![RevertKey(t)] = t.before], {}, "removeRead")
    /\ undone' = undone \cup {t.id}
CommitRevert(p) ==
  \E t \in calls[p].target :
    /\ At(p, "revert", "commit")
    /\ calls[p].snap[RevertKey(t)] = t.after
    /\ Save(p, [calls[p].snap EXCEPT ![RevertKey(t)] = t.before], {}, "removeRead")
    /\ undone' = undone \cup {t.id}

\* Faulty: an error path that forgets the lock.
CommitRefusedHolding(p) ==
  /\ calls[p].step = "commit"
  /\ calls[p].request.action = "verify" /\ Stampable(p) = {}
  /\ Return(p)
  /\ UNCHANGED <<files, nextId, clock, activity, history>>

\* entry_not_found, key_shape_ambiguous, nothing left to stamp, entry_changed.
CommitRefused(p) ==
  /\ calls[p].step = "commit"
  /\ \/ calls[p].request.action \in {"mark_local", "relink", "drop_entry"} /\ ~StillResolves(p)
     \/ calls[p].request.action = "verify" /\ Stampable(p) = {}
     \/ /\ calls[p].request.action = "revert"
        /\ \E t \in calls[p].target : calls[p].snap[RevertKey(t)] # t.after
  /\ lock' = Free
  /\ Return(p)
  /\ UNCHANGED <<manifest, ledgerForm, ledger, onDisk, nextId, clock, activity, history>>
-----------------------------------------------------------------------------
(* The ledger file: every change is an unlocked read, then a whole-file write. *)

LedgerRead(p) ==
  /\ calls[p].step = "ledgerRead" /\ ledgerForm # "newer"
  /\ Become(p, [calls[p] EXCEPT !.step = "ledgerWrite",
                                !.view = IF ledgerForm = "ok" THEN ledger ELSE {}])
  /\ UNCHANGED <<files, nextId, clock, activity, history>>

\* Only a call that names its row gets the ledger id back.
LedgerWrite(p) ==
  /\ calls[p].step = "ledgerWrite"
  /\ \E w \in calls[p].todo :
       /\ ledger' = calls[p].view \cup {[w EXCEPT !.id = nextId]}
       /\ IF calls[p].todo = {w}
            THEN Return(p)
            ELSE Become(p, [calls[p] EXCEPT !.step = "ledgerRead", !.todo = @ \ {w},
                                            !.view = {}])
  /\ ledgerForm' = "ok"
  /\ nextId' = nextId + 1
  /\ acked' = IF calls[p].request.name = NoName THEN acked ELSE acked \cup {nextId}
  /\ UNCHANGED <<manifest, lock, onDisk, clock, activity, writes, checked, undone>>

\* By ledgerEntryId, or by name and client: no match is a no-op, several are ambiguous.
Matches(p) ==
  IF calls[p].request.entry # 0
    THEN {e \in ledger : e.id = calls[p].request.entry}
    ELSE {e \in ledger : e.name = calls[p].request.name /\ e.client = calls[p].request.client}

FindEntry(p) ==
  /\ calls[p].step = "findEntry" /\ ledgerForm # "newer"
  /\ IF ledgerForm = "ok" /\ Cardinality(Matches(p)) = 1
       THEN Become(p, [calls[p] EXCEPT !.step = "lock", !.target = Matches(p)])
       ELSE Return(p)
  /\ UNCHANGED <<files, nextId, clock, activity, history>>

\* removeReconcileLedgerEntry: nothing to write when the entry is gone already.
RemoveRead(p) ==
  /\ calls[p].step = "removeRead" /\ ledgerForm # "newer"
  /\ IF ledgerForm = "ok" /\ EntryIds(calls[p].target) \subseteq EntryIds(ledger)
       THEN Become(p, [calls[p] EXCEPT !.step = "removeWrite", !.view = ledger])
       ELSE Return(p)
  /\ UNCHANGED <<files, nextId, clock, activity, history>>

RemoveWrite(p) ==
  /\ calls[p].step = "removeWrite"
  /\ ledger' = {e \in calls[p].view : e.id \notin EntryIds(calls[p].target)}
  /\ ledgerForm' = "ok"
  /\ Return(p)
  /\ UNCHANGED <<manifest, lock, onDisk, nextId, clock, activity, history>>

\* A ledger of a newer version, or a write that fails, ends the call with a throw:
\* what it did to the manifest stays.
LedgerThrows(p) ==
  /\ \/ calls[p].step \in {"ledgerRead", "removeRead", "findEntry"} /\ ledgerForm = "newer"
     \/ calls[p].step \in {"ledgerWrite", "removeWrite"}
  /\ Return(p)
  /\ UNCHANGED <<files, nextId, clock, activity, history>>
-----------------------------------------------------------------------------
(* Crashes and the other writers. *)

Crash(p) ==
  /\ calls[p].step # "idle"
  /\ lock' = IF lock = p THEN Orphan ELSE lock
  /\ Return(p)
  /\ UNCHANGED <<manifest, ledgerForm, ledger, onDisk, nextId, clock, activity, history>>

\* Whoever waits in withFileLock takes over the lock file of a dead owner, or
\* cannot: reclaiming is disabled, the owner is not known to be dead, or the
\* lock of the reclaim itself was left behind.  Then every later wait for the
\* lock ends with StuckLockError.
ReclaimLock ==
  /\ lock = Orphan
  /\ lock' \in {Free, Stuck}
  /\ UNCHANGED <<manifest, ledgerForm, ledger, onDisk, nextId, clock, calls, activity, history>>

\* install_skill and uninstall_skill write rows under the same lock.
Install(k) ==
  /\ Active /\ lock = Free
  /\ \E i \in Ids, s \in Sources \ {Unknown}, d \in DirsFor[k] :
       /\ manifest' = [manifest EXCEPT ![k] =
            [id |-> i, source |-> s, provenance |-> "registry", verifiedAt |-> 0,
             path |-> d, client |-> k[2]]]
       /\ onDisk' = onDisk \cup {d}
  /\ UNCHANGED <<lock, ledgerForm, ledger, nextId, clock, calls, history>>

Uninstall(k) ==
  /\ Active /\ lock = Free /\ manifest[k] # NoEntry
  /\ manifest' = [manifest EXCEPT ![k] = NoEntry]
  /\ onDisk' = onDisk \ {manifest[k].path}
  /\ UNCHANGED <<lock, ledgerForm, ledger, nextId, clock, calls, history>>

\* The user deletes an install directory: what drop_entry is for.
DeleteDirectory(d) ==
  /\ Active /\ d \in onDisk
  /\ onDisk' = onDisk \ {d}
  /\ UNCHANGED <<manifest, lock, ledgerForm, ledger, nextId, clock, calls, history>>

CallStep(p) ==
  \/ PreCheck(p) \/ ValidateRelink(p) \/ StatDropTarget(p)
  \/ VerifyLoad(p) \/ VerifyCompare(p) \/ Backup(p)
  \/ AcquireLock(p) \/ LockTimeout(p)
  \/ CommitMarkLocal(p) \/ CommitRelink(p) \/ CommitDrop(p) \/ CommitVerify(p)
  \/ CommitRevert(p) \/ CommitRefused(p)
  \/ LedgerRead(p) \/ LedgerWrite(p) \/ FindEntry(p)
  \/ RemoveRead(p) \/ RemoveWrite(p) \/ LedgerThrows(p)

OtherWriters ==
  \/ \E k \in Keys : Install(k) \/ Uninstall(k)
  \/ \E d \in Paths : DeleteDirectory(d)

Next ==
  \/ \E p \in Procs : Start(p) \/ CallStep(p) \/ Crash(p)
  \/ ReclaimLock
  \/ OtherWriters

\* The steps at which a call waits for the registry.
AtRegistry == {"validate", "compare"}

\* A live call runs on unless the registry keeps it waiting; the wait for the
\* lock has a time-out.  That a dead owner's lock is ever taken over, or that
\* the registry answers, is not assumed.
Fairness ==
  \A p \in Procs : WF_vars(calls[p].step \notin AtRegistry /\ CallStep(p))

Spec == Init /\ [][Next]_vars
FairSpec == Spec /\ Fairness
-----------------------------------------------------------------------------
(* What apply_manifest_reconcile promises. *)

\* Types of every variable of the reconcile model.
TypeOK ==
  /\ manifest \in Manifests
  /\ lock \in Procs \cup {Free, Orphan, Stuck}
  /\ ledgerForm \in {"ok", "malformed", "newer"}
  /\ ledger \subseteq LedgerEntry
  /\ nextId \in Nat /\ clock \in Nat /\ activity \in Nat
  /\ onDisk \subseteq Paths
  /\ calls \in [Procs -> ToolCall]
  /\ writes \subseteq LedgerEntry /\ checked \subseteq Evidence
  /\ acked \subseteq Nat /\ undone \subseteq Nat

\* The evidence behind a stamp: this id, at this path, compared equal at this time.
Certified(e) ==
  e.verifiedAt # 0 => [at |-> e.verifiedAt, id |-> e.id, path |-> e.path] \in checked

\* verifiedAt never certifies an identity that was not compared with the registry,
\* whatever relink, mark_local, reinstall and revert did to the row since (verify.ts,
\* relink's deletion of verifiedAt): not in the manifest, nor in a state a revert restores.
VerifiedIdentityWasChecked ==
  /\ \A k \in Keys : manifest[k] # NoEntry => Certified(manifest[k])
  /\ \A e \in ledger : Certified(e.before) /\ (e.after # NoEntry => Certified(e.after))

\* The ledger never claims a write that did not happen: each entry is a change that a
\* call made to that row under the lock (verify.ts's actuallyWritten).
NoPhantomLedgerEntry == \A e \in ledger : [e EXCEPT !.id = 0] \in writes

\* What the manifest and its ledger say of the past did happen.
RecordsAreTrue == VerifiedIdentityWasChecked /\ NoPhantomLedgerEntry

\* ADR-145's illegal cell, local provenance with a registry reference, never appears
\* in a row or in a state that a revert can put back.
LocalHasNoSource ==
  LET Legal(e) == e.provenance = "local" => e.source = Unknown
  IN  /\ \A k \in Keys : manifest[k] # NoEntry => Legal(manifest[k])
      /\ \A e \in ledger : Legal(e.before) /\ (e.after # NoEntry => Legal(e.after))

\* The rows a call may change.
OwnRows(p) ==
  CASE calls[p].request.action = "verify" -> calls[p].plan
    [] calls[p].request.action = "revert" -> {RevertKey(t) : t \in calls[p].target}
    [] OTHER -> {CallKey(p)}

Commits(p) == calls[p].step = "commit" /\ calls'[p].step # "commit"

\* A locked update is a single-row merge: no concurrent change of another row by
\* another call, an install or an uninstall is ever undone by it.
OnlyOwnRowsChange ==
  [][\A p \in Procs : Commits(p) =>
       \A k \in Keys : manifest'[k] # manifest[k] => k \in OwnRows(p)]_vars

\* p's step is the revert of t, and row k is the one it writes.
Reverts(p, t, k) ==
  /\ calls[p].request.action = "revert" /\ t \in calls[p].target
  /\ [t EXCEPT !.id = 0] \in writes
  /\ manifest[k] = t.after
  /\ manifest' = [manifest EXCEPT ![k] = t.before]

\* A revert never clobbers a row that changed since the action it undoes: the one
\* row it writes, whichever that is, held exactly what a recorded action of a call
\* had left, and gets exactly what that action found.  It is the row of that action
\* when the action was recorded under the row's own client.
RevertNeverClobbers ==
  [][\A p \in Procs : Commits(p) /\ calls[p].request.action = "revert" /\ manifest' # manifest =>
       \E t \in calls[p].target, k \in Keys :
          Reverts(p, t, k) /\ (t.client = t.key[2] => k = t.key)]_vars

\* Not so in the code: "a revert cannot be aimed at a different row than the action it reverses"
\* (apply-manifest-reconcile.actions.ts:309-311, helpers.ts:150-153).  A batch
\* verify records its caller's client for the rows of every client.
RevertHitsItsRow ==
  [][\A p \in Procs : Commits(p) /\ calls[p].request.action = "revert" /\ manifest' # manifest =>
       \E t \in calls[p].target : Reverts(p, t, t.key)]_vars

\* Whoever died with the lock, and whether or not it is ever taken over: a call
\* that waits for no answer of the registry goes on to its end, or to such a wait,
\* and takes no lock with it.  No refused call or orphaned lock wedges the tool.
CallsEndUnlocked ==
  \A p \in Procs :
    (calls[p].step \notin AtRegistry \cup {"idle"} \/ lock = p)
      ~> (calls[p].step \in AtRegistry \cup {"idle"} /\ lock # p)

\* --- what the source says and the code does not do -------------------------

\* "both the forensic backup and the durable revert exist before the caller sees a
\* success response": a returned ledger id stays in the ledger until it is reverted.
AckedRevertIsDurable == acked \ undone \subseteq EntryIds(ledger)
=============================================================================
