---------------------------- MODULE RenameEngine ----------------------------
(***************************************************************************)
(* apply_namespace_rename: confirmed calls that rename a skill directory,  *)
(* a command file or an agent file, revert an earlier rename, and keep the *)
(* namespace-overrides ledger.                                             *)
(*                                                                         *)
(* A call reads the ledger first and writes the whole file back last; the  *)
(* existence checks, the backup, the frontmatter rewrite and the rename    *)
(* lie in between, each behind an await, and there is no lock.  Calls may  *)
(* run in one server process or in several, and a process may die.         *)
(***************************************************************************)
EXTENDS Naturals, FiniteSets

CONSTANTS
  Calls,         \* tool calls that can be in flight at once
  Names,         \* on-disk names: a skill directory or a command/agent file each
  SkillNames,    \* the ones that are skill directories
  Artifacts,     \* what can be found under a name
  Skills,        \* the artifacts that are skills: found under SkillNames only
  Suggestions,   \* rename suggestions of persisted audits: the audit and the
                 \* collision, the name on disk and the identifier found there
  Nothing,       \* no artifact under this name
  NoEntry,       \* no ledger entry
  NoCollision,   \* the collisionId of an entry written before the field existed
  NoRequest,     \* the request of an idle call
  InitStates,    \* what a system may start from: disk, title and ledger
  InitForms,     \* how the ledger file may be found: ok, malformed, newer
  MaxCalls,      \* bound: calls started
  MaxOutside     \* bound: changes other programs and the user make to the disk

Overrides ==
  [id: Nat, audit: {s.audit : s \in Suggestions},
   collision: {s.collision : s \in Suggestions} \cup {NoCollision},
   ident: Names, from: Names, to: Names]

\* A directory is renamed next to where it is, and so is a file.
IsSkill(n) == n \in SkillNames
SameKind(m, n) == IsSkill(m) <=> IsSkill(n)

\* What earlier calls left behind: renames that stand, each of a suggestion of
\* its time, and skills in directories of their own.
Standing(start) ==
  /\ IsFiniteSet(start.ledger)
  /\ \A m, n \in Names : start.disk[m] = start.disk[n] /\ m # n => start.disk[m] = Nothing
  /\ \A n \in Names : start.disk[n] # Nothing => (IsSkill(n) <=> start.disk[n] \in Skills)
  /\ \A e, o \in start.ledger : e.to = o.to => e = o
  /\ \A e \in start.ledger :
       /\ e.id = 0 /\ SameKind(e.from, e.to) /\ e.from # e.to
       /\ \A o \in start.ledger : o.from # e.to
       /\ \E s \in Suggestions : s.from = e.from /\ s.ident = e.ident
       /\ start.disk[e.to] # Nothing
       /\ IsSkill(e.to) => start.title[start.disk[e.to]] = e.to

ASSUME RenameAssumption ==
  /\ SkillNames \subseteq Names /\ Skills \subseteq Artifacts
  /\ MaxCalls \in Nat /\ MaxOutside \in Nat
  /\ Nothing \notin Artifacts
  /\ \A s \in Suggestions :
       /\ s.from \in Names /\ s.ident \in Names
       /\ s.collision # NoCollision
  /\ InitStates \subseteq [disk: [Names -> Artifacts \cup {Nothing}],
                            title: [Skills -> Names], ledger: SUBSET Overrides]
  /\ \A start \in InitStates : Standing(start)
  /\ InitForms \subseteq {"ok", "malformed", "newer"}

VARIABLES
  disk,      \* Names -> Artifacts, or Nothing
  title,     \* the name in a skill's frontmatter
  ledger,    \* the override records in namespace-overrides.json
  form,      \* ok, malformed (or unreadable), newer (a later schema version)
  pc,        \* where each call is
  call,      \* its request and what it has read
  started,   \* calls started so far; the number of a call is the id of its entry
  outside,   \* changes made by others
  renamed,   \* history: entry ids whose rename took place on disk
  acked,     \* history: entry ids of renames reported as successful
  reverted,  \* history: entry ids whose rename a revert took back
  disturbed, \* history: calls overlapped, one died or failed, or others wrote
  misled     \* history: a revert was asked out of order, or for another kind

callVars == <<pc, call, started>>
diskVars == <<disk, title>>
history  == <<renamed, acked, reverted, disturbed, misled>>
vars     == <<diskVars, ledger, form, callVars, outside, history>>

Override(id, s, name) ==
  [id |-> id, audit |-> s.audit, collision |-> s.collision, ident |-> s.ident,
   from |-> s.from, to |-> name]

\* Apply with the suggested or a custom name; a revert takes no name.
Requests ==
  {r \in [action: {"apply", "revert"}, s: Suggestions, name: Names] :
     /\ SameKind(r.name, r.s.from)
     /\ r.action = "revert" => r.name = r.s.from}

Init ==
  /\ \E start \in InitStates :
       /\ disk = start.disk /\ title = start.title /\ ledger = start.ledger
  /\ form \in InitForms
  /\ pc = [c \in Calls |-> "idle"]
  /\ call = [c \in Calls |-> NoRequest]
  /\ started = 0 /\ outside = 0
  /\ renamed = {e.id : e \in ledger} /\ acked = {} /\ reverted = {}
  /\ disturbed = (form # "ok") /\ misled = FALSE

-----------------------------------------------------------------------------
(* Ledger *)

\* readLedger: a malformed file reads as empty.  A newer one makes it throw.
ReadLedger == IF form = "malformed" THEN {} ELSE ledger

\* findOverride: by kind and original identifier, whatever the new name and
\* wherever the artifact was found.
FindOverride(entries, s) ==
  {e \in entries : e.ident = s.ident /\ SameKind(e.from, s.from)}

\* appendOverride: nothing is added twice.
AppendOverride(entries, e) ==
  IF \E o \in FindOverride(entries, e) : o.to = e.to THEN entries
                                                   ELSE entries \cup {e}

\* writeLedger replaces the file; a write that throws leaves it.
WriteLedger(entries) ==
  /\ ledger' = entries
  /\ form' = "ok"

-----------------------------------------------------------------------------
(* Calls *)

Become(c, state) == pc' = [pc EXCEPT ![c] = state]

Return(c) ==
  /\ pc' = [pc EXCEPT ![c] = "idle"]
  /\ call' = [call EXCEPT ![c] = NoRequest]

InFlight == {c \in Calls : pc[c] # "idle"}

\* The entry a revert picks: the one with this collision; failing that, the only
\* one of the audit.  Empty when there is none or the choice is ambiguous.
RevertEntries(entries, s) ==
  LET matches == {e \in entries : e.audit = s.audit}
      exact   == {e \in matches : e.collision = s.collision}
  IN  IF exact # {} THEN exact
      ELSE IF Cardinality(matches) = 1 THEN matches ELSE {}

(* Faulty: the number of the call is not advanced. *)

\* A confirmed call with a known suggestion reads the ledger.  With a newer
\* ledger the read throws and the call is over before it changed anything.
ReadLedgerForCall(c, request) ==
  /\ pc[c] = "idle" /\ started < MaxCalls
  /\ form # "newer"
  /\ call' = [call EXCEPT ![c] = [action |-> request.action, s |-> request.s,
                                  name |-> request.name, id |-> started + 1,
                                  read |-> ReadLedger, entry |-> NoEntry]]
  /\ Become(c, "read")
  /\ started' = started + 1
  /\ disturbed' = (disturbed \/ InFlight # {})
  /\ UNCHANGED <<diskVars, ledger, form, outside, renamed, acked, reverted, misled>>

\* Every outcome that changes nothing: an idempotent re-apply, a divergence
\* between ledger and disk, a target that exists, a backup that failed, a revert
\* with nothing to revert or an ambiguous one.
Refuse(c) ==
  /\ Return(c)
  /\ UNCHANGED <<diskVars, ledger, form, started, outside, history>>

(* Faulty: the destination is not looked at. *)
ApplyCheckNoTarget(c) ==
  LET r == call[c] IN
  /\ pc[c] = "read" /\ r.action = "apply"
  /\ IF FindOverride(r.read, r.s) # {} \/ disk[r.s.from] = Nothing
     THEN Refuse(c)
     ELSE /\ Become(c, "checked")
          /\ UNCHANGED <<diskVars, ledger, form, call, started, outside, history>>

\* applyRename up to its first mutation: an entry for the same original name
\* ends the call (as a no-op when its new name is on disk, as a divergence when
\* not), a destination that exists refuses it, and so does a failing backup.
ApplyCheck(c) ==
  LET r == call[c] IN
  /\ pc[c] = "read" /\ r.action = "apply"
  /\ IF \/ FindOverride(r.read, r.s) # {}
        \/ r.name # r.s.from /\ disk[r.name] # Nothing
        \/ disk[r.s.from] = Nothing   \* nothing to back up
     THEN Refuse(c)
     ELSE /\ Become(c, "checked")
          /\ UNCHANGED <<diskVars, ledger, form, call, started, outside, history>>

\* The backup, or a look at the disk, fails on I/O: nothing is mutated.
CheckFails(c) == pc[c] = "read" /\ Refuse(c)

\* What an entry renamed has been renamed again since.
MovedOn(entries, e) ==
  \E later \in entries : later.id > e.id /\ later.from = e.to /\ later.to # later.from

\* revertRename up to its first mutation: whatever has the new name by now is
\* what it takes back, and nothing compares the kinds.
RevertCheck(c) ==
  LET r == call[c] IN
  /\ pc[c] = "read" /\ r.action = "revert"
  /\ \/ /\ RevertEntries(r.read, r.s) = {}
        /\ Refuse(c)
     \/ \E e \in RevertEntries(r.read, r.s) :
          IF disk[e.to] = Nothing \/ (e.from # e.to /\ disk[e.from] # Nothing)
          THEN Refuse(c)
          ELSE /\ Become(c, "checked")
               /\ call' = [call EXCEPT ![c].entry = e]
               /\ misled' = (misled \/ MovedOn(r.read, e) \/ ~SameKind(e.from, r.s.from))
               /\ UNCHANGED <<diskVars, ledger, form, started, outside, renamed, acked,
                              reverted, disturbed>>

\* Where the artifact is now, and where the call takes it.
Source(c) == IF call[c].action = "apply" THEN call[c].s.from ELSE call[c].entry.to
Target(c) == IF call[c].action = "apply" THEN call[c].name   ELSE call[c].entry.from

\* The suggestion's applyAction, not the entry, decides whether there is a SKILL.md
\* to rewrite; a revert rewrites it to the entry's original identifier.
Rewrites(c) == IsSkill(call[c].s.from)
TitleFor(c) == IF call[c].action = "apply" THEN call[c].name ELSE call[c].entry.ident

\* A command or agent file is known by its file name, a skill by its frontmatter.
Retitled(c) ==
  IF Rewrites(c) THEN [title EXCEPT ![disk[Source(c)]] = TitleFor(c)] ELSE title

\* The call fails with something done or not done: nothing is taken back.
Fail(c) ==
  /\ Return(c)
  /\ disturbed' = TRUE
  /\ UNCHANGED <<ledger, form, started, outside, renamed, acked, reverted, misled>>

(* Faulty: a revert leaves its entry in the ledger. *)
LedgerKeepingReverted(c) ==
  IF call[c].action = "apply"
  THEN AppendOverride(call[c].read, Override(call[c].id, call[c].s, call[c].name))
  ELSE call[c].read

\* The ledger this call writes: what it read, and its own change.
LedgerOf(c) ==
  IF call[c].action = "apply"
  THEN AppendOverride(call[c].read, Override(call[c].id, call[c].s, call[c].name))
  ELSE call[c].read \ {call[c].entry}

(* Faulty: the ledger is written before the disk is changed. *)
RewriteTitleLedgerFirst(c) ==
  /\ pc[c] = "checked"
  /\ disk[Source(c)] # Nothing
  /\ Rewrites(c) => IsSkill(Source(c))
  /\ Become(c, "rewritten")
  /\ title' = Retitled(c)
  /\ WriteLedger(LedgerOf(c))
  /\ UNCHANGED <<disk, call, started, outside, history>>

\* A skill's SKILL.md is rewritten in place, before the rename.
RewriteTitle(c) ==
  /\ pc[c] = "checked"
  /\ disk[Source(c)] # Nothing
  /\ Rewrites(c) => IsSkill(Source(c))
  /\ Become(c, "rewritten")
  /\ title' = Retitled(c)
  /\ UNCHANGED <<disk, ledger, form, call, started, outside, history>>

\* SKILL.md is gone, has no usable frontmatter, or cannot be written.
RewriteFails(c) ==
  /\ pc[c] = "checked"
  /\ Fail(c)
  /\ UNCHANGED diskVars

\* fs.rename: a directory does not replace another one; a file does.
Movable(from, to) ==
  /\ disk[from] # Nothing
  /\ disk[to] # Nothing /\ from # to => ~IsSkill(from) /\ ~IsSkill(to)

Moved(from, to) ==
  IF from = to THEN disk
  ELSE [disk EXCEPT ![from] = Nothing, ![to] = disk[from]]

\* The rename itself.
Move(c) ==
  LET from == Source(c)
      to   == Target(c)
  IN
  /\ pc[c] = "rewritten"
  /\ Movable(from, to)
  /\ disk' = Moved(from, to)
  /\ Become(c, "moved")
  /\ IF call[c].action = "apply"
     THEN renamed' = renamed \cup {call[c].id} /\ UNCHANGED reverted
     ELSE reverted' = reverted \cup {call[c].entry.id} /\ UNCHANGED renamed
  /\ UNCHANGED <<title, ledger, form, call, started, outside, acked, disturbed, misled>>

\* It fails, and the rewritten frontmatter stays as it is.
MoveFails(c) ==
  /\ pc[c] = "rewritten"
  /\ Fail(c)
  /\ UNCHANGED diskVars

\* The ledger is written from the copy read at the start, and the call answers.
SaveLedger(c) ==
  /\ pc[c] = "moved"
  /\ WriteLedger(LedgerOf(c))
  /\ acked' = IF call[c].action = "apply" THEN acked \cup {call[c].id} ELSE acked
  /\ Return(c)
  /\ UNCHANGED <<diskVars, started, outside, renamed, reverted, disturbed, misled>>

\* writeLedger throws: the rename stays, unrecorded, and the call rejects.
SaveLedgerFails(c) ==
  /\ pc[c] = "moved"
  /\ Fail(c)
  /\ UNCHANGED diskVars

\* The process dies.
Crash(c) ==
  /\ pc[c] # "idle"
  /\ Fail(c)
  /\ UNCHANGED diskVars

-----------------------------------------------------------------------------
(* Everyone else *)

\* Something is installed or created under a free name.
OutsideCreates(n, a) ==
  /\ outside < MaxOutside
  /\ disk[n] = Nothing
  /\ IsSkill(n) <=> a \in Skills
  /\ \A m \in Names : disk[m] # a
  /\ disk' = [disk EXCEPT ![n] = a]
  /\ title' = IF a \in Skills THEN [title EXCEPT ![a] = n] ELSE title
  /\ outside' = outside + 1 /\ disturbed' = TRUE
  /\ UNCHANGED <<ledger, form, callVars, renamed, acked, reverted, misled>>

\* ... or uninstalled or deleted.
OutsideRemoves(n) ==
  /\ outside < MaxOutside
  /\ disk[n] # Nothing
  /\ disk' = [disk EXCEPT ![n] = Nothing]
  /\ outside' = outside + 1 /\ disturbed' = TRUE
  /\ UNCHANGED <<title, ledger, form, callVars, renamed, acked, reverted, misled>>

CallStep(c) ==
  \/ \E request \in Requests : ReadLedgerForCall(c, request)
  \/ ApplyCheck(c) \/ CheckFails(c) \/ RevertCheck(c)
  \/ RewriteTitle(c) \/ RewriteFails(c)
  \/ Move(c) \/ MoveFails(c)
  \/ SaveLedger(c) \/ SaveLedgerFails(c)
  \/ Crash(c)

OutsideStep ==
  \E n \in Names : OutsideRemoves(n) \/ \E a \in Artifacts : OutsideCreates(n, a)

Next == (\E c \in Calls : CallStep(c)) \/ OutsideStep

Spec == Init /\ [][Next]_vars

-----------------------------------------------------------------------------
(* Properties *)

CallRecord ==
  [action: {"apply", "revert"}, s: Suggestions, name: Names, id: 1..started,
   read: SUBSET Overrides, entry: Overrides \cup {NoEntry}]

\* Types; and a call that is past its checks knows what it works on.
TypeOK ==
  /\ disk \in [Names -> Artifacts \cup {Nothing}]
  /\ title \in [Skills -> Names]
  /\ ledger \subseteq Overrides
  /\ form \in {"ok", "malformed", "newer"}
  /\ pc \in [Calls -> {"idle", "read", "checked", "rewritten", "moved"}]
  /\ started \in 0..MaxCalls /\ outside \in 0..MaxOutside
  /\ renamed \subseteq Nat /\ acked \subseteq Nat /\ reverted \subseteq Nat
  /\ disturbed \in BOOLEAN /\ misled \in BOOLEAN
  /\ DOMAIN call = Calls
  /\ \A c \in Calls :
       /\ IF pc[c] = "idle" THEN call[c] = NoRequest ELSE call[c] \in CallRecord
       /\ pc[c] \in {"checked", "rewritten", "moved"} /\ call[c].action = "revert"
            => call[c].entry \in call[c].read

\* The ledger never claims a rename that did not take place, whatever calls
\* overlap, fail or die.  (rename-engine.ts: mutate, then append and persist.)
LedgerNeverAhead == \A e \in ledger : e.id \in renamed

\* With nobody else at work, reverts asked last in first out, and no call in
\* flight, ledger and disk agree: each entry has been renamed on from, or its new
\* name is on disk, in the frontmatter too.  (An entry that renames to the name
\* it had, which a custom name can ask for, outlives the revert of an earlier
\* one; a revert writes the identifier that its audit had found under the name,
\* rename-engine.revert.ts:154-158.)
KnownAs(n) == {n} \cup {s.ident : s \in {s \in Suggestions : s.from = n}}

LedgerMatchesDisk ==
  ~disturbed /\ ~misled /\ InFlight = {} =>
    \A e \in ledger :
      \/ e.from = e.to
      \/ MovedOn(ledger, e)
      \/ /\ disk[e.to] # Nothing
         /\ IsSkill(e.to) => title[disk[e.to]] \in KnownAs(e.to)

\* No step of a call makes an artifact vanish: a skill never, not even when the
\* destination appears after the check; a file not unless the call is overtaken.
NothingOverwritten ==
  [][\A n \in Names :
       disk[n] # Nothing /\ (\A m \in Names : disk'[m] # disk[n])
         => \/ outside' # outside
            \/ disturbed /\ ~IsSkill(n)]_vars

\* What a revert takes back is the rename of the collision it was asked about,
\* or a legacy entry that names none.  (revertRename: "calling revert twice on
\* the same (auditId, collisionId) returns success with fromPath === toPath on
\* the second call".)
RevertUndoesItsCollision ==
  \A c \in Calls :
    pc[c] = "moved" /\ call[c].action = "revert"
      => call[c].entry.collision \in {call[c].s.collision, NoCollision}

\* A rename reported as successful can be reverted until it has been: its entry
\* is in the ledger.  (buildSummary: "To undo: call apply_namespace_rename with
\* auditId ..., action: 'revert'".)
AckedRenameIsRevertible ==
  \A id \in acked \ reverted : \E e \in ledger : e.id = id
=============================================================================
