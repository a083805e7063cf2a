---------------------------- MODULE SkillInstall ----------------------------
(***************************************************************************)
(* install_skill and uninstall_skill.  An install passes the namespace     *)
(* gate (replay of the rename ledger, scan of the local inventory, audit   *)
(* mode), then, for a forced reinstall with a conflictAction, a check for  *)
(* local modifications that may back the skill up, and only then hands     *)
(* over to the core service, which writes the skill and its manifest       *)
(* entry; links to other clients come last.  Every step lies behind an     *)
(* await, and the user, renames and other calls act in between.            *)
(*                                                                         *)
(* The core service and its target guard are outside this repository: the  *)
(* model lets them refuse whenever they like, and write only what the      *)
(* tools rely on.                                                          *)
(***************************************************************************)
EXTENDS Naturals, Sequences, FiniteSets, SequencesExt

CONSTANTS
  Sites,      \* where skills can be installed: one skills directory per client
  Canonical,  \* the directory of the canonical client
  Names,      \* skill names, which are directory names and identifiers
  NoName,     \* no override for a name
  Calls,      \* tool calls that can be in flight at once
  Requests,   \* install requests
  Removals,   \* uninstall requests
  KeepCount,  \* how many backups of a skill the clean-up keeps
  Starts,     \* what may be found at start: see ASSUME
  MaxCalls,   \* bound: calls started
  MaxChanges  \* bound: edits, deletions and renames by the user

Absent == 0            \* no skill directory
Upstream == 1          \* the content the core service installs
Contents == 0 .. (MaxChanges + 1)   \* from 2 on: a text the user wrote
IsEdit(x) == x > Upstream

\* hashed: an entry with originalContentHash, which older versions left out
Entries == {"none", "unhashed", "hashed"}
Modes == {"off", "preventative", "power_user"}
Actions == {"none", "overwrite", "merge", "cancel"}

ASSUME InstallAssumption ==
  /\ Canonical \in Sites /\ NoName \notin Names
  /\ Requests \subseteq [site: Sites, name: Names, force: BOOLEAN,
                          action: Actions, link: BOOLEAN]
  /\ Removals \subseteq [site: Sites, name: Names, force: BOOLEAN]
  /\ KeepCount \in Nat \ {0} /\ MaxCalls \in Nat /\ MaxChanges \in Nat
  /\ Starts \subseteq [entries: [Sites -> [Names -> Entries]],
                       taken: SUBSET Names, mode: Modes]

VARIABLES
  disk,       \* per client and name: what is in the skill's directory
  manifest,   \* per client and name: the manifest entry
  readable,   \* the manifest can be parsed
  overrides,  \* the rename ledger: original identifier -> name it was given
  backups,    \* per name, newest first: the backups in <skills>/.backups
  links,      \* <<name, client>>: fan-out copies that are recorded
  taken,      \* identifiers of commands and agents
  mode,       \* the audit mode
  pc,         \* where each call is
  call,       \* its request and what it has found out
  started,    \* calls started
  changes     \* changes made by the user

vars == <<disk, manifest, readable, overrides, backups, links, taken, mode,
          pc, call, started, changes>>
world == <<disk, manifest, readable, overrides, backups, links>>
settings == <<taken, mode>>

\* unlisted, newer, shared, before, entry and displaced are history: the scan
\* missed a holder of the name; the backups made since its own; another backup
\* was made in the same directory; the content when the call came in, if nobody
\* has changed it since; the manifest entry then; what the core service wrote
\* over.
NoCall == [site |-> Canonical, name |-> NoName, force |-> FALSE,
           action |-> "none", link |-> FALSE, effective |-> NoName,
           hash |-> "none", problem |-> FALSE, unlisted |-> FALSE,
           saved |-> Absent, newer |-> 0, shared |-> FALSE, result |-> "none",
           before |-> Absent, entry |-> "none",
           displaced |-> Absent]

Init ==
  /\ \E s \in Starts :
       /\ manifest = s.entries /\ taken = s.taken /\ mode = s.mode
       /\ disk = [t \in Sites |-> [n \in Names |->
                    IF s.entries[t][n] = "none" THEN Absent ELSE Upstream]]
  /\ readable = TRUE
  /\ overrides = [n \in Names |-> NoName]
  /\ backups = [n \in Names |-> <<>>]
  /\ links = {}
  /\ pc = [c \in Calls |-> "idle"] /\ call = [c \in Calls |-> NoCall]
  /\ started = 0 /\ changes = 0

-----------------------------------------------------------------------------
(* Steps of a call.                                                        *)

\* Who changes a skill takes what was there from the calls that came in before.
Disturbed(places) ==
  [d \in Calls |-> IF <<call[d].site, call[d].name>> \in places
                   THEN [call[d] EXCEPT !.before = Absent] ELSE call[d]]

Goto(c, from, to) == pc[c] = from /\ pc' = [pc EXCEPT ![c] = to]
Frame == UNCHANGED <<settings, started, changes>>

\* A step that could not be evaluated puts a line into the answer's tips.
Note(c) == call' = [call EXCEPT ![c].problem = TRUE]

Answer(c, from, result) ==
  /\ Goto(c, from, "done")
  /\ call' = [call EXCEPT ![c].result = result]

\* After the gate: only a forced install with a conflictAction is checked.
Checked(c) == call[c].force /\ call[c].action # "none"
PastGate(c) == IF Checked(c) THEN "manifest" ELSE "core"

StartInstall(c) ==
  /\ pc[c] \in {"idle", "done"} /\ started < MaxCalls
  /\ \E r \in Requests :
       call' = [call EXCEPT ![c] = [NoCall EXCEPT
                  !.site = r.site, !.name = r.name, !.force = r.force,
                  !.action = r.action, !.link = r.link,
                  !.before = disk[r.site][r.name],
                  !.entry = manifest[r.site][r.name]]]
  /\ pc' = [pc EXCEPT ![c] = "replay"]
  /\ started' = started + 1
  /\ UNCHANGED <<world, settings, changes>>

\* The ledger followed from a name: until there is no entry, or until one
\* would apply for the second time.
Replays(n) ==
  {p \in BoundedSeq(Names, Cardinality(Names) + 1) :
     /\ p # <<>> /\ p[1] = n /\ IsInjective(Front(p))
     /\ \A i \in 1 .. Len(p) - 1 : p[i + 1] = overrides[p[i]]
     /\ overrides[p[Len(p)]] = NoName \/ Contains(Front(p), p[Len(p)])}

ReplayLedger(c) ==
  /\ Goto(c, "replay", "scan")
  /\ \E p \in Replays(call[c].name) :
       call' = [call EXCEPT ![c].effective = p[Len(p)]]
  /\ UNCHANGED world /\ Frame

LedgerUnreadable(c) ==
  /\ Goto(c, "replay", PastGate(c)) /\ Note(c)
  /\ UNCHANGED world /\ Frame

\* Mutant of Holders: only skills are searched for the name.
SkillHolders(n) == {s \in Sites \ {Canonical} : disk[s][n] # Absent}

\* The directories whose inventory entries hold the name n: those of the skills
\* of each client, and, under Canonical, those of its commands and agents.  The
\* candidate's earlier copy is the one at the path the install is projected to,
\* which is under the canonical client's directory.
Holders(n) ==
  {s \in Sites \ {Canonical} : disk[s][n] # Absent}
  \cup {s \in {Canonical} : n \in taken}
Collides(c) == mode # "off" /\ Holders(call[c].effective) # {}

GateBlocks(c) ==
  /\ Answer(c, "scan", "blocked")
  /\ mode = "preventative" /\ Collides(c)
  /\ UNCHANGED world /\ Frame

\* A directory that cannot be listed counts as empty, and nobody is told.
GateOpens(c) ==
  /\ Goto(c, "scan", PastGate(c))
  /\ \E missed \in SUBSET Holders(call[c].effective) :
       /\ mode = "preventative" => missed = Holders(call[c].effective)
       /\ call' = [call EXCEPT ![c].unlisted = @ \/ missed # {}]
  /\ UNCHANGED world /\ Frame

\* The scan or the detector failed: the install goes on, and says so.
GateFails(c) ==
  /\ Goto(c, "scan", PastGate(c)) /\ Note(c)
  /\ UNCHANGED world /\ Frame

\* Mutant of LookUpEntry: the entry is looked up under the bare name, which is
\* the canonical client's key.
LookUpBareName(c) ==
  LET found == manifest[Canonical][call[c].name]
  IN /\ Goto(c, "manifest", IF found = "none" THEN "core" ELSE "guard")
     /\ readable
     /\ call' = [call EXCEPT ![c].hash = found]
     /\ UNCHANGED world /\ Frame

\* The manifest is read leniently: one that cannot be parsed reads as empty.
LookUpEntry(c) ==
  LET found == manifest[call[c].site][call[c].name]
  IN /\ Goto(c, "manifest", IF found = "none" THEN "core" ELSE "guard")
     /\ readable
     /\ call' = [call EXCEPT ![c].hash = found]
     /\ UNCHANGED world /\ Frame

ManifestDegraded(c) ==
  /\ ~readable
  /\ Goto(c, "manifest", "core") /\ Note(c)
  /\ UNCHANGED world /\ Frame

\* The target guard lets the call pass, refuses it, or throws.
GuardPasses(c) ==
  /\ Goto(c, "guard", "check")
  /\ UNCHANGED <<world, call>> /\ Frame

GuardRefuses(c) ==
  /\ Answer(c, "guard", "refused")
  /\ UNCHANGED world /\ Frame

\* Anything thrown in the check is caught; the install goes on, and says so.
CheckThrows(c) ==
  /\ pc[c] \in {"guard", "check", "backup", "cleanup"}
  /\ Goto(c, pc[c], "core") /\ Note(c)
  /\ UNCHANGED world /\ Frame

\* checkForConflicts compares the file with the hash in the entry it was given.
Modified(c) ==
  /\ call[c].hash = "hashed"
  /\ disk[call[c].site][call[c].name] # Upstream

CheckPasses(c) ==
  /\ Goto(c, "check", "core")
  /\ Modified(c) => call[c].action = "merge"
  /\ UNCHANGED <<world, call>> /\ Frame

CheckCancels(c) ==
  /\ Answer(c, "check", "cancelled")
  /\ Modified(c) /\ call[c].action = "cancel"
  /\ UNCHANGED world /\ Frame

CheckBacksUp(c) ==
  /\ Goto(c, "check", "backup")
  /\ Modified(c) /\ call[c].action = "overwrite"
  /\ UNCHANGED <<world, call>> /\ Frame

\* A new backup of n, seen by the calls that made one before.
PushBackup(n, x) ==
  backups' = [backups EXCEPT ![n] = <<x>> \o @]
Aged(n, calls) ==
  [d \in Calls |-> IF calls[d].name = n /\ calls[d].saved # Absent
                   THEN [calls[d] EXCEPT !.newer = @ + 1] ELSE calls[d]]

\* A backup's directory is named for the millisecond.
CreateBackup(c) ==
  LET n == call[c].name
      x == disk[call[c].site][n]
  IN /\ Goto(c, "backup", "cleanup")
     /\ x # Absent
     /\ PushBackup(n, x)
     /\ call' = [Aged(n, call) EXCEPT ![c].saved = x, ![c].newer = 0]
     /\ UNCHANGED <<disk, manifest, readable, overrides, links>> /\ Frame

\* Two overwrites of one name that come in the same millisecond share a
\* directory: the files of the later copy replace those of the earlier.
ReplaceBackup(n, x) ==
  backups' = [backups EXCEPT ![n] = <<x>> \o SubSeq(@, 2, Len(@))]
Twins(c) ==
  {d \in Calls \ {c} : /\ call[d].name = call[c].name
                       /\ call[d].saved # Absent /\ call[d].newer = 0}
Joined(ds) ==
  [d \in Calls |-> IF d \in ds THEN [call[d] EXCEPT !.shared = TRUE] ELSE call[d]]

ShareBackup(c) ==
  LET n == call[c].name
      x == disk[call[c].site][n]
  IN /\ Goto(c, "backup", "cleanup")
     /\ x # Absent /\ Twins(c) # {}
     /\ ReplaceBackup(n, x)
     /\ call' = [Joined(Twins(c)) EXCEPT ![c].saved = x, ![c].newer = 0]
     /\ UNCHANGED <<disk, manifest, readable, overrides, links>> /\ Frame

\* The directory of the backup is made before the skill is read: a failure,
\* of a skill that was deleted above all, leaves an empty one behind.
BackupThrows(c) ==
  /\ Goto(c, "backup", "core")
  /\ PushBackup(call[c].name, Absent)
  /\ call' = [Aged(call[c].name, call) EXCEPT ![c].problem = TRUE]
  /\ UNCHANGED <<disk, manifest, readable, overrides, links>> /\ Frame

\* Mutant of CleanupOldBackups: the newest backups are pruned.
CleanupKeepsOldest(c) ==
  /\ Goto(c, "cleanup", "core")
  /\ backups' = [backups EXCEPT ![call[c].name] =
                   IF Len(@) > KeepCount
                   THEN SubSeq(@, Len(@) - KeepCount + 1, Len(@)) ELSE @]
  /\ UNCHANGED <<disk, manifest, readable, overrides, links, call>> /\ Frame

CleanupOldBackups(c) ==
  /\ Goto(c, "cleanup", "core")
  /\ backups' = [backups EXCEPT ![call[c].name] =
                   SubSeq(@, 1, IF Len(@) < KeepCount THEN Len(@) ELSE KeepCount)]
  /\ UNCHANGED <<disk, manifest, readable, overrides, links, call>> /\ Frame

-----------------------------------------------------------------------------
(* The core service, and the links to other clients.                       *)

\* Refused, quarantined, not found, fetch failed, already installed.
CoreRefuses(c) ==
  /\ Answer(c, "core", "failed")
  /\ UNCHANGED world /\ Frame

\* A skill that is there is only replaced with force, and never one that no
\* manifest entry tracks.
CoreWrites(c) ==
  LET s == call[c].site
      n == call[c].name
  IN /\ Goto(c, "core", "record")
     /\ \/ disk[s][n] = Absent /\ manifest[s][n] = "none"
        \/ call[c].force /\ (manifest[s][n] # "none" \/ disk[s][n] = Absent)
     /\ disk' = [disk EXCEPT ![s][n] = Upstream]
     /\ call' = [Disturbed({<<s, n>>}) EXCEPT
                   ![c] = [call[c] EXCEPT !.displaced = disk[s][n]]]
     /\ UNCHANGED <<manifest, readable, overrides, backups, links>> /\ Frame

\* The manifest is read strictly when it is written, after the files.
CoreRecords(c) ==
  /\ readable
  /\ Goto(c, "record", IF call[c].link THEN "link" ELSE "done")
  /\ manifest' = [manifest EXCEPT ![call[c].site][call[c].name] = "hashed"]
  /\ call' = [call EXCEPT ![c].result = "installed"]
  /\ UNCHANGED <<disk, readable, overrides, backups, links>> /\ Frame

CoreCannotRecord(c) ==
  /\ ~readable
  /\ Answer(c, "record", "failed")
  /\ UNCHANGED world /\ Frame

\* alsoLink: a copy for each other client, over a recorded one or none; a
\* client that is refused is named in the tips.
AddLinks(c) ==
  LET s == call[c].site
      n == call[c].name
      free == {t \in Sites \ {s} : disk[s][n] # Absent
                 /\ (disk[t][n] = Absent \/ <<n, t>> \in links)}
  IN /\ Goto(c, "link", "done")
     /\ \E served \in SUBSET free :
          /\ disk' = [t \in Sites |-> IF t \in served
                        THEN [disk[t] EXCEPT ![n] = disk[s][n]] ELSE disk[t]]
          /\ links' = links \cup ({n} \X served)
          /\ call' = [Disturbed(served \X {n}) EXCEPT
                        ![c].problem = @ \/ served # Sites \ {s}]
     /\ UNCHANGED <<manifest, readable, overrides, backups>> /\ Frame

StartUninstall(c) ==
  /\ pc[c] \in {"idle", "done"} /\ started < MaxCalls
  /\ \E r \in Removals :
       call' = [call EXCEPT ![c] = [NoCall EXCEPT
                  !.site = r.site, !.name = r.name, !.force = r.force]]
  /\ pc' = [pc EXCEPT ![c] = "remove"]
  /\ started' = started + 1
  /\ UNCHANGED <<world, settings, changes>>

\* A modified skill goes only with force; links only with the canonical copy.
CoreRemoves(c) ==
  LET s == call[c].site
      n == call[c].name
  IN /\ Goto(c, "remove", IF s = Canonical THEN "unlink" ELSE "done")
     /\ readable
     /\ disk[s][n] # Absent \/ manifest[s][n] # "none"
     /\ call[c].force \/ ~(manifest[s][n] = "hashed" /\ IsEdit(disk[s][n]))
     /\ disk' = [disk EXCEPT ![s][n] = Absent]
     /\ manifest' = [manifest EXCEPT ![s][n] = "none"]
     /\ call' = [Disturbed({<<s, n>>}) EXCEPT ![c].result = "removed"]
     /\ UNCHANGED <<readable, overrides, backups, links>> /\ Frame

CoreWillNotRemove(c) ==
  /\ Answer(c, "remove", "failed")
  /\ UNCHANGED world /\ Frame

\* Each recorded copy is removed, or refused and named in the warning.
RemoveLinks(c) ==
  LET n == call[c].name
  IN /\ Goto(c, "unlink", "done")
     /\ \E gone \in SUBSET {l \in links : l[1] = n} :
          /\ links' = links \ gone
          /\ disk' = [t \in Sites |-> IF <<n, t>> \in gone
                        THEN [disk[t] EXCEPT ![n] = Absent] ELSE disk[t]]
          /\ call' = [Disturbed({<<l[2], n>> : l \in gone}) EXCEPT
                        ![c].problem = @ \/ \E l \in links \ gone : l[1] = n]
     /\ UNCHANGED <<manifest, readable, overrides, backups>> /\ Frame

\* Whatever removeLinks throws is swallowed.
LinksUnreadable(c) ==
  /\ Goto(c, "unlink", "done")
  /\ UNCHANGED <<world, call>> /\ Frame

-----------------------------------------------------------------------------
(* The user and other tools.                                               *)

Change ==
  /\ changes < MaxChanges /\ changes' = changes + 1
  /\ UNCHANGED <<settings, pc, started>>

Edit(s, n) ==
  /\ Change
  /\ disk[s][n] # Absent
  /\ disk' = [disk EXCEPT ![s][n] = changes + 2]
  /\ call' = Disturbed({<<s, n>>})
  /\ UNCHANGED <<manifest, readable, overrides, backups, links>>

Delete(s, n) ==
  /\ Change
  /\ disk[s][n] # Absent
  /\ disk' = [disk EXCEPT ![s][n] = Absent]
  /\ call' = Disturbed({<<s, n>>})
  /\ UNCHANGED <<manifest, readable, overrides, backups, links>>

\* apply_namespace_rename of a skill, as a whole: see RenameEngine.  It rewrites
\* the name in SKILL.md, so the text is another one.
RenameSkill(n, m) ==
  /\ Change
  /\ disk[Canonical][n] # Absent /\ disk[Canonical][m] = Absent
  /\ overrides[n] = NoName
  /\ disk' = [disk EXCEPT ![Canonical] =
                [@ EXCEPT ![m] = changes + 2, ![n] = Absent]]
  /\ overrides' = [overrides EXCEPT ![n] = m]
  /\ PushBackup(n, disk[Canonical][n])
  /\ call' = Aged(n, Disturbed({Canonical} \X {n, m}))
  /\ UNCHANGED <<manifest, readable, links>>

SpoilManifest ==
  /\ Change
  /\ readable /\ readable' = FALSE
  /\ UNCHANGED <<disk, manifest, overrides, backups, links, call>>

-----------------------------------------------------------------------------
Gate(c) == \/ ReplayLedger(c) \/ LedgerUnreadable(c)
           \/ GateBlocks(c) \/ GateOpens(c) \/ GateFails(c)
Preflight(c) ==
  \/ LookUpEntry(c) \/ ManifestDegraded(c)
  \/ GuardPasses(c) \/ GuardRefuses(c) \/ CheckThrows(c)
  \/ CheckPasses(c) \/ CheckCancels(c) \/ CheckBacksUp(c)
  \/ CreateBackup(c) \/ ShareBackup(c) \/ BackupThrows(c) \/ CleanupOldBackups(c)
Core(c) ==
  \/ CoreRefuses(c) \/ CoreWrites(c) \/ CoreRecords(c) \/ CoreCannotRecord(c)
  \/ AddLinks(c)
Uninstall(c) ==
  \/ StartUninstall(c) \/ CoreRemoves(c) \/ CoreWillNotRemove(c)
  \/ RemoveLinks(c) \/ LinksUnreadable(c)
User ==
  \/ \E s \in Sites, n \in Names : Edit(s, n) \/ Delete(s, n)
  \/ \E n, m \in Names : RenameSkill(n, m)
  \/ SpoilManifest

Next ==
  \/ \E c \in Calls :
       StartInstall(c) \/ Gate(c) \/ Preflight(c) \/ Core(c) \/ Uninstall(c)
  \/ User

Spec == Init /\ [][Next]_vars

-----------------------------------------------------------------------------
(* What the tools promise.                                                 *)

\* Every variable has its type: contents, entries, backups, calls.
TypeOK ==
  /\ disk \in [Sites -> [Names -> Contents]]
  /\ manifest \in [Sites -> [Names -> Entries]]
  /\ readable \in BOOLEAN
  /\ overrides \in [Names -> Names \cup {NoName}]
  /\ backups \in [Names -> Seq(Contents)]
  /\ links \subseteq Names \X Sites
  /\ taken \subseteq Names /\ mode \in Modes
  /\ pc \in [Calls -> {"idle", "replay", "scan", "manifest", "guard", "check",
                       "backup", "cleanup", "core", "record", "link", "remove",
                       "unlink", "done"}]
  /\ call \in [Calls ->
       [site: Sites, name: Names \cup {NoName}, force: BOOLEAN, action: Actions,
        link: BOOLEAN, effective: Names \cup {NoName}, hash: Entries,
        problem: BOOLEAN, unlisted: BOOLEAN,
        saved: Contents, newer: Nat, shared: BOOLEAN,
        result: {"none", "blocked", "refused", "cancelled", "failed",
                 "installed", "removed"},
        before: Contents, entry: Entries, displaced: Contents]]
  /\ started \in Nat /\ changes \in 0 .. MaxChanges

\* What "overwrite" backed up and then wrote over can be got back: it is in a
\* backup, unless as many newer backups as are kept have been made since, or
\* another overwrite of the name made its backup in the same millisecond.
\* Other calls for the same skill, for any client, prune the same directory.
OverwrittenEditIsKept ==
  \A c \in Calls :
    /\ call[c].action = "overwrite" /\ IsEdit(call[c].displaced)
    /\ call[c].displaced = call[c].saved
    /\ call[c].newer < KeepCount /\ ~call[c].shared
    => Contains(backups[call[c].name], call[c].saved)

\* "cancel" protects an edit: if the edit was there when the call came in and
\* the install still wrote over it, the answer says the check was not made.
CancelProtectsEdits ==
  \A c \in Calls :
    /\ call[c].action = "cancel" /\ call[c].force
    /\ call[c].entry = "hashed"
    /\ IsEdit(call[c].before) /\ call[c].displaced = call[c].before
    => call[c].problem

\* In preventative mode no skill is installed under the name of a command or
\* an agent unless the answer says that the gate did not run, or the scan could
\* not list the directory that holds the name.  (A name with a recorded rename
\* is another matter: see ReinstallKeepsRename.)
PreventativeModeHolds ==
  \A c \in Calls :
    /\ mode = "preventative" /\ call[c].result = "installed"
    /\ call[c].name \in taken /\ call[c].effective = call[c].name
    => call[c].problem \/ call[c].unlisted

\* Not so in the code: the gate's problems are there so that "no collision was found" can be told
\* from "nothing ever looked": in preventative mode the answer to an install
\* under a taken name always has one.
GateTellsWhenBlind ==
  \A c \in Calls :
    /\ mode = "preventative" /\ call[c].result = "installed"
    /\ call[c].name \in taken /\ call[c].effective = call[c].name
    => call[c].problem

\* "merge" is announced as a three-way merge: what it writes over should be
\* kept somewhere, or the answer should say that the check was not made.
MergeKeepsEdits ==
  \A c \in Calls :
    /\ call[c].action = "merge" /\ call[c].force /\ call[c].entry = "hashed"
    /\ IsEdit(call[c].before) /\ call[c].displaced = call[c].before
    => \/ call[c].problem
       \/ Contains(backups[call[c].name], call[c].displaced)

\* The ledger is replayed so that an install never brings back the name a
\* skill was renamed away from.
ReinstallKeepsRename ==
  \A c \in Calls :
    /\ call[c].result = "installed" /\ call[c].site = Canonical
    /\ call[c].effective \in Names
    => call[c].effective = call[c].name
=============================================================================
