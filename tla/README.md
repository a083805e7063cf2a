# Verification of the Skillsmith MCP server

TLA+ specifications of `@skillsmith/mcp-server` (the package under `src/`, its
TypeScript under `src/src/`), the TLC configurations that check them on small
instances, and TLAPS proofs of what holds for every instance. `src/dist` is
the compiled output of the same sources and is not modelled separately.

The server is one Node.js process per client session. It answers tool calls
over stdio, several at a time, on one event loop: two handlers interleave at
every `await`. Several servers (one per editor window), the CLI and the user
work on the same files under `~/.skillsmith` and in the skill directories, and
the team tools work statement by statement on a hosted database that others
change. What is hard in this code is what these modules are about: handlers
that read, wait and write back; files shared between processes, with one lock,
a lock that is not held long enough, or none; a step that fails after another
has taken effect; undo over a world that has moved on; answers that say what a
second query made of the first; and a shutdown that races with all of it.

## Inventory

| Component | State it keeps | Operations | What is hard | What makes it correct |
|---|---|---|---|---|
| manifest reconcile (`tools/apply-manifest-reconcile*.ts`, `manifest-reconcile-ledger.ts`) | `manifest.json`, its lock file, the reconcile ledger | verify (one row, or a batch), mark_local, relink, drop_entry, revert | checks made before the lock, ledger written outside it, crashes, other writers | an identity is certified only after its content was compared; one call never undoes another's row; a revert restores only what it recorded; the ledger tells the truth |
| server lifecycle (`index.ts`, `shutdown.ts`, `index.shutdown-helpers.ts`, `context*.ts`) | database (WASM or native), its file, timers, background sync, exit code | start, tool writes, autosave, sync, triggers, shutdown, crash handlers | triggers during shutdown, sync that outlives its bound, autosave against final save | exit code 0 means nothing was lost; the process does end; nothing writes after close |
| telemetry identity (`context.async.ts`) | cached identity, generation counter | refresh, reject, answer | answers out of order | a rejected or superseded identity is never cached again |
| LLM failover (`llm/failover.ts`) | providers, initialisation promise | initialise, complete, health report, close | close between any two awaits | a closed chain is not called healthy |
| rename engine (`audit/rename-engine*.ts`, `namespace-overrides.ts`, `tools/apply-namespace-rename.ts`) | skill directories, command and agent files, frontmatter, override ledger | apply, skip, revert | ledger read and written back around awaits, half-done renames, fallback matches | the ledger says what is on disk; nothing is overwritten |
| recommended edits and undo (`audit/edit-applier.ts`, `tools/apply-recommended-edit.ts`, `undo-apply.ts`, `apply-*.helpers.ts`) | edited files, backups, the session's changeset stack | apply an edit, undo latest, one call or the session | user edits in between, identical backup names, backups swept away | undo restores the file's own text and never overwrites the user's |
| backup retention (`tools/install.backup-gc.ts`, `install.conflict-helpers.ts`) | backup directories | back up, list, sweep, keep three | sweep against undo, two calls that prune | what a call promised to restore is still there, or it is reported |
| install, uninstall (`tools/install*.ts`, `uninstall.ts`) | skill directories, manifest, links, originals | install, force, overwrite, merge, cancel, link, uninstall | decision on a stale view, failing gate steps, refused links | a local change is backed up before it is overwritten, cancel protects it, a name in use is refused |
| security acceptance and baseline (`audit/security-*.ts`) | acceptance store, its lock, baseline | accept, revoke, expire, audit | lock-bypassing writers, capacity, unlocked baseline, two scanner versions | the store is an atomic register; nothing is suppressed that nobody accepted; a rug-pull is reported |
| inventory audit (`audit/run-inventory-audit*.ts`, `collision-detector*.ts`, `suggestion-chain.ts`, `audit-notify.ts`, ...) | three files per audit, the digest state | scan, detect, suggest, report, mail | later passes read files again, crash between the files, two servers mailing | no collision is hidden; what is on disk applies to what is on disk; silence means it was mailed |
| gates (`middleware/license*.ts`, `quota*.ts`, `toolProfile.ts`) | licence cache, quota counters | resolve, check, track, invalidate | answers out of order, check before increment | a paid tool runs only with an established licence; the overrun is bounded |
| consent (`middleware/telemetry-consent.ts`) | promise cache | resolve, prompt | failure during a fetch, two looks in one call | one call sees one answer; the prompt is shown once |
| onboarding and welcome (`onboarding/*`, `middleware/first-run-welcome.ts`) | marker, installed assets, Tier-1 status, queued welcome | first run, self heal, welcome | two processes at first run, refused targets | what is credited was there |
| suggestion engine (`suggestions/*`) | cooldown, daily count, dismissals, opt-out | suggest, record, dismiss, reset | day boundary, restart, two engines | never more than the daily limit; a refusal holds |
| webhooks (`webhooks/*`) | rate limiter windows, queue | accept, sweep, process, stop | sweep against accept, stop against the queue | never more than the limit in a window |
| skill updates and provenance (`tools/outdated*.ts`, `skill-updates.ts`, `skill-rescan*.ts`, `skill-diff.ts`, ...) | quarantine, dependency rows | compare with the registry, rescan, diff | lookups that fail between entries, quota, a stale index | a verdict has evidence; a condemned skill is hidden |
| search, recommend, get, compare, suggest, validate (`tools/search*.ts`, `recommend*.ts`, ...) | none | queries with fall-back | limits before filters, two sources | an answer says what it left out |
| local indexer (`indexer/*`) | a one-minute cache | scan, parse | edits within the minute, a second parser | the two parsers read alike |
| publish (`tools/publish*.ts`) | a manifest beside the skill, its repository | validate, scan, hash, create | the author goes on editing | what is recorded was valid |
| private registry, teams, RBAC, SSO (`tools/registry-tools*`, `team-workspace*`, `rbac-tools*`, `sso-tools*`) | in the hosted database | one call each, several statements | roles, sessions and rows change between statements | what the answer says is true; no call order widens a permission |
| analytics (`tools/analytics*.ts`) | in the hosted database | dashboards and reports | two RPCs with a change of membership between | no level discloses more than it may |
| compliance and audit-log tools (`tools/compliance-tools*.ts`, `audit-tools.ts`) | dependency rows | report, bill of materials, export | three reads one after another, back-fill | every installation and dependency is listed |
| dispatch (`index.ts`, `call-tool-handler.ts`, `tool-dispatch.ts`, ...) | - | route a call | - | every tool goes through its gates |
| integrations, response formatting, health checks, validation utilities | none | fixed or pure answers | - | - |

How they interact: the dispatcher takes a call through consent, licence and
quota to its handler, with the context that the lifecycle owns (database,
telemetry, LLM chain) and closes under it. Manifest reconcile, install,
uninstall and the CLI share the manifest and its lock. The rename engine and
the edit applier share the override ledger and the session's changeset stack;
install replays the ledger to new installs. Edits, renames and installs share
the backup directory with its sweep. The inventory audit writes the suggestions
that the rename engine and the edit applier apply. `@skillsmith/core` (locks,
atomic writes, manifest load and save, the database, the sync engine, the
scanner) and the hosted database are not in the repository: what the models
need of them is taken from how this code uses them, and its entries are marked
external.

## Modules

| Module | What it is |
|---|---|
| `ManifestReconcile` | apply_manifest_reconcile, its ledger and lock, and the other writers of the manifest, with its properties |
| `ManifestReconcile_proofs` | type correctness and four safety properties, proved |
| `MCManifestReconcile` | two calls on one skill and two clients |
| `ServerLifecycle` | database, saves, sync, triggers, shutdown, services with their start and close |
| `TelemetryIdentity` | the refresh protocol of the telemetry identity |
| `ServerProcess` | the two composed in one process, with the properties of both (run as it is) |
| `ServerAndTeam_proofs` | the safety properties of `ServerProcess` and of `TeamTools`, proved |
| `RenameEngine`, `RenameEngine_proofs`, `MCRenameEngine` | apply_namespace_rename: files, frontmatter and override ledger |
| `SessionUndo`, `SessionUndo_proofs`, `MCSessionUndo` | apply_recommended_edit and undo_apply with backups, stack, sweep and restart |
| `SkillInstall`, `SkillInstall_proofs`, `MCSkillInstall` | install_skill and uninstall_skill with their gate, conflict check, backups and links |
| `AcceptanceRegister` | abstract: a bounded set of acceptances that changes atomically |
| `AcceptanceStore` | the acceptance file under its owned lock, with the refinement of the register |
| `SecurityAudit`, `SecurityAudit_proofs`, `MCSecurityAudit` | the audit over the store and its baseline |
| `LicenseCache` | how a call learns its tier |
| `RequestGates`, `RequestGates_proofs`, `MCRequestGates` | consent, licence, quota and prompt around a call; extends `LicenseCache` |
| `HostedTeam` | the tables of one team, its members' permissions, and the calls |
| `SharedContent`, `RbacTools` | the handlers over those tables: registry and workspaces, and RBAC with SSO |
| `TeamTools`, `MCTeamTools` | the analytics tools, and all families together, with their properties |
| `Onboarding`, `SuggestionEngine`, `WebhookEndpoints`, `LlmFailover`, `InventoryAudit`, `LocalSkills`, `SkillQueries`, `LocalReports`, `SkillFiles` | parts that share no state with one another |
| `LocalServices`, `MCLocalServices` | these parts as one specification |
| `LocalServices_proofs` | the properties of eight of these parts, proved |

### ManifestReconcile

A process (`Procs`) is one tool call in flight, in this server or in another
one; `calls` holds where it stands between two awaits and what it has read.
`manifest` maps a key (a name, and a client unless it is the canonical one) to
a row with its path, identity, source, provenance and the `verifiedAt` stamp,
which is a time of `clock`; `checked` is the history of comparisons, so that
"was compared at that time" is a statement about the state. `onDisk` says which
install directories resolve. `ledger` with its `ledgerForm` (ok, malformed,
newer) and `lock` complete the state. Each handler is the sequence of the code:
the reads before the lock, the acquisition, the load and save under it, and the
ledger append after it.
`verify` compares a batch in one step, and gives its rows one time; the code's
loop reads only files that the step reads too, and takes the time row by row, in
milliseconds. One manifest path (user scope) is modelled. Note that, other than
the header of `apply-manifest-reconcile.actions.ts` says of the other actions,
revert takes no backup and writes no entry of its own: it removes the one it
undid. Its row is the one of the entry's name and *recorded client*
(`RevertKey`), which for an entry of a batch is the caller's client and not
always that of the row (`Reverts` names the row that is written, and the
properties speak of that one).

`AcquireLock` and `Save` stand for `@skillsmith/core`'s `withFileLock` and
manifest writer. The lock of a dead process may be reclaimed by whoever waits
for it, or may turn out not to be reclaimable (`Stuck`): the reasons are those
`apply-manifest-reconcile.lock-helpers.ts` lists.

Fairness (`reconcile_lock`): every step of a call in flight is weakly fair, as
an event loop runs every continuation that is due and the wait for the lock has
a time-out. Neither that a dead process's lock is ever reclaimed, nor that the
registry answers, nor anything else of the environment is assumed.

### ServerLifecycle, TelemetryIdentity, ServerProcess

The database is `wasm` (in memory, written to its file by a save) or `native`
(written through). `written` counts the writes tools and the background sync
have committed and `saved` those in the file, so `GracefulExitLosesNothing`
compares the two when the exit code is 0. Triggers are signals, the end of
the transport and the crash handlers; they may come at any time, also during
shutdown, which the coordinator's single promise absorbs. The wait for the
sync is bounded by a timer (`index.shutdown-helpers.ts`) and the flush of
PostHog by another (`shutdown.ts`): either can elapse first, or not.
`TelemetryIdentity` keeps the generation counter and the refreshes in flight.
`ServerProcess` interleaves both while the process lives.

Fairness (`TriggerEndsProcess`): a timer that is set fires, and a continuation
whose promise has settled runs. Nothing is assumed of the sync, the LLM
providers, PostHog, the tool calls or the host: any of them may hang for ever,
which is the point of the property.

### RenameEngine

A skill is its identifier as it is on disk, in the directory for its kind;
`disk` and `title` hold what each name's directory or file and its frontmatter
carry, `ledger` the override entries (with the legacy ones that have no
collision id), `pc` and `call` the calls in flight. Apply follows the code: load the ledger, the already-applied check,
the target check with the backup, the frontmatter rewrite, the rename, the
ledger write; each may fail. Frontmatter read and write are one step, and so are
the target check and the backup. `Outside` is a user or another tool that
renames on disk. Renames to the own name are exempt in `LedgerMatchesDisk`.

That property does not hold of every order of reverts. A revert takes back
whatever has the new name by now: when `a` was renamed to `b`, that `b` to `d`,
and another skill was then renamed to `b`, a revert of the first entry moves
the other skill. The same happens when a revert is asked with a suggestion of
another kind than the entry it finds. The history variable `misled` records
either, and the property is about behaviours without them (`MovedOn`).
`Standing` says what earlier calls left behind when the model starts: entries
whose renames stand, each from a suggestion of its time.
Entries that prose edits put into the same ledger are not modelled.

### SessionUndo

An edit replaces one part of a file; edits of a file are disjoint parts, so a
file is the set of edits in it and a mark for what the user has written since.
A hash is the content itself. `backups` maps a base name and an instant to the
text saved there. The instant is one the call may have read since it began, the
current one or the next: calls that overlap, and calls that follow one another
within a millisecond, may take the same, and two files with one base name then
share a directory, where the later copy stands. The history variable `crossed`
has the files whose backup was replaced before their edit was recorded; only for
them do the properties except anything (`OwnContentOnly` shows what happens).
`stack` is the session's changesets. Calls take and record their changeset as
the code does, an undo walks them most recent first, compares each file with
the journaled hash, restores and removes; a user may edit or delete a file, the
sweep may remove backups, and the server may restart, which forgets the stack.

### SkillInstall

`disk` and `manifest` say per client and skill what is in the directory (absent,
the upstream text, or a numbered edit of the user's) and what kind of row is
recorded; `overrides`, `backups`, `links`, `taken` (names of commands and agents) and `mode`
complete the state. An install is a sequence of steps as the code awaits them:
replay of the rename ledger, the scan and the name check of the gate, the
manifest read, the conflict check with its backup and clean-up, the core
service (which may refuse, write, and record or fail to record), the links.
Each step that can fail has its failure, and `problem` records that the answer
says so. Two failures leave no trace in the answer, as in the code: a directory
that cannot be listed counts as empty in the gate's scan, and a backup is named
after its skill and its millisecond, so that of two overwrites in one
millisecond the later may take the directory of the earlier (`ShareBackup`).
`CancelProtectsEdits` needs no exception for them; `PreventativeModeHolds`
excepts names the scan was blind to, and `OverwrittenEditIsKept` overwrites
that shared a directory. `GateTellsWhenBlind` shows the first. `User` renames, edits or
deletes skills and damages the manifest between any two steps. Uninstall is the
removal and the links, of which some may be refused.

### AcceptanceRegister, AcceptanceStore, SecurityAudit

`AcceptanceRegister` is what the store promises: a call takes effect at one
instant, on what is in force then, or not at all. `AcceptanceStore` is how the
code does it: the lock with its time-out, its owner that may die, the load, the
write of the trimmed file, and writers that bypass the lock. `StoreIsRegister`
is the refinement (what is in force in the register is what the file loads as),
checked as a property of the run and proved. `SecurityAudit` adds the audit:
the snapshot of the store and of the baseline, one skill after another, the
verdict of each, the baseline saved or not, skills that cannot be read, skills
that change, and two versions of the scanner with different findings and keys.
A stored report is compared only when it was made for the same `bar`, the
version with its threshold. The skills an audit goes through are those the
inventory lists, from which those of a directory that cannot be listed are
missing without a word (`lost` in `LoadAcceptances`); the audit then drops
them from the baseline. `RugPullReported` says what holds of the other skills
(`blind` is the history of those missed), and `HiccupIsNoUninstall` what does
not hold of these.

### LicenseCache, RequestGates

`LicenseCache` holds one call's lookup (credentials, the question to the tier
service, its time-out or failure, the local key) and the one cache slot they
share. `RequestGates` takes a call through dispatch: the consent promise that
all calls await, the licence check with its cache, the quota check and the
increment a few awaits later, the inner emission gate, and the answer that may
carry the consent prompt. Accounts and logins change, cache entries expire and
months turn in between.

Fairness (`gates_settle`): a step of a call whose promise has settled runs, and
a refused call is answered. The consent request settles or fails, as the code
gives it two seconds, and so does the licence request of an API key, which has
five. Nothing bounds the refresh of the session token that comes before the
consent request and its timer (`telemetry-consent.ts:116`): `TokenResolved` is
not fair, and `GatesSettle` says what holds if the refresh ends. A call can wait
for ever if it does not. Lookups through a session or a licence key go through
the same refresh or through the external validator, and are not fair either;
the property is about a process with an API key.

### HostedTeam, SharedContent, RbacTools, TeamTools

The database is hosted and its code is elsewhere; its row rules are taken from
what this code relies on and are marked external. What the modules check is
this side: which statements a handler makes, in which order, and what it tells
the caller. `call[u]` is one account's call and the statement it is at; between
any two statements another account may work, a member join or leave, a role
change, or a session go stale. `tools` says which family of tools a behaviour
uses; the families share the members' roles only, and with two families at once the
instance would be out of reach.

### LocalServices

Eleven parts that share no state with another one are composed as alternatives:
`part` names the one a behaviour is about, and the others keep still. This is
one run instead of eleven, and the composition hides nothing, as there is
nothing for two parts to interleave over.

- `Onboarding`: servers that start, die and start again over one home
  directory; the marker, the bundled skills, the Tier-1 status file, the throttle, the
  answers of the core service, and the welcome waiting for an answer it can
  ride on.
- `SuggestionEngine`: two engines with the one state file each of them read at
  its start and overwrites.
- `WebhookEndpoints`: both servers, up to two requests at once, the limiter
  per address (behind a proxy or not), its sweep, the queue and the shutdown.
- `LlmFailover`: requests and health reports that wait for each other's
  initialisation, and `close()` between any two awaits.
- `InventoryAudit`: the scan, which passes over what it cannot read, the exact,
  generic and semantic flags, the rot check, rename chains and edits,
  exclusions, and the three files; a user who works on the skills meanwhile, and
  an end between any two steps. Names are compared as the code does, without
  case and outer blanks when they collide, and without case when a free name is
  looked for; a name of which nothing can be sanitized has no candidates and is
  suggested itself, and one that is too long has no suggestion. And the day's
  mailed digest of two servers, with the state file read early and written late.
- `LocalSkills`: rescan, quarantine, the one-minute index and search, with a
  user who edits and a reviewer who clears. And skill_outdated, entry by entry,
  over a registry and a history that change, lookups that fail and a quota that
  ends; the verdict, the diagnosis and the advice; skill_updates.
- `SkillQueries`: search, recommend, suggest, get, compare and recover_source
  as functions of what the registry, the database and this machine return:
  every list of matches up to `MaxHits` in every order.
- `LocalReports`: validate (every frontmatter of up to three of the lines),
  diff, pack audit (which passes over a SKILL.md that it cannot read), log
  queries, and the compliance report with its three reads and its back-fill
  (which passes over an installation without a path and goes on when the store
  fails).
- `SkillFiles`: the scan of skills, commands, agents, CLAUDE.md and plugins, of
  which any directory may not be listable and any file not readable; the
  indexer's parser against that of validate; publish with an editing author.

## Properties and runs

| Run | Checks | Bounds |
|---|---|---|
| `request_gates` (`MCRequestGates`, `RequestGates.cfg`) | `PaidRunWasTold`, `TierRemembered`, `NewestWithoutOverlap`, `OverrunBounded`, `ConsentIsConsistent` | 2 calls at once, 3 requests, 1 change of account, 1 month; every credential |
| `gates_settle` (`MCRequestGates`, `RequestGatesLive.cfg`) | `GatesSettle` | 2 requests, 2 months, with an API key |
| `skill_install` (`MCSkillInstall`, `SkillInstall.cfg`) | `OverwrittenEditIsKept`, `CancelProtectsEdits`, `PreventativeModeHolds` | 2 calls, 2 clients, 2 names, 2 changes by the user, 1 backup kept |
| `local_services` (`MCLocalServices`, `LocalServices.cfg`) | `CreditedWasInstalled`, `SilenceWasMailed`, `SuggestionsPaced`, `WindowBounded`, `AuditIsWhole`, `OutdatedVerdicts`, `SearchIsHonest`, `AdviceFits`, `LocalAnswersAreTrue`, `HealthAnswerIsTrue`, `CondemnedIsHidden` | per part, see the cfg: two or three actors, clocks just past the window they are compared with, one to three changes by others; 1.7 million states |
| `reconcile_safety` (`MCManifestReconcile`, `ManifestReconcile.cfg`) | `RecordsAreTrue`, `RevertNeverClobbers` | 2 calls, 1 name, 2 clients, 2 identities; `MaxActivity` 3 bounds calls, crashes and foreign changes together |
| `reconcile_lock` (`MCManifestReconcile`, `ManifestReconcileLive.cfg`) | `CallsEndUnlocked` | the same with `MaxActivity` 2 |
| `rename_safety` (`MCRenameEngine`, `RenameEngine.cfg`) | `LedgerNeverAhead`, `LedgerMatchesDisk`, `NothingOverwritten` | 2 calls at a time, 3 in all, 1 outside change, 3 skill and 2 command names, three initial disks, three forms of the ledger |
| `rename_revert_target` (`MCRenameEngine`, `RenameRevert.cfg`) | `RevertUndoesItsCollision` fails | 4 calls in all, no outside change, one form of the ledger |
| `security_audit` (`MCSecurityAudit`, `SecurityAudit.cfg`) | `SuppressedWasAccepted`, `RugPullReported`, `StoreIsRegister` | 2 processes, 2 audits, 1 skill, 2 contents, 2 bars (scanner version and threshold), 2 records kept; `MaxActivity` 4 |
| `server_process` (`ServerProcess`, `ServerProcess.cfg`) | `ShutdownIsClean`, `RejectedIdentityStaysOut`, `ShutdownOwnsTheFinalSave`, `NewestRefreshWins`, `TriggerEndsProcess` | both drivers, 2 writes, 2 triggers, 4 generations |
| `session_undo` (`MCSessionUndo`, `SessionUndo.cfg`) | `StackMatchesFiles`, `OwnContentUnlessCrossed`, `UserTextSurvives` | 2 calls at a time, 3 in all, 3 edits of 2 files of one base name, 1 outside change |
| `team_tools` (`MCTeamTools`, `TeamTools.cfg`) | `AnswersAreTrue`, `PendingStaysHidden`, `OnlyAuthorityWidens` | 2 accounts, 2 skills with 1 version, 2 workspaces, 3 calls, 1 change by others; 3.6 million states |

What the less obvious ones say:

- `RecordsAreTrue`: each `verifiedAt` stamp, also one that a revert could
  restore, certifies content that was compared at that time, and each ledger
  entry was a change of the manifest. `RevertNeverClobbers`: the row
  that a revert writes held exactly what a recorded action had left.
- `ShutdownIsClean`: exit code 0 means that nothing written was lost or the
  loss was logged, and that nothing was written after the close.
- `LedgerNeverAhead`: no ledger entry without its rename on disk;
  `LedgerMatchesDisk`: each entry's new name is on disk and, for
  a skill, in its frontmatter, or was renamed on from, when calls did not
  overlap or fail, nobody else wrote, and what was renamed twice was reverted
  last first.
- `StackMatchesFiles`, `OwnContentUnlessCrossed`, `UserTextSurvives`: the undo
  stack says what is in the files, no file gets another file's text, and nothing
  the user wrote while no call was at work on that file is overwritten; the
  latter two but for files whose backup another's replaced during the edit.
- `OverwrittenEditIsKept`, `CancelProtectsEdits`, `PreventativeModeHolds`: see
  the comments; each allows what the answer admits to (`problem`).
- `AnswersAreTrue`: a publish is confirmed only after its row, "no skills" is told
  only to somebody who was a member at some time of the call, a denied delete was not permitted, a share
  respected the policy, and a report discloses no more than its level
  and to an outsider nothing.
  `PendingStaysHidden`: no audit row a member can read names a skill that has no approved
  version. `OnlyAuthorityWidens`: no permission is gained but by an owner or admin.
- `OutdatedVerdicts`: "outdated" and "update" rest on something that was looked
  up in this run; bulk update is advised only where it changes nothing by
  surprise. `SearchIsHonest`, `AdviceFits`: what a page leaves out does not suit
  better or is counted, and what is recommended was asked for.
- `LocalAnswersAreTrue`: the answers of `LocalReports` and `SkillFiles` cover
  what they could read: every line of frontmatter, section, pack skill,
  installation, dependency, plugin, command, agent and rule; rows that are still
  missing after a back-fill have a reason; the record of a publish is of a valid
  text. What could not be read is passed over without a word (`LossIsTold`, below).
- `AuditIsWhole`: two entries of the scan with one name are reported unless
  excluded or identical copies of the agent pack, a suggested name is taken only
  if all candidates are, and suggestions, result and report on disk belong
  together wherever the audit ended.

Properties about the past (what was established, mailed, installed, accepted,
compared) use history variables, marked so in the modules: the action that
makes the history sets them, and no guard reads them.

Every property was seen to fail on a mutant of the code it is about (a dropped
guard, a step in another place, a check of the wrong field); the faulty forms
stand next to the definitions, with a comment that says so.

Type invariants are proved where a module has proofs (`TypeCorrect`) and are
not repeated in the runs.

Deadlock checking is off throughout: a bounded number of calls ends, and a
process that has exited takes no step.

Symmetry is used where the elements are interchangeable (calls, processes,
identities, edits of one file) and only in runs without liveness.

The bounds. Two calls at a time are what a race needs, and a third or fourth
call (one after the other) is what an undo, a revert or a stale cache needs.
One change by others between two steps is enough to invalidate what a
handler read; where the second matters (`skill_install`, `security_audit`) two
or more are allowed. Clocks run just past the window, day or throttle they are
compared with. The proofs drop these bounds for the modules that have them.

## Where the code and its own words part

One disagreement is a run. `rename_revert_target`: a revert of a collision
without an entry falls back on the only entry of the audit, also if that names
another collision (`rename-engine.revert.ts:82`).

The modules hold more statements that one would expect and the code does not
keep, each under a comment that says so. They are in no run; to see a
counterexample put the name under `INVARIANT` (`PROPERTY` for
`ClosedStaysClosed` and `RevertHitsItsRow`) in the cfg of the run named, in the place of its
properties.

| Statement | Module, run | What happens instead |
|---|---|---|
| `AckedRevertIsDurable` | `ManifestReconcile`, `reconcile_safety` | the ledger is written outside the manifest lock: an overlapping append drops an acknowledged entry |
| `RevertHitsItsRow` | `ManifestReconcile`, `reconcile_safety` | "a revert cannot be aimed at a different row than the action it reverses" (`apply-manifest-reconcile.actions.ts:309`): a batch records its caller's client for the rows of every client (`verify.ts:148`), so the revert of another client's row goes to the caller's. If that row is a copy of the other, stamped in the same batch, its stamp is taken back; if it differs in anything, the revert is refused as `entry_changed`, and cannot be had |
| `GateTellsWhenBlind` | `SkillInstall`, `skill_install` | the gate's problems are there to tell "no collision was found" from "nothing ever looked" (`install.namespace-gate.ts:281`); a directory that cannot be listed is taken for empty (`local-inventory.helpers.ts:424`), and a name in it for free, with no problem |
| `OwnContentOnly` | `SessionUndo`, `session_undo` | two `SKILL.md` files backed up in one millisecond share a backup (`install.conflict-helpers.ts:149`) that "preserves byte-for-byte content for revert" (`:153`), the before hash is taken from what is there by then, and an undo puts one's text into the other |
| `HiccupIsNoUninstall` | `SecurityAudit`, `security_audit` | a skill that could not be audited is "carried forward, NOT pruned" (`security-audit.ts:173`), but not when its directory cannot be listed: the baseline forgets it, and the rug-pull after it is a first sight |
| `AckedRenameIsRevertible` | `RenameEngine`, `rename_safety` | of two overlapping renames one ledger entry is lost, and with it the way back |
| `MergeKeepsEdits` | `SkillInstall`, `skill_install` | `merge` writes over an edit without a backup: nothing calls the three-way merge |
| `ReinstallKeepsRename` | `SkillInstall`, `skill_install` | an install of a renamed skill's old name brings the old name back |
| `DeniedWasNotAdmin` | `TeamTools`, `team_tools` | the update that changed no row is explained by a later query, and an admin is told to ask an admin |
| `LiveZerosMeanMember` | `TeamTools`, `team_tools` | a caller outside the team is shown zeros as live data (`analytics.actions.ts:73`) |
| `EditTextIsFilesOwn` | `InventoryAudit`, `local_services` | an edit may name one file and quote the other |
| `SemanticNamesOverlap` | `InventoryAudit`, `local_services` | the flag may name entries that do not overlap themselves |
| `ClosedStaysClosed` | `LlmFailover`, `local_services` | an initialisation under way stores its provider after `close()` |
| `NothingQueuedAtExit` | `WebhookEndpoints`, `local_services` | events answered as queued are cleared at exit |
| `SafeOnlyHolds` | `SkillQueries`, `local_services` | with the registry at hand `safe_only` and `max_risk` leave nothing out |
| `InstalledIsNotOffered` | `SkillQueries`, `local_services` | names found on disk are compared with registry ids, and never equal one |
| `RetryCanHelp` | `LocalSkills`, `local_services` | "run again" is advised where nothing was in the way (`outdated.identity.ts:189`) |
| `DiffSeesEverySection` | `LocalReports`, `local_services` | of two sections with one title only the last is compared |
| `DriftIsSeen` | `LocalReports`, `local_services` | a newest row without a version hides older ones (`skill-pack-audit.ts:163`) |
| `RenameHelps` | `LocalReports`, `local_services` | the suggested name still holds the generic word |
| `ExportIsRecent` | `LocalReports`, `local_services` | exports are described as defaulting to the last day or hour, and do not |
| `SummaryIsRight` | `LocalReports`, `local_services` | the summary counts sparse skills once and installations each |
| `ReportIsOneMoment` | `LocalReports`, `local_services` | events logged during the report are in one part of it and not in the other |
| `LossIsTold` | `SkillFiles`, `local_services` | a directory that cannot be listed is as good as empty (`local-inventory.helpers.ts:424`, `local-inventory.ts:430`) |
| `EscapeIsTrue` | `SkillFiles`, `local_services` | a plugin without a skills or cache directory is said to lead outside |
| `AuthorIsFound` | `SkillFiles`, `local_services` | the inventory reads `skills` or `installed` of the manifest; the server writes `installedSkills` |
| `ValuesStayTheirs` | `SkillFiles`, `local_services` | block text above a list's items ends up with the next key |
| `RecordIsOfTheFile` | `SkillFiles`, `local_services` | the checksum on record is of the text read first |
| `EveryReferenceIsTold` | `SkillFiles`, `local_services` | past 20 files nothing is scanned, and nothing says so |
| `ManualCreateIsNeeded` | `SkillFiles`, `local_services` | a repository made without an address in the output is to be made again by hand |

Other things met while modelling, which no statement above covers: a rename of a
colliding skill whose name has no letter a-z or digit is suggested to the name it
has, as there is no candidate (`run-inventory-audit.detectors.ts:71`); `recommend`
promises a local fallback when the registry fails, but answers with local rows
alone while online (`recommend.ts:99`), and its local source ignores the
quarantine, as does `get_skill` online; `search` trusts the `installable`
column where `get_skill` derives it from the repository; an official skill gets
no verified bonus in `skill_compare`; `skill_validate` reads a block scalar as
a list and rejects it; `skill_rescan` writes dependency rows under
`local/<name>`, so that running it, as the compliance report advises, does not
fill the rows of registry ids; it follows `SKILLSMITH_CLIENT` while the index
always scans the canonical client; a `.md` file removed during the scan fails
a whole publish; `index_local`'s `fromCache` is always false.

## Proofs

Each proof is for every value of the constants under the assumptions named in
the module that declares them (distinct model values, well-formed requests and
initial states), with any number of calls, names, writes, triggers or refreshes.

- `ManifestReconcile_proofs`. Type correctness is inductive by itself.
  `VerifiedIdentityWasChecked`, the first half of `RecordsAreTrue`, is not: a
  stamp passes through a call's comparison, the row, the ledger's recorded
  states and, by a revert, back to the row, so the invariant speaks of all four
  and of what a call in flight carries. The other half needs that a call about
  to append has saved what it appends. `OnlyOwnRowsChange` and
  `RevertNeverClobbers` are action properties that follow from the type
  invariant and from what a call holds while it has the lock.
- `ServerAndTeam_proofs`, the server. One invariant ties the phase of the
  shutdown to the timers and to the database: once the closing save begins
  neither autosave nor sync can write. The identity theorems rest on every refresh in flight having
  a generation not above the counter.
- `RenameEngine_proofs`. `Inv` is `TypeOK`, `LedgerNeverAhead` itself,
  `ReadsTookPlace` (what a call has read from the ledger did happen, needed
  because a call writes back what it read) and `TargetFree` (the target a call
  is about to take is free unless it was overtaken). For `LedgerAndDiskAgree`
  a second invariant, `Agreement`, compares ledger and disk before the first
  change of a call, and what the call is about to leave of both after it. What
  makes it inductive is `Balanced`: from any entry on, no more artifacts have
  come to a name than have left it or are there. A
  revert takes back one arrival and one departure with its entry, and `Moved`
  moves one artifact. The assumption on the initial states is
  `RenameAssumption` with `Standing`.
- `SessionUndo_proofs`. Nothing is assumed of when backups are taken. The
  invariant says that whatever a call has read, backed
  up or hashed is a content of its own file with the user's text as it is now
  (`Fresh`), and that before and after of a changeset hold the same text of the
  user's (`Reversible`). Both are given up for a file whose backup was replaced
  during its edit (`crossed`), and the user's text also for one that was changed
  while a call worked on it (`raced`). A backup that is replaced later no longer
  has the recorded hash, so that no undo loads it. A number given to each call keeps the stack free
  of duplicates. `StackAndFilesAgree` needs `Following` besides: undisturbed,
  the entries of a file on the stack are a chain of versions (`Chained`: each
  starts from the version that the ones below it left), the file is at the
  last of them unless a call is between its write and the stack (`Ahead`), and
  the call at work knows the stack and the backup as they are.
- `SkillInstall_proofs`. Type correctness goes with `Named` (a call at work has
  a name). `GateInv` says that past the gate a call under a taken
  name has a problem to report; `ShieldInv` that until the core service has
  written, the edit a cancelling call came in on is where it was, and the call
  is on its way to find it or has a problem to report; `BackupInv` says at which place the backup of each call
  stands in its directory, counting the newer ones, so that pruning by another
  call removes only what `KeepCount` newer ones have pushed out.
- `RequestGates_proofs`. `LicenseInv`: whatever a lookup ends with was
  established or only stands in for an answer, and only what was established is
  kept in place of an established licence. `ConsentInv` ties the promise to
  the prompt and the gates; `QuotaInv` counts, per account, the calls between
  check and increment, so that the overrun is at most the other calls in
  flight. `NewestInv` says that while lookups did not overlap one is out at a
  time, and that it has seen the account no earlier than what is cached.
  `LiveTierPassesBothChecks` is about the two ways the code checks a tier and
  needs no state.
- `SecurityAudit_proofs`. `StoreImplementsRegister` is the refinement: each
  step of the store is a step of the register or a stutter. `StoreInv` says
  that who is in the critical section owns the lock and has loaded what the
  file holds, unless the file was changed without the lock. `NewestIdempotent`
  (a trimmed store is not trimmed again) is what makes the written file equal
  to what is in force. `AuditInv` carries over an audit that a skill accepted
  is backed by the snapshot, and that the baseline is what audits alone have
  read, but for skills that an audit has missed since.
- `ServerAndTeam_proofs`, the team tools. `TeamInv` says of each call under way
  what it knows by now, in a conjunct for each family: a publish that reads its
  row back has written it (`PublishTrue`), a delete that asks why nothing went
  faces a workspace that is gone if its caller held the permission
  (`DeleteTrue`), a share past its policy check was allowed, or there was no
  policy to read (`ShareTrue`), a report has put no more into its answer than
  its level discloses (`ReportTrue`), and who is recorded as having been in or
  out of the team all along is so now (`SeatTrue`). One lemma for each action
  shows that its own call stays true; that the calls of everybody else do
  follows once for all (`CallKept`) from `Grow`: rows are never withdrawn, an
  approved version stays approved, and a workspace that is gone stays gone.
  `OnlyAuthorityWidens` is an action property: a lemma about `Effective`, the
  permission that rows of either form add up to, shows that no row this code
  writes can widen it unless an owner or an admin calls. `BatchAssumption`: a
  call names at least one permission (`rbac-tools.action.ts:323`);
  `TeamAssumption`: the name for "none" names nothing else.
- `LocalServices_proofs`. `PartsAlone` first: a behaviour of the composition is,
  for each part, a behaviour of that part alone. Then each part has an invariant
  of its own.
  - `OnboardingInv`: all that a start carries on its way to the status file or
    the welcome had a directory when it was taken up.
  - `MailInv`: a hash on file, or read from it, is of a digest that was mailed
    or of one without findings; the latter never equals that of a digest with
    findings, as the counts differ (`EntriesAssumption`: they are finite).
  - `LlmTypeOK` is enough for `HealthAnswerIsTrue`, an action property.
  - `LocalInv`: what is condemned is quarantined under the name it has, and the
    index knows by its present name what was not edited since it was made
    (`CacheTtlAssumption`: its lifetime is a number).
  - `SuggestionInv`: unless something was lost, the file knows of every
    suggestion, of today's count and of every refusal, and an engine holds what
    it read but for the count of a day that is over (`PacingAssumption`).
  - `OutdatedInv`: entries are looked at one after another, and each verdict
    has its evidence (`RowAssumption`: the rows are finite; `HashAssumption`:
    what stands for no hash is none).
  - `AuditInv`: the flags are those of the snapshot, less what was left out;
    suggestions belong to a flag; the directory has what the audit has passed
    (`SlotAssumption`: but for rules, one slot for one path).
  - `WebhookInv`: in its window the limiter holds what it let through, and
    `Total` over any window is within the limit. `Total` is a fold, so the
    lemmas about it (`TotalIsSum` and those after it) are inductions over the
    sets of ticks, done by a minimal counterexample (`WindowAssumption`).
  - The answers of `SkillQueries` depend on no earlier state; what is needed is
    what a filtered and sorted list is. `Arranged` and `Kept` say it of the
    places of a list, in the code's terms: what is kept stays in order, and
    what ranks alike stays as it was found. `ArrangedOnce`: by a strict total order on finitely
    many places there is one such list, and it has every place once (an
    induction over the set of places, done by a minimal counterexample). From it follow what a
    page holds (`PageIsRanked`), what two sources merge to (`IsMerged`), and what
    filters leave (`IsOfRole`, `Fits`). `PointsCount` adds up the points of a
    comparison either way round. `QueryAssumption`: the limits are numbers, as they are in the
    code (10, 100, 100).
  - `ReportInv` and `FileInv` carry the answers of `LocalReports` and
    `SkillFiles`. Three kinds of argument are needed. What is read line by line
    (frontmatter, twice, and the rules of a CLAUDE.md) is a recursive function of
    the lines in the model, and `StepsUnfold` shows, by a minimal
    counterexample, that such a function takes the steps it is written with;
    from there `ReadSoFar` says after each line what its meaning so far is
    (`SpokenOf`: the key that is spoken of; `ReadAs`: what the keys hold), and
    `CapturedTo` the same of rules. That the index holds what was validated is a
    simulation: `Alike` relates the states of the two parsers after each line
    and, on plain frontmatter, every line preserves it (`NextAlike`). The bill of materials
    and publishing take several steps and have invariants of their own:
    `BomInv` (`RowsKnown`: who has no rows was tried or is still to be) and
    `PublishInv` (`CallHonest`: what a call has seen it warns of, and what it
    tells of the repository was so). The rest is set algebra:
    `DiffTold`, `PackTold`, `InventoryTold`. `ReportAssumption` and
    `FilesAssumption` give the shapes of lines, sections and directory entries,
    and say that the name of a key is not empty, that a SKILL.md which declares
    dependencies declares some, and that names tell directories and plugins apart.

What the proofs do not cover:

- Liveness (`CallsEndUnlocked`, `TriggerEndsProcess`, `GatesSettle`), which is
  out of the prover's reach and is checked by TLC.
- What the table above lists as not kept by the code, and
  `RevertUndoesItsCollision`, are false.

## Not modelled, and why

- Formatting, schemas, logging, telemetry payloads, install tips and the text
  of messages; `middleware/csp.ts` and `degradation.ts`, which nothing imports.
- Integration tools: the stub always answers, as nothing sets the real service.
- Health checks, URL and input validators, `tool profile`: pure functions of
  their input.
- `merge.ts` with `handleMergeAction`, `LocalIndexer.search`, its quality
  score, `audit/framework-adapter.ts`, `context/project-detector.ts` and the panels of
  top, stale and co-occurring skills: no caller, or nothing depends on them.
- `skill_audit`, `inventory_push`, `publish_private`, the release of a
  registry skill's content: one query or one request, and its text.
- The routing table from tool names to handlers, beside the gates each tool passes.
- The hosted database itself and `@skillsmith/core`: external, modelled by what
  this code relies on.
- The content of a damaged ledger: that it is replaced is done on purpose,
  after a warning.
- In `SessionUndo`: changesets of the rename tool, and the ledger entry an edit
  writes.
- How similar two texts are, what the scanner finds, which words are generic:
  constants, with the cases the code tells apart.

## Plan

What would be worth adding next, in this order: the changesets of the rename
tool in `SessionUndo`, composed with the override ledger of `RenameEngine`;
the team tools with two families at a time, which the proofs allow and the run
does not reach.
