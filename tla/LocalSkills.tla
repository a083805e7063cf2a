---------------------------- MODULE LocalSkills -----------------------------
(***************************************************************************)
(* The skills on this machine as three tools see them: skill_rescan reads  *)
(* them one by one and quarantines what fails, the local index remembers   *)
(* them for a minute, and search leaves out what is quarantined.  The user *)
(* edits the skills, and a reviewer clears quarantine rows, meanwhile.     *)
(***************************************************************************)
EXTENDS Naturals, FiniteSets

CONSTANTS
  SkillDir,      \* directories that may hold a SKILL.md
  DirClient,     \* DirClient[d]: the client whose directory d is in
  DirName,       \* its name, with the parent's for author/skill
  NestedDir,     \* those that are author/skill
  DirContent,    \* DirContent[d]: [name, scan, sibling, needs]: what the user may put there
  CanonicalClient,
  CacheTtl,      \* the minute of LocalIndexer, in ticks
  PageLimit,     \* the limit of a search
  LastTick, MaxEdits, MaxSearches    \* bounds

ASSUME CacheTtlAssumption == CacheTtl \in Nat

VARIABLES
  local,       \* local[d]: the content of d, or NoSkill
  client,      \* SKILLSMITH_CLIENT: skill_rescan follows it, the index does not
  quarantine,  \* the rows of the quarantine table: [key, severity, status]
  dependency,  \* the rows of skill_dependencies: <<key, needed>>
  index,       \* LocalIndexer: cachedSkills and lastIndexTime
  rescan,      \* the rescan under way
  page,        \* the local rows of the last answer of search
  wallClock, edits, searches,
  changedAt,   \* history: when d was last edited
  condemned    \* history: the directories that failed a rescan as they are, with nobody clearing them

localVars == <<local, client, quarantine, dependency, index, rescan, page, wallClock, edits, searches,
               changedAt, condemned>>

NoSkill == [name |-> "", scan |-> "none", sibling |-> FALSE, needs |-> ""]
NoRescan == [at |-> "idle", targets |-> {}, dir |-> "", read |-> NoSkill]
EmptyCache == [time |-> 0, skills |-> {}]

LocalInit ==
  /\ local \in [SkillDir -> (UNION {DirContent[d] : d \in SkillDir}) \cup {NoSkill}]
  /\ \A d \in SkillDir : local[d] \in DirContent[d] \cup {NoSkill}
  /\ client \in {DirClient[d] : d \in SkillDir}
  /\ quarantine = {} /\ dependency = {} /\ index = EmptyCache /\ rescan = NoRescan /\ page = {}
  /\ wallClock = 1 /\ edits = 0 /\ searches = 0
  /\ changedAt = [d \in SkillDir |-> 0] /\ condemned = {}
-----------------------------------------------------------------------------
\* Faulty: the row is filed under the name of the directory.
keyByDirectory(d, content) == DirName[d]

\* The name in the frontmatter wins over the directory's.
localSkillKey(d, content) == IF content.name # "" THEN content.name ELSE DirName[d]

\* The same, in the core package's indexLocalSkill.
indexedKey(d, content) == IF content.name # "" THEN content.name ELSE DirName[d]

isQuarantined(key) == \E row \in quarantine : row.key = key /\ row.status = "pending"
-----------------------------------------------------------------------------
(* skill_rescan.                                                           *)

discoverInstalledSkills == {d \in SkillDir : DirClient[d] = client /\ local[d] # NoSkill}

\* All skills, or those the caller names; no such skill is an answer.
StartRescan(named) ==
  /\ rescan.at = "idle" /\ named # {} /\ named \subseteq discoverInstalledSkills
  /\ rescan' = [NoRescan EXCEPT !.at = "read", !.targets = named]
  /\ UNCHANGED <<local, client, quarantine, dependency, index, page, wallClock, edits, searches, changedAt,
                 condemned>>

\* The file is read, and what it depends on recorded, which may fail; a skill
\* that is gone is only reported.
ReadSkillMd(d) ==
  /\ rescan.at = "read" /\ d \in rescan.targets
  /\ IF local[d] = NoSkill
     THEN rescan' = [rescan EXCEPT !.targets = @ \ {d}] /\ UNCHANGED dependency
     ELSE /\ rescan' = [rescan EXCEPT !.at = "siblings", !.targets = @ \ {d}, !.dir = d, !.read = local[d]]
          /\ \/ dependency' = IF local[d].needs = "" THEN dependency
                              ELSE dependency \cup {<<localSkillKey(d, local[d]), local[d].needs>>}
             \/ UNCHANGED dependency
  /\ UNCHANGED <<local, client, quarantine, index, page, wallClock, edits, searches, changedAt, condemned>>

\* A threat in a sibling alone is no less than suspicious.
quarantineSeverity(scan, sibling) ==
  CASE scan = "critical" -> "MALICIOUS"
    [] scan = "high" -> "SUSPICIOUS"
    [] OTHER -> IF sibling THEN "SUSPICIOUS" ELSE "RISKY"

\* The siblings are read when their scan has been awaited, the skill was before.
Quarantine ==
  LET d == rescan.dir
      key == localSkillKey(d, rescan.read)
      sibling == local[d].sibling
      passed == rescan.read.scan = "passed" /\ ~sibling IN
  /\ rescan.at = "siblings"
  /\ quarantine' = IF passed \/ isQuarantined(key) THEN quarantine
                   ELSE quarantine \cup {[key |-> key, status |-> "pending",
                                          severity |-> quarantineSeverity(rescan.read.scan, sibling)]}
  /\ condemned' = IF ~passed /\ local[d] = rescan.read THEN condemned \cup {d} ELSE condemned
  /\ rescan' = [rescan EXCEPT !.at = "read", !.dir = "", !.read = NoSkill]
  /\ UNCHANGED <<local, client, dependency, index, page, wallClock, edits, searches, changedAt>>

RescanAnswers ==
  /\ rescan.at = "read" /\ rescan.targets = {}
  /\ rescan' = NoRescan
  /\ UNCHANGED <<local, client, quarantine, dependency, index, page, wallClock, edits, searches, changedAt,
                 condemned>>
-----------------------------------------------------------------------------
(* LocalIndexer and search.                                                *)

\* The canonical client's directory, top level only.
indexedNow == {<<d, indexedKey(d, local[d])>> :
                 d \in {e \in SkillDir \ NestedDir : DirClient[e] = CanonicalClient /\ local[e] # NoSkill}}

\* Faulty: every use renews the cache.
performIndexSliding == IF index.time # 0 /\ wallClock - index.time < CacheTtl
                       THEN [index EXCEPT !.time = wallClock]
                       ELSE [time |-> wallClock, skills |-> indexedNow]

performIndex == IF index.time # 0 /\ wallClock - index.time < CacheTtl THEN index
                ELSE [time |-> wallClock, skills |-> indexedNow]

\* Query, score and category leave some of the skills; those that are
\* quarantined go; the page takes the local rows first.  Whether the rows of the
\* registry come from the API or, when that fails, from the database is all one
\* here.  A trust tier leaves the local skills alone.
Search ==
  /\ searches < MaxSearches /\ searches' = searches + 1
  /\ \/ /\ index' = performIndex
        /\ \E matching \in SUBSET index'.skills :
             LET visible == {s \in matching : ~isQuarantined(s[2])} IN
             page' \in {rows \in SUBSET visible :
                          \/ rows = visible /\ Cardinality(visible) <= PageLimit
                          \/ Cardinality(visible) > PageLimit /\ Cardinality(rows) = PageLimit}
     \/ page' = {} /\ UNCHANGED index
  /\ UNCHANGED <<local, client, quarantine, dependency, rescan, wallClock, edits, changedAt, condemned>>
-----------------------------------------------------------------------------
UserEdits(d) ==
  /\ edits < MaxEdits /\ edits' = edits + 1
  /\ \E content \in DirContent[d] \cup {NoSkill} :
       content # local[d] /\ local' = [local EXCEPT ![d] = content]
  /\ changedAt' = [changedAt EXCEPT ![d] = wallClock] /\ condemned' = condemned \ {d}
  /\ UNCHANGED <<client, quarantine, dependency, index, rescan, page, wallClock, searches>>

\* The rows of one key are approved.
Review ==
  /\ \E key \in {row.key : row \in quarantine} :
       /\ isQuarantined(key)
       /\ quarantine' = {IF row.key = key THEN [row EXCEPT !.status = "approved"] ELSE row : row \in quarantine}
       /\ condemned' = {d \in condemned : localSkillKey(d, local[d]) # key}
  /\ UNCHANGED <<local, client, dependency, index, rescan, page, wallClock, edits, searches, changedAt>>

LocalTick ==
  /\ wallClock < LastTick /\ wallClock' = wallClock + 1
  /\ UNCHANGED <<local, client, quarantine, dependency, index, rescan, page, edits, searches, changedAt, condemned>>

LocalNext ==
  \/ \E named \in SUBSET SkillDir : StartRescan(named)
  \/ \E d \in SkillDir : ReadSkillMd(d) \/ UserEdits(d)
  \/ Quarantine \/ RescanAnswers \/ Search \/ Review \/ LocalTick
-----------------------------------------------------------------------------
\* However rescans, edits and searches interleave: a skill that failed a rescan
\* as it still is, and that nobody cleared, is in no answer of search once the
\* minute of the index after its last edit is over.
CondemnedIsHidden == [][searches' # searches =>
  \A row \in page' : row[1] \in condemned => wallClock - changedAt[row[1]] < CacheTtl]_localVars

-----------------------------------------------------------------------------
(***************************************************************************)
(* skill_outdated and skill_updates: which installed skills differ from    *)
(* the registry.  skill_outdated asks the registry once per entry of the   *)
(* manifest, and the registry, the synchronised history and the files      *)
(* change between two entries; lookups fail, or the monthly quota ends.    *)
(***************************************************************************)
CONSTANTS
  Row,            \* the entries of the manifest, 1 .. n in its order: one per skill and client
  RowSkill,       \* RowSkill[r]: its registry skill; "" for a corrupt entry
  Hash,           \* contents, by their hash
  MaxChanges      \* bound

ASSUME RowAssumption == IsFiniteSet(Row)
\* What stands for the want of a hash is no hash.
ASSUME HashAssumption == Hash \cap {"none", "failed", "quota"} = {}

VARIABLES
  published,  \* published[s]: the hash the registry gives for s, or "none"
  synced,     \* synced[s]: the newest row of skill_versions, or "none"
  onDisk,     \* onDisk[r]: the SKILL.md of an entry, "none" when it cannot be read
  recorded,   \* recorded[r]: the hash the manifest recorded, or "none"
  outdated,   \* the run of skill_outdated
  updates,    \* the run of skill_updates
  changes,
  evidence    \* history: evidence[r]: what the registry and the history said of r in this run

outdatedVars == <<published, synced, onDisk, recorded, outdated, updates, changes, evidence>>
worldVars == <<published, synced, onDisk, recorded, changes>>

Skills == {RowSkill[r] : r \in Row} \ {""}
HashOrNone == Hash \cup {"none"}
NoEvidence == [live |-> {}, synced |-> "none"]
NoRun == [at |-> "idle", offline |-> FALSE, todo |-> {}, quotaExhausted |-> FALSE, quotaFailures |-> 0,
          row |-> 0, localHash |-> "none", answer |-> {}]
NoUpdates == [at |-> "idle", todo |-> {}, installed |-> [s \in Skills |-> {}], answer |-> {},
              manifest |-> [r \in Row |-> "none"]]

OutdatedInit ==
  /\ published = [s \in Skills |-> "none"] /\ synced = [s \in Skills |-> "none"]
  /\ onDisk = [r \in Row |-> "none"] /\ recorded = [r \in Row |-> "none"]
  /\ outdated = NoRun /\ updates = NoUpdates /\ changes = 0 /\ evidence = [r \in Row |-> NoEvidence]

\* compareSkillContentHashes, of the core package.
compareSkillContentHashes(a, b) ==
  IF a = "none" \/ b = "none" THEN "unknown" ELSE IF a = b THEN "current" ELSE "outdated"
-----------------------------------------------------------------------------
(* skill_outdated.                                                         *)

\* An empty manifest, or one that cannot be read, is answered at once.
StartOutdated(offline) ==
  /\ outdated.at = "idle"
  /\ outdated' = [NoRun EXCEPT !.at = "entry", !.offline = offline, !.todo = Row]
  /\ evidence' = [r \in Row |-> NoEvidence]
  /\ UNCHANGED <<worldVars, updates>>

Answer(r, status, installed, latest, reason) ==
  [row |-> r, status |-> status, installed |-> installed, latest |-> latest, reason |-> reason]

\* Faulty: the end of the quota is forgotten.
asksAlways(localHash) == ~outdated.offline /\ localHash # "none"

\* The registry is asked unless it is known that it cannot help.
asksRegistry(localHash) == ~outdated.offline /\ ~outdated.quotaExhausted /\ localHash # "none"

\* The file and the history of the next entry are read.  A corrupt one is unknown.
ReadEntry(r) ==
  /\ outdated.at = "entry" /\ r \in outdated.todo /\ \A q \in outdated.todo : r <= q
  /\ IF RowSkill[r] = ""
     THEN /\ outdated' = [outdated EXCEPT !.todo = @ \ {r},
                            !.answer = @ \cup {Answer(r, "unknown", "none", "none", "no-history")}]
          /\ UNCHANGED evidence
     ELSE /\ outdated' = [outdated EXCEPT !.at = IF asksRegistry(onDisk[r]) THEN "lookup" ELSE "judge",
                            !.row = r, !.localHash = onDisk[r]]
          /\ evidence' = [evidence EXCEPT ![r].synced = synced[RowSkill[r]]]
  /\ UNCHANGED <<worldVars, updates>>

\* lookupSkillFromRegistry never throws: after a failure it gives what the
\* database has, which is no hash.
lookupSkillFromRegistry(s) == {published[s], "none", "failed", "quota"}

\* Faulty: the history stands in for a lookup that failed, too.
historyAnyway(live, historicalHash) == IF live \in Hash THEN live ELSE historicalHash

\* The history stands in for a lookup that was skipped or gave no hash.
registryHash(live, historicalHash) ==
  IF live \in {"failed", "quota"} THEN "none" ELSE IF live # "none" THEN live ELSE historicalHash

deriveUnknownReason(quotaExhausted, live) ==
  IF outdated.offline THEN "offline" ELSE IF quotaExhausted THEN "quota-exhausted"
  ELSE IF live = "failed" THEN "network-error" ELSE "no-history"

\* classifyOutdatedState, of the core package: signals may contradict an update, or
\* be inconclusive, for the registry's want of a record or for a reason it had before.
classifyOutdatedEntry(reason) ==
  ({"outdated", "local-drift", "identity-mismatch"} \X {""}) \cup ({"unknown"} \X {reason, "no-registry-record"})

\* The entry's row of the answer, when the registry said "live".
Judge(live) ==
  LET r == outdated.row
      quotaExhausted == outdated.quotaExhausted \/ live = "quota"
      hash == registryHash(live, evidence[r].synced)
      outcome == compareSkillContentHashes(outdated.localHash, hash)
      reason == deriveUnknownReason(quotaExhausted, live) IN
  \E verdict \in CASE outcome = "outdated" -> classifyOutdatedEntry(reason)
                   [] outcome = "current" -> {<<"current", "">>}
                   [] OTHER -> {<<"unknown", reason>>} :
    outdated' = [outdated EXCEPT !.at = "entry", !.todo = @ \ {r}, !.quotaExhausted = quotaExhausted,
      !.quotaFailures = IF live = "quota" THEN @ + 1 ELSE @, !.row = 0, !.localHash = "none",
      !.answer = @ \cup {Answer(r, verdict[1], outdated.localHash, hash, verdict[2])}]

JudgeWithoutLookup ==
  /\ outdated.at = "judge" /\ Judge("none")
  /\ UNCHANGED <<worldVars, updates, evidence>>

Lookup ==
  /\ outdated.at = "lookup"
  /\ \E live \in lookupSkillFromRegistry(RowSkill[outdated.row]) :
       /\ Judge(live)
       /\ evidence' = [evidence EXCEPT ![outdated.row].live = {live}]
  /\ UNCHANGED <<worldVars, updates>>

\* Faulty: what has a newer version is safe to update in bulk, as it once was.
bulkWhatIsNewer(a) == [safeToBulkUpdate |-> a.status \in {"current", "outdated"}, remediation |-> ""]

\* What the caller is told to do about a row of the answer.
buildOutdatedDiagnosis(a) ==
  [safeToBulkUpdate |-> a.status = "current",
   remediation |-> CASE a.status = "current" -> "none"
                     [] a.status = "outdated" -> "update alone"
                     [] a.status = "local-drift" -> "update or mark local"
                     [] a.status = "identity-mismatch" -> "reconcile"
                     [] a.reason = "no-registry-record" -> "recover source"
                     [] OTHER -> "run again"]

OutdatedAnswers ==
  /\ outdated.at = "entry" /\ outdated.todo = {}
  /\ outdated' = [outdated EXCEPT !.at = "idle"]
  /\ UNCHANGED <<worldVars, updates, evidence>>
-----------------------------------------------------------------------------
(* skill_updates.                                                          *)

\* Faulty: of two clients' hashes the first one found counts.
firstHash(s) == {CHOOSE h \in {recorded[r] : r \in {q \in Row : RowSkill[q] = s}} :
                   h # "none" \/ \A r \in Row : RowSkill[r] = s => recorded[r] = "none"}

\* Two clients may have recorded different hashes for one skill: then none counts.
buildManifestInstalledHashMap(s) ==
  LET hashes == {recorded[r] : r \in {q \in Row : RowSkill[q] = s}} \ {"none"} IN
  IF Cardinality(hashes) = 1 THEN hashes ELSE {"none"}

\* The skills of the manifest, or those the caller names.
StartUpdates(named) ==
  /\ updates.at = "idle" /\ named # {}
  /\ updates' = [NoUpdates EXCEPT !.at = "skill", !.todo = named,
                   !.manifest = recorded,   \* history: what the map was built from
                   !.installed = [s \in Skills |-> buildManifestInstalledHashMap(s)]]
  /\ UNCHANGED <<worldVars, outdated, evidence>>

\* A skill without history is left out.
CompareSkill(s) ==
  /\ updates.at = "skill" /\ s \in updates.todo
  /\ updates' = [updates EXCEPT !.todo = @ \ {s},
       !.answer = IF synced[s] = "none" THEN @
                  ELSE @ \cup {[skill |-> s, latest |-> synced[s],
                     updateAvailable |-> \E h \in updates.installed[s] :
                                           compareSkillContentHashes(h, synced[s]) = "outdated"]}]
  /\ UNCHANGED <<worldVars, outdated, evidence>>

UpdatesAnswer ==
  /\ updates.at = "skill" /\ updates.todo = {}
  /\ updates' = [updates EXCEPT !.at = "idle"]
  /\ UNCHANGED <<worldVars, outdated, evidence>>
-----------------------------------------------------------------------------
\* The registry publishes, the history is synchronised, a client installs, a user edits.
WorldChanges ==
  /\ changes < MaxChanges /\ changes' = changes + 1
  /\ \/ /\ \E s \in Skills, h \in Hash : published' = [published EXCEPT ![s] = h]
        /\ UNCHANGED <<synced, onDisk, recorded>>
     \/ /\ \E s \in Skills : synced' = [synced EXCEPT ![s] = published[s]]
        /\ UNCHANGED <<published, onDisk, recorded>>
     \/ \E r \in {q \in Row : RowSkill[q] # ""} :
          /\ \/ \E h \in HashOrNone : onDisk' = [onDisk EXCEPT ![r] = h] /\ UNCHANGED recorded
             \/ /\ onDisk' = [onDisk EXCEPT ![r] = published[RowSkill[r]]]
                /\ recorded' = [recorded EXCEPT ![r] = published[RowSkill[r]]]
          /\ UNCHANGED <<published, synced>>
  /\ UNCHANGED <<outdated, updates, evidence>>

OutdatedNext ==
  \/ \E offline \in BOOLEAN : StartOutdated(offline)
  \/ \E r \in Row : ReadEntry(r)
  \/ Lookup \/ JudgeWithoutLookup \/ OutdatedAnswers
  \/ \E named \in SUBSET Skills : StartUpdates(named)
  \/ \E s \in Skills : CompareSkill(s)
  \/ UpdatesAnswer \/ WorldChanges
-----------------------------------------------------------------------------
\* A lookup that failed never ends in a verdict, the history speaks only where
\* the registry was silent, and one failure for the quota is the last question.
OutdatedHasEvidence ==
  /\ outdated.quotaFailures <= 1
  /\ \A a \in outdated.answer : a.status # "unknown" =>
       \/ evidence[a.row].live = {a.latest}
       \/ evidence[a.row].live \subseteq {"none"} /\ a.latest = evidence[a.row].synced

\* skill_updates reports an update only when the manifest it read had the newest
\* hash for no client, however far another client lags behind.
UpdateIsUnambiguous == \A a \in updates.answer : a.updateAvailable =>
  \A r \in Row : RowSkill[r] = a.skill => updates.manifest[r] # a.latest

\* A bulk update is only advised where it would write what is there, and an update of
\* one skill only against another content that the registry or the history gave in this run.
DiagnosisIsSafe == \A a \in outdated.answer :
  LET diagnosis == buildOutdatedDiagnosis(a) IN
  /\ diagnosis.safeToBulkUpdate => a.installed \in Hash /\ a.installed = a.latest
  /\ diagnosis.remediation \in {"update alone", "update or mark local"} =>
       /\ a.installed \in Hash \ {a.latest}
       /\ a.latest \in evidence[a.row].live \cup {evidence[a.row].synced}

OutdatedVerdicts == OutdatedHasEvidence /\ UpdateIsUnambiguous /\ DiagnosisIsSafe

\* Not so: to run again is also the advice where nothing was in the way, as for a
\* corrupt entry or a file that cannot be read (outdated.identity.ts:189).
RetryCanHelp == \A a \in outdated.answer :
  buildOutdatedDiagnosis(a).remediation = "run again" => a.reason # "no-history"
=============================================================================
