--------------------------- MODULE InventoryAudit ---------------------------
(***************************************************************************)
(* runInventoryAudit: scan the skills, commands, agents and CLAUDE.md      *)
(* rules on this machine, flag names that collide, suggest renames and     *)
(* edits, and persist the result for the apply tools.  The scan is one     *)
(* synchronous snapshot; later passes read the files again, and the user   *)
(* works on them meanwhile.                                                *)
(***************************************************************************)
EXTENDS Naturals, Sequences, FiniteSets

CONSTANTS
  Slot,            \* what a scan can find, numbered in the order of the sorted inventory
  SlotKind, SlotPath, SlotMtime,
  SlotContent,     \* SlotContent[s]: what can be at s: [name, text, rot]
  AgentPack,       \* AGENT_PACK_SKILL_NAME
  GenericName,     \* names the stop list of trigger words matches
  Author, Tag,     \* what the manifest says of a name, "" for nothing
  Lowered,         \* toLowerCase, for the names it changes
  Trimmed,         \* trim, for the names it changes
  Sanitized,       \* sanitizeSegment, for the names it changes: <<>> when no letter or digit is left
  TooLong,         \* the names of more than 128 characters
  Excludable,      \* the sets of names the exclusions file may hold
  MaxUserEdits     \* bound

\* Only rules of CLAUDE.md share a file: skills, commands and agents have one each.
ASSUME SlotAssumption ==
  /\ IsFiniteSet(Slot) /\ SlotMtime \in [Slot -> Nat]
  /\ \A s, t \in Slot : SlotKind[s] # "claude_md_rule" /\ SlotPath[s] = SlotPath[t] => s = t

VARIABLES
  disk,        \* disk[s]: a content, or NoContent
  exclusions,  \* the names in the exclusions file
  scan,        \* the audit under way
  auditDir,    \* ~/.skillsmith/audits/<auditId>: what has been written
  userEdits

inventoryVars == <<disk, exclusions, scan, auditDir, userEdits>>

NoContent == [name |-> <<>>, text |-> "", rot |-> FALSE]
NoScan == [at |-> "idle", entries |-> {}, exact |-> {}, generic |-> {}, semantic |-> {}, rot |-> {},
           renames |-> {}, edits |-> {}, copies |-> {}, excluded |-> {}]
\* A file that is there is a set of one.
EmptyDir == [result |-> {}, report |-> {}, suggestions |-> {}]

InventoryInit ==
  /\ disk \in [Slot -> (UNION {SlotContent[s] : s \in Slot}) \cup {NoContent}]
  /\ \A s \in Slot : disk[s] \in SlotContent[s] \cup {NoContent}
  /\ exclusions = {} /\ scan = NoScan /\ auditDir = EmptyDir /\ userEdits = 0
-----------------------------------------------------------------------------
(* scanLocalInventory.                                                     *)

entry(s) == [slot |-> s, kind |-> SlotKind[s], source_path |-> SlotPath[s],
             identifier |-> disk[s].name, text |-> disk[s].text]

\* A directory or file that cannot be read is left out without a word.
scanLocalInventory(unread) ==
  {entry(s) : s \in {t \in Slot : disk[t] # NoContent /\ SlotPath[t] \notin unread}}

lower(name) == IF name \in DOMAIN Lowered THEN Lowered[name] ELSE name

normalizeIdentifier(name) == lower(IF name \in DOMAIN Trimmed THEN Trimmed[name] ELSE name)

\* The paths of the entries, and the names of those that are CLAUDE.md rules.
deriveCollisionId(es) ==
  LET Key(e) == <<e.source_path, IF e.kind = "claude_md_rule" THEN e.identifier ELSE <<>> >> IN
  [k \in {Key(e) : e \in es} |-> Cardinality({e \in es : Key(e) = k})]

detectExactCollisions(es) ==
  LET Bucket(n) == {e \in es : normalizeIdentifier(e.identifier) = n} IN
  {[collisionId |-> deriveCollisionId(Bucket(n)), entries |-> Bucket(n)] :
     n \in {m \in {normalizeIdentifier(e.identifier) : e \in es} \ {<<>>} : Cardinality(Bucket(m)) >= 2}}

detectGenericTokenFlags(es) ==
  {[collisionId |-> deriveCollisionId({e}), entry |-> e] : e \in {f \in es : f.identifier \in GenericName}}

\* findAllOverlaps, of the core package: entries whose descriptions say the same.
overlapping(e, f) == e.text # "" /\ e.text = f.text

\* An overlap is found by the paths of its entries: the last entry of a path stands for it.
byPath(es, path) == CHOOSE e \in es : /\ e.source_path = path
                                      /\ \A f \in es : f.source_path = path => f.slot <= e.slot

detectSemanticCollisions(es, exact) ==
  LET ExactPair(e, f) == \E flag \in exact : \E x, y \in flag.entries :
                           x # y /\ x.source_path = e.source_path /\ y.source_path = f.source_path
      A(pair) == byPath(es, pair[1].source_path)
      B(pair) == byPath(es, pair[2].source_path) IN
  {[collisionId |-> deriveCollisionId({A(pair), B(pair)}), entryA |-> A(pair), entryB |-> B(pair)] :
     pair \in {p \in es \X es : /\ p[1].slot < p[2].slot /\ overlapping(p[1], p[2])
                                /\ ~ExactPair(p[1], p[2])}}

\* detectCollisions.  Without deep the tier's mode is preventative: no semantic pass.
ScanAndDetect(deep, unread) ==
  LET es == scanLocalInventory(unread)
      exact == detectExactCollisions(es) IN
  /\ scan.at = "idle"
  /\ scan' = [NoScan EXCEPT !.at = "dedupe", !.entries = es, !.exact = exact,
                !.generic = detectGenericTokenFlags(es),
                !.semantic = IF deep THEN detectSemanticCollisions(es, exact) ELSE {}]
  /\ auditDir' = EmptyDir
  /\ UNCHANGED <<disk, exclusions, userEdits>>
-----------------------------------------------------------------------------
(* The passes that read the files again.                                   *)

\* Faulty: the name alone shows that it is the agent pack.
isAgentPackByName(flag) == \A e \in flag.entries : e.kind = "skill" /\ e.identifier = AgentPack

\* Identical copies of the agent pack; what cannot be read is no copy.
isAgentPackSelfCollision(flag) ==
  /\ \A e \in flag.entries : /\ e.kind = "skill" /\ e.identifier = AgentPack
                             /\ disk[e.slot] # NoContent
  /\ Cardinality({disk[e.slot] : e \in flag.entries}) = 1

dedupeAgentPackCollisions ==
  LET Own == {flag \in scan.exact : isAgentPackSelfCollision(flag)} IN
  /\ scan.at = "dedupe"
  /\ scan' = [scan EXCEPT !.at = "rot", !.exact = @ \ Own,
                \* history: what really was identical
                !.copies = {flag \in Own : Cardinality({disk[e.slot] : e \in flag.entries}) = 1}]
  /\ UNCHANGED <<disk, exclusions, auditDir, userEdits>>

detectRot ==
  /\ scan.at = "rot"
  /\ scan' = [scan EXCEPT !.at = "suggest",
                !.rot = {e \in scan.entries : e.kind # "claude_md_rule" /\ disk[e.slot].rot}]
  /\ UNCHANGED <<disk, exclusions, auditDir, userEdits>>

sanitizeSegment(name) == IF name \in DOMAIN Sanitized THEN Sanitized[name] ELSE name

\* No pack domain is known here: the second tier is skipped.  A name of which nothing
\* is left has no candidates.
generateSuggestionChain(e) ==
  LET prefix == IF Author[e.identifier] # "" THEN Author[e.identifier]
                ELSE IF Tag[e.identifier] # "" THEN Tag[e.identifier] ELSE "local"
      token == sanitizeSegment(e.identifier)
      tier1 == <<prefix>> \o token IN
  IF token = <<>> THEN <<>> ELSE <<tier1, tier1 \o <<SlotPath[e.slot]>> >>

Taken(name, es) == \E e \in es : lower(e.identifier) = lower(name)

\* Faulty: only the entries that collide are looked at.
firstFreeOfFlag(chain, e, flag) ==
  IF chain = <<>> THEN e.identifier
  ELSE IF Taken(chain[1], flag.entries) /\ ~Taken(chain[2], flag.entries) THEN chain[2] ELSE chain[1]

\* suggested: the first free candidate, the first when all are taken, and the name as it
\* is when there are none.
firstFree(chain, e, flag) ==
  IF chain = <<>> THEN e.identifier
  ELSE IF Taken(chain[1], scan.entries) /\ ~Taken(chain[2], scan.entries) THEN chain[2] ELSE chain[1]

\* The newest entry is to be renamed; a rule of CLAUDE.md cannot be, nor a name too long.
buildRenameSuggestions ==
  LET target(flag) == CHOOSE e \in flag.entries :
                        \A f \in flag.entries : SlotMtime[f.slot] <= SlotMtime[e.slot] IN
  {[collisionId |-> flag.collisionId, entry |-> target(flag),
    suggested |-> firstFree(generateSuggestionChain(target(flag)), target(flag), flag)] :
      flag \in {g \in scan.exact : /\ target(g).kind # "claude_md_rule"
                                   /\ target(g).identifier \notin TooLong}}

\* pickQualifierTag: the tag one entry has and the other lacks.
qualifies(e, partner) == Tag[e.identifier] # "" /\ Tag[e.identifier] # Tag[partner.identifier]

\* locateDescription, in a file as it is now.
located(path, text) == \E s \in Slot : SlotPath[s] = path /\ disk[s] # NoContent /\ disk[s].text = text

\* The file of entryA is searched before that of entryB, whichever is the target.
generateEdit(flag) ==
  LET target == IF qualifies(flag.entryA, flag.entryB) THEN flag.entryA ELSE flag.entryB
      other == IF target = flag.entryA THEN flag.entryB ELSE flag.entryA
      found == {p \in {flag.entryA.source_path, flag.entryB.source_path} : located(p, target.text)} IN
  IF ~qualifies(target, other) \/ target.text = "" \/ found = {} THEN {}
  ELSE {[collisionId |-> flag.collisionId, filePath |-> target.source_path, before |-> target.text,
         readFrom |-> IF flag.entryA.source_path \in found THEN flag.entryA.source_path
                      ELSE flag.entryB.source_path]}

runEditSuggester == UNION {generateEdit(flag) : flag \in scan.semantic}

BuildSuggestions ==
  /\ scan.at = "suggest"
  /\ scan' = [scan EXCEPT !.at = "exclude", !.renames = buildRenameSuggestions,
                          !.edits = runEditSuggester]
  /\ UNCHANGED <<disk, exclusions, auditDir, userEdits>>
-----------------------------------------------------------------------------
(* Exclusions and persistence.                                             *)

\* Agents and rules of CLAUDE.md have no form of exclusion.
isExcludedInventoryEntry(e) == e.kind \in {"command", "skill"} /\ e.identifier \in exclusions

\* Faulty: what was suggested for a flag survives it.
keptRenames(flags) == scan.renames

filteredRenames(flags) == {r \in scan.renames : \E f \in flags : f.collisionId = r.collisionId}

filteredEdits(ids) == {e \in scan.edits : e.collisionId \in ids}

applyExclusionsFilter(applyExclusions) ==
  LET LeftOut(e) == applyExclusions /\ isExcludedInventoryEntry(e)
      exact == {f \in scan.exact : \A e \in f.entries : ~LeftOut(e)}
      generic == {f \in scan.generic : ~LeftOut(f.entry)}
      semantic == {f \in scan.semantic : ~LeftOut(f.entryA) /\ ~LeftOut(f.entryB)} IN
  /\ scan.at = "exclude"
  /\ scan' = [scan EXCEPT !.at = "history", !.exact = exact, !.generic = generic,
                !.semantic = semantic, !.rot = {e \in @ : ~LeftOut(e)},
                !.renames = filteredRenames(exact),
                !.edits = filteredEdits({f.collisionId : f \in exact \cup generic \cup semantic}),
                !.excluded = {e \in scan.entries : LeftOut(e)}]
  /\ UNCHANGED <<disk, exclusions, auditDir, userEdits>>

\* detectCollisions counts its flags; every dead reference is a warning more.
summary == [errors |-> Cardinality(scan.exact),
            warnings |-> Cardinality(scan.generic) + Cardinality(scan.semantic)]
summaryWithRot == [summary EXCEPT !.warnings = @ + Cardinality(scan.rot)]

\* The same fold, made again by the renderer of the report.
renderSummaryHeader == [summary EXCEPT !.warnings = @ + Cardinality(scan.rot)]

writeAuditHistory ==
  /\ scan.at = "history"
  /\ auditDir' = [auditDir EXCEPT !.result = {[exact |-> scan.exact, generic |-> scan.generic,
                                               semantic |-> scan.semantic]}]
  /\ scan' = [scan EXCEPT !.at = "report"]
  /\ UNCHANGED <<disk, exclusions, userEdits>>

writeAuditReport ==
  /\ scan.at = "report"
  /\ auditDir' = [auditDir EXCEPT !.report = {renderSummaryHeader}]
  /\ scan' = [scan EXCEPT !.at = "suggestions"]
  /\ UNCHANGED <<disk, exclusions, userEdits>>

writeAuditSuggestions ==
  /\ scan.at = "suggestions"
  /\ auditDir' = [auditDir EXCEPT !.suggestions = {[renames |-> scan.renames, edits |-> scan.edits]}]
  /\ scan' = [scan EXCEPT !.at = "answered"]
  /\ UNCHANGED <<disk, exclusions, userEdits>>

\* A write fails, or the server ends: what was written stays.
AuditEnds ==
  /\ scan.at # "idle"
  /\ scan' = NoScan
  /\ UNCHANGED <<disk, exclusions, auditDir, userEdits>>

UserWorks ==
  /\ userEdits < MaxUserEdits /\ userEdits' = userEdits + 1
  /\ \/ /\ \E s \in Slot : \E c \in SlotContent[s] \cup {NoContent} : disk' = [disk EXCEPT ![s] = c]
        /\ UNCHANGED exclusions
     \/ exclusions' \in Excludable /\ UNCHANGED disk
  /\ UNCHANGED <<scan, auditDir>>

InventoryNext ==
  \/ \E deep \in BOOLEAN, unread \in SUBSET {SlotPath[s] : s \in Slot} : ScanAndDetect(deep, unread)
  \/ dedupeAgentPackCollisions \/ detectRot \/ BuildSuggestions
  \/ \E apply \in BOOLEAN : applyExclusionsFilter(apply)
  \/ writeAuditHistory \/ writeAuditReport \/ writeAuditSuggestions
  \/ AuditEnds \/ UserWorks

-----------------------------------------------------------------------------
SameName(e, f) == normalizeIdentifier(e.identifier) = normalizeIdentifier(f.identifier)

\* When the audit answers, two entries of the scan whose names differ by case and
\* blanks at most are reported, unless the user excluded one of the name, or the files
\* were compared and found identical copies of the agent pack.
NoCollisionHidden == scan.at = "answered" =>
  \A e, f \in scan.entries : e # f /\ SameName(e, f) /\ normalizeIdentifier(e.identifier) # <<>> =>
    \/ \E flag \in scan.exact \cup scan.copies : {e, f} \subseteq flag.entries
    \/ \E x \in scan.excluded : SameName(e, x)

\* Whatever ends the audit on the way: suggestions on disk belong to flags of
\* the result on disk.  A new name that something in the scan has is suggested only
\* when every candidate is taken; a name that cannot be sanitized has no candidate, and
\* is then suggested itself.
SuggestionsApply == \A file \in auditDir.suggestions :
  /\ auditDir.result # {}
  /\ \A r \in file.renames, result \in auditDir.result :
       \E f \in result.exact : f.collisionId = r.collisionId /\ r.entry \in f.entries
  /\ scan.at = "answered" => \A r \in file.renames :
       LET chain == generateSuggestionChain(r.entry) IN
       Taken(r.suggested, scan.entries) => \A i \in DOMAIN chain : Taken(chain[i], scan.entries)

\* The report and the answer give the same counts, and they are those of the
\* findings kept.
CountsAgree == scan.at = "answered" => auditDir.report = {summaryWithRot}

AuditRecordsAgree == SuggestionsApply /\ CountsAgree

\* The audit hides no collision, and its three files and its answer agree.
AuditIsWhole == NoCollisionHidden /\ AuditRecordsAgree

\* Does not hold.  "before" is the text of the file the edit names.
EditTextIsFilesOwn == \A e \in scan.edits : e.readFrom = e.filePath

\* Does not hold.  A semantic flag names two entries that overlap.
SemanticNamesOverlap == \A f \in scan.semantic :
  f.entryA # f.entryB /\ overlapping(f.entryA, f.entryB)

-----------------------------------------------------------------------------
(***************************************************************************)
(* maybeAutoNotifyAudit: once a day a starting server audits the skills    *)
(* and has what it found mailed, unless the same was mailed before.        *)
(***************************************************************************)
CONSTANTS
  Mailer,                \* the servers
  Entries,               \* the entries an audit may flag, 1 .. n in their order
  MAX_DIGEST_FINDINGS,
  MailPause,             \* the 24 hours of shouldAutoPush, in ticks
  MaxDays, MaxThreats    \* bounds

ASSUME EntriesAssumption == IsFiniteSet(Entries)

VARIABLES
  notify,       \* the audit-notify state file
  mailer,       \* mailer[p]: the pass of server p
  threat,       \* what an audit would find now; an accepted finding is "none"
  day, threats,
  mailed        \* history: the digests that were really mailed

mailVars == <<notify, mailer, threat, day, threats, mailed>>

Verdicts == {"suspicious", "malicious", "hostile"}
Idle == [at |-> "idle", read |-> <<>>, digest |-> <<>>]

MailInit ==
  /\ notify = [lastNotifyAt |-> 0, lastDigestHash |-> <<>>]
  /\ mailer = [p \in Mailer |-> Idle]
  /\ threat = [e \in Entries |-> "none"]
  /\ day = 1 /\ threats = 0 /\ mailed = {}
-----------------------------------------------------------------------------
(* buildAuditDigestPayload and hashDigest.                                 *)

verdictRank == [hostile |-> 0, malicious |-> 1, suspicious |-> 2]

\* The counts of the summary are of all findings.
Summary(digest) == [v \in Verdicts |-> Cardinality({e \in Entries : digest[e] = v})]

Flagged(digest) == {e \in Entries : digest[e] # "none"}

\* Strongest first, equals in their order, and no more than the cap.
Findings(digest) ==
  LET Before(e) == {f \in Flagged(digest) :
                      \/ verdictRank[digest[f]] < verdictRank[digest[e]]
                      \/ verdictRank[digest[f]] = verdictRank[digest[e]] /\ f < e} IN
  {<<e, digest[e]>> : e \in {f \in Flagged(digest) : Cardinality(Before(f)) < MAX_DIGEST_FINDINGS}}

\* Faulty: only what is listed.
hashListed(digest) == <<Findings(digest)>>

hashDigest(digest) == <<Summary(digest), Findings(digest)>>
-----------------------------------------------------------------------------
shouldAutoPush(last) == last = 0 \/ day - last >= MailPause

\* Without a hash the one on file is kept.
recordAuditNotify(hash) ==
  notify' = [lastNotifyAt |-> day,
             lastDigestHash |-> IF hash = <<>> THEN notify.lastDigestHash ELSE hash]

Settle(p, how) == mailer' = [mailer EXCEPT ![p].at = how]

\* The state is read before the audit and used after it.  Who is throttled or
\* not logged in does nothing, and records nothing.
ReadNotifyState(p) ==
  /\ mailer[p].at = "idle" /\ shouldAutoPush(notify.lastNotifyAt)
  /\ mailer' = [mailer EXCEPT ![p] = [Idle EXCEPT !.at = "audit", !.read = notify.lastDigestHash]]
  /\ UNCHANGED <<notify, threat, day, threats, mailed>>

\* runSecurityAudit, or a failure, which still counts as the day's attempt.
Audit(p) ==
  /\ mailer[p].at = "audit"
  /\ \/ mailer' = [mailer EXCEPT ![p].at = "compare", ![p].digest = threat] /\ UNCHANGED notify
     \/ recordAuditNotify(<<>>) /\ Settle(p, "failed")
  /\ UNCHANGED <<threat, day, threats, mailed>>

\* Nothing to report, and the clean state is remembered; or the same as last time.
KeepSilent(p) ==
  LET digest == mailer[p].digest IN
  /\ mailer[p].at = "compare"
  /\ \/ Flagged(digest) = {} /\ recordAuditNotify(hashDigest(digest)) /\ Settle(p, "clean")
     \/ /\ Flagged(digest) # {} /\ hashDigest(digest) = mailer[p].read
        /\ recordAuditNotify(<<>>) /\ Settle(p, "deduped")
  /\ UNCHANGED <<threat, day, threats, mailed>>

\* Faulty: the hash is recorded also when the server refused to mail.
PostAndRecord(p) ==
  LET digest == mailer[p].digest IN
  /\ mailer[p].at = "compare" /\ Flagged(digest) # {} /\ hashDigest(digest) # mailer[p].read
  /\ \E sent \in BOOLEAN :
       /\ recordAuditNotify(hashDigest(digest))
       /\ mailed' = IF sent THEN mailed \cup {digest} ELSE mailed
  /\ Settle(p, "posted")
  /\ UNCHANGED <<threat, day, threats>>

\* Consent and a verified address are checked by the server, which may refuse.
Post(p) ==
  LET digest == mailer[p].digest IN
  /\ mailer[p].at = "compare" /\ Flagged(digest) # {} /\ hashDigest(digest) # mailer[p].read
  /\ \E sent \in BOOLEAN :
       /\ recordAuditNotify(IF sent THEN hashDigest(digest) ELSE <<>>)
       /\ mailed' = IF sent THEN mailed \cup {digest} ELSE mailed
  /\ Settle(p, "posted")
  /\ UNCHANGED <<threat, day, threats>>

\* The server process ends, at any point, and another starts.
MailerRestarts(p) ==
  /\ mailer[p].at # "idle"
  /\ mailer' = [mailer EXCEPT ![p] = Idle]
  /\ UNCHANGED <<notify, threat, day, threats, mailed>>

DayPasses == day < MaxDays /\ day' = day + 1 /\ UNCHANGED <<notify, mailer, threat, threats, mailed>>

\* A skill turns, is repaired, or its finding is accepted.
ThreatChanges ==
  /\ threats < MaxThreats /\ threats' = threats + 1
  /\ \E e \in Entries, v \in Verdicts \cup {"none"} : threat' = [threat EXCEPT ![e] = v]
  /\ UNCHANGED <<notify, mailer, day, mailed>>

MailNext ==
  \/ \E p \in Mailer : ReadNotifyState(p) \/ Audit(p) \/ KeepSilent(p) \/ Post(p) \/ MailerRestarts(p)
  \/ DayPasses \/ ThreatChanges

-----------------------------------------------------------------------------
\* A run that keeps silent because "the same was already mailed" found the
\* counts and the strongest findings of a digest that really was mailed.
SilenceWasMailed == \A p \in Mailer : mailer[p].at = "deduped" =>
  \E digest \in mailed : /\ Summary(digest) = Summary(mailer[p].digest)
                         /\ Findings(digest) = Findings(mailer[p].digest)
=============================================================================
