---------------------------- MODULE LocalReports ----------------------------
(***************************************************************************)
(* The tools that report on what lies on this machine: skill_validate,     *)
(* skill_diff, skill_pack_audit, the audit-log tools and                   *)
(* compliance_report.  All but the last answer in one go; compliance_report*)
(* reads the log, the manifest and the dependency table one after another, *)
(* while they change, and may write the dependencies it finds missing.     *)
(***************************************************************************)
EXTENDS Integers, SequencesExt

CONSTANTS
  FrontLine,         \* lines of frontmatter: [kind, key, value]
  MaxLines,          \* bound on the frontmatter of a question
  ScanFindings,      \* what the other scans may find in a skill and the files beside it
  Section,           \* sections of a skill: [title, body]
  MaxSections,       \* bound on the sections of a version
  PackSkill,         \* skills of a pack: [name, description, tags, version, recorded]
  MaxPack,           \* bound on the skills of a pack
  PackDomain,        \* PackDomain[pack]: the prefix of "-skills" when it says something, else ""
  GenericTrigger, GenericNamespace,   \* GENERIC_TRIGGERS, of the core package
  Overlaps,          \* pairs of a pack name and a token of which one contains the other
  Installation,      \* entries of the manifest
  InstalledId,       \* InstalledId[i]: the skill installed there
  Pathless,          \* entries that do not say where
  Extracted,         \* Extracted[s]: the dependencies of its SKILL.md: [target, kind, source]
  MaxHappenings      \* bound on what happens during a report

\* A line has a key if it is one with a key; a section is a title and its text; the words
\* of a skill are finitely many; and a SKILL.md that declares, declares something.
ASSUME ReportAssumption ==
  /\ FrontLine \subseteq [kind : {"scalar", "open", "block", "item", "text"}, key : STRING, value : STRING]
  /\ \A line \in FrontLine : line.kind \in {"scalar", "open", "block"} => line.key # ""
  /\ Section \subseteq [title : STRING, body : STRING]
  /\ \A s \in PackSkill : IsFiniteSet(s.name) /\ IsFiniteSet(s.description)
  /\ \A i \in Installation : Extracted[InstalledId[i]] # {}
  /\ MaxLines \in Nat /\ MaxSections \in Nat /\ MaxPack \in Nat

VARIABLES
  answer,     \* the answer of the tools that need one step
  bom,        \* the run of compliance_report
  events,     \* events in the audit log
  manifest,   \* the installations on record
  depRows,    \* depRows[s]: the rows of skill_dependencies
  skillFile,  \* skillFile[i]: "unreadable", "plain" or "declares"
  happenings

reportVars == <<answer, bom, events, manifest, depRows, skillFile, happenings>>

NoAnswer == [tool |-> "none"]
Ids == {InstalledId[i] : i \in Installation}
NoBom == [at |-> "idle", format |-> "json", backfill |-> FALSE, native |-> TRUE, total |-> 0, activity |-> 0,
          skills |-> {}, had |-> {}, read |-> [s \in Ids |-> {}], sparse |-> {}, todo |-> {}, tried |-> {},
          wrote |-> {}, edges |-> {}, source |-> [s \in Ids |-> "none"], summary |-> "none"]

ReportInit ==
  /\ answer = NoAnswer /\ bom = NoBom /\ events = 0 /\ manifest = Installation /\ happenings = 0
  /\ depRows = [s \in Ids |-> {}] /\ skillFile = [i \in Installation |-> "declares"]

Asked == answer = NoAnswer /\ bom.at = "idle" /\ UNCHANGED <<bom, events, manifest, depRows, skillFile, happenings>>
\* The text that is asked about is the argument: the world is nothing to the answer.
AskedOfText == Asked /\ happenings = 0
UpTo(set, n) == UNION {[1 .. k -> set] : k \in 0 .. n}
-----------------------------------------------------------------------------
(* Frontmatter, as skill_validate and skill_pack_audit read it.  Nesting is *)
(* not seen: an indented key is a key.                                      *)

Unread == [result |-> [k \in {} |-> 0], key |-> "", buffer |-> <<>>, block |-> FALSE]

With(result, key, kind, values) ==
  [k \in DOMAIN result \cup {key} |-> IF k = key THEN [kind |-> kind, values |-> values] ELSE result[k]]

\* A key that collected nothing is not there.
Flushed(st) ==
  IF st.key = "" \/ st.buffer = <<>> THEN st
  ELSE [st EXCEPT !.result = With(@, st.key, "array", st.buffer), !.buffer = <<>>]

\* Faulty: a scalar does not end the key before it.
ParseLineOn(st, line) ==
  CASE line.kind = "item" -> IF st.key = "" THEN st ELSE [st EXCEPT !.buffer = Append(@, line.value), !.block = FALSE]
    [] line.kind = "text" -> IF st.block THEN [st EXCEPT !.buffer = Append(@, line.value)] ELSE st
    [] line.kind = "scalar" ->
         [Flushed(st) EXCEPT !.result = With(@, line.key, "scalar", <<line.value>>)]
    [] OTHER -> [Flushed(st) EXCEPT !.key = line.key, !.buffer = <<>>, !.block = line.kind = "block"]

\* A list item ends a block; the text after it belongs to nothing.
ParseLine(st, line) ==
  CASE line.kind = "item" -> IF st.key = "" THEN st ELSE [st EXCEPT !.buffer = Append(@, line.value), !.block = FALSE]
    [] line.kind = "text" -> IF st.block THEN [st EXCEPT !.buffer = Append(@, line.value)] ELSE st
    [] line.kind = "scalar" ->
         [Flushed(st) EXCEPT !.result = With(@, line.key, "scalar", <<line.value>>),
                             !.key = "", !.block = FALSE]
    [] OTHER -> [Flushed(st) EXCEPT !.key = line.key, !.buffer = <<>>, !.block = line.kind = "block"]

\* What is read after each line.
Parsed(lines) ==
  LET after[n \in 0 .. Len(lines)] == IF n = 0 THEN Unread ELSE ParseLine(after[n - 1], lines[n]) IN after

parseYamlFrontmatter(lines) == Flushed(Parsed(lines)[Len(lines)]).result
-----------------------------------------------------------------------------
(* skill_validate.  A value is "ok" or "bad": malformed, too long, with a   *)
(* dangerous pattern.                                                       *)

Has(metadata, field) == field \in DOMAIN metadata
IsList(metadata, field) == Has(metadata, field) /\ metadata[field].kind = "array"
IsBad(metadata, field) == Has(metadata, field) /\ "bad" \in ToSet(metadata[field].values)

As(fields, severity) == {<<f, severity>> : f \in fields}
Missing(metadata, fields) == {f \in fields : ~Has(metadata, f)}

\* What a published skill should say, and what no field may hold.
recommendedAndSafe(metadata, strict) ==
  (IF strict \/ Has(metadata, "version") THEN As(Missing(metadata, {"repository", "compatibility"}), "warning") ELSE {})
  \cup As({f \in {"compatibility"} : IsList(metadata, f) /\ IsBad(metadata, f)}, "warning")
  \cup As({f \in {"repository", "homepage"} : IsList(metadata, f)}, "error")
  \cup As({f \in DOMAIN metadata : ~IsList(metadata, f) /\ IsBad(metadata, f)}, "error")

validateMetadata(metadata, strict) ==
  As(Missing(metadata, {"name", "version"}), "error")
  \cup As({f \in {"name", "description", "author", "version"} : IsList(metadata, f) \/ IsBad(metadata, f)}, "error")
  \cup As({f \in {"tags"} : Has(metadata, f) /\ (~IsList(metadata, f) \/ IsBad(metadata, f))}, "error")
  \cup As(Missing(metadata, {"description"}), IF strict THEN "error" ELSE "warning")
  \cup (IF strict THEN As(Missing(metadata, {"tags"}), "warning") ELSE {})
  \cup recommendedAndSafe(metadata, strict)

\* Files beside the SKILL.md whose text install would refuse: a document quotes attacks, a
\* configuration is checked elsewhere, and of a package.json only the hooks that run at
\* install are scanned.
scanBundledSiblings(rejectable) == As(rejectable \cap {"script", "hook"}, "error")

\* A name close to a known one; the list of those may be empty, and a name may be missing.
scanTyposquatName(found, named) == IF named THEN As(found \cap {"typosquat"}, "warning") ELSE {}

\* What the other scans find: a name that is not the directory's, a reference to CLAUDE.md
\* or to a server that is not declared, a deprecated field.
otherScans(found, named) ==
  As(found \cap IF named THEN {"directory"} ELSE {}, "error")
  \cup As(found \cap {"claudeMd", "mcp", "composes"}, "warning")
  \cup scanBundledSiblings(found) \cup scanTyposquatName(found, named)

Validation(lines, delimited, strict, found) ==
  LET metadata == IF delimited THEN parseYamlFrontmatter(lines) ELSE Unread.result
      named == Has(metadata, "name") /\ ~IsList(metadata, "name")
      errors == (IF delimited THEN validateMetadata(metadata, strict) ELSE {<<"frontmatter", "error">>})
                \cup otherScans(found, named)
      valid == \A e \in errors : e[2] # "error" IN
  [tool |-> "validate", lines |-> lines, delimited |-> delimited, found |-> found, strict |-> strict, valid |-> valid,
   errors |-> errors, metadata |-> IF valid THEN metadata ELSE Unread.result]

executeValidate(lines, delimited, strict, found) ==
  AskedOfText /\ answer' = Validation(lines, delimited, strict, found)
-----------------------------------------------------------------------------
(* skill_diff.  Sections are told apart by their title: of two that share   *)
(* one, the later counts.                                                   *)

extractHeadings(doc) == {doc[i].title : i \in DOMAIN doc}
extractSectionBodies(doc) ==
  [t \in extractHeadings(doc) |-> doc[Max({i \in DOMAIN doc : doc[i].title = t})].body]

\* Faulty: a section that was emptied counts as one that is not there.
modifiedUnlessEmptied(old, new) ==
  {t \in extractHeadings(old) \cap extractHeadings(new) :
     /\ extractSectionBodies(new)[t] # ""
     /\ extractSectionBodies(old)[t] # extractSectionBodies(new)[t]}

detectModifiedSections(old, new) ==
  {t \in extractHeadings(old) \cap extractHeadings(new) : extractSectionBodies(old)[t] # extractSectionBodies(new)[t]}

\* The first changelog, or several in a row.
extractChangelog(doc) ==
  {doc[i].body : i \in {k \in DOMAIN doc : /\ doc[k].title = "changelog"
                                           /\ \A j \in 1 .. k : doc[j].title = "changelog" =>
                                                \A n \in j .. k : doc[n].title = "changelog"}} \ {""}

Difference(old, new) ==
  [tool |-> "diff", old |-> old, new |-> new, added |-> extractHeadings(new) \ extractHeadings(old),
   removed |-> extractHeadings(old) \ extractHeadings(new), modified |-> detectModifiedSections(old, new),
   changelog |-> extractChangelog(new)]

executeSkillDiff(old, new) == AskedOfText /\ answer' = Difference(old, new)
-----------------------------------------------------------------------------
(* skill_pack_audit.                                                        *)

\* The version of the newest row counts, and may be unset, which 0 stands for.
packStatus(s) ==
  CASE s.version = 0 -> "missing_version"
    [] s.recorded = <<>> -> "no_registry_data"
    [] s.recorded # <<>> /\ s.recorded[1] = 0 -> "no_registry_data"
    [] OTHER -> IF s.version = s.recorded[1] THEN "current" ELSE IF s.version < s.recorded[1] THEN "outdated" ELSE "ahead"

\* The prefix of the pack's name, or the most frequent tag if it occurs twice; of
\* several the first.
derivePackDomain(pack, skills, n) ==
  LET tags == SelectSeq(FlattenSeq([i \in DOMAIN skills |-> skills[i].tags]), LAMBDA t : t \notin GenericTrigger \cup GenericNamespace)
      Count(i) == Cardinality({j \in DOMAIN tags : tags[j] = tags[i]})
      best == CHOOSE i \in DOMAIN tags : \A j \in DOMAIN tags : Count(j) < Count(i) \/ (Count(j) = Count(i) /\ i <= j) IN
  CASE PackDomain[pack] # "" -> PackDomain[pack]
    [] PackDomain[pack] = "" /\ tags = <<>> -> ""
    [] OTHER -> IF Count(best) >= (IF n >= 2 THEN 2 ELSE 1) THEN tags[best] ELSE ""

\* In a name an error; in a description a warning, unless the name has it too.
detectGenericTriggerWords(s, domain) ==
  {[token |-> t, location |-> "name", severity |-> "error", suggested |-> IF domain = "" THEN {} ELSE {domain, t}] :
     t \in s.name \cap GenericTrigger}
  \cup {[token |-> t, location |-> "description", severity |-> "warning", suggested |-> IF domain = "" THEN {} ELSE {domain, t}] :
     t \in (s.description \ s.name) \cap GenericTrigger}

\* What the name of a generic pack covers already is told once, with the pack.
overlappingTokens(pack, flags) ==
  IF pack \notin GenericNamespace THEN {}
  ELSE {f.token : f \in {g \in UNION {flags[i] : i \in DOMAIN flags} : g.location = "name" /\ <<pack, g.token>> \in Overlaps}}

\* Faulty: one token that is covered takes every flag of a name with it.
withoutNames(flags, overlapping) == IF overlapping = {} THEN flags ELSE {f \in flags : f.location # "name"}

withoutOverlap(flags, overlapping) == {f \in flags : ~(f.location = "name" /\ f.token \in overlapping)}

Severe(flags, severity) == {f \in flags : f.severity = severity}

\* How many flags of a severity the skills have, one after another.
Number(flags, severity) ==
  LET upTo[n \in 0 .. Len(flags)] ==
        IF n = 0 THEN 0 ELSE upTo[n - 1] + Cardinality(Severe(flags[n], severity)) IN
  upTo[Len(flags)]

NotRead == [name |-> {}, description |-> {}, tags |-> <<>>, version |-> 0, recorded |-> <<>>]

\* A directory whose SKILL.md is missing, cannot be read or leads out of the pack is
\* passed over without a word.
executeSkillPackAudit(pack, dirs, unread, checkTriggerQuality) ==
  LET skills == [i \in DOMAIN dirs |-> IF i \in unread THEN NotRead ELSE dirs[i]]
      domain == derivePackDomain(pack, skills, Cardinality(DOMAIN dirs \ unread))
      flags == [i \in DOMAIN skills |-> detectGenericTriggerWords(skills[i], domain)]
      overlapping == overlappingTokens(pack, flags)
      kept == IF checkTriggerQuality THEN [i \in DOMAIN skills |-> withoutOverlap(flags[i], overlapping)] ELSE <<>> IN
  /\ AskedOfText
  /\ answer' = [tool |-> "pack", pack |-> pack, skills |-> dirs, unread |-> unread, checked |-> checkTriggerQuality,
                status |-> [i \in DOMAIN dirs \ unread |-> packStatus(dirs[i])],
                flags |-> kept,
                namespace |-> IF checkTriggerQuality /\ pack \in GenericNamespace THEN {pack} ELSE {},
                reason |-> IF checkTriggerQuality THEN overlapping ELSE {},
                errorCount |-> Number(kept, "error"), warningCount |-> Number(kept, "warning")]
-----------------------------------------------------------------------------
(* The audit-log tools.  Without a start date there is none.                *)

executeAuditExport(recent, dated, limit) ==
  LET found == IF dated THEN recent ELSE events IN
  /\ Asked
  /\ answer' = [tool |-> "audit", dated |-> dated, recent |-> recent, total |-> found,
                returned |-> IF limit # 0 /\ limit < found THEN limit ELSE found]
-----------------------------------------------------------------------------
(* compliance_report.                                                       *)

World == <<events, manifest, depRows, skillFile, happenings>>
Goes(b) == answer = NoAnswer /\ bom' = b /\ UNCHANGED answer

\* The log is counted before the manifest is read.
StartReport(format, backfill, native) ==
  /\ bom.at = "idle"
  /\ Goes([NoBom EXCEPT !.at = "manifest", !.format = format, !.backfill = backfill, !.native = native, !.total = events])
  /\ UNCHANGED World

\* A manifest that cannot be read fails the report.
LoadManifest ==
  /\ bom.at = "manifest"
  /\ \/ Goes([bom EXCEPT !.at = IF bom.format = "cyclonedx" THEN "rows" ELSE "done", !.skills = manifest,
                         !.activity = events])
     \/ Goes([bom EXCEPT !.at = "failed"])
  /\ UNCHANGED World

\* Faulty: rows of one skill stand for those of all.
sparseOfAll(ids, read) == IF \E s \in ids : read[s] # {} THEN {} ELSE ids

sparseSkillIds(ids, read) == {s \in ids : read[s] = {}}

ReadRows ==
  LET ids == {InstalledId[i] : i \in bom.skills}
      sparse == sparseSkillIds(ids, depRows) IN
  /\ bom.at = "rows"
  /\ Goes([bom EXCEPT !.at = "backfill", !.had = ids \ sparse, !.sparse = sparse, !.read = depRows,
                      !.todo = IF bom.backfill /\ bom.native THEN bom.skills ELSE {}])
  /\ UNCHANGED World

WhyNoRows == {"nowhere", "unreadable", "plain", "failed"}

\* Rows are added, never removed; the store may take a part of them and fail.  An entry
\* without a path is passed over; after any other the rows of the skill are read again.
Backfill(i) ==
  LET s == InstalledId[i]
      declared == IF skillFile[i] = "declares" THEN Extracted[s] ELSE {} IN
  /\ bom.at = "backfill" /\ i \in bom.todo
  /\ \/ /\ s \notin bom.sparse \/ i \in Pathless
        /\ Goes([bom EXCEPT !.todo = @ \ {i},
                            !.tried = @ \cup IF s \in bom.sparse THEN {<<i, "nowhere">>} ELSE {}])
        /\ UNCHANGED depRows
     \/ /\ s \in bom.sparse /\ i \notin Pathless
        /\ \E stored \in SUBSET declared :
             LET rows == depRows[s] \cup stored IN
             /\ depRows' = [depRows EXCEPT ![s] = rows]
             /\ Goes([bom EXCEPT !.todo = @ \ {i}, !.read[s] = rows, !.wrote = @ \cup {s},
                                 !.sparse = IF rows # {} THEN @ \ {s} ELSE @,
                                 !.tried = @ \cup {<<i, IF stored = declared THEN skillFile[i] ELSE "failed">>}])
  /\ UNCHANGED <<events, manifest, skillFile, happenings>>

\* Faulty: an inferred dependency is an edge like a declared one.
edgesOfEveryRow(ids, read) ==
  {<<s, r.target>> : s \in ids, r \in {q \in UNION {read[d] : d \in ids} : q.kind \in {"skill", "mcp", "model"}}}

\* Declared dependencies of one skill on a component: on an installed skill, a server
\* or a model; the rest is told as a property.
dependencyEdges(ids, read) ==
  LET Edge(q) == /\ q.source = "declared"
                 /\ q.kind \in {"mcp", "model"} \/ (q.kind = "skill" /\ q.target \in ids) IN
  UNION {{<<s, r.target>> : r \in {q \in read[s] : Edge(q)}} : s \in ids}

\* The skills without rows are counted once, the installations each.  The export is logged.
EmitBom ==
  LET ids == {InstalledId[i] : i \in bom.skills} IN
  /\ bom.at = "backfill" /\ bom.todo = {}
  /\ Goes([bom EXCEPT !.at = "done", !.edges = dependencyEdges(ids, bom.read),
                      !.source = [s \in Ids |-> IF s \in bom.sparse THEN "pending-rescan" ELSE "extracted"],
                      !.summary = IF bom.skills = {} THEN "pending-rescan" ELSE IF bom.sparse = {} THEN "extracted"
                                  ELSE IF Cardinality(bom.sparse) = Cardinality(bom.skills) THEN "pending-rescan"
                                  ELSE "partial"])
  /\ events' = events + 1
  /\ UNCHANGED <<manifest, depRows, skillFile, happenings>>

\* Other calls of the server and the user go on meanwhile.
WorldGoesOn ==
  /\ answer = NoAnswer /\ bom.at \notin {"done", "failed"}
  /\ happenings < MaxHappenings /\ happenings' = happenings + 1
  /\ UNCHANGED <<answer, bom>>
  /\ \/ events' = events + 1 /\ UNCHANGED <<manifest, depRows, skillFile>>
     \/ \E i \in Installation : manifest' = (manifest \cup {i}) \ (manifest \cap {i})
                               /\ UNCHANGED <<events, depRows, skillFile>>
     \/ \E i \in Installation : /\ skillFile[i] = "declares"
                               /\ depRows' = [depRows EXCEPT ![InstalledId[i]] = @ \cup Extracted[InstalledId[i]]]
                               /\ UNCHANGED <<events, manifest, skillFile>>
     \/ \E i \in Installation, f \in {"unreadable", "plain", "declares"} :
          skillFile' = [skillFile EXCEPT ![i] = f] /\ UNCHANGED <<events, manifest, depRows>>
-----------------------------------------------------------------------------
ReportNext ==
  \/ \E lines \in UpTo(FrontLine, MaxLines), delimited, strict \in BOOLEAN, found \in ScanFindings :
       executeValidate(lines, delimited, strict, found)
  \/ \E old, new \in UpTo(Section, MaxSections) : executeSkillDiff(old, new)
  \/ \E pack \in DOMAIN PackDomain, dirs \in UpTo(PackSkill, MaxPack), check \in BOOLEAN :
       \E unread \in SUBSET DOMAIN dirs : executeSkillPackAudit(pack, dirs, unread, check)
  \/ \E recent \in 0 .. events, dated \in BOOLEAN, limit \in {0, 1} : executeAuditExport(recent, dated, limit)
  \/ \E format \in {"soc2", "json", "cyclonedx"}, backfill, native \in BOOLEAN : StartReport(format, backfill, native)
  \/ LoadManifest \/ ReadRows \/ (\E i \in Installation : Backfill(i)) \/ EmitBom \/ WorldGoesOn
-----------------------------------------------------------------------------
\* What frontmatter means: the lines up to the next key belong to a key, items to a
\* list, text and items to a block until its first item; the last key that holds
\* something counts.
IsKey(line) == line.kind \in {"scalar", "open", "block"}
Below(lines, i, n) == {j \in i + 1 .. n : \A k \in i + 1 .. j : ~IsKey(lines[k])}
Counting(lines, i, n) ==
  {j \in Below(lines, i, n) : \/ lines[j].kind = "item"
                              \/ lines[i].kind = "block" /\ \A k \in i + 1 .. j : lines[k].kind = "text"}
Nth(P, k) == {j \in P : Cardinality({l \in P : l < j}) = k - 1}
InOrder(lines, P) == [k \in 1 .. Cardinality(P) |-> lines[CHOOSE j \in Nth(P, k) : TRUE].value]
\* What the first n lines say of the key of line i.
HoldsBy(lines, i, n) ==
  IF lines[i].kind = "scalar" THEN <<lines[i].value>> ELSE InOrder(lines, Counting(lines, i, n))
Holds(lines, i) == HoldsBy(lines, i, Len(lines))

\* skill_validate reads every key as it is written, whatever the order of lists, blocks
\* and values; and a strict validation accepts nothing that a lenient one refuses.
FrontmatterIsRead == answer.tool = "validate" /\ answer.delimited =>
  LET lines == answer.lines
      read == parseYamlFrontmatter(lines)
      full == {i \in DOMAIN lines : IsKey(lines[i]) /\ Holds(lines, i) # <<>>} IN
  /\ DOMAIN read = {lines[i].key : i \in full}
  /\ \A k \in DOMAIN read :
       read[k].values = Holds(lines, Max({i \in full : lines[i].key = k}))
  /\ answer.valid /\ answer.strict => Validation(lines, TRUE, FALSE, answer.found).valid

\* Two versions with sections of different titles differ exactly if skill_diff says so,
\* and the other way round it tells the same.
Untwined(doc) == Cardinality(extractHeadings(doc)) = Len(doc)
DiffIsExact == answer.tool = "diff" /\ Untwined(answer.old) /\ Untwined(answer.new) =>
  LET back == Difference(answer.new, answer.old) IN
  /\ answer.added \cup answer.removed \cup answer.modified = {} <=> ToSet(answer.old) = ToSet(answer.new)
  /\ back.added = answer.removed /\ back.removed = answer.added /\ back.modified = answer.modified

\* Every generic token of the name or description of a skill that was read is told: with
\* the skill, or once with the pack; the counts are those of what is shown.
PackIsAccounted == answer.tool = "pack" /\ answer.checked =>
  /\ \A i \in DOMAIN answer.skills \ answer.unread : \A t \in (answer.skills[i].name \cup answer.skills[i].description) \cap GenericTrigger :
       (\E f \in answer.flags[i] : f.token = t) \/ (t \in answer.reason /\ answer.namespace # {})
  /\ answer.errorCount + answer.warningCount =
       Cardinality({p \in (DOMAIN answer.skills) \X (UNION ToSet(answer.flags)) : p[2] \in answer.flags[p[1]]})

\* A bill of materials says of each skill what was read of it: pending means no rows, and
\* where the missing were to be filled in, that there is a reason at every place it is
\* installed: no path on record, a SKILL.md that cannot be read or declares nothing, or a
\* store that failed; no rows are replaced; and an edge is a declared dependency on
\* something that is installed.
BomIsComplete == bom.at = "done" /\ bom.format = "cyclonedx" =>
  LET ids == {InstalledId[i] : i \in bom.skills} IN
  /\ \A s \in ids : bom.source[s] = "pending-rescan" <=> bom.read[s] = {}
  /\ bom.backfill /\ bom.native =>
       \A i \in bom.skills : bom.source[InstalledId[i]] = "pending-rescan" =>
         \E why \in WhyNoRows : <<i, why>> \in bom.tried
  /\ bom.wrote \cap bom.had = {} /\ (bom.wrote # {} => bom.backfill)
  /\ \A e \in bom.edges : \E r \in bom.read[e[1]] : r.target = e[2] /\ r.source = "declared"
                                                   /\ (r.kind = "skill" => e[2] \in ids)

ReportsAreTrue == FrontmatterIsRead /\ DiffIsExact /\ PackIsAccounted /\ BomIsComplete

\* Not so in the code: of two sections that share a title the first may change unseen.
DiffSeesEverySection == answer.tool = "diff" =>
  (answer.added \cup answer.removed \cup answer.modified = {} => ToSet(answer.old) = ToSet(answer.new))

\* Not so in the code: a newest row without a version hides an older newer version.
DriftIsSeen == answer.tool = "pack" =>
  \A i \in DOMAIN answer.status :
    answer.skills[i].version # 0 /\ (\E v \in ToSet(answer.skills[i].recorded) : v > answer.skills[i].version) =>
      answer.status[i] = "outdated"

\* Not so in the code: the name that is suggested has the generic token still.
RenameHelps == answer.tool = "pack" /\ answer.checked =>
  \A f \in UNION ToSet(answer.flags) : f.suggested \cap GenericTrigger = {}

\* Not so in the code: an export without a start date has the events of all days.
ExportIsRecent == answer.tool = "audit" /\ ~answer.dated => answer.total <= answer.recent

\* Not so in the code: of a skill that is installed twice and has no rows the report says
\* that there are rows of some skill.
SummaryIsRight == bom.at = "done" /\ bom.summary = "partial" =>
  \E s \in {InstalledId[i] : i \in bom.skills} : s \notin bom.sparse

\* Not so in the code: what is logged while the manifest is read is in one part of the
\* report and not in the other.
ReportIsOneMoment == bom.at = "done" => bom.total = bom.activity
=============================================================================
