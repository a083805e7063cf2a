----------------------------- MODULE SkillFiles -----------------------------
(***************************************************************************)
(* What the server reads of the files of skills, and the one file it puts  *)
(* beside them.  The scan of the inventory goes over every place skills    *)
(* are kept in and must account for all of it; the indexer reads the       *)
(* frontmatter that skill_validate reads, with a parser of its own; and    *)
(* skill_publish validates a skill, scans it, records its checksum and may *)
(* create its repository, while its author goes on editing.                *)
(***************************************************************************)
EXTENDS LocalReports

CONSTANTS
  SkillEntry,       \* entries of a skills directory: [dir, kind, md, read, name, phrases]
  MdEntry,          \* entries of commands or agents: [file, kind, read, described, first]
  ClaudeLine,       \* lines of a CLAUDE.md: [kind, marker, phrase]
  PluginEntry,      \* keys of enabledPlugins: [id, value, shape, cache, versions, skills, dirs]
  MAX_TRIGGER_PHRASES_PER_SKILL,
  MaxClaudeLines,   \* bound on the lines of a CLAUDE.md
  Publisher,        \* calls of skill_publish, of one skill
  Content,          \* what its SKILL.md may hold
  ValidContent,     \* what of it passes the validation
  Doc,              \* its other .md files
  Referring,        \* those that refer to a project
  MaxScanned,       \* files that are scanned for references; 20 in the code
  MaxRewrites       \* bound on the edits of the author

\* A directory has one entry of a name, and enabledPlugins one of an id.
ASSUME FilesAssumption ==
  /\ ValidContent \subseteq Content /\ Referring \subseteq Doc \cup {"SKILL.md"} /\ "SKILL.md" \notin Doc /\ "none" \notin Content
  /\ ValidContent # {} /\ MaxClaudeLines \in Nat /\ MAX_TRIGGER_PHRASES_PER_SKILL \in Nat
  /\ SkillEntry \subseteq [dir : STRING, kind : {"dir", "hidden", "link"}, md : BOOLEAN, read : BOOLEAN,
                    name : STRING, phrases : Nat]
  /\ MdEntry \subseteq [file : STRING, kind : {"md", "other"}, read : BOOLEAN, described : Nat, first : Nat]
  /\ ClaudeLine \subseteq [kind : {"trigger", "other", "bullet", "text"}, marker : BOOLEAN, phrase : BOOLEAN]
  /\ PluginEntry \subseteq [id : STRING, value : {"true", "false", "other"}, shape : {"ok", "shapeless", "unsafe"},
                            cache : {"inside", "outside", "missing", "file"}, versions : Nat,
                            skills : {"inside", "outside", "missing", "file"}, dirs : SUBSET SkillEntry]
  /\ \A d, e \in SkillEntry : d.dir = e.dir => d = e
  /\ \A g, h \in PluginEntry : g.id = h.id => g = h

VARIABLES
  told,       \* the answer of the tools that need one step
  pub,        \* pub[p]: the run of a call
  skillMd,    \* the SKILL.md of the skill, or "none"
  docs,       \* its other .md files
  onRecord,  \* the content whose checksum is in .skillsmith-publish.json, or "none"
  repo,       \* the repository of that name, of the account gh is signed in with
  rewrites

fileVars == <<told, pub, skillMd, docs, onRecord, repo, rewrites>>

NotPublishing == [at |-> "idle", create |-> FALSE, topic |-> FALSE, check |-> FALSE, content |-> "none",
                  todo |-> {}, seen |-> {}, warned |-> {}, url |-> FALSE, steps |-> {}, out |-> "none"]

FileInit ==
  /\ told = NoAnswer /\ pub = [p \in Publisher |-> NotPublishing]
  /\ skillMd = (CHOOSE c \in ValidContent : TRUE) /\ docs = Doc /\ onRecord = "none"
  /\ repo = [there |-> FALSE, topic |-> FALSE] /\ rewrites = 0

\* The files that are asked about are the argument: no call is under way.
Still == told = NoAnswer /\ rewrites = 0 /\ \A p \in Publisher : pub[p].at = "idle"
Answers(a) == told' = a /\ UNCHANGED <<pub, skillMd, docs, onRecord, repo, rewrites>>
-----------------------------------------------------------------------------
(* The scan of the inventory.  What it finds and what it warns of are sets; *)
(* a phrase is counted, not spelled.                                        *)

\* Faulty: the identifier is not counted in.
capOfDescription(id, n) == [kept |-> Min({n, MAX_TRIGGER_PHRASES_PER_SKILL + 1}),
                            warned |-> IF n > MAX_TRIGGER_PHRASES_PER_SKILL
                                       THEN {<<"truncated", id, n - MAX_TRIGGER_PHRASES_PER_SKILL>>} ELSE {}]

capTriggerSurface(id, n) == [kept |-> Min({n, MAX_TRIGGER_PHRASES_PER_SKILL}),
                             warned |-> IF n > MAX_TRIGGER_PHRASES_PER_SKILL
                                        THEN {<<"truncated", id, n - MAX_TRIGGER_PHRASES_PER_SKILL>>} ELSE {}]

\* The author is looked for under skills or installed; this server writes installedSkills.
loadManifest(home) == IF home.manifest \in {"skills", "installed"} THEN home.recorded ELSE {}
lookupAuthor(home, id) == id \in loadManifest(home)

\* What a directory that cannot be listed gives.
Nothing == [entries |-> {}, warnings |-> {}]

\* Of a skills directory every directory that is not hidden, links not being followed: by
\* the name of its frontmatter or else its own.  A SKILL.md that cannot be read has neither
\* name nor description.
scanSkillsDirEntries(home, place, folder) ==
  LET dirs == {d \in folder : d.kind = "dir"}
      Id(d) == IF d.md /\ d.read /\ d.name # "" THEN d.name ELSE d.dir
      Cap(d) == capTriggerSurface(Id(d), 1 + IF d.md /\ d.read THEN d.phrases ELSE 0) IN
  IF place \in home.unlisted THEN Nothing
  ELSE [entries |-> {[kind |-> "skill", place |-> place, file |-> d.dir, id |-> Id(d), surface |-> Cap(d).kept,
                      author |-> lookupAuthor(home, Id(d))] : d \in dirs},
        warnings |-> {<<"no_skill_md", d.dir, 0>> : d \in {e \in dirs : ~e.md}} \cup UNION {Cap(d).warned : d \in dirs}]

\* The phrases of a command or an agent: its name, and those of the description, or else of
\* the first line of its text.  A file that cannot be read has neither.
PhrasesOf(f) == 1 + IF ~f.read THEN 0 ELSE IF f.described > 0 THEN f.described ELSE f.first

scanMdDir(home, kind, folder) ==
  LET files == {f \in folder : f.kind = "md"}
      Cap(f) == capTriggerSurface(f.file, PhrasesOf(f)) IN
  IF kind \in home.unlisted THEN Nothing
  ELSE [entries |-> {[kind |-> kind, place |-> kind, file |-> f.file, id |-> f.file, surface |-> Cap(f).kept,
                      author |-> FALSE] : f \in files},
        warnings |-> UNION {Cap(f).warned : f \in files}]

\* Faulty: a heading that is no trigger heading does not end the section.
captureOnward(mode, line) == mode \/ (~line.marker /\ line.kind = "trigger")

\* A line with the marker counts for its phrase only, whatever else it is.
captureMode(mode, line) ==
  CASE line.marker -> mode
    [] ~line.marker /\ line.kind = "trigger" -> TRUE
    [] ~line.marker /\ line.kind = "other" -> FALSE
    [] OTHER -> mode

Captured(st, lines, i) ==
  [mode |-> captureMode(st.mode, lines[i]),
   found |-> IF \/ lines[i].marker /\ lines[i].phrase
                \/ ~lines[i].marker /\ lines[i].kind = "bullet" /\ st.mode
             THEN Append(st.found, i) ELSE st.found]

\* What is captured after each line.
Capturing(lines) ==
  LET after[n \in 0 .. Len(lines)] ==
        IF n = 0 THEN [mode |-> FALSE, found |-> <<>>] ELSE Captured(after[n - 1], lines, n) IN after

extractClaudeMdTriggers(lines) == Capturing(lines)[Len(lines)].found

\* Only what is exactly true is enabled.
readEnabledPluginIds(home) ==
  IF home.settings = "map" THEN {g \in home.plugins : g.value = "true"} ELSE {}

\* What is missing resolves nowhere, and so counts as outside.
isWithinRoot(at) == at \in {"inside", "file"}
isSafePathComponent(g) == g.shape # "unsafe"

\* Faulty: a plugin with several versions is passed over without a word.
skippedUnlessUpdated(g) ==
  CASE g.shape = "shapeless" -> "shape"
    [] ~isSafePathComponent(g) -> "unsafe"
    [] g.shape = "ok" /\ ~isWithinRoot(g.cache) -> "outside_cache"
    [] g.shape = "ok" /\ g.cache = "file" -> "no_cache"
    [] g.shape = "ok" /\ g.cache = "inside" /\ g.versions = 0 -> "versions"
    [] g.shape = "ok" /\ g.cache = "inside" /\ g.versions = 1 /\ ~isWithinRoot(g.skills) -> "outside_skills"
    [] OTHER -> "none"

pluginSkipped(g) ==
  CASE g.shape = "shapeless" -> "shape"
    [] ~isSafePathComponent(g) -> "unsafe"
    [] g.shape = "ok" /\ ~isWithinRoot(g.cache) -> "outside_cache"
    [] g.shape = "ok" /\ g.cache = "file" -> "no_cache"
    [] g.shape = "ok" /\ g.cache = "inside" /\ g.versions # 1 -> "versions"
    [] g.shape = "ok" /\ g.cache = "inside" /\ g.versions = 1 /\ ~isWithinRoot(g.skills) -> "outside_skills"
    [] OTHER -> "none"

\* Of the plugins that are not skipped those with exactly one version.
scanPluginInventory(home) ==
  LET enabled == readEnabledPluginIds(home)
      scanned == {g \in enabled : pluginSkipped(g) = "none" /\ g.versions = 1}
      Of(g) == scanSkillsDirEntries(home, g.id, g.dirs) IN
  [entries |-> UNION {Of(g).entries : g \in scanned},
   warnings |-> (UNION {Of(g).warnings : g \in scanned})
                \cup {<<pluginSkipped(g), g.id, 0>> : g \in {e \in enabled : pluginSkipped(e) # "none"}}
                \cup IF home.settings = "malformed" THEN {<<"settings", "", 0>>} ELSE {}]

\* The skills of the project count only inside of it.
scanProjectSkills(home) ==
  CASE home.project = "inside" -> scanSkillsDirEntries(home, "project", home.own)
    [] home.project = "outside" -> [entries |-> {}, warnings |-> {<<"outside_project", "", 0>>}]
    [] OTHER -> Nothing

\* One client stands for all: they differ in the directory.
ScanHome(home) ==
  LET parts == {scanSkillsDirEntries(home, "client", home.skills), scanMdDir(home, "command", home.commands),
                scanMdDir(home, "agent", home.agents), scanPluginInventory(home), scanProjectSkills(home)} IN
  Answers([tool |-> "inventory", home |-> home, rules |-> extractClaudeMdTriggers(home.claudeMd),
           entries |-> UNION {r.entries : r \in parts}, warnings |-> UNION {r.warnings : r \in parts}])

NoHome == [skills |-> {}, commands |-> {}, agents |-> {}, claudeMd |-> <<>>, settings |-> "absent", plugins |-> {},
           project |-> "absent", own |-> {}, manifest |-> "absent", recorded |-> {}, unlisted |-> {}]
\* The homes that are asked about have something in one or two places, and some of those
\* cannot be listed.
ScanInventory ==
  \/ \E l \in UpTo(ClaudeLine, MaxClaudeLines) : ScanHome([NoHome EXCEPT !.claudeMd = l])
  \/ \E f \in SUBSET SkillEntry, g \in {{}, SkillEntry}, at \in {"absent", "inside", "outside"}, shape \in {"skills", "installedSkills"} :
       \E lost \in SUBSET {"client", "project"} :
         ScanHome([NoHome EXCEPT !.skills = f, !.own = g, !.project = at, !.manifest = shape, !.recorded = {d.name : d \in f},
                                 !.unlisted = lost])
  \/ \E c, a \in SUBSET MdEntry, lost \in SUBSET {"command", "agent"} :
       ScanHome([NoHome EXCEPT !.commands = c, !.agents = a, !.unlisted = lost])
  \/ \E s \in {"absent", "unreadable", "malformed", "map"}, g, h \in PluginEntry :
       \E lost \in SUBSET {g.id, h.id} :
         ScanHome([NoHome EXCEPT !.settings = s, !.plugins = {g, h}, !.unlisted = lost])
-----------------------------------------------------------------------------
(* The parser of the indexer, on the lines that skill_validate is asked     *)
(* about in LocalReports.  The lines below a key are indented, as they are  *)
(* written; an indented line is never a key here.                           *)

TextKeys == {"name", "description", "author", "version", "repository", "homepage"}
ListKeys == {"tags", "triggers", "compatibility"}
Unindexed == [result |-> [k \in TextKeys \cup ListKeys |-> <<>>], key |-> "", mode |-> "none", buffer |-> <<>>]

assignValue(st, key, values) ==
  IF key \in TextKeys THEN [st EXCEPT !.result[key] = values] ELSE st

\* Faulty: what was assigned stays in the buffer.
flushAndKeep(st) == IF st.key = "" \/ st.buffer = <<>> THEN st ELSE assignValue(st, st.key, st.buffer)

flushBlock(st) ==
  IF st.key = "" \/ st.buffer = <<>> THEN st
  ELSE [assignValue(st, st.key, st.buffer) EXCEPT !.buffer = <<>>]

WithItem(st, value) == IF st.key \in ListKeys THEN [st.result EXCEPT ![st.key] = Append(@, value)] ELSE st.result

\* After a list the buffer is not emptied when a value follows.
indexLine(st, line) ==
  LET ended == IF st.mode \in {"block", "scalar"} /\ st.key # "" THEN flushBlock(st) ELSE st IN
  CASE line.kind = "item" /\ st.key # "" /\ st.mode \in {"list", "scalar"} ->
         [st EXCEPT !.mode = "list", !.result = WithItem(st, line.value)]
    [] line.kind \in {"item", "text"} /\ st.key # "" /\ (st.mode = "block" \/ (st.mode = "scalar" /\ line.kind = "text")) ->
         [st EXCEPT !.buffer = Append(@, line.value)]
    [] line.kind = "scalar" -> [assignValue(ended, line.key, <<line.value>>) EXCEPT !.key = line.key, !.mode = "none"]
    [] line.kind = "open" -> [ended EXCEPT !.key = line.key, !.mode = "scalar", !.buffer = <<>>]
    [] line.kind = "block" -> [ended EXCEPT !.key = line.key, !.mode = "block", !.buffer = <<>>]
    [] OTHER -> st

\* What is indexed after each line.
Indexed(lines) ==
  LET after[n \in 0 .. Len(lines)] == IF n = 0 THEN Unindexed ELSE indexLine(after[n - 1], lines[n]) IN after

parseFrontmatter(lines) == flushBlock(Indexed(lines)[Len(lines)]).result

IndexFrontmatter(lines) == Answers([tool |-> "index", lines |-> lines, read |-> parseFrontmatter(lines)])
-----------------------------------------------------------------------------
(* skill_publish.                                                           *)

Told(p, c) == told = NoAnswer /\ pub' = [pub EXCEPT ![p] = c] /\ UNCHANGED told
Files == <<skillMd, docs, onRecord, repo, rewrites>>
Rejected(p, why) == Told(p, [pub[p] EXCEPT !.at = "done", !.out = why]) /\ UNCHANGED Files

\* A path that climbs, or that a shell would read, is refused; one that is not there too.
StartPublish(p, create, topic, check) ==
  /\ pub[p].at = "idle"
  /\ \/ Told(p, [NotPublishing EXCEPT !.at = "read", !.create = create, !.topic = topic, !.check = check]) /\ UNCHANGED Files
     \/ \E why \in {"bad_path", "not_found"} : Rejected(p, why)

\* Faulty: a skill that does not validate is taken for one without a name.
takesAny(c) == c # "none"

Validates(c) == c \in ValidContent

ReadSkill(p) ==
  /\ pub[p].at = "read"
  /\ IF Validates(skillMd)
     THEN Told(p, [pub[p] EXCEPT !.at = IF pub[p].check THEN "list" ELSE "write", !.content = skillMd]) /\ UNCHANGED Files
     ELSE Rejected(p, IF skillMd = "none" THEN "unreadable" ELSE "invalid")

\* The SKILL.md is one of the files that are scanned; which are the first is up to the system.
Listing == docs \cup IF skillMd = "none" THEN {} ELSE {"SKILL.md"}
ListDocs(p) ==
  /\ pub[p].at = "list"
  /\ \E first \in SUBSET Listing :
       /\ Cardinality(first) = Min({MaxScanned, Cardinality(Listing)})
       /\ Told(p, [pub[p] EXCEPT !.at = "scan", !.todo = first])
  /\ UNCHANGED Files

\* A file that is gone fails the whole call.
scanReferences(p) ==
  /\ pub[p].at = "scan"
  /\ \/ /\ pub[p].todo = {} /\ UNCHANGED Files
        /\ Told(p, [pub[p] EXCEPT !.at = "write", !.steps = IF pub[p].warned # {} THEN {"review"} ELSE {}])
     \/ \E d \in pub[p].todo :
          IF d \in Listing
          THEN /\ Told(p, [pub[p] EXCEPT !.todo = @ \ {d}, !.seen = @ \cup {d},
                                         !.warned = IF d \in Referring THEN @ \cup {d} ELSE @])
               /\ UNCHANGED Files
          ELSE Rejected(p, "failed")

writeManifest(p) ==
  /\ pub[p].at = "write"
  /\ \/ /\ onRecord' = pub[p].content
        /\ Told(p, [pub[p] EXCEPT !.at = "github"])
        /\ UNCHANGED <<skillMd, docs, repo, rewrites>>
     \/ Rejected(p, "failed")

\* Faulty: a repository that could not be created is taken to be there.
createdAnyway == {[url |-> TRUE, there |-> repo.there], [url |-> TRUE, there |-> TRUE]}

\* gh repo create: fails, or prints the address, or does not.
createGitHubRepo == {[url |-> FALSE, there |-> repo.there]}
  \cup IF repo.there THEN {} ELSE {[url |-> FALSE, there |-> TRUE], [url |-> TRUE, there |-> TRUE]}

\* Without an address the usual steps are told.
Finish(p, created, topic, steps) ==
  LET usual == IF created.url THEN {} ELSE {"push", "registry_topic"} IN
  /\ repo' = [there |-> created.there, topic |-> topic]
  /\ Told(p, [pub[p] EXCEPT !.at = "done", !.out = "ready", !.url = created.url, !.steps = @ \cup steps \cup usual])
  /\ UNCHANGED <<skillMd, docs, onRecord, rewrites>>

checkGhPreflight == {"install_gh", "sign_in_gh", "ready"}
addClaudeSkillTopic(there) == IF there THEN BOOLEAN ELSE {FALSE}

\* The calls of gh block the server: they are one step.  A repository that was to be
\* created and has no address is not given the topic.
GitHub(p) ==
  LET same == [url |-> FALSE, there |-> repo.there] IN
  /\ pub[p].at = "github"
  /\ \/ ~pub[p].create /\ ~pub[p].topic /\ Finish(p, same, repo.topic, {})
     \/ /\ pub[p].create \/ pub[p].topic
        /\ \E gh \in checkGhPreflight \ {"ready"} : Finish(p, same, repo.topic, {gh})
     \/ /\ pub[p].create \/ pub[p].topic
        /\ \E created \in IF pub[p].create THEN createGitHubRepo ELSE {same} :
             LET make == IF ~pub[p].create THEN {} ELSE IF created.url THEN {"push_to"} ELSE {"create"} IN
             IF pub[p].topic /\ (created.url \/ ~pub[p].create)
             THEN \E added \in addClaudeSkillTopic(created.there) :
                    Finish(p, created, repo.topic \/ added, make \cup IF added THEN {} ELSE {"add_topic"})
             ELSE Finish(p, created, repo.topic, make)

\* The author goes on editing.
AuthorEdits ==
  /\ told = NoAnswer /\ rewrites < MaxRewrites /\ rewrites' = rewrites + 1
  /\ \/ skillMd' \in (Content \cup {"none"}) \ {skillMd} /\ UNCHANGED docs
     \/ \E d \in Doc : docs' = (docs \cup {d}) \ (docs \cap {d}) /\ UNCHANGED skillMd
  /\ UNCHANGED <<told, pub, onRecord, repo>>

PublishStep(p) ==
  \/ \E create, topic, check \in BOOLEAN : StartPublish(p, create, topic, check)
  \/ ReadSkill(p) \/ ListDocs(p) \/ scanReferences(p) \/ writeManifest(p) \/ GitHub(p)

FileNext ==
  \/ Still /\ ScanInventory
  \/ Still /\ \E lines \in UpTo(FrontLine, MaxLines + 1) : IndexFrontmatter(lines)
  \/ (\E p \in Publisher : PublishStep(p)) \/ AuthorEdits
-----------------------------------------------------------------------------
\* Whether a text of n phrases is all in a surface of that size, or its loss is told.
Covers(surface, id, n) ==
  /\ surface <= MAX_TRIGGER_PHRASES_PER_SKILL
  /\ surface = n \/ <<"truncated", id, n - surface>> \in told.warnings

\* Whether every skill of a directory that can be listed is one entry of the inventory.
Scanned(place, folder) == place \notin told.home.unlisted => \A d \in {e \in folder : e.kind = "dir"} :
  LET found == {e \in told.entries : e.place = place /\ e.file = d.dir} IN
  /\ Cardinality(found) = 1
  /\ \A e \in found : Covers(e.surface, e.id, 1 + IF d.md /\ d.read THEN d.phrases ELSE 0)

PluginWarnings == {"shape", "unsafe", "outside_cache", "no_cache", "versions", "outside_skills"}

\* Whether an enabled plugin is scanned or else warned of, and one that is not neither.
PluginTold(g) ==
  LET warned == \E w \in told.warnings : w[1] \in PluginWarnings /\ w[2] = g.id IN
  IF told.home.settings = "map" /\ g.value = "true"
  THEN IF warned THEN \A e \in told.entries : e.place # g.id ELSE Scanned(g.id, g.dirs)
  ELSE ~warned /\ \A e \in told.entries : e.place # g.id

\* Whether a line of a CLAUDE.md is a rule.
HeadingsTo(lines, i) == {j \in 1 .. i : lines[j].kind \in {"trigger", "other"} /\ ~lines[j].marker}
UnderTrigger(lines, i) == HeadingsTo(lines, i) # {} /\ lines[Max(HeadingsTo(lines, i))].kind = "trigger"
RuleAt(lines, i) == IF lines[i].marker THEN lines[i].phrase ELSE lines[i].kind = "bullet" /\ UnderTrigger(lines, i)

\* The scan accounts for what it can read: a skill, command or agent in a directory that can
\* be listed is an entry, and what its surface leaves out is told with its number; an enabled
\* plugin is scanned, or there is a warning about it; one that is not enabled is neither; and
\* the rules of a CLAUDE.md are its marked lines and the items below the nearest heading that
\* is a trigger heading.
InventoryIsAccounted == told.tool = "inventory" =>
  LET home == told.home IN
  /\ Scanned("client", home.skills)
  /\ home.project = "inside" => Scanned("project", home.own)
  /\ home.project = "outside" => \A e \in told.entries : e.place # "project"
  /\ \A kind \in {"command", "agent"} \ home.unlisted :
       \A f \in IF kind = "command" THEN home.commands ELSE home.agents : f.kind = "md" =>
         \E e \in told.entries : /\ e.kind = kind /\ e.file = f.file
                                 /\ Covers(e.surface, e.id, PhrasesOf(f))
  /\ \A g \in home.plugins : PluginTold(g)
  /\ ToSet(told.rules) = {i \in DOMAIN home.claudeMd : RuleAt(home.claudeMd, i)}
  /\ \A m, n \in DOMAIN told.rules : m < n => told.rules[m] < told.rules[n]

\* Frontmatter of which texts belong to blocks, items to a list that is there once, and
\* the keys of lists to nothing else.
Above(lines, i) == LET keys == {j \in 1 .. i - 1 : IsKey(lines[j])} IN IF keys = {} THEN "none" ELSE lines[Max(keys)].kind
Plain(lines) == \A i \in DOMAIN lines :
  /\ lines[i].kind = "text" => Above(lines, i) \in {"none", "block"}
  /\ lines[i].kind = "item" => Above(lines, i) \in {"none", "open"}
  /\ lines[i].kind \in {"scalar", "block"} => lines[i].key \notin ListKeys
  /\ lines[i].kind = "open" => lines[i].key \in ListKeys /\ \A j \in DOMAIN lines : lines[j].key = lines[i].key => j = i

\* The index holds of plain frontmatter what skill_validate has validated.
IndexerReadsAlike == told.tool = "index" /\ Plain(told.lines) =>
  LET validated == parseYamlFrontmatter(told.lines) IN
  \A k \in TextKeys \cup ListKeys : told.read[k] = IF k \in DOMAIN validated THEN validated[k].values ELSE <<>>

\* Whatever is edited meanwhile: the checksum on record is one of a skill that was valid;
\* an address is told only of a repository that is there; who asked for the topic has it
\* or is told how to set it; and a reference that was seen is told.
PublishIsHonest ==
  /\ onRecord \in ValidContent \cup {"none"}
  /\ \A p \in Publisher : pub[p].at = "done" /\ pub[p].out = "ready" =>
       /\ pub[p].url => repo.there
       /\ pub[p].topic => repo.topic \/ pub[p].steps \cap {"add_topic", "registry_topic"} # {}
       /\ pub[p].seen \cap Referring # {} => "review" \in pub[p].steps

FilesAreTrue == InventoryIsAccounted /\ IndexerReadsAlike /\ PublishIsHonest

\* Not so in the code: a directory that cannot be listed is as good as empty.
LossIsTold == told.tool = "inventory" =>
  \A place \in told.home.unlisted : \E w \in told.warnings : w[2] = place

\* Not so in the code: a plugin without a skills directory is said to lead outside.
EscapeIsTrue == told.tool = "inventory" =>
  \A w \in told.warnings : w[1] \in {"outside_cache", "outside_skills"} =>
    \E g \in told.home.plugins : g.id = w[2] /\ "outside" \in {g.cache, g.skills}

\* Not so in the code: the author of what this server has installed is not found.
AuthorIsFound == told.tool = "inventory" =>
  \A e \in told.entries : e.place = "client" => (e.author <=> e.id \in told.home.recorded)

\* Not so in the code: text above the items of a list becomes the value of the next key.
ValuesStayTheirs == told.tool = "index" =>
  \A k \in TextKeys : \A v \in ToSet(told.read[k]) :
    \E i \in DOMAIN told.lines : told.lines[i].key = k /\ IsKey(told.lines[i]) /\ v \in ToSet(Holds(told.lines, i))

\* Not so in the code: what is on record is of the SKILL.md as it was read first.
RecordIsOfTheFile == \A p \in Publisher :
  pub[p].at = "done" /\ pub[p].out = "ready" /\ (\A q \in Publisher : pub[q].at \in {"idle", "done"}) => onRecord = skillMd

\* Not so in the code: of many files some are not scanned, and nothing says so.
EveryReferenceIsTold == \A p \in Publisher :
  pub[p].at = "done" /\ pub[p].out = "ready" /\ pub[p].check /\ rewrites = 0 /\ Referring \cap Listing # {} =>
    "review" \in pub[p].steps

\* Not so in the code: a repository is to be created by hand although it is there.
ManualCreateIsNeeded == \A p \in Publisher :
  pub[p].at = "done" /\ "create" \in pub[p].steps => ~repo.there
=============================================================================
