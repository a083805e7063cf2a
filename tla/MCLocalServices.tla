--------------------------- MODULE MCLocalServices ---------------------------
(***************************************************************************)
(* The instance of LocalServices that TLC checks.                          *)
(***************************************************************************)
EXTENDS LocalServices

\* The inventory: two rules of one CLAUDE.md, a command and two skills; names
\* that collide, by case and blanks too, the agent pack twice, a name whose rename is
\* a taken name, one that cannot be sanitized and one too long to rename.
Found(n, t, r) == [name |-> n, text |-> t, rot |-> r]
MCSlot == 1 .. 5
MCSlotKind == <<"claude_md_rule", "claude_md_rule", "command", "skill", "skill">>
MCSlotPath == <<"CLAUDE.md", "CLAUDE.md", "ship.md", "agents", "claude">>
MCSlotMtime == <<1, 1, 2, 3, 2>>
ship == <<"ship">>
pack == <<"pack">>
MCSlotContent == <<
  {Found(<<"+">>, "t", FALSE)},
  {Found(<<"long">>, "t", FALSE)},
  {Found(ship, "u", TRUE)},
  {Found(pack, "t", FALSE), Found(<<"Ship">>, "t", FALSE), Found(<<"Dev", "ship">>, "u", TRUE), Found(<<"+">>, "u", FALSE)},
  {Found(pack, "t", FALSE), Found(pack, "u", TRUE), Found(<<" ship">>, "u", FALSE), Found(<<"long">>, "u", FALSE)}>>
NamesFound == UNION {{x.name : x \in MCSlotContent[s]} : s \in MCSlot}
MCAuthor == [n \in NamesFound |-> IF n = <<"Ship">> THEN "ann" ELSE ""]
MCTag == [n \in NamesFound |-> IF n \in {ship, <<" ship">>} THEN "dev" ELSE IF n = pack THEN "ops" ELSE ""]
MCLowered == (<<"Ship">> :> ship) @@ (<<"Dev", "ship">> :> <<"dev", "ship">>)
MCTrimmed == <<" ship">> :> ship
MCSanitized == MCLowered @@ MCTrimmed @@ (<<"+">> :> <<>>)
MCTooLong == {<<"long">>}
MCGenericName == {ship}
MCExcludable == {{ship}, {pack}}

\* Three skill directories: one of another client and one below its author.
MCSkillDir == {"x", "y", "a/z"}
MCDirClient == [d \in MCSkillDir |-> IF d = "y" THEN "cursor" ELSE "claude"]
MCDirName == [d \in MCSkillDir |-> d]
SkillMd(n, s, b, needs) == [name |-> n, scan |-> s, sibling |-> b, needs |-> needs]
MCDirContent == [d \in MCSkillDir |->
  CASE d = "x" -> {SkillMd("", "passed", FALSE, "n"), SkillMd("w", "high", FALSE, "")}
    [] d = "y" -> {SkillMd("x", "passed", TRUE, "")}
    [] d = "a/z" -> {SkillMd("x", "risky", FALSE, "")}]

\* One skill for two clients, and a corrupt entry.
MCRowSkill == <<"s", "s", "">>

\* The registry: an older repository without the installable column, one without a
\* repository, one that is not installable, and a collection; two skills of this machine.
Listed(n, c, k, r, safe, t, tier, sc, col) ==
  [name |-> n, compat |-> c, column |-> k, repo |-> r, safe |-> safe, tags |-> t, tier |-> tier, score |-> sc, collection |-> col]
MCRegistered ==
  ("a/git" :> Listed("git", {"cursor"}, "unset", TRUE, TRUE, {"git", "ci"}, 4, 60, FALSE)) @@
  ("b/test" :> Listed("test", {"claude"}, "yes", FALSE, FALSE, {"test"}, 5, 66, FALSE)) @@
  ("c/docs" :> Listed("docs", {}, "no", TRUE, TRUE, {"docs"}, 1, 90, FALSE)) @@
  ("d/git-pack" :> Listed("git-pack", {"cursor"}, "unset", TRUE, TRUE, {"git"}, 3, 80, TRUE))
MCStaleScore == [s \in DOMAIN MCRegistered |-> IF s = "c/docs" THEN 50 ELSE 66]
MCMine == <<[name |-> "git", compat |-> {"cursor"}, tags |-> {"git"}, score |-> 60],
            [name |-> "own", compat |-> {}, tags |-> {"test"}, score |-> 95]>>
MCSimilar == {<<"git", "git">>, <<"git", "git-pack">>, <<"git-pack", "git">>, <<"git-pack", "git-pack">>, <<"test", "test">>, <<"docs", "docs">>, <<"own", "own">>}
MCRoleOfTag == [t \in {"git", "ci", "test"} |-> IF t = "test" THEN "testing" ELSE "workflow"]

\* Frontmatter of which the parts come in any order; sections that may share a title; a
\* pack whose name is generic; a skill that is installed twice.
Line(k, key, v) == [kind |-> k, key |-> key, value |-> v]
MCFrontLine == {
  Line("scalar", "name", "ok"), Line("scalar", "version", "ok"), Line("scalar", "description", "bad"),
  Line("block", "description", ""), Line("text", "", "ok"),
  Line("open", "tags", ""), Line("item", "", "ok"), Line("item", "", "bad")}
MCScanFindings == {{"directory", "hook", "mcp"}, {"document", "package", "claudeMd", "typosquat", "config"}}
MCSection == [title : {"usage", "changelog"}, body : {"", "a", "b"}]
InPack(n, d, t, v, rec) == [name |-> n, description |-> d, tags |-> t, version |-> v, recorded |-> rec]
MCPackSkill == {
  InPack({"helper"}, {"docker"}, <<"docker">>, 1, <<2, 1>>),
  InPack({"tool", "helper"}, {"tool"}, <<"docker", "tool">>, 1, <<0, 2>>),
  InPack({"docker"}, {"helper"}, <<>>, 0, <<>>),
  InPack({"docker"}, {"tool"}, <<"git", "docker">>, 2, <<1>>)}
MCPackDomain == [p \in {"tools", "docker-skills", "misc"} |-> IF p = "docker-skills" THEN "docker" ELSE ""]
MCOverlaps == {<<"tools", "tool">>}
MCInstalledId == [i \in {"i1", "i2", "i3"} |-> IF i = "i3" THEN "s2" ELSE "s1"]
Needs(t, k, from) == [target |-> t, kind |-> k, source |-> from]
MCExtracted == [s \in {"s1", "s2"} |->
  IF s = "s1" THEN {Needs("s2", "skill", "declared"), Needs("x", "skill", "declared"), Needs("y", "mcp", "inferred")}
  ELSE {Needs("s1", "skill", "inferred"), Needs("db", "mcp", "declared"), Needs("cli", "other", "declared")}]

\* Skills directories with a hidden one, a link, one without SKILL.md and one whose SKILL.md
\* cannot be read; plugins of every
\* fate; a CLAUDE.md of which any line may be marked.
Folder(d, kind, md, read, n, ph) == [dir |-> d, kind |-> kind, md |-> md, read |-> read, name |-> n, phrases |-> ph]
MCSkillEntry == {Folder("x", "dir", TRUE, TRUE, "n", 2), Folder("y", "dir", FALSE, FALSE, "", 0),
                 Folder("z", "dir", TRUE, FALSE, "m", 1), Folder(".h", "hidden", TRUE, TRUE, "", 1),
                 Folder("l", "link", TRUE, TRUE, "", 0)}
InMd(f, kind, desc, first) == [file |-> f, kind |-> kind, read |-> f # "a", described |-> desc, first |-> first]
MCMdEntry == {InMd("a", "md", 2, 1), InMd("b", "md", 3, 1), InMd("c", "md", 0, 1), InMd("d", "other", 1, 1)}
MCClaudeLine == [kind : {"trigger", "other", "bullet", "text"}, marker : {FALSE}, phrase : {TRUE}]
                \cup [kind : {"trigger", "bullet"}, marker : {TRUE}, phrase : {TRUE}]
                \cup [kind : {"text"}, marker : {TRUE}, phrase : {FALSE}]
Plugin(id, value, shape, cache, n, skills) ==
  [id |-> id, value |-> value, shape |-> shape, cache |-> cache, versions |-> n, skills |-> skills,
   dirs |-> IF skills = "inside" THEN MCSkillEntry ELSE {}]
MCPluginEntry == {
  Plugin("on", "true", "ok", "inside", 1, "inside"), Plugin("off", "false", "ok", "inside", 1, "inside"),
  Plugin("text", "other", "ok", "inside", 1, "inside"), Plugin("two", "true", "ok", "inside", 2, "inside"),
  Plugin("none", "true", "ok", "inside", 0, "missing"), Plugin("bare", "true", "ok", "inside", 1, "missing"),
  Plugin("away", "true", "ok", "outside", 1, "inside"), Plugin("gone", "true", "ok", "missing", 0, "missing"),
  Plugin("odd", "true", "shapeless", "missing", 0, "missing"), Plugin("climbs", "true", "unsafe", "missing", 0, "missing"),
  Plugin("file", "true", "ok", "file", 0, "missing"), Plugin("leads", "true", "ok", "inside", 1, "outside")}
=============================================================================
