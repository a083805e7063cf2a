---------------------------- MODULE SkillQueries ----------------------------
(***************************************************************************)
(* The tools that answer questions about skills: search, skill_recommend,  *)
(* skill_suggest, get_skill, skill_compare and skill_recover_source.  Each *)
(* asks the registry and falls back to the database of this machine; an    *)
(* answer is a function of what the sources return, and keeps no state.    *)
(***************************************************************************)
EXTENDS Integers, SequencesExt

CONSTANTS
  Registered,   \* what a source lists: id -> [name, author, compat, column, repo, safe, tags, tier, score, collection]
  StaleScore,   \* StaleScore[id]: the score the database still has, 0..100
  Mine,         \* the skills on this machine, sorted: <<[name, compat, tags, score], ...>>
  Similar,      \* pairs of names of which one contains the other
  RoleOfTag,    \* inferRolesFromTags, tag by tag
  Excluded,     \* FEATURE_EXCLUDED_TAGS
  Slugs,        \* compatibility slugs
  ClientSlug,   \* the slug of SKILLSMITH_CLIENT, or ""
  DEFAULT_SEARCH_LIMIT, MAX_SEARCH_LIMIT, LOCAL_COMPAT_OVERFETCH_MAX,
  MaxHits       \* bound on what matches a question

\* Scores, ranks and limits are numbers, a row has finitely many tags, and the database
\* gives as many rows as any limit.
ASSUME QueryAssumption ==
  /\ IsFiniteSet(DOMAIN Registered) /\ DOMAIN Mine = 1 .. Len(Mine) /\ Len(Mine) \in Nat
  /\ \A s \in DOMAIN Registered : /\ Registered[s].score \in Nat /\ Registered[s].tier \in Nat
                                  /\ IsFiniteSet(Registered[s].tags) /\ StaleScore[s] \in Nat
  /\ \A s \in DOMAIN Mine : Mine[s].score \in Nat
  /\ DEFAULT_SEARCH_LIMIT \in 1 .. MAX_SEARCH_LIMIT /\ MAX_SEARCH_LIMIT \in Nat
  /\ LOCAL_COMPAT_OVERFETCH_MAX \in Nat /\ LOCAL_COMPAT_OVERFETCH_MAX >= MAX_SEARCH_LIMIT

VARIABLE reply  \* the last answer, with what it was made from

queryVars == <<reply>>

NaN == -99
NoReply == [tool |-> "none"]
QueryInit == reply = NoReply

\* What a source returns: rows in the order of their relevance.
Lists(rows, n) == {q \in SetToAllKPermutations(rows) : Len(q) <= n}
First(q, n) == SubSeq(q, 1, IF n < Len(q) THEN n ELSE Len(q))

\* filter() and the stable sort(): the rows at the positions I, in the order R of those.
Arranged(rows, I, R) ==
  [k \in 1 .. Cardinality(I) |-> rows[CHOOSE i \in I : Cardinality({j \in I : <<j, i>> \in R}) = k - 1]]
Kept(rows, I) == Arranged(rows, I, {p \in I \X I : p[1] < p[2]})
-----------------------------------------------------------------------------
(* search.                                                                 *)

\* The limit may be omitted, which NaN stands for, or be anything: it is clamped.
resolveSearchLimit(limit) ==
  CASE limit = NaN -> DEFAULT_SEARCH_LIMIT
    [] limit # NaN /\ limit < 1 -> 1
    [] limit > MAX_SEARCH_LIMIT -> MAX_SEARCH_LIMIT
    [] OTHER -> limit

\* Faulty: the database is asked for a page, and ranked afterwards.
fetchJustThePage(limit, filterActive) == limit

computeLocalCompatFetchLimit(limit, filterActive) ==
  IF ~filterActive THEN limit
  ELSE IF limit * 3 < LOCAL_COMPAT_OVERFETCH_MAX THEN limit * 3 ELSE LOCAL_COMPAT_OVERFETCH_MAX

\* An unset client restricts nothing.
resolveDefaultCompatibility == IF ClientSlug = "" THEN {} ELSE {ClientSlug}

\* What is optional is a sequence of at most one value.
compatibilityWantedSlugs(asked) == IF asked = <<>> THEN resolveDefaultCompatibility ELSE asked[1]

computeCompatRank(compat, wanted) ==
  IF wanted = {} \/ compat = {} THEN 1 ELSE IF compat \cap wanted # {} THEN 0 ELSE 2

\* A stable sort: nothing is dropped.
sortByCompatRank(rows, wanted) ==
  LET Rank(i) == computeCompatRank(rows[i].compat, wanted) IN
  Arranged(rows, DOMAIN rows, {p \in (DOMAIN rows) \X (DOMAIN rows) :
    Rank(p[1]) < Rank(p[2]) \/ (Rank(p[1]) = Rank(p[2]) /\ p[1] < p[2])})

countCompatDeprioritized(rows, wanted) ==
  Cardinality({i \in DOMAIN rows : computeCompatRank(rows[i].compat, wanted) = 2})

filterInstallable(rows, only) == Kept(rows, {i \in DOMAIN rows : only => rows[i].installable})

\* Faulty: one ranking of both lists.
rankTogether(ours, theirs, wanted) == sortByCompatRank(ours \o theirs, wanted)

rankBuckets(ours, theirs, wanted) == sortByCompatRank(ours, wanted) \o sortByCompatRank(theirs, wanted)

mergeRankAndPage(ours, theirs, wanted, only, limit) ==
  LET merged == rankBuckets(ours, theirs, wanted)
      kept == filterInstallable(merged, only) IN
  [page |-> First(kept, limit), mergedTotal |-> Len(kept), hidden |-> Len(merged) - Len(kept),
   deprioritized |-> countCompatDeprioritized(First(kept, limit), wanted)]

\* The column decides where it is set; the database has the repository alone.
mapApiSkillToSearchResult(s) ==
  [id |-> s, mine |-> FALSE, compat |-> Registered[s].compat,
   installable |-> IF Registered[s].column = "unset" THEN Registered[s].repo ELSE Registered[s].column = "yes"]
mapLocalSkillToSearchResult(s) ==
  [id |-> s, mine |-> FALSE, compat |-> Registered[s].compat, installable |-> Registered[s].repo]
localSkillToSearchResult(s) == [id |-> Mine[s].name, mine |-> TRUE, compat |-> Mine[s].compat, installable |-> TRUE]

\* A question is refused before a source is asked.  A trust tier is one of five
\* or refused; a number is in its range or refused.
searchRefused(in) ==
  \/ in.query = "none" /\ in.tier = "none" /\ in.score = "none" /\ ~in.safeOnly /\ in.compat = <<>>
                       /\ in.installable = <<>>
  \/ in.query = "short" \/ in.tier = "invalid" \/ in.score = "outside"

\* Skills of this machine, unless a tier was asked for; their search may fail.
localMatches(in) ==
  IF in.tier # "none" THEN {<<>>}
  ELSE {q \in Lists(DOMAIN Mine, Len(Mine)) : \A i, j \in DOMAIN q : i < j => q[i] < q[j]}

SearchAnswer(in, online, matched, fetched, ours) ==
  LET limit == resolveSearchLimit(in.limit)
      wanted == compatibilityWantedSlugs(in.compat)
      only == in.installable # <<FALSE>>
      result == mergeRankAndPage(ours, fetched, wanted, only, limit) IN
  [tool |-> "search", online |-> online, safeOnly |-> in.safeOnly, only |-> only, matched |-> matched, ours |-> ours,
   limit |-> limit, wanted |-> wanted, page |-> result.page, hidden |-> result.hidden, deprioritized |-> result.deprioritized,
   total |-> IF only THEN result.mergedTotal ELSE Len(matched) + Len(ours)]

Rows(q, MapRow(_)) == [i \in DOMAIN q |-> MapRow(q[i])]

\* The registry knows nothing of safe_only and max_risk.
SearchRegistry(in) ==
  \E matched \in Lists(DOMAIN Registered, MaxHits), ours \in localMatches(in) :
    reply' = SearchAnswer(in, TRUE, Rows(matched, mapApiSkillToSearchResult),
                    Rows(First(matched, resolveSearchLimit(in.limit)), mapApiSkillToSearchResult),
                    Rows(ours, localSkillToSearchResult))

\* Offline, or when the registry failed.
SearchDatabase(in) ==
  \E matched \in Lists({s \in DOMAIN Registered : in.safeOnly => Registered[s].safe}, MaxHits),
     ours \in localMatches(in) :
    LET fetch == computeLocalCompatFetchLimit(resolveSearchLimit(in.limit),
                                              compatibilityWantedSlugs(in.compat) # {}) IN
    reply' = SearchAnswer(in, FALSE, Rows(matched, mapLocalSkillToSearchResult),
                    Rows(First(matched, fetch), mapLocalSkillToSearchResult),
                    Rows(ours, localSkillToSearchResult))

SearchInput == [query : {"none", "short", "text"}, tier : {"none", "valid", "invalid"},
                score : {"none", "inside", "outside"}, safeOnly : BOOLEAN,
                compat : {<<>>} \cup {<<wanted>> : wanted \in SUBSET Slugs}, installable : {<<>>, <<FALSE>>},
                limit : {NaN, 0, MAX_SEARCH_LIMIT + 1}]

executeSearch(in) ==
  IF searchRefused(in) THEN reply' = [tool |-> "refused"] ELSE SearchRegistry(in) \/ SearchDatabase(in)
-----------------------------------------------------------------------------
(* skill_recommend.                                                        *)

inferRolesFromTags(tags) == {RoleOfTag[t] : t \in tags \cap DOMAIN RoleOfTag}

\* The scale of similarity is that of the defaults, 7 and 8.
buildLocalSkillRecommendation(s) ==
  [id |-> Mine[s].name, name |-> Mine[s].name, mine |-> TRUE, roles |-> inferRolesFromTags(Mine[s].tags),
   score |-> Mine[s].score, similarity |-> 7, installable |-> TRUE]
buildApiRecommendation(s) ==
  [id |-> s, name |-> Registered[s].name, mine |-> FALSE, roles |-> inferRolesFromTags(Registered[s].tags),
   score |-> Registered[s].score, similarity |-> 8,
   installable |-> IF Registered[s].column = "unset" THEN Registered[s].repo ELSE Registered[s].column = "yes"]

boosted(score) == IF score + 30 > 100 THEN 100 ELSE score + 30

transformSkillToMatchData(s) ==
  [id |-> s, name |-> Registered[s].name, mine |-> FALSE, roles |-> inferRolesFromTags(Registered[s].tags),
   score |-> StaleScore[s], similarity |-> 0, installable |-> Registered[s].column # "no"]
buildDbFallbackRecommendation(s, role, similarity) ==
  LET row == transformSkillToMatchData(s) IN
  [row EXCEPT !.score = IF role \in row.roles THEN boosted(@) ELSE @, !.similarity = similarity]

\* By score, and then, when the sources are merged, by similarity.
ByScore(recs, alsoSimilarity) ==
  LET Similarity(i) == IF alsoSimilarity THEN recs[i].similarity ELSE 0 IN
  Arranged(recs, DOMAIN recs, {p \in (DOMAIN recs) \X (DOMAIN recs) :
    \/ recs[p[1]].score > recs[p[2]].score
    \/ recs[p[1]].score = recs[p[2]].score /\ Similarity(p[1]) > Similarity(p[2])
    \/ recs[p[1]].score = recs[p[2]].score /\ Similarity(p[1]) = Similarity(p[2]) /\ p[1] < p[2]})

\* A skill of this machine gives way to one of the registry with such a name.
mergeAndDeduplicateRecommendations(theirs, ours, limit) ==
  LET Duplicate(r) == \E i \in DOMAIN theirs : <<r.name, theirs[i].name>> \in Similar
      unique == Kept(ours, {i \in DOMAIN ours : ~Duplicate(ours[i])}) IN
  First(ByScore(theirs \o unique, TRUE), limit)

\* Faulty: what one asks for ranks first, the others stay.
boostRole(recs, role) ==
  IF role = "none" THEN recs
  ELSE ByScore([i \in DOMAIN recs |-> IF role \in recs[i].roles THEN [recs[i] EXCEPT !.score = boosted(@)]
                                      ELSE recs[i]], FALSE)

keepRole(recs, role) ==
  LET inRole == Kept(recs, {i \in DOMAIN recs : role \in recs[i].roles}) IN
  IF role = "none" THEN recs
  ELSE ByScore([i \in DOMAIN inRole |-> [inRole[i] EXCEPT !.score = boosted(@)]], FALSE)

offerInstallable(recs, only) == Kept(recs, {i \in DOMAIN recs : only => recs[i].installable})

\* What the user names, or else the names found in the client's directory.
installedSkills(in) == IF in.named # {} THEN in.named ELSE {Mine[s].name : s \in in.present}

Recommended(in, recs, considered, roleFiltered) ==
  [tool |-> "recommend", asked |-> in, recs |-> First(offerInstallable(recs, in.only), in.limit),
   considered |-> considered, roleFiltered |-> roleFiltered,
   hidden |-> Len(recs) - Len(offerInstallable(recs, in.only))]

\* Nothing to go by: no source is asked.
EmptyStack(in) ==
  /\ installedSkills(in) = {} /\ ~in.context
  /\ reply' = [tool |-> "recommend", asked |-> in, recs |-> <<>>, considered |-> 0, roleFiltered |-> 0,
               hidden |-> 0]

\* Both sources are asked; one that fails has nothing, and the other's rows make the answer.
RecommendOnline(in) ==
  /\ installedSkills(in) # {} \/ in.context
  /\ \E hits \in Lists(DOMAIN Registered, in.limit), ours \in Lists(DOMAIN Mine, in.limit) :
       LET theirs == Rows(hits, buildApiRecommendation)
           merged == mergeAndDeduplicateRecommendations(theirs, Rows(ours, buildLocalSkillRecommendation), in.limit)
           fresh == Kept(merged, {i \in DOMAIN merged : merged[i].id \notin installedSkills(in)})
           ofRole == keepRole(fresh, in.role) IN
       reply' = Recommended(in, ofRole, Len(hits) + Len(ours), Len(fresh) - Len(ofRole))

\* Offline the rows of the database are matched: no collections, nothing installed
\* and nothing with such a name; then what overlaps goes, unless the caller wants
\* it, then other roles.
candidates(in) ==
  LET installedNames == UNION {IF i \in DOMAIN Registered THEN {i, Registered[i].name} ELSE {i} : i \in installedSkills(in)} IN
  {s \in DOMAIN Registered :
     /\ ~Registered[s].collection /\ s \notin installedSkills(in)
     /\ ~\E n \in installedNames : <<Registered[s].name, n>> \in Similar}

RecommendOffline(in) ==
  LET installedSkillData == installedSkills(in) \cap DOMAIN Registered
      OfRole(rows) == {s \in rows : in.role = "none" \/ in.role \in inferRolesFromTags(Registered[s].tags)} IN
  /\ installedSkills(in) # {} \/ in.context
  /\ \E accepted \in IF installedSkillData # {} THEN SUBSET candidates(in) ELSE {candidates(in)} :
     \E hits \in Lists(OfRole(accepted), in.limit), ours \in Lists(DOMAIN Mine, in.limit), similarity \in {6, 9} :
       LET Fallback(s) == buildDbFallbackRecommendation(s, in.role, similarity)
           merged == mergeAndDeduplicateRecommendations(Rows(hits, Fallback),
                                                        Rows(ours, buildLocalSkillRecommendation), in.limit)
           again == in.role # "none" /\ ours # <<>>
           ofRole == Kept(merged, {i \in DOMAIN merged : again => in.role \in merged[i].roles}) IN
       reply' = Recommended(in, ofRole, Cardinality(candidates(in)) + Len(ours),
                            IF again THEN Len(merged) - Len(ofRole) ELSE Cardinality(accepted) - Cardinality(OfRole(accepted)))

Names == {Mine[s].name : s \in DOMAIN Mine} \cup {Registered[s].name : s \in DOMAIN Registered}

executeRecommend(in) == EmptyStack(in) \/ RecommendOnline(in) \/ RecommendOffline(in)
-----------------------------------------------------------------------------
(* skill_suggest: the triggers of the project choose the categories.       *)

\* The rows of the database that are not installed and have a tag among the categories.
candidateSkills(installed, categories) ==
  {s \in DOMAIN Registered : s \notin installed /\ Registered[s].tags \cap categories # {}}

\* A context that gives too little is answered with nothing.
executeSuggest(installed, categories, limit) ==
  \E hits \in {<<>>} \cup Lists(candidateSkills(installed, categories), limit) :
    reply' = [tool |-> "suggest", asked |-> installed, categories |-> categories, recs |-> hits]
-----------------------------------------------------------------------------
(* get_skill, skill_compare and skill_recover_source.                      *)

\* resolveSkillApiFirst, of the core package: the registry, or the database.
Source == {"api", "db"}

\* The registry's answer knows of the registry's quarantine alone, and the database's of
\* this machine's, which is asked for a skill with a repository.
apiSkill(s, quarantined) == [source |-> "api", installable |-> Registered[s].repo /\ ~quarantined.there]
dbSkill(s, quarantined) == [source |-> "db", installable |-> Registered[s].repo /\ ~quarantined.here]

executeGetSkill(s, source, quarantined) ==
  reply' = [tool |-> "get", skill |-> s, quarantined |-> quarantined,
            answer |-> IF source = "api" THEN apiSkill(s, quarantined) ELSE dbSkill(s, quarantined)]

ExtendedSkill(s, source) ==
  [score |-> IF source = "api" THEN Registered[s].score ELSE StaleScore[s], rank |-> Registered[s].tier,
   features |-> Cardinality(Registered[s].tags \ Excluded)]

\* Neither source knows dependencies or a breakdown of the score: those are ties.
generateDifferences(a, b) ==
  {f \in {"score", "rank", "features"} : a[f] > b[f]}

\* A verified skill gets a bonus, and a clearly higher score does.
points(a, b) == Cardinality(generateDifferences(a, b)) + (IF a.rank = 4 THEN 2 ELSE 0)
                                                       + (IF a.score > b.score + 5 THEN 1 ELSE 0)

\* Faulty: b wins by a single point.
winnerByAnyLead(a, b) ==
  IF points(a, b) > points(b, a) + 1 THEN "a" ELSE IF points(b, a) > points(a, b) THEN "b" ELSE "tie"

generateRecommendation(a, b) ==
  IF points(a, b) > points(b, a) + 1 THEN "a" ELSE IF points(b, a) > points(a, b) + 1 THEN "b" ELSE "tie"

executeCompare(a, b, sourceA, sourceB) ==
  reply' = IF a = b THEN [tool |-> "refused"]
           ELSE [tool |-> "compare", a |-> ExtendedSkill(a, sourceA), b |-> ExtendedSkill(b, sourceB),
                 winner |-> generateRecommendation(ExtendedSkill(a, sourceA), ExtendedSkill(b, sourceB))]

\* Rows of a repository at GitHub.  Offline the name itself wins over its variants;
\* what the registry returns is taken as it is.
findCandidatesOnline(hits) == {s \in hits : Registered[s].repo}
findCandidatesOffline(name) ==
  LET variants == {s \in DOMAIN Registered : <<Registered[s].name, name>> \in Similar /\ Registered[s].repo}
      exact == {s \in variants : Registered[s].name = name} IN
  IF exact # {} THEN exact ELSE variants

executeSkillRecoverSource(name) ==
  \/ \E hits \in SUBSET DOMAIN Registered :
       reply' = [tool |-> "recover", name |-> name, online |-> TRUE, found |-> findCandidatesOnline(hits)]
  \/ reply' = [tool |-> "recover", name |-> name, online |-> FALSE, found |-> findCandidatesOffline(name)]
-----------------------------------------------------------------------------
\* Names found on disk are not looked at if the user gives one.
RecommendInput == {in \in [named : {{}} \cup {{s} : s \in DOMAIN Registered}, present : SUBSET DOMAIN Mine,
                           context : BOOLEAN, role : {"none"} \cup {RoleOfTag[t] : t \in DOMAIN RoleOfTag},
                           only : BOOLEAN, limit : 1 .. MAX_SEARCH_LIMIT] : in.named = {} \/ in.present = {}}
Tags == UNION {Registered[s].tags : s \in DOMAIN Registered}

QueryNext ==
  /\ reply = NoReply
  /\ \/ \E in \in SearchInput : executeSearch(in)
     \/ \E in \in RecommendInput : executeRecommend(in)
     \/ \E installed \in SUBSET DOMAIN Registered, categories \in SUBSET Tags :
          executeSuggest(installed, categories, MAX_SEARCH_LIMIT)
     \/ \E s \in DOMAIN Registered, source \in Source, quarantined \in [there : BOOLEAN, here : BOOLEAN] :
          executeGetSkill(s, source, quarantined)
     \/ \E a, b \in DOMAIN Registered, sourceA, sourceB \in Source : executeCompare(a, b, sourceA, sourceB)
     \/ \E name \in Names : executeSkillRecoverSource(name)
-----------------------------------------------------------------------------
\* A page of search says what it says: skills of this machine come first; within a
\* source no installable row that was found is left out for one that suits the client
\* less, offline among three pages of matches if that many are fetched; a page with room to spare left out
\* nothing but what it counts as hidden.
SearchIsHonest == reply.tool = "search" =>
  LET page == reply.page
      widened == IF 3 * reply.limit < LOCAL_COMPAT_OVERFETCH_MAX THEN 3 * reply.limit
                 ELSE LOCAL_COMPAT_OVERFETCH_MAX
      window == IF reply.online \/ reply.wanted = {} THEN reply.limit ELSE widened
      Rank(r) == computeCompatRank(r.compat, reply.wanted)
      Offered(r) == reply.only => r.installable IN
  /\ \A i, j \in DOMAIN page : page[i].mine /\ ~page[j].mine => i < j
  /\ \A i \in DOMAIN page :
       LET found == IF page[i].mine THEN reply.ours ELSE First(reply.matched, window) IN
       \A r \in ToSet(found) : Offered(r) /\ r \notin ToSet(page) => Rank(page[i]) <= Rank(r)
  /\ Len(page) < reply.limit =>
       /\ {r \in ToSet(reply.ours) \cup ToSet(First(reply.matched, reply.limit)) : Offered(r)} \subseteq ToSet(page)
       /\ reply.only => reply.total = Len(page)
  /\ Len(page) <= reply.total
  /\ reply.deprioritized = Cardinality({i \in DOMAIN page : Rank(page[i]) = 2})

\* A comparison does not depend on which skill is named first, and what scores lower
\* and is trusted less is never the one to take.
ComparisonIsFair(a, b, winner) ==
  LET Mirror == [w \in {"a", "b", "tie"} |-> CASE w = "a" -> "b" [] w = "b" -> "a" [] OTHER -> "tie"] IN
  /\ generateRecommendation(b, a) = Mirror[winner]
  /\ winner = "a" => a.score >= b.score \/ a.rank >= b.rank
  /\ winner = "b" => b.score >= a.score \/ b.rank >= a.rank

\* What is recommended or suggested was asked for: of the role, installable, not a
\* registry skill named as installed, and no skill of this machine next to one of the
\* registry with such a name; no more is counted than was considered; and a comparison is fair.
AdviceFits ==
  /\ reply.tool = "recommend" =>
       LET in == reply.asked
           recs == ToSet(reply.recs) IN
       /\ Len(reply.recs) <= in.limit
       /\ \A r \in recs : /\ in.role # "none" => in.role \in r.roles
                          /\ in.only => r.installable
                          /\ ~r.mine => r.id \notin installedSkills(in)
       /\ \A r, q \in recs : r.mine /\ ~q.mine => <<r.name, q.name>> \notin Similar
       /\ Len(reply.recs) + reply.hidden + reply.roleFiltered <= reply.considered
  /\ reply.tool = "suggest" =>
       \A s \in ToSet(reply.recs) : s \notin reply.asked /\ Registered[s].tags \cap reply.categories # {}
  /\ reply.tool = "compare" => ComparisonIsFair(reply.a, reply.b, reply.winner)

\* Not so in the code: with the registry at hand safe_only leaves nothing out.
SafeOnlyHolds == reply.tool = "search" /\ reply.safeOnly =>
  \A r \in ToSet(reply.page) : r.mine \/ Registered[r.id].safe

\* Not so in the code: online, a skill found installed is recommended under its
\* registry id; offline, the skills of this machine are recommended to their owner.
InstalledIsNotOffered == reply.tool = "recommend" =>
  \A r \in ToSet(reply.recs) : r.name \notin installedSkills(reply.asked)
=============================================================================
