------------------------ MODULE LocalServices_proofs ------------------------
(***************************************************************************)
(* The parts of LocalServices, for any number of servers, engines,         *)
(* requests, skills and entries.  A behaviour of the composition is, for   *)
(* each part, a behaviour of that part alone; each part then has an        *)
(* inductive invariant of its own.                                         *)
(***************************************************************************)
EXTENDS LocalServices, FiniteSetTheorems, NaturalsInduction, SequenceTheorems, TLAPS

-----------------------------------------------------------------------------
(* Each part alone.                                                        *)

OnboardingSpec == OnboardingInit /\ [][OnboardingNext]_onboardingVars
MailSpec       == MailInit /\ [][MailNext]_mailVars
SuggestionSpec == SuggestionInit /\ [][SuggestionNext]_suggestionVars
LlmSpec        == LlmInit /\ [][LlmNext]_llmChainVars
LocalSpec      == LocalInit /\ [][LocalNext]_localVars
OutdatedSpec   == OutdatedInit /\ [][OutdatedNext]_outdatedVars
InventorySpec  == InventoryInit /\ [][InventoryNext]_inventoryVars
QuerySpec      == QueryInit /\ [][QueryNext]_queryVars
ReportSpec     == ReportInit /\ [][ReportNext]_reportVars
FileSpec       == FileInit /\ [][FileNext]_fileVars
WebhookSpec    == WebhookInit /\ [][WebhookNext]_webhookVars

\* A behaviour of the composition is one of each part: the others never touch its variables.
LEMMA PartsAlone ==
  Spec => /\ OnboardingSpec /\ MailSpec /\ SuggestionSpec /\ LlmSpec /\ LocalSpec
          /\ OutdatedSpec /\ InventorySpec /\ WebhookSpec /\ QuerySpec /\ ReportSpec /\ FileSpec
<1>1. Init => /\ OnboardingInit /\ MailInit /\ SuggestionInit /\ LlmInit /\ LocalInit
              /\ OutdatedInit /\ InventoryInit /\ WebhookInit /\ QueryInit /\ ReportInit /\ FileInit
  BY DEF Init
<1>2. [Next]_vars => [OnboardingNext]_onboardingVars
  BY DEF Next, vars
<1>3. [Next]_vars => [MailNext]_mailVars
  BY DEF Next, vars
<1>4. [Next]_vars => [SuggestionNext]_suggestionVars
  BY DEF Next, vars
<1>5. [Next]_vars => [LlmNext]_llmChainVars
  BY DEF Next, vars
<1>6. [Next]_vars => [LocalNext]_localVars
  BY DEF Next, vars
<1>7. [Next]_vars => [OutdatedNext]_outdatedVars
  BY DEF Next, vars
<1>8. [Next]_vars => [InventoryNext]_inventoryVars
  BY DEF Next, vars
<1>9. [Next]_vars => [WebhookNext]_webhookVars
  BY DEF Next, vars
<1>10. [Next]_vars => [QueryNext]_queryVars
  BY DEF Next, vars
<1>11. [Next]_vars => [ReportNext]_reportVars
  BY DEF Next, vars
<1>12. [Next]_vars => [FileNext]_fileVars
  BY DEF Next, vars
<1> QED
  BY <1>1, <1>2, <1>3, <1>4, <1>5, <1>6, <1>7, <1>8, <1>9, <1>10, <1>11, <1>12, PTL
  DEF Spec, OnboardingSpec, MailSpec, SuggestionSpec, LlmSpec, LocalSpec, OutdatedSpec, InventorySpec,
      WebhookSpec, QuerySpec, ReportSpec, FileSpec
-----------------------------------------------------------------------------
(* The first run and the Tier-1 skills.                                    *)

Boots == [at: {"down", "bundled", "docs", "mark", "heal", "install", "done"},
          first: BOOLEAN, noTier1: BOOLEAN, fresh: SUBSET Assets, known: SUBSET Assets,
          todo: SUBSET Tier1, newly: SUBSET Assets]

OnboardingTypeOK ==
  /\ asset \in [Assets -> {"absent", "part", "whole"}]
  /\ firstRunDone \in BOOLEAN
  /\ tier1 \in [form: {"absent", "ok", "bad"}, installed: SUBSET Assets, lastAttempt: Nat]
  /\ boot \in [Server -> Boots]
  /\ welcome \in [Server -> SUBSET Assets]
  /\ clock \in Nat
  /\ seen \subseteq Assets /\ credited \subseteq Assets

\* Whatever a start carries with it, on the way to the status and the welcome, had a directory.
OnlySeen ==
  /\ \A a \in Assets : asset[a] # "absent" => a \in seen
  /\ tier1.installed \subseteq seen /\ credited \subseteq seen
  /\ \A p \in Server : /\ welcome[p] \subseteq seen /\ boot[p].fresh \subseteq seen
                       /\ boot[p].known \subseteq seen /\ boot[p].newly \subseteq seen

OnboardingInv == OnboardingTypeOK /\ OnlySeen

\* What a start knows, and passes on.
Carried(b) == b.fresh \cup b.known \cup b.newly

LEMMA DownIsBoot == Down \in Boots /\ Carried(Down) = {}
BY DEF Down, Boots, Carried

LEMMA OnboardingStart == OnboardingInit => OnboardingInv
<1> SUFFICES ASSUME OnboardingInit PROVE OnboardingInv
  OBVIOUS
<1>1. boot \in [Server -> Boots] /\ \A p \in Server : Carried(boot[p]) = {}
  BY DownIsBoot DEF OnboardingInit
<1>2. tier1 \in [form: {"absent", "ok", "bad"}, installed: SUBSET Assets, lastAttempt: Nat]
  BY DEF OnboardingInit
<1> QED
  BY <1>1, <1>2 DEF OnboardingInit, OnboardingInv, OnboardingTypeOK, OnlySeen, Carried

\* A start that installed the bundled skills differs in where it is and in what is fresh.
Bundling(r, at, fresh) == [r EXCEPT !.at = at, !.fresh = fresh]

LEMMA FreshInstalled ==
  ASSUME NEW r \in Boots, NEW at \in {"docs", "heal"}, NEW fresh \in SUBSET Assets
  PROVE  /\ Bundling(r, at, fresh) \in Boots /\ Bundling(r, at, fresh).fresh = fresh
         /\ Bundling(r, at, fresh).known = r.known /\ Bundling(r, at, fresh).newly = r.newly
BY DEF Boots, Bundling

\* A start that has read the status file goes on with what it read and with what is missing.
Looking(r, known, todo) == [r EXCEPT !.at = "install", !.known = known, !.todo = todo]

LEMMA StatusRead ==
  ASSUME NEW r \in Boots, NEW known \in SUBSET Assets, NEW todo \in SUBSET Tier1
  PROVE  /\ Looking(r, known, todo) \in Boots /\ Looking(r, known, todo).known = known
         /\ Looking(r, known, todo).fresh = r.fresh /\ Looking(r, known, todo).newly = r.newly
BY DEF Boots, Looking

\* A start that took one skill has one less to do.
Taking(r, todo, newly) == [r EXCEPT !.todo = todo, !.newly = newly]

LEMMA OneTaken ==
  ASSUME NEW r \in Boots, NEW todo \in SUBSET Tier1, NEW newly \in SUBSET Assets
  PROVE  /\ Taking(r, todo, newly) \in Boots /\ Taking(r, todo, newly).newly = newly
         /\ Taking(r, todo, newly).fresh = r.fresh /\ Taking(r, todo, newly).known = r.known
BY DEF Boots, Taking

\* The start of one server goes on: what it carries had a directory.
LEMMA OneBoot ==
  ASSUME OnboardingInv, NEW p \in Server, NEW b \in Boots, boot' = [boot EXCEPT ![p] = b],
         seen \subseteq seen', Carried(b) \subseteq seen'
  PROVE  /\ boot' \in [Server -> Boots]
         /\ \A q \in Server : /\ boot'[q].fresh \subseteq seen' /\ boot'[q].known \subseteq seen'
                              /\ boot'[q].newly \subseteq seen'
BY DEF OnboardingInv, OnboardingTypeOK, OnlySeen, Carried

LEMMA OnboardingStep ==
  ASSUME OnboardingInv, [OnboardingNext]_onboardingVars
  PROVE  OnboardingInv'
<1> USE DEF OnboardingInv, OnboardingTypeOK, OnlySeen, timeVars
<1>1. ASSUME NEW p \in Server, Start(p) PROVE OnboardingInv'
  <2>1. PICK noTier1 \in BOOLEAN, at \in {"heal", "bundled"} :
          boot' = [boot EXCEPT ![p] = [Down EXCEPT !.noTier1 = noTier1, !.first = ~firstRunDone, !.at = at]]
    BY <1>1 DEF Start
  <2> DEFINE b == [Down EXCEPT !.noTier1 = noTier1, !.first = ~firstRunDone, !.at = at]
  <2>2. b \in Boots /\ Carried(b) = {}
    BY DEF Down, Boots, Carried
  <2>3. boot' = [boot EXCEPT ![p] = b]
    BY <2>1
  <2> HIDE DEF b
  <2> QED
    BY <1>1, <2>2, <2>3, OneBoot DEF Start
<1>2. ASSUME NEW p \in Server, InstallBundled(p) PROVE OnboardingInv'
  <2>1. PICK whole, partial \in SUBSET {b \in Bundled : asset[b] = "absent"} :
          /\ whole \cap partial = {}
          /\ asset' = [a \in Assets |-> IF a \in whole THEN "whole" ELSE IF a \in partial THEN "part"
                                        ELSE asset[a]]
          /\ seen' = seen \cup whole \cup partial
          /\ boot' = [boot EXCEPT ![p].at = IF boot[p].first THEN "docs" ELSE "heal",
                                  ![p].fresh = IF boot[p].first THEN whole ELSE {}]
    <3> HIDE DEF OnboardingInv, OnboardingTypeOK, OnlySeen, timeVars
    <3> QED
      BY <1>2 DEF InstallBundled
  <2> DEFINE at == IF boot[p].first THEN "docs" ELSE "heal"
             fresh == IF boot[p].first THEN whole ELSE {}
             b == Bundling(boot[p], at, fresh)
  <2>2. boot' = [boot EXCEPT ![p] = b] /\ at \in {"docs", "heal"} /\ fresh \in SUBSET whole
    BY <2>1 DEF Bundling
  <2>3. whole \in SUBSET Assets /\ partial \in SUBSET Assets /\ fresh \in SUBSET Assets
    BY DEF Assets
  <2>4. boot[p] \in Boots /\ boot[p].known \subseteq seen /\ boot[p].newly \subseteq seen
    OBVIOUS
  <2>5. b \in Boots /\ b.fresh = fresh /\ b.known = boot[p].known /\ b.newly = boot[p].newly
    <3> HIDE DEF at, fresh, OnboardingInv
    <3> QED
      BY <2>2, <2>3, <2>4, FreshInstalled
  <2>6. Carried(b) \subseteq seen'
    BY <2>1, <2>4, <2>5 DEF Carried
  <2>7. /\ asset' \in [Assets -> {"absent", "part", "whole"}] /\ seen' \subseteq Assets
        /\ \A a \in Assets : asset'[a] # "absent" => a \in seen'
    <3> HIDE DEF at, fresh
    <3> QED
      BY <2>1, <2>3
  <2>8. boot' = [boot EXCEPT ![p] = b] /\ seen \subseteq seen'
    BY <2>1, <2>2
  <2> HIDE DEF at, fresh, b
  <2>9. /\ boot' \in [Server -> Boots]
        /\ \A q \in Server : /\ boot'[q].fresh \subseteq seen' /\ boot'[q].known \subseteq seen'
                             /\ boot'[q].newly \subseteq seen'
    BY <2>5, <2>6, <2>8, OneBoot
  <2> QED
    BY <1>2, <2>7, <2>8, <2>9 DEF InstallBundled
<1>3. ASSUME NEW p \in Server, InstallUserDocs(p) PROVE OnboardingInv'
  <2> DEFINE b == [boot[p] EXCEPT !.at = "mark"]
  <2>1. b \in Boots /\ Carried(b) \subseteq seen /\ boot' = [boot EXCEPT ![p] = b]
    BY <1>3 DEF InstallUserDocs, Boots, Carried
  <2> HIDE DEF b
  <2> QED
    BY <1>3, <2>1, OneBoot DEF InstallUserDocs, Put, Assets
<1>4. ASSUME NEW p \in Server, MarkFirstRunComplete(p) PROVE OnboardingInv'
  <2> DEFINE b == [boot[p] EXCEPT !.at = "heal"]
  <2>1. b \in Boots /\ Carried(b) \subseteq seen /\ boot' = [boot EXCEPT ![p] = b]
    BY <1>4 DEF MarkFirstRunComplete, Boots, Carried
  <2> HIDE DEF b
  <2> QED
    BY <1>4, <2>1, OneBoot DEF MarkFirstRunComplete
<1>5. ASSUME NEW p \in Server, ReadTier1(p) PROVE OnboardingInv'
  <2>1. readTier1Status.installed \in SUBSET Assets /\ readTier1Status.installed \subseteq seen
    BY DEF readTier1Status
  <2>2. \E b \in Boots : Carried(b) \subseteq seen /\ boot' = [boot EXCEPT ![p] = b]
    <3>1. CASE boot' = [boot EXCEPT ![p].at = "done"]
      <4> DEFINE b == [boot[p] EXCEPT !.at = "done"]
      <4> b \in Boots /\ Carried(b) \subseteq seen /\ boot' = [boot EXCEPT ![p] = b]
        BY <3>1 DEF Boots, Carried
      <4> QED OBVIOUS
    <3>2. CASE boot' = [boot EXCEPT ![p].at = "install", ![p].known = readTier1Status.installed,
                                    ![p].todo = Tier1 \ readTier1Status.installed]
      <4> DEFINE known == readTier1Status.installed
                 todo  == Tier1 \ known
                 b == Looking(boot[p], known, todo)
      <4>1. boot' = [boot EXCEPT ![p] = b]
        BY <3>2 DEF Looking
      <4>2. known \in SUBSET Assets /\ todo \in SUBSET Tier1 /\ known \subseteq seen
        BY <2>1
      <4>3. boot[p] \in Boots /\ boot[p].fresh \subseteq seen /\ boot[p].newly \subseteq seen
        OBVIOUS
      <4> HIDE DEF known, todo, OnboardingInv
      <4>4. /\ b \in Boots /\ b.known = known /\ b.fresh = boot[p].fresh
            /\ b.newly = boot[p].newly
        BY <4>2, <4>3, StatusRead
      <4> HIDE DEF b
      <4>5. Carried(b) \subseteq seen
        BY <4>2, <4>3, <4>4 DEF Carried
      <4> QED
        BY <4>1, <4>4, <4>5
    <3> QED
      BY <1>5, <3>1, <3>2 DEF ReadTier1
  <2> QED
    BY <1>5, <2>2, OneBoot DEF ReadTier1
<1>6. ASSUME NEW p \in Server, InstallTier1(p) PROVE OnboardingInv'
  <2>0. PICK s \in boot[p].todo : \E code \in InstallAnswer(s) :
          /\ IF code = "success" THEN Put(s, "whole") ELSE UNCHANGED <<asset, seen>>
          /\ boot' = [boot EXCEPT ![p].todo = @ \ {s},
                        ![p].newly = IF countsAsInstalled(s, code) THEN @ \cup {s} ELSE @]
    BY <1>6 DEF InstallTier1
  <2>1. PICK code \in InstallAnswer(s) :
          /\ IF code = "success" THEN Put(s, "whole") ELSE UNCHANGED <<asset, seen>>
          /\ boot' = [boot EXCEPT ![p].todo = @ \ {s},
                        ![p].newly = IF countsAsInstalled(s, code) THEN @ \cup {s} ELSE @]
    BY <2>0
  <2> DEFINE todo == boot[p].todo \ {s}
             newly == IF countsAsInstalled(s, code) THEN boot[p].newly \cup {s} ELSE boot[p].newly
             b == Taking(boot[p], todo, newly)
  <2>2. s \in Assets /\ s \in Tier1
    BY DEF Boots, Assets
  <2>3. seen \subseteq seen' /\ seen' \subseteq Assets /\ (countsAsInstalled(s, code) => s \in seen')
        /\ asset' \in [Assets -> {"absent", "part", "whole"}]
        /\ \A a \in Assets : asset'[a] # "absent" => a \in seen'
    BY <2>1, <2>2 DEF InstallAnswer, countsAsInstalled, Put
  <2>4. /\ boot[p] \in Boots /\ boot[p].fresh \subseteq seen /\ boot[p].known \subseteq seen
        /\ boot[p].newly \subseteq seen
    OBVIOUS
  <2>5. todo \in SUBSET Tier1 /\ newly \in SUBSET Assets /\ newly \subseteq seen'
    BY <2>2, <2>3, <2>4 DEF Boots
  <2>6. boot' = [boot EXCEPT ![p] = b]
    BY <2>1, <2>4 DEF Taking, Boots
  <2> HIDE DEF todo, newly
  <2>7. b \in Boots /\ b.newly = newly /\ b.fresh = boot[p].fresh /\ b.known = boot[p].known
    BY <2>4, <2>5, OneTaken
  <2> HIDE DEF b
  <2>8. Carried(b) \subseteq seen'
    BY <2>3, <2>4, <2>5, <2>7 DEF Carried
  <2> QED
    BY <1>6, <2>3, <2>6, <2>7, <2>8, OneBoot DEF InstallTier1
<1>7. ASSUME NEW p \in Server, RecordTier1(p) PROVE OnboardingInv'
  <2> DEFINE b == [boot[p] EXCEPT !.at = "done"]
             merged == boot[p].known \cup boot[p].newly
  <2>1. b \in Boots /\ Carried(b) \subseteq seen /\ boot' = [boot EXCEPT ![p] = b]
    BY <1>7 DEF RecordTier1, Boots, Carried
  <2>2. merged \subseteq seen /\ merged \in SUBSET Assets
        /\ welcome' = [welcome EXCEPT ![p] = boot[p].fresh \cup merged]
        /\ boot[p].fresh \in SUBSET Assets
    BY <1>7 DEF RecordTier1, Boots
  <2>3. tier1' = [form |-> "ok", installed |-> merged, lastAttempt |-> clock] \/ tier1' = tier1
    BY <1>7 DEF RecordTier1
  <2> HIDE DEF b, merged
  <2>4. tier1' \in [form: {"absent", "ok", "bad"}, installed: SUBSET Assets, lastAttempt: Nat]
        /\ tier1'.installed \subseteq seen
    BY <2>2, <2>3
  <2> QED
    BY <1>7, <2>1, <2>2, <2>4, OneBoot DEF RecordTier1
<1>8. ASSUME NEW p \in Server, Deliver(p) PROVE OnboardingInv'
  BY <1>8 DEF Deliver
<1>9. ASSUME NEW p \in Server, Exit(p) PROVE OnboardingInv'
  BY <1>9, DownIsBoot, OneBoot DEF Exit
<1>10. ASSUME TimePasses PROVE OnboardingInv'
  BY <1>10 DEF TimePasses
<1>11. ASSUME UserMeddles PROVE OnboardingInv'
  BY <1>11 DEF UserMeddles, Put, Assets
<1>12. CASE UNCHANGED onboardingVars
  BY <1>12 DEF onboardingVars
<1> QED
  BY <1>1, <1>2, <1>3, <1>4, <1>5, <1>6, <1>7, <1>8, <1>9, <1>10, <1>11, <1>12 DEF OnboardingNext

\* A Tier-1 skill that the status file counts as installed, and every name a delivered
\* welcome listed, had a directory: for any number of servers that start and end at any time.
THEOREM OnboardingCreditsWhatWasThere == Spec => []CreditedWasInstalled
<1>1. OnboardingInv => CreditedWasInstalled
  BY DEF OnboardingInv, OnlySeen, CreditedWasInstalled
<1> QED
  BY <1>1, PartsAlone, OnboardingStart, OnboardingStep, PTL DEF OnboardingSpec
-----------------------------------------------------------------------------
(* The daily audit mail.                                                   *)

Digests == [Entries -> Verdicts \cup {"none"}]
Hashes  == {<<>>} \cup {hashDigest(d) : d \in Digests}
Passes  == [at: {"idle", "audit", "compare", "failed", "clean", "deduped", "posted"},
            read: Hashes, digest: {<<>>} \cup Digests]

\* A hash on file is that of a digest that was mailed, or of a clean one.
Remembered(hash, sent) ==
  \/ hash = <<>>
  \/ \E d \in sent : hash = hashDigest(d)
  \/ \E d \in Digests : Flagged(d) = {} /\ hash = hashDigest(d)

MailTypeOK ==
  /\ notify \in [lastNotifyAt: Nat, lastDigestHash: Hashes]
  /\ mailer \in [Mailer -> Passes]
  /\ \A p \in Mailer : mailer[p].at = "compare" => mailer[p].digest \in Digests
  /\ threat \in Digests /\ day \in Nat

MailInv ==
  /\ MailTypeOK
  /\ Remembered(notify.lastDigestHash, mailed)
  /\ \A p \in Mailer : /\ Remembered(mailer[p].read, mailed)
                       /\ mailer[p].at = "deduped" =>
                            \E d \in mailed : hashDigest(d) = hashDigest(mailer[p].digest)

\* The hash of a digest tells its counts and what it lists.
LEMMA HashTells ==
  ASSUME NEW d, NEW e, hashDigest(d) = hashDigest(e)
  PROVE  Summary(d) = Summary(e) /\ Findings(d) = Findings(e)
BY DEF hashDigest

\* What found something is not taken for a clean run: the counts differ.
LEMMA CleanIsTold ==
  ASSUME NEW d \in Digests, NEW e \in Digests, Flagged(d) = {}, Flagged(e) # {}
  PROVE  hashDigest(d) # hashDigest(e)
<1>1. PICK x \in Entries : e[x] # "none"
  BY DEF Flagged
<1> DEFINE v == e[x]
           S(g) == {y \in Entries : g[y] = v}
<1>2. v \in Verdicts
  BY <1>1 DEF Digests
<1>3. S(d) = {}
  BY <1>2 DEF Flagged, Verdicts
<1>4. x \in S(e) /\ IsFiniteSet(S(e))
  BY <1>1, EntriesAssumption, FS_Subset
<1>5. Cardinality(S(d)) = 0 /\ Cardinality(S(e)) # 0
  BY <1>3, <1>4, FS_EmptySet
<1>6. Summary(d)[v] = Cardinality(S(d)) /\ Summary(e)[v] = Cardinality(S(e))
  BY <1>2 DEF Summary
<1> QED
  BY <1>5, <1>6, HashTells

\* A hash is never the empty one.
LEMMA HashIsNotEmpty == \A d : hashDigest(d) # <<>>
BY DEF hashDigest

LEMMA MailStart == MailInit => MailInv
BY DEF MailInit, MailInv, MailTypeOK, Passes, Hashes, Digests, Remembered, Idle

\* One pass goes on, and nothing that was mailed is forgotten.
LEMMA OnePass ==
  ASSUME MailInv, NEW p \in Mailer, NEW m \in Passes, mailer' = [mailer EXCEPT ![p] = m],
         m.at = "compare" => m.digest \in Digests,
         mailed \subseteq mailed', Remembered(m.read, mailed),
         m.at = "deduped" => \E d \in mailed : hashDigest(d) = hashDigest(m.digest)
  PROVE  /\ mailer' \in [Mailer -> Passes]
         /\ \A q \in Mailer : /\ Remembered(mailer'[q].read, mailed')
                              /\ mailer'[q].at = "compare" => mailer'[q].digest \in Digests
                              /\ mailer'[q].at = "deduped" =>
                                   \E d \in mailed' : hashDigest(d) = hashDigest(mailer'[q].digest)
BY DEF MailInv, MailTypeOK, Remembered

LEMMA NotifyRecorded ==
  ASSUME MailInv, NEW hash, recordAuditNotify(hash), hash = <<>> \/ \E d \in Digests : hash = hashDigest(d),
         mailed \subseteq mailed', Remembered(hash, mailed')
  PROVE  notify' \in [lastNotifyAt: Nat, lastDigestHash: Hashes] /\ Remembered(notify'.lastDigestHash, mailed')
BY DEF MailInv, MailTypeOK, Remembered, recordAuditNotify, Hashes

LEMMA MailStep ==
  ASSUME MailInv, [MailNext]_mailVars
  PROVE  MailInv'
<1>1. ASSUME NEW p \in Mailer, ReadNotifyState(p) PROVE MailInv'
  <2> DEFINE m == [Idle EXCEPT !.at = "audit", !.read = notify.lastDigestHash]
  <2>1. m \in Passes /\ m.at = "audit" /\ m.read = notify.lastDigestHash
    BY DEF MailInv, MailTypeOK, Passes, Idle
  <2>2. mailer' = [mailer EXCEPT ![p] = m]
    BY <1>1 DEF ReadNotifyState
  <2> HIDE DEF m
  <2> QED
    BY <1>1, <2>1, <2>2, OnePass DEF ReadNotifyState, MailInv, MailTypeOK, Remembered
<1>2. ASSUME NEW p \in Mailer, Audit(p) PROVE MailInv'
  <2>1. CASE mailer' = [mailer EXCEPT ![p].at = "compare", ![p].digest = threat] /\ UNCHANGED notify
    <3> DEFINE m == [mailer[p] EXCEPT !.at = "compare", !.digest = threat]
    <3>1. m \in Passes /\ m.at = "compare" /\ m.digest = threat /\ m.read = mailer[p].read
      BY DEF MailInv, MailTypeOK, Passes
    <3>2. mailer' = [mailer EXCEPT ![p] = m]
      BY <2>1
    <3>3. threat \in Digests /\ Remembered(m.read, mailed) /\ UNCHANGED <<threat, day, mailed>>
      BY <1>2, <3>1 DEF Audit, MailInv, MailTypeOK
    <3> HIDE DEF m
    <3> QED
      BY <2>1, <3>1, <3>2, <3>3, OnePass DEF MailInv, MailTypeOK
  <2>2. CASE recordAuditNotify(<<>>) /\ Settle(p, "failed")
    <3> DEFINE m == [mailer[p] EXCEPT !.at = "failed"]
    <3>1. m \in Passes /\ m.at = "failed" /\ m.read = mailer[p].read
      BY DEF MailInv, MailTypeOK, Passes
    <3>2. mailer' = [mailer EXCEPT ![p] = m]
      BY <2>2 DEF Settle
    <3> HIDE DEF m
    <3>3. notify' \in [lastNotifyAt: Nat, lastDigestHash: Hashes] /\ Remembered(notify'.lastDigestHash, mailed')
      BY <1>2, <2>2, NotifyRecorded DEF Audit, Remembered
    <3> QED
      BY <1>2, <3>1, <3>2, <3>3, OnePass DEF Audit, MailInv, MailTypeOK
  <2> QED
    BY <1>2, <2>1, <2>2 DEF Audit
<1>3. ASSUME NEW p \in Mailer, KeepSilent(p) PROVE MailInv'
  <2> DEFINE digest == mailer[p].digest
  <2>1. digest \in Digests /\ mailer[p] \in Passes
    BY <1>3 DEF KeepSilent, MailInv, MailTypeOK
  <2>2. CASE Flagged(digest) = {} /\ recordAuditNotify(hashDigest(digest)) /\ Settle(p, "clean")
    <3> DEFINE m == [mailer[p] EXCEPT !.at = "clean"]
    <3>1. m \in Passes /\ m.at = "clean" /\ m.read = mailer[p].read
      BY <2>1 DEF Passes
    <3>2. mailer' = [mailer EXCEPT ![p] = m]
      BY <2>2 DEF Settle
    <3> HIDE DEF m
    <3>3. notify' \in [lastNotifyAt: Nat, lastDigestHash: Hashes] /\ Remembered(notify'.lastDigestHash, mailed')
      BY <1>3, <2>1, <2>2, NotifyRecorded DEF KeepSilent, Remembered
    <3> QED
      BY <1>3, <3>1, <3>2, <3>3, OnePass DEF KeepSilent, MailInv, MailTypeOK
  <2>3. CASE /\ Flagged(digest) # {} /\ hashDigest(digest) = mailer[p].read
             /\ recordAuditNotify(<<>>) /\ Settle(p, "deduped")
    <3> DEFINE m == [mailer[p] EXCEPT !.at = "deduped"]
    <3>1. m \in Passes /\ m.at = "deduped" /\ m.read = mailer[p].read /\ m.digest = digest
      BY <2>1 DEF Passes
    <3>2. mailer' = [mailer EXCEPT ![p] = m]
      BY <2>3 DEF Settle
    <3> HIDE DEF m
    <3>3. notify' \in [lastNotifyAt: Nat, lastDigestHash: Hashes] /\ Remembered(notify'.lastDigestHash, mailed')
      BY <1>3, <2>3, NotifyRecorded DEF KeepSilent, Remembered
    <3>4. \E d \in mailed : hashDigest(d) = hashDigest(digest)
      BY <2>1, <2>3, CleanIsTold, HashIsNotEmpty DEF MailInv, Remembered
    <3> QED
      BY <1>3, <3>1, <3>2, <3>3, <3>4, OnePass DEF KeepSilent, MailInv, MailTypeOK
  <2> QED
    BY <1>3, <2>2, <2>3 DEF KeepSilent
<1>4. ASSUME NEW p \in Mailer, Post(p) PROVE MailInv'
  <2> DEFINE digest == mailer[p].digest
             m == [mailer[p] EXCEPT !.at = "posted"]
  <2>1. digest \in Digests /\ mailer[p] \in Passes
    BY <1>4 DEF Post, MailInv, MailTypeOK
  <2>2. m \in Passes /\ m.at = "posted" /\ m.read = mailer[p].read /\ mailer' = [mailer EXCEPT ![p] = m]
    BY <1>4, <2>1 DEF Passes, Post, Settle
  <2> HIDE DEF m
  <2>3. PICK sent \in BOOLEAN :
          /\ recordAuditNotify(IF sent THEN hashDigest(digest) ELSE <<>>)
          /\ mailed' = IF sent THEN mailed \cup {digest} ELSE mailed
    BY <1>4 DEF Post
  <2>4. notify' \in [lastNotifyAt: Nat, lastDigestHash: Hashes] /\ Remembered(notify'.lastDigestHash, mailed')
    <3>1. CASE sent
      BY <2>1, <2>3, <3>1, NotifyRecorded DEF Remembered
    <3>2. CASE ~sent
      BY <2>3, <3>2, NotifyRecorded DEF Remembered
    <3> QED
      BY <3>1, <3>2
  <2> QED
    BY <1>4, <2>2, <2>3, <2>4, OnePass DEF Post, MailInv, MailTypeOK
<1>5. ASSUME NEW p \in Mailer, MailerRestarts(p) PROVE MailInv'
  <2>1. Idle \in Passes /\ Remembered(Idle.read, mailed) /\ Idle.at = "idle"
    BY DEF Idle, Passes, Hashes, Remembered
  <2> QED
    BY <1>5, <2>1, OnePass DEF MailerRestarts, MailInv, MailTypeOK, Remembered
<1>6. ASSUME DayPasses PROVE MailInv'
  <2>1. UNCHANGED <<notify, mailer, threat, mailed>> /\ day' \in Nat
    BY <1>6 DEF DayPasses, MailInv, MailTypeOK
  <2> QED
    BY <2>1 DEF MailInv, MailTypeOK, Remembered
<1>7. ASSUME ThreatChanges PROVE MailInv'
  <2>1. threat' \in Digests
    BY <1>7 DEF ThreatChanges, MailInv, MailTypeOK, Digests
  <2> QED
    BY <1>7, <2>1 DEF ThreatChanges, MailInv, MailTypeOK, Remembered
<1>8. CASE UNCHANGED mailVars
  BY <1>8 DEF mailVars, MailInv, MailTypeOK, Remembered
<1> QED
  BY <1>1, <1>2, <1>3, <1>4, <1>5, <1>6, <1>7, <1>8 DEF MailNext

\* A run that keeps silent because the same was mailed before found the counts and the
\* strongest findings of a digest that was mailed: for any number of servers, entries and
\* any cap on the digest.
THEOREM SilenceFollowsMail == Spec => []SilenceWasMailed
<1>1. MailInv => SilenceWasMailed
  BY HashTells DEF MailInv, SilenceWasMailed
<1> QED
  BY <1>1, PartsAlone, MailStart, MailStep, PTL DEF MailSpec
-----------------------------------------------------------------------------
(* The health report of the LLM chain.                                     *)

Chains   == [enabled: BOOLEAN, initialized: BOOLEAN, promise: {"none", "pending", "done", "failed"},
             provider: {"none", "open"}, closed: BOOLEAN]
Requests == [at: {"idle", "await", "thrown", "provider", "unhealthy", "answered", "checking", "healthy"},
             kind: Kinds \cup {"none", "status"}, todo: SUBSET Llm, healthy: SUBSET Llm]

LlmTypeOK == chain \in Chains /\ request \in [Request -> Requests]

LEMMA LlmStart == LlmInit => LlmTypeOK
<1> SUFFICES ASSUME LlmInit PROVE LlmTypeOK
  OBVIOUS
<1>1. chain \in Chains
  BY DEF LlmInit, Chains
<1>2. NoCall \in Requests
  BY DEF NoCall, Requests
<1> QED
  BY <1>1, <1>2 DEF LlmInit, LlmTypeOK

\* A step of one request, by the states it goes between.
LEMMA LlmRequestStep ==
  ASSUME LlmTypeOK, NEW r \in Request,
         Call(r) \/ Resume(r) \/ Answered(r) \/ getHealthStatus(r) \/ Check(r) \/ Return(r)
  PROVE  /\ UNCHANGED chain
         /\ \E q \in Requests : request' = [request EXCEPT ![r] = q]
         /\ request'[r].at = "healthy" => Check(r) /\ chain.provider = "open"
<1> USE DEF LlmTypeOK
<1>1. request[r] \in Requests
  OBVIOUS
<1>2. CASE Call(r)
  <2>1. PICK kind \in Kinds, at \in {"await", "thrown"} :
          request' = [request EXCEPT ![r] = [NoCall EXCEPT !.kind = kind, !.at = at]]
    BY <1>2 DEF Call
  <2> DEFINE q == [NoCall EXCEPT !.kind = kind, !.at = at]
  <2>2. q \in Requests /\ q.at # "healthy" /\ request' = [request EXCEPT ![r] = q]
    BY <2>1 DEF NoCall, Requests
  <2> HIDE DEF q
  <2> QED
    BY <1>2, <2>2 DEF Call
<1>3. CASE Resume(r)
  <2>1. PICK at \in {"thrown", "provider", "unhealthy"} :
          request' = [request EXCEPT ![r] = [request[r] EXCEPT !.at = at]]
    BY <1>3 DEF Resume
  <2> DEFINE q == [request[r] EXCEPT !.at = at]
  <2>2. q \in Requests /\ q.at # "healthy" /\ request' = [request EXCEPT ![r] = q]
    BY <1>1, <2>1 DEF Requests
  <2> HIDE DEF q
  <2> QED
    BY <1>3, <2>2 DEF Resume
<1>4. CASE Answered(r)
  <2>1. PICK at \in {"answered", "thrown"} :
          request' = [request EXCEPT ![r] = [request[r] EXCEPT !.at = at]]
    BY <1>4 DEF Answered
  <2> DEFINE q == [request[r] EXCEPT !.at = at]
  <2>2. q \in Requests /\ q.at # "healthy" /\ request' = [request EXCEPT ![r] = q]
    BY <1>1, <2>1 DEF Requests
  <2> HIDE DEF q
  <2> QED
    BY <1>4, <2>2 DEF Answered
<1>5. CASE getHealthStatus(r)
  <2>1. PICK todo \in SUBSET Llm, at \in {"checking", "unhealthy"} :
          request' = [request EXCEPT ![r] = [NoCall EXCEPT !.kind = "status", !.todo = todo, !.at = at]]
    BY <1>5 DEF getHealthStatus
  <2> DEFINE q == [NoCall EXCEPT !.kind = "status", !.todo = todo, !.at = at]
  <2>2. q \in Requests /\ q.at # "healthy" /\ request' = [request EXCEPT ![r] = q]
    BY <2>1 DEF NoCall, Requests
  <2> HIDE DEF q
  <2> QED
    BY <1>5, <2>2 DEF getHealthStatus
<1>6. CASE Check(r)
  <2>1. CASE chain.provider = "none"
    <3> DEFINE q == [request[r] EXCEPT !.at = "thrown"]
    <3>1. q \in Requests /\ q.at # "healthy" /\ request' = [request EXCEPT ![r] = q]
      BY <1>1, <1>6, <2>1 DEF Check, Requests
    <3> HIDE DEF q
    <3> QED
      BY <1>6, <3>1 DEF Check
  <2>2. CASE chain.provider # "none"
    <3>1. PICK p \in request[r].todo, ok \in BOOLEAN : Checked(r, p, ok)
      BY <1>6, <2>2 DEF Check
    <3> DEFINE healthy == IF ok THEN request[r].healthy \cup {p} ELSE request[r].healthy
    <3>2. PICK at \in {"checking", "healthy", "unhealthy"} :
            request' = [request EXCEPT ![r].todo = @ \ {p}, ![r].healthy = healthy, ![r].at = at]
      BY <3>1 DEF Checked
    <3>3. [request[r] EXCEPT !.todo = @ \ {p}, !.healthy = healthy, !.at = at] \in Requests
      BY <1>1 DEF Requests
    <3>4. chain.provider = "open"
      BY <2>2 DEF Chains
    <3> QED
      BY <1>6, <3>2, <3>3, <3>4 DEF Check
  <2> QED
    BY <2>1, <2>2
<1>7. CASE Return(r)
  <2>1. NoCall \in Requests /\ NoCall.at = "idle"
    BY DEF NoCall, Requests
  <2> QED
    BY <1>7, <2>1 DEF Return
<1> QED
  BY <1>2, <1>3, <1>4, <1>5, <1>6, <1>7

LEMMA LlmStep ==
  ASSUME LlmTypeOK, [LlmNext]_llmChainVars
  PROVE  LlmTypeOK'
<1>1. ASSUME initialize \/ doInitialize \/ close PROVE LlmTypeOK'
  <2>1. chain' \in Chains
    BY <1>1 DEF initialize, doInitialize, close, LlmTypeOK, Chains
  <2> QED
    BY <1>1, <2>1 DEF initialize, doInitialize, close, LlmTypeOK
<1>2. ASSUME NEW r \in Request,
             Call(r) \/ Resume(r) \/ Answered(r) \/ getHealthStatus(r) \/ Check(r) \/ Return(r)
      PROVE  LlmTypeOK'
  BY <1>2, LlmRequestStep DEF LlmTypeOK
<1>3. CASE UNCHANGED llmChainVars
  BY <1>3 DEF llmChainVars, LlmTypeOK
<1> QED
  BY <1>1, <1>2, <1>3 DEF LlmNext

\* The chain answers "healthy" only while it holds its providers, wherever close() comes
\* between two awaited checks and for any number of requests and providers.
THEOREM HealthyMeansOpen == Spec => HealthAnswerIsTrue
<1> DEFINE True == \A r \in Request :
      request[r].at # "healthy" /\ request'[r].at = "healthy" => chain.provider = "open"
<1>1. LlmTypeOK /\ [LlmNext]_llmChainVars => [True]_llmChainVars
  <2> SUFFICES ASSUME LlmTypeOK, LlmNext, NEW r \in Request,
                      request[r].at # "healthy", request'[r].at = "healthy"
               PROVE  chain.provider = "open"
    OBVIOUS
  <2>1. CASE initialize \/ doInitialize \/ close
    BY <2>1 DEF initialize, doInitialize, close
  <2>2. CASE \E q \in Request : \/ Call(q) \/ Resume(q) \/ Answered(q)
                                \/ getHealthStatus(q) \/ Check(q) \/ Return(q)
    <3>1. PICK q \in Request :
            Call(q) \/ Resume(q) \/ Answered(q) \/ getHealthStatus(q) \/ Check(q) \/ Return(q)
      BY <2>2
    <3>2. q = r
      BY <3>1, LlmRequestStep DEF LlmTypeOK
    <3> QED
      BY <3>1, <3>2, LlmRequestStep
  <2> QED
    BY <2>1, <2>2 DEF LlmNext
<1> QED
  BY <1>1, PartsAlone, LlmStart, LlmStep, PTL DEF LlmSpec, HealthAnswerIsTrue
-----------------------------------------------------------------------------
(* Rescans, the index and search.                                          *)

SkillMds == (UNION {DirContent[d] : d \in SkillDir}) \cup {NoSkill}
Rescans  == [at: {"idle", "read", "siblings"}, targets: SUBSET SkillDir, dir: SkillDir \cup {""},
             read: SkillMds]

LocalTypeOK ==
  /\ local \in [SkillDir -> SkillMds]
  /\ rescan \in Rescans /\ (rescan.at = "siblings" => rescan.dir \in SkillDir)
  /\ index.time \in Nat /\ \A row \in index.skills : row[1] \in SkillDir
  /\ wallClock \in Nat /\ changedAt \in [SkillDir -> Nat]
  /\ condemned \subseteq SkillDir

\* A condemned skill is in quarantine, under the name it has now.
CondemnedIsQuarantined == \A d \in condemned : isQuarantined(localSkillKey(d, local[d]))

\* The index knows by its name what was not edited since the index was made.
IndexIsCurrent ==
  /\ index.time <= wallClock
  /\ \A d \in SkillDir : changedAt[d] <= wallClock
  /\ \A row \in index.skills :
       changedAt[row[1]] < index.time => row[2] = indexedKey(row[1], local[row[1]])

LocalInv == LocalTypeOK /\ CondemnedIsQuarantined /\ IndexIsCurrent

LEMMA SkillMdsHold ==
  NoSkill \in SkillMds /\ \A d \in SkillDir : DirContent[d] \subseteq SkillMds
<1>1. NoSkill \in SkillMds
  BY DEF SkillMds
<1>2. ASSUME NEW d \in SkillDir, NEW content \in DirContent[d] PROVE content \in SkillMds
  <2>1. DirContent[d] \in {DirContent[e] : e \in SkillDir}
    OBVIOUS
  <2> QED
    BY <2>1 DEF SkillMds
<1> QED
  BY <1>1, <1>2

LEMMA RescanEnds == NoRescan \in Rescans /\ NoRescan.at = "idle"
BY SkillMdsHold DEF NoRescan, Rescans

LEMMA LocalStart == LocalInit => LocalInv
<1> SUFFICES ASSUME LocalInit PROVE LocalInv
  OBVIOUS
<1>1. local \in [SkillDir -> SkillMds]
  BY DEF LocalInit, SkillMds
<1> QED
  BY <1>1, RescanEnds
  DEF LocalInit, LocalInv, LocalTypeOK, CondemnedIsQuarantined, IndexIsCurrent, EmptyCache

\* What the index gives to a search: the skills as they are, or as they were when it was made.
LEMMA IndexGiven ==
  ASSUME LocalInv
  PROVE  \/ performIndex = index /\ wallClock - index.time < CacheTtl
         \/ /\ performIndex.time = wallClock
            /\ \A row \in performIndex.skills :
                 row[1] \in SkillDir /\ row[2] = indexedKey(row[1], local[row[1]])
<1>1. CASE index.time # 0 /\ wallClock - index.time < CacheTtl
  BY <1>1 DEF performIndex
<1>2. CASE ~(index.time # 0 /\ wallClock - index.time < CacheTtl)
  <2>1. performIndex = [time |-> wallClock, skills |-> indexedNow]
    BY <1>2 DEF performIndex
  <2>2. \A row \in indexedNow : row[1] \in SkillDir /\ row[2] = indexedKey(row[1], local[row[1]])
    BY DEF indexedNow
  <2> QED
    BY <2>1, <2>2
<1> QED
  BY <1>1, <1>2

\* A step of the rescan that leaves quarantine alone.
LEMMA RescanGoesOn ==
  ASSUME LocalInv, rescan' \in Rescans, rescan'.at = "siblings" => rescan'.dir \in SkillDir,
         UNCHANGED <<local, quarantine, index, wallClock, changedAt, condemned>>
  PROVE  LocalInv'
BY DEF LocalInv, LocalTypeOK, CondemnedIsQuarantined, IndexIsCurrent, isQuarantined

LEMMA QuarantineStep ==
  ASSUME LocalInv, Quarantine
  PROVE  LocalInv'
<1> DEFINE d == rescan.dir
           key == localSkillKey(d, rescan.read)
           failed == ~(rescan.read.scan = "passed" /\ ~local[d].sibling)
<1>1. d \in SkillDir /\ rescan \in Rescans
  BY DEF Quarantine, LocalInv, LocalTypeOK
<1>2. rescan' = [rescan EXCEPT !.at = "read", !.dir = "", !.read = NoSkill]
      /\ UNCHANGED <<local, index, wallClock, changedAt>>
  BY DEF Quarantine
<1>3. rescan' \in Rescans /\ rescan'.at = "read"
  BY <1>1, <1>2, SkillMdsHold DEF Rescans
<1>4. /\ quarantine' = IF ~failed \/ isQuarantined(key) THEN quarantine
                       ELSE quarantine \cup {[key |-> key, status |-> "pending",
                                              severity |-> quarantineSeverity(rescan.read.scan, local[d].sibling)]}
      /\ condemned' = IF failed /\ local[d] = rescan.read THEN condemned \cup {d} ELSE condemned
  BY DEF Quarantine
<1> HIDE DEF key
<1>5. quarantine \subseteq quarantine'
      /\ (failed => \E row \in quarantine' : row.key = key /\ row.status = "pending")
  <2>1. CASE ~failed \/ isQuarantined(key)
    BY <1>4, <2>1 DEF isQuarantined
  <2>2. CASE ~(~failed \/ isQuarantined(key))
    <3> DEFINE new == [key |-> key, status |-> "pending",
                       severity |-> quarantineSeverity(rescan.read.scan, local[d].sibling)]
    <3>1. new.key = key /\ new.status = "pending"
      OBVIOUS
    <3>2. quarantine' = quarantine \cup {new}
      BY <1>4, <2>2
    <3> HIDE DEF new
    <3> QED
      BY <3>1, <3>2
  <2> QED
    BY <2>1, <2>2
<1>6. ASSUME NEW c \in condemned'
      PROVE  \E row \in quarantine' : row.key = localSkillKey(c, local[c]) /\ row.status = "pending"
  <2>1. CASE c \in condemned
    BY <1>5, <2>1 DEF LocalInv, CondemnedIsQuarantined, isQuarantined
  <2>2. CASE c \notin condemned
    <3>1. c = d /\ failed /\ local[d] = rescan.read
      BY <1>4, <1>6, <2>2
    <3> QED
      BY <1>5, <3>1 DEF key
  <2> QED
    BY <2>1, <2>2
<1>7. condemned' \subseteq SkillDir
  BY <1>1, <1>4 DEF LocalInv, LocalTypeOK
<1>8. CondemnedIsQuarantined'
  BY <1>2, <1>6 DEF CondemnedIsQuarantined, isQuarantined
<1> QED
  BY <1>2, <1>3, <1>7, <1>8 DEF LocalInv, LocalTypeOK, IndexIsCurrent

LEMMA LocalStep ==
  ASSUME LocalInv, [LocalNext]_localVars
  PROVE  LocalInv'
<1>1. ASSUME NEW named \in SUBSET SkillDir, StartRescan(named) PROVE LocalInv'
  <2>1. rescan' = [NoRescan EXCEPT !.at = "read", !.targets = named]
    BY <1>1 DEF StartRescan
  <2>2. rescan' \in Rescans /\ rescan'.at = "read"
    BY <2>1, RescanEnds DEF Rescans
  <2> QED
    BY <1>1, <2>2, RescanGoesOn DEF StartRescan
<1>2. ASSUME NEW d \in SkillDir, ReadSkillMd(d) PROVE LocalInv'
  <2>1. rescan \in Rescans /\ local[d] \in SkillMds
    BY DEF LocalInv, LocalTypeOK
  <2>2. rescan' \in Rescans /\ (rescan'.at = "siblings" => rescan'.dir \in SkillDir)
    <3>1. CASE rescan' = [rescan EXCEPT !.targets = @ \ {d}] /\ rescan.at = "read"
      BY <2>1, <3>1 DEF Rescans
    <3>2. CASE rescan' = [rescan EXCEPT !.at = "siblings", !.targets = @ \ {d}, !.dir = d, !.read = local[d]]
      BY <2>1, <3>2 DEF Rescans
    <3> QED
      BY <1>2, <3>1, <3>2 DEF ReadSkillMd
  <2> QED
    BY <1>2, <2>2, RescanGoesOn DEF ReadSkillMd
<1>3. ASSUME Quarantine PROVE LocalInv'
  BY <1>3, QuarantineStep
<1>4. ASSUME RescanAnswers PROVE LocalInv'
  BY <1>4, RescanEnds, RescanGoesOn DEF RescanAnswers
<1>5. ASSUME Search PROVE LocalInv'
  <2>1. UNCHANGED <<local, quarantine, rescan, wallClock, changedAt, condemned>>
        /\ (index' = performIndex \/ index' = index)
    BY <1>5 DEF Search
  <2>2. /\ index'.time \in Nat /\ index'.time <= wallClock
        /\ \A row \in index'.skills :
             /\ row[1] \in SkillDir
             /\ changedAt[row[1]] < index'.time => row[2] = indexedKey(row[1], local[row[1]])
    BY <2>1, IndexGiven DEF LocalInv, LocalTypeOK, IndexIsCurrent
  <2> QED
    BY <2>1, <2>2 DEF LocalInv, LocalTypeOK, CondemnedIsQuarantined, IndexIsCurrent, isQuarantined
<1>6. ASSUME NEW d \in SkillDir, UserEdits(d) PROVE LocalInv'
  <2>1. PICK content \in DirContent[d] \cup {NoSkill} : local' = [local EXCEPT ![d] = content]
    BY <1>6 DEF UserEdits
  <2>2. changedAt' = [changedAt EXCEPT ![d] = wallClock] /\ condemned' = condemned \ {d}
        /\ UNCHANGED <<quarantine, index, rescan, wallClock>>
    BY <1>6 DEF UserEdits
  <2>3. local' \in [SkillDir -> SkillMds] /\ \A e \in SkillDir \ {d} : local'[e] = local[e]
    BY <2>1, SkillMdsHold DEF LocalInv, LocalTypeOK
  <2>4. changedAt' \in [SkillDir -> Nat] /\ changedAt'[d] = wallClock
        /\ \A e \in SkillDir \ {d} : changedAt'[e] = changedAt[e]
    BY <2>2 DEF LocalInv, LocalTypeOK
  <2>5. LocalTypeOK'
    BY <2>2, <2>3, <2>4 DEF LocalInv, LocalTypeOK
  <2>6. CondemnedIsQuarantined'
    BY <2>2, <2>3 DEF LocalInv, LocalTypeOK, CondemnedIsQuarantined, isQuarantined
  <2>7. IndexIsCurrent'
    BY <2>2, <2>3, <2>4 DEF LocalInv, LocalTypeOK, IndexIsCurrent
  <2> QED
    BY <2>5, <2>6, <2>7 DEF LocalInv
<1>7. ASSUME Review PROVE LocalInv'
  <2>1. PICK key \in {row.key : row \in quarantine} :
          /\ quarantine' = {IF row.key = key THEN [row EXCEPT !.status = "approved"] ELSE row : row \in quarantine}
          /\ condemned' = {d \in condemned : localSkillKey(d, local[d]) # key}
    BY <1>7 DEF Review
  <2>2. UNCHANGED <<local, index, rescan, wallClock, changedAt>>
    BY <1>7 DEF Review
  <2>3. CondemnedIsQuarantined'
    BY <2>1, <2>2 DEF LocalInv, CondemnedIsQuarantined, isQuarantined
  <2> QED
    BY <2>1, <2>2, <2>3 DEF LocalInv, LocalTypeOK, IndexIsCurrent
<1>8. ASSUME LocalTick PROVE LocalInv'
  BY <1>8 DEF LocalTick, LocalInv, LocalTypeOK, CondemnedIsQuarantined, IndexIsCurrent, isQuarantined
<1>9. CASE UNCHANGED localVars
  BY <1>9 DEF localVars, LocalInv, LocalTypeOK, CondemnedIsQuarantined, IndexIsCurrent, isQuarantined
<1> QED
  BY <1>1, <1>2, <1>3, <1>4, <1>5, <1>6, <1>7, <1>8, <1>9 DEF LocalNext

\* However rescans, edits, reviews and searches interleave, for any skills, names and
\* lifetime of the index: what failed a rescan as it still is, and nobody cleared, is in no
\* answer of search once the index has forgotten what was there before the last edit.
THEOREM CondemnedStaysHidden == Spec => CondemnedIsHidden
<1> DEFINE Hidden == searches' # searches =>
      \A row \in page' : row[1] \in condemned => wallClock - changedAt[row[1]] < CacheTtl
<1>1. LocalInv /\ [LocalNext]_localVars => [Hidden]_localVars
  <2> SUFFICES ASSUME LocalInv, LocalNext, searches' # searches, NEW row \in page', row[1] \in condemned,
                      ~(wallClock - changedAt[row[1]] < CacheTtl)
               PROVE  FALSE
    OBVIOUS
  <2> DEFINE d == row[1]
  <2>1. Search
    BY DEF LocalNext, StartRescan, ReadSkillMd, UserEdits, Quarantine, RescanAnswers, Review, LocalTick
  <2>2. row \in performIndex.skills /\ ~isQuarantined(row[2])
    BY <2>1 DEF Search
  <2>3. d \in SkillDir /\ isQuarantined(localSkillKey(d, local[d]))
    BY DEF LocalInv, LocalTypeOK, CondemnedIsQuarantined
  <2>4. localSkillKey(d, local[d]) = indexedKey(d, local[d])
    BY DEF localSkillKey, indexedKey
  <2>5. row[2] # indexedKey(d, local[d])
    BY <2>2, <2>3, <2>4
  <2>6. performIndex = index /\ wallClock - index.time < CacheTtl
    BY <2>2, <2>5, IndexGiven
  <2>7. ~(changedAt[d] < index.time)
    BY <2>2, <2>5, <2>6 DEF LocalInv, IndexIsCurrent
  <2>8. changedAt[d] \in Nat /\ index.time \in Nat /\ wallClock \in Nat
    BY <2>3 DEF LocalInv, LocalTypeOK
  <2>9. ~(wallClock - changedAt[d] < CacheTtl)
    OBVIOUS
  <2> HIDE DEF d
  <2> QED
    BY <2>6, <2>7, <2>8, <2>9, CacheTtlAssumption
<1> QED
  BY <1>1, PartsAlone, LocalStart, LocalStep, PTL DEF LocalSpec, CondemnedIsHidden
-----------------------------------------------------------------------------
(* The pacing of suggestions.                                              *)

States == [lastSuggestionTime: Nat, suggestionsToday: Nat, optedOut: BOOLEAN, dismissedSkills: SUBSET Rule]
StateFiles == {{}, Damaged} \cup {{s} : s \in States}
Engines == [running: BOOLEAN, state: States, read: StateFiles, offer: Rule \cup {0}]

SuggestionTypeOK ==
  /\ stateFile \in StateFiles /\ engine \in [Engine -> Engines]
  /\ time \in Nat /\ shown \in Seq(Nat) /\ disturbed \in BOOLEAN
  /\ refused \in [optedOut: BOOLEAN, skills: SUBSET Rule]

\* The suggestions that were shown on a day.
ShownOn(sh, d) == {j \in DOMAIN sh : dayOf(sh[j]) = d}

\* The state s knows of every suggestion, of as many as there were today, and of every refusal.
Knows(s, sh, ref, now) ==
  /\ \A j \in DOMAIN sh : sh[j] <= s.lastSuggestionTime
  /\ s.lastSuggestionTime <= now
  /\ Cardinality(ShownOn(sh, dayOf(now))) <= s.suggestionsToday
  /\ ref.optedOut => s.optedOut
  /\ ref.skills \subseteq s.dismissedSkills

FileKnows(file, sh, ref, now) ==
  /\ file = {} => Knows(getDefaultState, sh, ref, now)
  /\ \A s \in States : file = {s} => Knows(s, sh, ref, now)

\* What an engine holds is what it read, but for the count of a day that is over.
HoldsWhatItRead(e, now) == e.running =>
  /\ e.read # Damaged
  /\ e.read = {} => e.state = getDefaultState
  /\ \A s \in States : e.read = {s} =>
       \/ e.state = s
       \/ e.state = [s EXCEPT !.suggestionsToday = 0] /\ dayOf(s.lastSuggestionTime) < dayOf(now)

\* What an engine offers was allowed by what it holds, and still is.
OffersWhatIsAllowed(e, now) == e.offer # 0 =>
  /\ e.running /\ ~e.state.optedOut /\ e.offer \notin e.state.dismissedSkills
  /\ e.state.suggestionsToday < maxSuggestionsPerDay
  /\ now - e.state.lastSuggestionTime >= cooldownMs

Spaced(sh) == \A i \in DOMAIN sh :
  /\ Cardinality(ShownOn(sh, dayOf(sh[i]))) <= maxSuggestionsPerDay
  /\ i > 1 => sh[i - 1] + cooldownMs <= sh[i]

SuggestionInv ==
  /\ SuggestionTypeOK
  /\ ~disturbed => /\ FileKnows(stateFile, shown, refused, time)
                   /\ Spaced(shown)
                   /\ \A p \in Engine : HoldsWhatItRead(engine[p], time) /\ OffersWhatIsAllowed(engine[p], time)

\* No state that is written looks like a damaged file.
LEMMA DamagedIsNoState == \A s \in States : {s} # Damaged /\ Damaged # {}
<1>1. ASSUME NEW s \in States PROVE s # [damaged |-> TRUE]
  BY DEF States
<1> QED
  BY <1>1 DEF Damaged

LEMMA DaysInOrder ==
  ASSUME NEW t \in Nat, NEW u \in Nat, t <= u
  PROVE  dayOf(t) \in Nat /\ dayOf(u) \in Nat /\ dayOf(t) <= dayOf(u)
<1>1. DayLength \in Nat \ {0}
  BY PacingAssumption
<1> QED
  BY <1>1, Z3 DEF dayOf

LEMMA LeastOfNat ==
  ASSUME NEW R, R \subseteq Nat, R # {}
  PROVE  \E r \in R : \A q \in R : ~(q < r)
<1>1. \E r \in R : \A q \in R : ~(<<q, r>> \in OpToRel(<, Nat))
  BY WFMin, NatLessThanWellFounded, Zenon
<1> QED
  BY <1>1, Zenon DEF OpToRel

LEMMA LeastRule ==
  ASSUME NEW R \in SUBSET Rule, R # {}
  PROVE  \E r \in R : \A q \in R : r <= q
<1>1. R \subseteq Nat
  BY PacingAssumption
<1>2. \E r \in R : \A q \in R : ~(q < r)
  BY <1>1, LeastOfNat
<1> QED
  BY <1>1, <1>2

\* One suggestion more.
LEMMA OneMore ==
  ASSUME NEW sh \in Seq(Nat), NEW t \in Nat, NEW d
  PROVE  /\ IsFiniteSet(ShownOn(sh, d)) /\ Cardinality(ShownOn(sh, d)) \in Nat
         /\ dayOf(t) = d => Cardinality(ShownOn(Append(sh, t), d)) = Cardinality(ShownOn(sh, d)) + 1
         /\ dayOf(t) # d => ShownOn(Append(sh, t), d) = ShownOn(sh, d)
<1>1. DOMAIN sh = 1 .. Len(sh) /\ Len(sh) \in Nat
  OBVIOUS
<1>2. IsFiniteSet(ShownOn(sh, d)) /\ Cardinality(ShownOn(sh, d)) \in Nat
  <2>1. IsFiniteSet(1 .. Len(sh))
    BY <1>1, FS_Interval
  <2>2. ShownOn(sh, d) \subseteq 1 .. Len(sh)
    BY <1>1 DEF ShownOn
  <2> QED
    BY <2>1, <2>2, FS_Subset, FS_CardinalityType
<1>3. /\ DOMAIN Append(sh, t) = 1 .. (Len(sh) + 1)
      /\ Append(sh, t)[Len(sh) + 1] = t
      /\ \A j \in 1 .. Len(sh) : Append(sh, t)[j] = sh[j]
  BY <1>1
<1>4. ASSUME dayOf(t) = d
      PROVE  ShownOn(Append(sh, t), d) = ShownOn(sh, d) \cup {Len(sh) + 1}
  BY <1>1, <1>3, <1>4 DEF ShownOn
<1>5. Len(sh) + 1 \notin ShownOn(sh, d)
  BY <1>1 DEF ShownOn
<1>6. ASSUME dayOf(t) # d
      PROVE  ShownOn(Append(sh, t), d) = ShownOn(sh, d)
  BY <1>1, <1>3, <1>6 DEF ShownOn
<1> QED
  BY <1>2, <1>4, <1>5, <1>6, FS_AddElement

LEMMA DefaultIsState ==
  getDefaultState \in States /\ getDefaultState.lastSuggestionTime = 0 /\ getDefaultState.suggestionsToday = 0
BY DEF getDefaultState, States

LEMMA StoppedIsEngine ==
  Stopped \in Engines /\ ~Stopped.running /\ Stopped.offer = 0
BY DefaultIsState DEF Stopped, Engines, StateFiles

LEMMA SuggestionStart == SuggestionInit => SuggestionInv
<1> SUFFICES ASSUME SuggestionInit PROVE SuggestionInv
  OBVIOUS
<1>1. SuggestionTypeOK
  <2>1. stateFile \in StateFiles
    BY DEF SuggestionInit, StateFiles
  <2>2. engine \in [Engine -> Engines]
    BY StoppedIsEngine DEF SuggestionInit
  <2>3. refused \in [optedOut: BOOLEAN, skills: SUBSET Rule] /\ disturbed \in BOOLEAN
    BY DEF SuggestionInit
  <2>4. time \in Nat /\ shown \in Seq(Nat)
    BY PacingAssumption DEF SuggestionInit
  <2> QED
    BY <2>1, <2>2, <2>3, <2>4 DEF SuggestionTypeOK
<1>2. time \in Nat /\ shown = <<>> /\ stateFile = {} /\ refused = [optedOut |-> FALSE, skills |-> {}]
  BY PacingAssumption DEF SuggestionInit
<1>3. Cardinality(ShownOn(<<>>, dayOf(time))) = 0
  <2>1. ShownOn(<<>>, dayOf(time)) = {}
    BY DEF ShownOn
  <2> QED
    BY <2>1, FS_EmptySet
<1>4. Knows(getDefaultState, shown, refused, time)
  BY <1>2, <1>3, DefaultIsState DEF Knows
<1>5. FileKnows(stateFile, shown, refused, time)
  BY <1>2, <1>4 DEF FileKnows
<1>6. Spaced(shown)
  BY <1>2 DEF Spaced
<1>7. \A p \in Engine : HoldsWhatItRead(engine[p], time) /\ OffersWhatIsAllowed(engine[p], time)
  BY StoppedIsEngine DEF SuggestionInit, HoldsWhatItRead, OffersWhatIsAllowed
<1> QED
  BY <1>1, <1>5, <1>6, <1>7 DEF SuggestionInv

\* A day that is over has no suggestion of today.
LEMMA NothingToday ==
  ASSUME NEW sh \in Seq(Nat), NEW last \in Nat, NEW now \in Nat,
         \A j \in DOMAIN sh : sh[j] <= last, dayOf(last) < dayOf(now)
  PROVE  Cardinality(ShownOn(sh, dayOf(now))) = 0
<1>1. ASSUME NEW j \in DOMAIN sh PROVE dayOf(sh[j]) # dayOf(now)
  <2>1. sh[j] \in Nat /\ sh[j] <= last
    OBVIOUS
  <2>2. dayOf(sh[j]) <= dayOf(last) /\ dayOf(sh[j]) \in Nat /\ dayOf(last) \in Nat /\ dayOf(now) \in Nat
    BY <2>1, DaysInOrder
  <2> QED
    BY <2>2
<1>2. ShownOn(sh, dayOf(now)) = {}
  BY <1>1 DEF ShownOn
<1> QED
  BY <1>2, FS_EmptySet

\* What is known of a state is known of it with the count of an old day reset.
LEMMA KnownAfterReset ==
  ASSUME NEW s \in States, NEW sh \in Seq(Nat), NEW ref, NEW now \in Nat, Knows(s, sh, ref, now),
         dayOf(s.lastSuggestionTime) < dayOf(now)
  PROVE  Knows([s EXCEPT !.suggestionsToday = 0], sh, ref, now)
<1> DEFINE r == [s EXCEPT !.suggestionsToday = 0]
<1>1. /\ r.suggestionsToday = 0 /\ r.lastSuggestionTime = s.lastSuggestionTime
      /\ r.optedOut = s.optedOut /\ r.dismissedSkills = s.dismissedSkills /\ s.lastSuggestionTime \in Nat
  BY DEF States
<1>2. Cardinality(ShownOn(sh, dayOf(now))) = 0
  BY <1>1, NothingToday DEF Knows
<1> HIDE DEF r
<1> QED
  BY <1>1, <1>2 DEF Knows

\* An engine that read the file as it is knows everything.
LEMMA CurrentKnows ==
  ASSUME SuggestionInv, ~disturbed, NEW p \in Engine, engine[p].running, ~Overwrites(p)
  PROVE  Knows(engine[p].state, shown, refused, time)
<1>1. stateFile = engine[p].read /\ stateFile \in StateFiles /\ stateFile # Damaged
      /\ shown \in Seq(Nat) /\ time \in Nat
  BY DEF SuggestionInv, SuggestionTypeOK, Overwrites, HoldsWhatItRead
<1>2. CASE stateFile = {}
  BY <1>1, <1>2 DEF SuggestionInv, FileKnows, HoldsWhatItRead
<1>3. CASE stateFile # {}
  <2>1. PICK s \in States : stateFile = {s}
    BY <1>1, <1>3 DEF StateFiles
  <2>2. Knows(s, shown, refused, time)
    BY <2>1 DEF SuggestionInv, FileKnows
  <2>3. \/ engine[p].state = s
        \/ engine[p].state = [s EXCEPT !.suggestionsToday = 0] /\ dayOf(s.lastSuggestionTime) < dayOf(time)
    BY <1>1, <2>1 DEF SuggestionInv, HoldsWhatItRead
  <2> QED
    BY <1>1, <2>2, <2>3, KnownAfterReset
<1> QED
  BY <1>2, <1>3

\* A state is saved: it must know everything that was shown and refused.
LEMMA Saved ==
  ASSUME SuggestionInv, NEW p \in Engine, NEW s \in States, Save(p, s), shown' \in Seq(Nat),
         refused' \in [optedOut: BOOLEAN, skills: SUBSET Rule], disturbed' \in BOOLEAN,
         ~disturbed' => ~disturbed /\ Knows(s, shown', refused', time) /\ Spaced(shown')
  PROVE  SuggestionInv'
<1>1. PICK file \in StateFiles, e \in Engines :
        /\ stateFile' = file /\ engine' = [engine EXCEPT ![p] = e] /\ e.offer = 0
        /\ \/ file = {s} /\ e.running = engine[p].running /\ e.state = s /\ e.read = {s}
           \/ file = Damaged /\ ~e.running
  <2>1. CASE stateFile' = {s} /\ engine' = [engine EXCEPT ![p].state = s, ![p].read = {s}, ![p].offer = 0]
    <3> DEFINE e == [engine[p] EXCEPT !.state = s, !.read = {s}, !.offer = 0]
    <3>1. /\ e \in Engines /\ engine' = [engine EXCEPT ![p] = e] /\ e.offer = 0
          /\ e.running = engine[p].running /\ e.state = s /\ e.read = {s}
      <4>1. engine[p] \in Engines /\ {s} \in StateFiles
        BY DEF SuggestionInv, SuggestionTypeOK, StateFiles
      <4> QED
        BY <2>1, <4>1 DEF Engines
    <3>2. {s} \in StateFiles
      BY DEF StateFiles
    <3> HIDE DEF e
    <3> QED
      BY <2>1, <3>1, <3>2
  <2>2. CASE stateFile' = Damaged /\ engine' = [engine EXCEPT ![p] = Stopped]
    BY <2>2, StoppedIsEngine DEF StateFiles
  <2> QED
    BY <2>1, <2>2 DEF Save
<1>2. time' = time
  BY DEF Save
<1>3. SuggestionTypeOK'
  BY <1>1, <1>2 DEF SuggestionInv, SuggestionTypeOK
<1>4. ASSUME ~disturbed' PROVE FileKnows(file, shown', refused', time)
  <2>1. \A r \in States : {r} # Damaged
    BY DamagedIsNoState
  <2>2. Damaged # {} /\ {s} # {} /\ \A r : {s} = {r} => r = s
    BY DEF Damaged
  <2> QED
    BY <1>1, <1>4, <2>1, <2>2 DEF FileKnows
<1>5. HoldsWhatItRead(e, time) /\ OffersWhatIsAllowed(e, time)
  <2>1. {s} # Damaged /\ {s} # {} /\ \A r : {s} = {r} => r = s
    BY DamagedIsNoState
  <2> QED
    BY <1>1, <2>1 DEF HoldsWhatItRead, OffersWhatIsAllowed
<1>6. ASSUME ~disturbed', NEW q \in Engine
      PROVE  HoldsWhatItRead(engine'[q], time) /\ OffersWhatIsAllowed(engine'[q], time)
  BY <1>1, <1>5, <1>6 DEF SuggestionInv, SuggestionTypeOK
<1> QED
  BY <1>1, <1>2, <1>3, <1>4, <1>6 DEF SuggestionInv

LEMMA EngineStarts ==
  ASSUME SuggestionInv, NEW p \in Engine, StartEngine(p)
  PROVE  SuggestionInv'
<1> DEFINE e == [running |-> TRUE, state |-> loadState, read |-> stateFile, offer |-> 0]
<1>1. /\ engine' = [engine EXCEPT ![p] = e] /\ disturbed' = (disturbed \/ stateFile = Damaged)
      /\ UNCHANGED <<stateFile, time, shown, refused>>
  BY DEF StartEngine
<1>2. stateFile \in StateFiles /\ time \in Nat /\ shown \in Seq(Nat)
  BY DEF SuggestionInv, SuggestionTypeOK
<1>3. CASE stateFile = {} \/ stateFile = Damaged
  <2>1. loadState = getDefaultState
    BY <1>3 DEF loadState
  <2>2. e \in Engines /\ OffersWhatIsAllowed(e, time)
    BY <1>2, <2>1, DefaultIsState DEF Engines, OffersWhatIsAllowed
  <2>3. stateFile # Damaged => HoldsWhatItRead(e, time)
    BY <1>3, <2>1 DEF HoldsWhatItRead
  <2> HIDE DEF e
  <2> QED
    BY <1>1, <2>2, <2>3 DEF SuggestionInv, SuggestionTypeOK
<1>4. CASE ~(stateFile = {} \/ stateFile = Damaged)
  <2>1. PICK s \in States : stateFile = {s}
    BY <1>2, <1>4 DEF StateFiles
  <2>2. (CHOOSE d \in stateFile : TRUE) = s
    BY <2>1
  <2>3. loadState = IF dayOf(s.lastSuggestionTime) = dayOf(time) THEN s ELSE [s EXCEPT !.suggestionsToday = 0]
    BY <1>4, <2>2 DEF loadState
  <2>4. loadState \in States
    BY <2>3 DEF States
  <2>5. e \in Engines /\ OffersWhatIsAllowed(e, time)
    BY <1>2, <2>4 DEF Engines, OffersWhatIsAllowed
  <2>6. ASSUME ~disturbed PROVE HoldsWhatItRead(e, time)
    <3>1. s.lastSuggestionTime <= time /\ s.lastSuggestionTime \in Nat
      BY <2>1, <2>6 DEF SuggestionInv, FileKnows, Knows, States
    <3>2. dayOf(s.lastSuggestionTime) # dayOf(time) => dayOf(s.lastSuggestionTime) < dayOf(time)
      <4>1. dayOf(s.lastSuggestionTime) \in Nat /\ dayOf(time) \in Nat
            /\ dayOf(s.lastSuggestionTime) <= dayOf(time)
        BY <1>2, <3>1, DaysInOrder
      <4> QED
        BY <4>1
    <3>3. e.read = {s} /\ e.state = loadState /\ e.read # Damaged /\ e.read # {} /\ \A r : {s} = {r} => r = s
      BY <1>4, <2>1
    <3> HIDE DEF e
    <3> QED
      BY <2>3, <3>2, <3>3 DEF HoldsWhatItRead
  <2> HIDE DEF e
  <2> QED
    BY <1>1, <2>5, <2>6 DEF SuggestionInv, SuggestionTypeOK
<1> QED
  BY <1>3, <1>4

LEMMA SuggestionOffered ==
  ASSUME SuggestionInv, NEW p \in Engine, getSuggestions(p)
  PROVE  SuggestionInv'
<1>1. PICK matching \in SUBSET Rule :
        LET left == matching \ engine[p].state.dismissedSkills IN
        /\ left # {}
        /\ engine' = [engine EXCEPT ![p].offer = CHOOSE r \in left : \A q \in left : r <= q]
  BY DEF getSuggestions
<1> DEFINE left == matching \ engine[p].state.dismissedSkills
           offer == CHOOSE r \in left : \A q \in left : r <= q
           e == [engine[p] EXCEPT !.offer = offer]
<1>2. left # {} /\ left \in SUBSET Rule
  BY <1>1
<1>3. offer \in left
  <2> HIDE DEF left
  <2> QED
    BY <1>2, LeastRule
<1>4. engine' = [engine EXCEPT ![p] = e] /\ UNCHANGED <<stateFile, time, shown, refused, disturbed>>
  BY <1>1 DEF getSuggestions
<1>5. /\ engine[p] \in Engines /\ engine[p].running /\ ~engine[p].state.optedOut
      /\ engine[p].state.suggestionsToday < maxSuggestionsPerDay
      /\ time - engine[p].state.lastSuggestionTime >= cooldownMs
  BY DEF getSuggestions, canSuggest, SuggestionInv, SuggestionTypeOK
<1>6. offer \in Rule /\ offer \notin engine[p].state.dismissedSkills
  BY <1>3
<1> HIDE DEF offer, left
<1>7. /\ e \in Engines /\ e.offer = offer /\ e.state = engine[p].state /\ e.read = engine[p].read
      /\ e.running = engine[p].running
  BY <1>5, <1>6 DEF Engines
<1> HIDE DEF e
<1>8. OffersWhatIsAllowed(e, time)
  BY <1>5, <1>6, <1>7 DEF OffersWhatIsAllowed
<1>9. ~disturbed => HoldsWhatItRead(e, time)
  BY <1>7 DEF SuggestionInv, HoldsWhatItRead
<1> QED
  BY <1>4, <1>7, <1>8, <1>9 DEF SuggestionInv, SuggestionTypeOK

Showing(held, now) == [held EXCEPT !.lastSuggestionTime = now, !.suggestionsToday = @ + 1]

LEMMA StateAfterShowing ==
  ASSUME NEW held \in States, NEW now \in Nat
  PROVE  /\ Showing(held, now) \in States /\ Showing(held, now).lastSuggestionTime = now
         /\ Showing(held, now).suggestionsToday = held.suggestionsToday + 1
         /\ Showing(held, now).optedOut = held.optedOut
         /\ Showing(held, now).dismissedSkills = held.dismissedSkills
<1> DEFINE s == Showing(held, now)
<1>1. held.suggestionsToday + 1 \in Nat
  BY DEF States
<1> DEFINE n == held.suggestionsToday + 1
<1>2. s = [held EXCEPT !.lastSuggestionTime = now, !.suggestionsToday = n]
  BY DEF States, Showing
<1> HIDE DEF n, s
<1>3. /\ s \in States /\ s.lastSuggestionTime = now /\ s.suggestionsToday = n
      /\ s.optedOut = held.optedOut /\ s.dismissedSkills = held.dismissedSkills
  BY <1>1, <1>2 DEF States, n
<1> QED
  BY <1>3 DEF n, s

LEMMA SuggestionShown ==
  ASSUME SuggestionInv, NEW p \in Engine, recordSuggestionShown(p)
  PROVE  SuggestionInv'
<1> DEFINE held == engine[p].state
           s == [held EXCEPT !.lastSuggestionTime = time, !.suggestionsToday = @ + 1]
<1>1. /\ engine[p].running /\ engine[p].offer # 0 /\ Save(p, s) /\ shown' = Append(shown, time)
      /\ disturbed' = (disturbed \/ Overwrites(p)) /\ refused' = refused
  BY DEF recordSuggestionShown
<1>2. held \in States /\ time \in Nat /\ shown \in Seq(Nat) /\ disturbed \in BOOLEAN
  BY DEF SuggestionInv, SuggestionTypeOK, Engines
<1>3. /\ s \in States /\ s.lastSuggestionTime = time /\ s.suggestionsToday = held.suggestionsToday + 1
      /\ s.optedOut = held.optedOut /\ s.dismissedSkills = held.dismissedSkills
  <2>1. s = Showing(held, time)
    BY DEF Showing
  <2> HIDE DEF s, held
  <2> QED
    BY <1>2, <2>1, StateAfterShowing
<1> HIDE DEF s
<1>4. shown' \in Seq(Nat) /\ disturbed' \in BOOLEAN /\ refused' \in [optedOut: BOOLEAN, skills: SUBSET Rule]
  BY <1>1, <1>2 DEF SuggestionInv, SuggestionTypeOK
<1>5. ASSUME ~disturbed' PROVE Knows(s, shown', refused', time) /\ Spaced(shown')
  <2>1. ~disturbed /\ ~Overwrites(p)
    BY <1>1, <1>5
  <2>2. Knows(held, shown, refused, time) /\ Spaced(shown) /\ OffersWhatIsAllowed(engine[p], time)
    BY <1>1, <2>1, CurrentKnows DEF SuggestionInv
  <2>3. held.suggestionsToday \in Nat /\ held.lastSuggestionTime \in Nat
        /\ held.suggestionsToday < maxSuggestionsPerDay /\ time - held.lastSuggestionTime >= cooldownMs
    BY <1>1, <1>2, <2>2 DEF OffersWhatIsAllowed, States
  <2>4. /\ DOMAIN shown = 1 .. Len(shown) /\ Len(shown) \in Nat
        /\ DOMAIN shown' = 1 .. (Len(shown) + 1) /\ shown'[Len(shown) + 1] = time
        /\ \A j \in 1 .. Len(shown) : shown'[j] = shown[j] /\ shown[j] \in Nat
    BY <1>1, <1>2
  <2>5. \A j \in 1 .. Len(shown) : shown[j] <= held.lastSuggestionTime /\ shown[j] + cooldownMs <= time
    <3> SUFFICES ASSUME NEW j \in 1 .. Len(shown)
                 PROVE  shown[j] <= held.lastSuggestionTime /\ shown[j] + cooldownMs <= time
      OBVIOUS
    <3>1. shown[j] \in Nat /\ shown[j] <= held.lastSuggestionTime
      BY <2>2, <2>4 DEF Knows
    <3> QED
      BY <1>2, <2>3, <3>1, PacingAssumption
  <2> DEFINE today == dayOf(time)
  <2>6. /\ Cardinality(ShownOn(shown, today)) \in Nat
        /\ Cardinality(ShownOn(shown', today)) = Cardinality(ShownOn(shown, today)) + 1
        /\ Cardinality(ShownOn(shown, today)) <= held.suggestionsToday
    BY <1>1, <1>2, <2>2, OneMore DEF Knows
  <2>7. Knows(s, shown', refused', time)
    <3>1. \A j \in DOMAIN shown' : shown'[j] <= time
      BY <1>2, <2>4, <2>5, PacingAssumption
    <3> QED
      BY <1>1, <1>2, <1>3, <2>2, <2>3, <2>6, <3>1 DEF Knows
  <2>8. ASSUME NEW i \in DOMAIN shown'
        PROVE  Cardinality(ShownOn(shown', dayOf(shown'[i]))) <= maxSuggestionsPerDay
    <3>1. CASE dayOf(shown'[i]) = today
      BY <2>3, <2>6, <3>1, PacingAssumption
    <3>2. CASE dayOf(shown'[i]) # today
      <4>1. i \in 1 .. Len(shown) /\ shown'[i] = shown[i]
        BY <2>4, <3>2
      <4>2. ShownOn(shown', dayOf(shown[i])) = ShownOn(shown, dayOf(shown[i]))
        BY <1>1, <1>2, <3>2, <4>1, OneMore
      <4> QED
        BY <2>2, <2>4, <4>1, <4>2 DEF Spaced
    <3> QED
      BY <3>1, <3>2
  <2>9. ASSUME NEW i \in DOMAIN shown', i > 1
        PROVE  shown'[i - 1] + cooldownMs <= shown'[i]
    <3>1. CASE i = Len(shown) + 1
      BY <2>4, <2>5, <2>9, <3>1
    <3>2. CASE i # Len(shown) + 1
      <4>1. i \in 1 .. Len(shown) /\ i - 1 \in 1 .. Len(shown)
        BY <2>4, <2>9, <3>2
      <4> QED
        BY <2>2, <2>4, <2>9, <4>1 DEF Spaced
    <3> QED
      BY <3>1, <3>2
  <2> QED
    BY <2>7, <2>8, <2>9 DEF Spaced
<1>6. ~disturbed' => ~disturbed
  BY <1>1
<1> QED
  BY <1>1, <1>3, <1>4, <1>5, <1>6, Saved

\* A change of the user's that is saved and takes nothing back.
LEMMA SkillDismissed ==
  ASSUME SuggestionInv, NEW p \in Engine, dismissSkill(p)
  PROVE  SuggestionInv'
<1> DEFINE held == engine[p].state
<1>1. PICK r \in Rule \ held.dismissedSkills :
        /\ Save(p, [held EXCEPT !.dismissedSkills = @ \cup {r}])
        /\ refused' = [refused EXCEPT !.skills = @ \cup {r}]
  BY DEF dismissSkill
<1> DEFINE s == [held EXCEPT !.dismissedSkills = @ \cup {r}]
<1>2. /\ engine[p].running /\ shown' = shown /\ disturbed' = (disturbed \/ Overwrites(p))
  BY DEF dismissSkill
<1>3. held \in States /\ time \in Nat /\ shown \in Seq(Nat) /\ disturbed \in BOOLEAN
      /\ refused \in [optedOut: BOOLEAN, skills: SUBSET Rule]
  BY DEF SuggestionInv, SuggestionTypeOK, Engines
<1>4. /\ s \in States /\ s.lastSuggestionTime = held.lastSuggestionTime
      /\ s.suggestionsToday = held.suggestionsToday
      /\ s.optedOut = held.optedOut /\ s.dismissedSkills = held.dismissedSkills \cup {r}
  BY <1>3 DEF States
<1> HIDE DEF s
<1>5. /\ refused' \in [optedOut: BOOLEAN, skills: SUBSET Rule]
      /\ refused'.optedOut = refused.optedOut /\ refused'.skills = refused.skills \cup {r}
  BY <1>1, <1>3
<1>6. ASSUME ~disturbed' PROVE ~disturbed /\ Knows(s, shown', refused', time) /\ Spaced(shown')
  <2>1. ~disturbed /\ ~Overwrites(p)
    BY <1>2, <1>6
  <2>2. Knows(held, shown, refused, time) /\ Spaced(shown)
    BY <1>2, <2>1, CurrentKnows DEF SuggestionInv
  <2> QED
    BY <1>2, <1>4, <1>5, <2>1, <2>2 DEF Knows
<1>7. Save(p, s)
  BY <1>1 DEF s
<1>8. disturbed' \in BOOLEAN /\ shown' \in Seq(Nat)
  BY <1>2, <1>3
<1> QED
  BY <1>4, <1>5, <1>6, <1>7, <1>8, Saved

LEMMA Opted ==
  ASSUME SuggestionInv, NEW p \in Engine, NEW out \in BOOLEAN, Opt(p, out)
  PROVE  SuggestionInv'
<1> DEFINE held == engine[p].state
           s == [held EXCEPT !.optedOut = out]
<1>1. /\ Save(p, s) /\ refused' = [refused EXCEPT !.optedOut = out]
      /\ engine[p].running /\ shown' = shown /\ disturbed' = (disturbed \/ Overwrites(p))
  BY DEF Opt
<1>2. held \in States /\ time \in Nat /\ shown \in Seq(Nat) /\ disturbed \in BOOLEAN
      /\ refused \in [optedOut: BOOLEAN, skills: SUBSET Rule]
  BY DEF SuggestionInv, SuggestionTypeOK, Engines
<1>3. /\ s \in States /\ s.lastSuggestionTime = held.lastSuggestionTime
      /\ s.suggestionsToday = held.suggestionsToday
      /\ s.optedOut = out /\ s.dismissedSkills = held.dismissedSkills
  BY <1>2 DEF States
<1> HIDE DEF s
<1>4. /\ refused' \in [optedOut: BOOLEAN, skills: SUBSET Rule]
      /\ refused'.optedOut = out /\ refused'.skills = refused.skills
  BY <1>1, <1>2
<1>5. ASSUME ~disturbed' PROVE ~disturbed /\ Knows(s, shown', refused', time) /\ Spaced(shown')
  <2>1. ~disturbed /\ ~Overwrites(p)
    BY <1>1, <1>5
  <2>2. Knows(held, shown, refused, time) /\ Spaced(shown)
    BY <1>1, <2>1, CurrentKnows DEF SuggestionInv
  <2> QED
    BY <1>1, <1>3, <1>4, <2>1, <2>2 DEF Knows
<1>6. disturbed' \in BOOLEAN /\ shown' \in Seq(Nat)
  BY <1>1, <1>2
<1> QED
  BY <1>1, <1>3, <1>4, <1>5, <1>6, Saved

LEMMA StateReset ==
  ASSUME SuggestionInv, NEW p \in Engine, resetState(p)
  PROVE  SuggestionInv'
<1>1. /\ Save(p, getDefaultState) /\ refused' = [optedOut |-> FALSE, skills |-> {}]
      /\ disturbed' = TRUE /\ shown' = shown
  BY DEF resetState
<1>2. refused' \in [optedOut: BOOLEAN, skills: SUBSET Rule] /\ shown' \in Seq(Nat)
  BY <1>1 DEF SuggestionInv, SuggestionTypeOK
<1> QED
  BY <1>1, <1>2, DefaultIsState, Saved

\* A day begins, or the same goes on: what was known still is.
LEMMA KnownLater ==
  ASSUME NEW s \in States, NEW sh \in Seq(Nat), NEW ref, NEW now \in Nat, Knows(s, sh, ref, now)
  PROVE  Knows(s, sh, ref, now + 1)
<1>1. s.lastSuggestionTime \in Nat /\ s.suggestionsToday \in Nat /\ s.lastSuggestionTime <= now
  BY DEF States, Knows
<1>2. Cardinality(ShownOn(sh, dayOf(now + 1))) <= s.suggestionsToday
  <2>1. CASE dayOf(now + 1) = dayOf(now)
    BY <2>1 DEF Knows
  <2>2. CASE dayOf(now + 1) # dayOf(now)
    <3>1. dayOf(s.lastSuggestionTime) <= dayOf(now) /\ dayOf(now) <= dayOf(now + 1)
          /\ dayOf(now) \in Nat /\ dayOf(now + 1) \in Nat /\ dayOf(s.lastSuggestionTime) \in Nat
      <4>1. now + 1 \in Nat /\ now <= now + 1
        OBVIOUS
      <4> QED
        BY <1>1, <4>1, DaysInOrder
    <3>2. dayOf(s.lastSuggestionTime) < dayOf(now + 1) /\ now + 1 \in Nat
      BY <2>2, <3>1
    <3>3. \A j \in DOMAIN sh : sh[j] <= s.lastSuggestionTime
      BY DEF Knows
    <3>4. Cardinality(ShownOn(sh, dayOf(now + 1))) = 0
      BY <1>1, <3>2, <3>3, NothingToday
    <3> QED
      BY <1>1, <3>4
  <2> QED
    BY <2>1, <2>2
<1> QED
  BY <1>1, <1>2 DEF Knows

LEMMA DaysGoOn ==
  ASSUME SuggestionInv, TimeGoesOn
  PROVE  SuggestionInv'
<1>1. /\ time' = time + 1 /\ time \in Nat /\ shown \in Seq(Nat)
      /\ UNCHANGED <<stateFile, engine, shown, refused, disturbed>>
  BY DEF TimeGoesOn, SuggestionInv, SuggestionTypeOK
<1>2. FileKnows(stateFile, shown, refused, time) => FileKnows(stateFile, shown, refused, time')
  BY <1>1, KnownLater, DefaultIsState DEF FileKnows
<1>3. ASSUME NEW p \in Engine, HoldsWhatItRead(engine[p], time) PROVE HoldsWhatItRead(engine[p], time')
  <2>1. dayOf(time) \in Nat /\ dayOf(time') \in Nat /\ dayOf(time) <= dayOf(time')
    BY <1>1, DaysInOrder
  <2>2. ASSUME NEW s \in States, dayOf(s.lastSuggestionTime) < dayOf(time)
        PROVE  dayOf(s.lastSuggestionTime) < dayOf(time')
    <3>1. s.lastSuggestionTime \in Nat
      BY DEF States
    <3>2. dayOf(s.lastSuggestionTime) \in Nat
      BY <3>1, DaysInOrder
    <3> QED
      BY <2>1, <2>2, <3>2
  <2> QED
    BY <1>3, <2>2 DEF HoldsWhatItRead
<1>4. ASSUME NEW p \in Engine, OffersWhatIsAllowed(engine[p], time)
      PROVE  OffersWhatIsAllowed(engine[p], time')
  <2>1. engine[p].state.lastSuggestionTime \in Nat
    BY DEF SuggestionInv, SuggestionTypeOK, Engines, States
  <2> QED
    BY <1>1, <1>4, <2>1, PacingAssumption DEF OffersWhatIsAllowed
<1> QED
  BY <1>1, <1>2, <1>3, <1>4 DEF SuggestionInv, SuggestionTypeOK

LEMMA SuggestionStep ==
  ASSUME SuggestionInv, [SuggestionNext]_suggestionVars
  PROVE  SuggestionInv'
<1>1. ASSUME NEW p \in Engine, StopEngine(p) PROVE SuggestionInv'
  <2>1. engine' = [engine EXCEPT ![p] = Stopped] /\ UNCHANGED <<stateFile, time, shown, refused, disturbed>>
    BY <1>1 DEF StopEngine
  <2>2. HoldsWhatItRead(Stopped, time) /\ OffersWhatIsAllowed(Stopped, time)
    BY StoppedIsEngine DEF HoldsWhatItRead, OffersWhatIsAllowed
  <2> QED
    BY <2>1, <2>2, StoppedIsEngine DEF SuggestionInv, SuggestionTypeOK
<1>2. CASE UNCHANGED suggestionVars
  BY <1>2 DEF suggestionVars, SuggestionInv, SuggestionTypeOK
<1> QED
  BY <1>1, <1>2, EngineStarts, SuggestionOffered, SuggestionShown, SkillDismissed, Opted, StateReset, DaysGoOn
  DEF SuggestionNext

\* For any number of engines, rules and days: as long as no state was lost, reset or
\* overwritten unread, no day has more suggestions than the configuration allows, two are a
\* cooldown apart, and no engine that is up to date offers what the user refused.
THEOREM SuggestionsArePaced == Spec => []SuggestionsPaced
<1>1. SuggestionInv => SuggestionsPaced
  <2> SUFFICES ASSUME SuggestionInv, ~disturbed PROVE
        /\ \A i \in DOMAIN shown :
             /\ Cardinality({j \in DOMAIN shown : dayOf(shown[j]) = dayOf(shown[i])}) <= maxSuggestionsPerDay
             /\ i > 1 => shown[i - 1] + cooldownMs <= shown[i]
        /\ \A p \in Engine : engine[p].offer # 0 /\ ~Overwrites(p) =>
             ~refused.optedOut /\ engine[p].offer \notin refused.skills
    BY DEF SuggestionsPaced
  <2>1. Spaced(shown)
    BY DEF SuggestionInv
  <2>2. ASSUME NEW p \in Engine, engine[p].offer # 0, ~Overwrites(p)
        PROVE  ~refused.optedOut /\ engine[p].offer \notin refused.skills
    <3>1. OffersWhatIsAllowed(engine[p], time)
      BY DEF SuggestionInv
    <3>2. Knows(engine[p].state, shown, refused, time)
      BY <2>2, <3>1, CurrentKnows DEF OffersWhatIsAllowed
    <3> QED
      BY <2>2, <3>1, <3>2 DEF OffersWhatIsAllowed, Knows
  <2> QED
    BY <2>1, <2>2 DEF Spaced, ShownOn
<1> QED
  BY <1>1, PartsAlone, SuggestionStart, SuggestionStep, PTL DEF SuggestionSpec

-----------------------------------------------------------------------------
(* skill_outdated and skill_updates.                                       *)

Live        == HashOrNone \cup {"failed", "quota"}
Evidence    == [live: SUBSET Live, synced: HashOrNone]
Reasons     == {"", "offline", "quota-exhausted", "network-error", "no-history", "no-registry-record"}
OutdatedRows == [row: Row, status: {"current", "outdated", "local-drift", "identity-mismatch", "unknown"},
                 installed: HashOrNone, latest: HashOrNone, reason: Reasons]
OutdatedRuns == [at: {"idle", "entry", "lookup", "judge"}, offline: BOOLEAN, todo: SUBSET Row,
                 quotaExhausted: BOOLEAN, quotaFailures: {0, 1}, row: Row \cup {0},
                 localHash: HashOrNone, answer: SUBSET OutdatedRows]
UpdateRows  == [skill: Skills, latest: Hash, updateAvailable: BOOLEAN]
UpdateRuns  == [at: {"idle", "skill"}, todo: SUBSET Skills, installed: [Skills -> SUBSET HashOrNone],
                answer: SUBSET UpdateRows, manifest: [Row -> HashOrNone]]

OutdatedTypeOK ==
  /\ published \in [Skills -> HashOrNone] /\ synced \in [Skills -> HashOrNone]
  /\ onDisk \in [Row -> HashOrNone] /\ recorded \in [Row -> HashOrNone]
  /\ evidence \in [Row -> Evidence]
  /\ outdated \in OutdatedRuns /\ updates \in UpdateRuns

\* One entry is looked at, at a time; nothing was asked about those still to come, and
\* nobody asks once the quota is known to be at its end.
LookupsInOrder ==
  /\ outdated.at \in {"lookup", "judge"} => outdated.row \in outdated.todo /\ RowSkill[outdated.row] # ""
  /\ outdated.at = "lookup" => ~outdated.quotaExhausted
  /\ outdated.quotaFailures = 1 => outdated.quotaExhausted
  /\ \A r \in outdated.todo : evidence[r].live = {}
  /\ \A a \in outdated.answer : a.row \notin outdated.todo

\* A verdict compares two hashes, the second one given in this run.
Verdict(a) ==
  /\ a.installed \in Hash /\ a.latest \in Hash /\ a.reason = ""
  /\ a.status = "current" <=> a.installed = a.latest
  /\ \/ evidence[a.row].live = {a.latest}
     \/ evidence[a.row].live \subseteq {"none"} /\ a.latest = evidence[a.row].synced

VerdictsHaveEvidence == \A a \in outdated.answer : a.status # "unknown" => Verdict(a)

\* The hash a skill counts with is the only one its clients recorded.
InstalledIsTheOnlyHash ==
  \A s \in Skills : \A h \in updates.installed[s] \ {"none"} :
    \A r \in Row : RowSkill[r] = s => updates.manifest[r] \in {h, "none"}

OutdatedInv ==
  /\ OutdatedTypeOK /\ LookupsInOrder /\ VerdictsHaveEvidence
  /\ InstalledIsTheOnlyHash /\ UpdateIsUnambiguous

LEMMA OutdatedStart == OutdatedInit => OutdatedInv
<1> SUFFICES ASSUME OutdatedInit PROVE OutdatedInv
  OBVIOUS
<1>1. NoEvidence \in Evidence
  BY DEF NoEvidence, Evidence, HashOrNone, Live
<1>2. NoRun \in OutdatedRuns
  BY DEF NoRun, OutdatedRuns, HashOrNone
<1>3. NoUpdates \in UpdateRuns
  BY DEF NoUpdates, UpdateRuns, HashOrNone
<1>4. OutdatedTypeOK
  BY <1>1, <1>2, <1>3 DEF OutdatedInit, OutdatedTypeOK, HashOrNone
<1>5. LookupsInOrder /\ VerdictsHaveEvidence
  BY DEF OutdatedInit, NoRun, LookupsInOrder, VerdictsHaveEvidence
<1>6. InstalledIsTheOnlyHash /\ UpdateIsUnambiguous
  BY DEF OutdatedInit, NoUpdates, InstalledIsTheOnlyHash, UpdateIsUnambiguous
<1> QED
  BY <1>4, <1>5, <1>6 DEF OutdatedInv

\* The row an entry gets: any verdict but "unknown" compares two hashes, and the second
\* one is what the registry said, or the history's where the registry had none.
LEMMA RowJudged ==
  ASSUME OutdatedTypeOK, LookupsInOrder, outdated.at \in {"lookup", "judge"},
         NEW live \in Live, Judge(live)
  PROVE  \E b \in OutdatedRows :
           /\ outdated' = [outdated EXCEPT !.at = "entry", !.todo = @ \ {outdated.row},
                !.quotaExhausted = outdated.quotaExhausted \/ live = "quota",
                !.quotaFailures = IF live = "quota" THEN @ + 1 ELSE @, !.row = 0,
                !.localHash = "none", !.answer = @ \cup {b}]
           /\ b.row = outdated.row
           /\ b.status # "unknown" =>
                /\ b.installed \in Hash /\ b.latest \in Hash /\ b.reason = ""
                /\ b.status = "current" <=> b.installed = b.latest
                /\ \/ b.latest = live
                   \/ live = "none" /\ b.latest = evidence[b.row].synced
<1> DEFINE r == outdated.row
           exhausted == outdated.quotaExhausted \/ live = "quota"
           hash == registryHash(live, evidence[r].synced)
           outcome == compareSkillContentHashes(outdated.localHash, hash)
           reason == deriveUnknownReason(exhausted, live)
           verdicts == CASE outcome = "outdated" -> classifyOutdatedEntry(reason)
                         [] outcome = "current" -> {<<"current", "">>}
                         [] OTHER -> {<<"unknown", reason>>}
<1>1. PICK verdict \in verdicts :
        outdated' = [outdated EXCEPT !.at = "entry", !.todo = @ \ {r}, !.quotaExhausted = exhausted,
          !.quotaFailures = IF live = "quota" THEN @ + 1 ELSE @, !.row = 0, !.localHash = "none",
          !.answer = @ \cup {Answer(r, verdict[1], outdated.localHash, hash, verdict[2])}]
  BY DEF Judge
<1>2. r \in Row /\ evidence[r].synced \in HashOrNone /\ outdated.localHash \in HashOrNone
  BY DEF OutdatedTypeOK, OutdatedRuns, Evidence, LookupsInOrder
<1>3. /\ hash \in HashOrNone
      /\ hash \in Hash => hash = live \/ (live = "none" /\ hash = evidence[r].synced)
  BY <1>2, HashAssumption DEF registryHash, Live, HashOrNone
<1>4. reason \in Reasons
  BY DEF deriveUnknownReason, Reasons
<1>5. outcome = IF outdated.localHash = "none" \/ hash = "none" THEN "unknown"
                ELSE IF outdated.localHash = hash THEN "current" ELSE "outdated"
  BY DEF compareSkillContentHashes
<1> DEFINE b == Answer(r, verdict[1], outdated.localHash, hash, verdict[2])
<1>b. outdated' = [outdated EXCEPT !.at = "entry", !.todo = @ \ {r}, !.quotaExhausted = exhausted,
        !.quotaFailures = IF live = "quota" THEN @ + 1 ELSE @, !.row = 0, !.localHash = "none",
        !.answer = @ \cup {b}]
  BY <1>1
<1> DEFINE RowTells == /\ b \in OutdatedRows /\ b.row = r
                       /\ b.status # "unknown" =>
                            /\ b.installed \in Hash /\ b.latest \in Hash /\ b.reason = ""
                            /\ b.status = "current" <=> b.installed = b.latest
                            /\ \/ b.latest = live
                               \/ live = "none" /\ b.latest = evidence[b.row].synced
<1> HIDE DEF reason, hash, outcome, r
<1>6. ASSUME outcome = "outdated" PROVE RowTells
  <2>1. verdict \in classifyOutdatedEntry(reason)
    BY <1>1, <1>6
  <2>2. /\ verdict[1] \in {"outdated", "local-drift", "identity-mismatch", "unknown"}
        /\ verdict[2] \in Reasons
        /\ verdict[1] # "unknown" => verdict[2] = ""
    BY <2>1, <1>4 DEF classifyOutdatedEntry, Reasons
  <2>3. outdated.localHash \in Hash /\ hash \in Hash /\ outdated.localHash # hash
    BY <1>2, <1>3, <1>5, <1>6 DEF HashOrNone
  <2>4. b \in OutdatedRows /\ b.row = r /\ b.status = verdict[1] /\ b.reason = verdict[2]
        /\ b.installed = outdated.localHash /\ b.latest = hash
    BY <1>2, <1>3, <2>2 DEF Answer, OutdatedRows
  <2> HIDE DEF b
  <2>5. b.status # "current"
    BY <2>2, <2>4
  <2> QED
    BY <1>3, <2>2, <2>3, <2>4, <2>5
<1>7. ASSUME outcome = "current" PROVE RowTells
  <2>1. verdict = <<"current", "">>
    BY <1>1, <1>7
  <2>2. outdated.localHash \in Hash /\ hash \in Hash /\ outdated.localHash = hash
    BY <1>2, <1>3, <1>5, <1>7 DEF HashOrNone
  <2>3. b \in OutdatedRows /\ b.row = r /\ b.status = "current" /\ b.reason = ""
        /\ b.installed = outdated.localHash /\ b.latest = hash
    BY <1>2, <1>3, <2>1 DEF Answer, OutdatedRows, Reasons
  <2> HIDE DEF b
  <2> QED
    BY <1>3, <2>2, <2>3
<1>8. ASSUME outcome \notin {"outdated", "current"} PROVE RowTells
  <2>1. verdict = <<"unknown", reason>>
    BY <1>1, <1>8
  <2>2. b \in OutdatedRows /\ b.row = r /\ b.status = "unknown"
    BY <1>2, <1>3, <1>4, <2>1 DEF Answer, OutdatedRows
  <2> HIDE DEF b
  <2> QED
    BY <2>2
<1>9. RowTells
  BY <1>6, <1>7, <1>8
<1> HIDE DEF b
<1>10. b \in OutdatedRows
  BY <1>9
<1> USE DEF r
<1> WITNESS b \in OutdatedRows
<1> QED
  BY <1>b, <1>9

\* A row given in the run: what holds of the answer holds with one more row, when only
\* the evidence of the entry under way has changed.
LEMMA RowGiven ==
  ASSUME OutdatedTypeOK, LookupsInOrder, VerdictsHaveEvidence, outdated.at \in {"lookup", "judge"},
         NEW live \in Live, Judge(live), outdated.at = "judge" => live = "none",
         NEW asked \in {{}, {live}}, asked = {} => live = "none",
         evidence' = [evidence EXCEPT ![outdated.row].live = asked]
  PROVE  /\ evidence' \in [Row -> Evidence] /\ outdated' \in OutdatedRuns
         /\ LookupsInOrder' /\ VerdictsHaveEvidence'
<1> DEFINE r == outdated.row
<1>1. r \in Row /\ r \in outdated.todo /\ evidence \in [Row -> Evidence] /\ outdated \in OutdatedRuns
  BY DEF OutdatedTypeOK, LookupsInOrder, OutdatedRuns
<1>2. PICK b \in OutdatedRows :
        /\ outdated' = [outdated EXCEPT !.at = "entry", !.todo = @ \ {r},
             !.quotaExhausted = outdated.quotaExhausted \/ live = "quota",
             !.quotaFailures = IF live = "quota" THEN @ + 1 ELSE @, !.row = 0,
             !.localHash = "none", !.answer = @ \cup {b}]
        /\ b.row = r
        /\ b.status # "unknown" =>
             /\ b.installed \in Hash /\ b.latest \in Hash /\ b.reason = ""
             /\ b.status = "current" <=> b.installed = b.latest
             /\ \/ b.latest = live
                \/ live = "none" /\ b.latest = evidence[b.row].synced
  BY RowJudged, ZenonT(60)
<1>3. outdated.quotaFailures \in {0, 1} /\ (live = "quota" => outdated.quotaFailures = 0)
  BY <1>1 DEF LookupsInOrder, OutdatedRuns
<1>4. outdated' \in OutdatedRuns
  <2>1. (IF live = "quota" THEN outdated.quotaFailures + 1 ELSE outdated.quotaFailures) \in {0, 1}
    BY <1>3
  <2> DEFINE failures == IF live = "quota" THEN outdated.quotaFailures + 1 ELSE outdated.quotaFailures
  <2> HIDE DEF failures
  <2> QED
    BY <1>1, <1>2, <2>1 DEF OutdatedRuns, HashOrNone, failures
<1>5. /\ evidence' \in [Row -> Evidence]
      /\ evidence'[r].live = asked /\ evidence'[r].synced = evidence[r].synced
      /\ \A q \in Row \ {r} : evidence'[q] = evidence[q]
  BY <1>1 DEF Evidence
<1>6. /\ outdated'.at = "entry" /\ outdated'.todo = outdated.todo \ {r}
      /\ outdated'.answer = outdated.answer \cup {b}
      /\ outdated'.quotaExhausted = (outdated.quotaExhausted \/ live = "quota")
      /\ outdated'.quotaFailures = IF live = "quota" THEN outdated.quotaFailures + 1
                                   ELSE outdated.quotaFailures
  BY <1>1, <1>2 DEF OutdatedRuns
<1>7. LookupsInOrder'
  <2>1. outdated'.quotaFailures = 1 => outdated'.quotaExhausted
    BY <1>3, <1>6 DEF LookupsInOrder
  <2>2. \A q \in outdated'.todo : evidence'[q].live = {}
    BY <1>1, <1>5, <1>6 DEF LookupsInOrder, OutdatedRuns
  <2>3. \A a \in outdated'.answer : a.row \notin outdated'.todo
    BY <1>2, <1>6 DEF LookupsInOrder
  <2> QED
    BY <1>6, <2>1, <2>2, <2>3 DEF LookupsInOrder
<1>8. VerdictsHaveEvidence'
  <2> SUFFICES ASSUME NEW a \in outdated'.answer, a.status # "unknown"
               PROVE  Verdict(a)'
    BY DEF VerdictsHaveEvidence
  <2>1. CASE a = b
    BY <1>2, <1>5, <2>1, HashAssumption DEF Verdict
  <2>2. CASE a \in outdated.answer
    <3>1. a.row \in Row \ {r}
      BY <1>1, <2>2 DEF LookupsInOrder, OutdatedRuns, OutdatedRows
    <3>2. Verdict(a)
      BY <2>2 DEF VerdictsHaveEvidence
    <3> QED
      BY <1>5, <3>1, <3>2 DEF Verdict
  <2> QED
    BY <1>6, <2>1, <2>2
<1> QED
  BY <1>4, <1>5, <1>7, <1>8

LEMMA OutdatedRunStep ==
  ASSUME OutdatedInv,
         \/ \E offline \in BOOLEAN : StartOutdated(offline)
         \/ \E r \in Row : ReadEntry(r)
         \/ Lookup \/ JudgeWithoutLookup \/ OutdatedAnswers
  PROVE  OutdatedInv'
<1> USE DEF OutdatedInv
<1>1. /\ UNCHANGED <<worldVars, updates>>
      /\ InstalledIsTheOnlyHash' /\ UpdateIsUnambiguous'
  BY DEF StartOutdated, ReadEntry, Lookup, JudgeWithoutLookup, OutdatedAnswers, worldVars,
         InstalledIsTheOnlyHash, UpdateIsUnambiguous
<1>2. SUFFICES /\ evidence' \in [Row -> Evidence] /\ outdated' \in OutdatedRuns
               /\ LookupsInOrder' /\ VerdictsHaveEvidence'
  BY <1>1 DEF OutdatedTypeOK, worldVars
<1>3. evidence \in [Row -> Evidence] /\ outdated \in OutdatedRuns
  BY DEF OutdatedTypeOK
<1>4. ASSUME NEW offline \in BOOLEAN, StartOutdated(offline)
      PROVE  /\ evidence' \in [Row -> Evidence] /\ outdated' \in OutdatedRuns
             /\ LookupsInOrder' /\ VerdictsHaveEvidence'
  <2>1. NoEvidence \in Evidence /\ NoEvidence.live = {}
    BY DEF NoEvidence, Evidence, HashOrNone, Live
  <2>2. outdated' \in OutdatedRuns
    BY <1>4 DEF StartOutdated, NoRun, OutdatedRuns, HashOrNone
  <2>3. evidence' \in [Row -> Evidence] /\ \A r \in Row : evidence'[r].live = {}
    BY <1>4, <2>1 DEF StartOutdated
  <2>4. /\ outdated'.at = "entry" /\ outdated'.quotaFailures = 0
        /\ outdated'.todo = Row /\ outdated'.answer = {}
    BY <1>4 DEF StartOutdated, NoRun
  <2>5. LookupsInOrder'
    <3>1. \A q \in Row : evidence'[q].live = {}
      BY <2>3
    <3>2. ~(outdated'.quotaFailures = 1) /\ outdated'.at \notin {"lookup", "judge"}
      BY <2>4
    <3>3. \A a \in outdated'.answer : a.row \notin outdated'.todo
      BY <2>4
    <3> QED
      BY <2>4, <3>1, <3>2, <3>3 DEF LookupsInOrder
  <2>6. VerdictsHaveEvidence'
    BY <2>4 DEF VerdictsHaveEvidence
  <2> QED
    BY <2>2, <2>3, <2>5, <2>6
<1>5. ASSUME NEW r \in Row, ReadEntry(r), RowSkill[r] = ""
      PROVE  /\ evidence' \in [Row -> Evidence] /\ outdated' \in OutdatedRuns
             /\ LookupsInOrder' /\ VerdictsHaveEvidence'
  <2> DEFINE b == Answer(r, "unknown", "none", "none", "no-history")
  <2>1. b \in OutdatedRows /\ b.row = r /\ b.status = "unknown"
    BY DEF Answer, OutdatedRows, Reasons, HashOrNone
  <2>2. outdated' = [outdated EXCEPT !.todo = @ \ {r}, !.answer = @ \cup {b}] /\ UNCHANGED evidence
    BY <1>5 DEF ReadEntry
  <2>3. outdated.at = "entry"
    BY <1>5 DEF ReadEntry
  <2> HIDE DEF b
  <2>4. outdated' \in OutdatedRuns
    BY <1>3, <2>1, <2>2 DEF OutdatedRuns
  <2>5. /\ outdated'.at = "entry" /\ outdated'.todo = outdated.todo \ {r}
        /\ outdated'.answer = outdated.answer \cup {b}
        /\ UNCHANGED <<outdated.quotaFailures, outdated.quotaExhausted>>
    BY <1>3, <2>2, <2>3 DEF OutdatedRuns
  <2>6. LookupsInOrder'
    BY <2>1, <2>2, <2>5 DEF LookupsInOrder
  <2>7. VerdictsHaveEvidence'
    BY <2>1, <2>2, <2>5 DEF VerdictsHaveEvidence, Verdict
  <2> QED
    BY <1>3, <2>2, <2>4, <2>6, <2>7
<1>6. ASSUME NEW r \in Row, ReadEntry(r), RowSkill[r] # ""
      PROVE  /\ evidence' \in [Row -> Evidence] /\ outdated' \in OutdatedRuns
             /\ LookupsInOrder' /\ VerdictsHaveEvidence'
  <2>1. r \in outdated.todo
    BY <1>6 DEF ReadEntry
  <2>2. evidence' = [evidence EXCEPT ![r].synced = synced[RowSkill[r]]]
        /\ synced[RowSkill[r]] \in HashOrNone
    BY <1>6 DEF ReadEntry, OutdatedTypeOK, Skills
  <2>3. /\ evidence' \in [Row -> Evidence]
        /\ evidence'[r].live = evidence[r].live
        /\ \A q \in Row \ {r} : evidence'[q] = evidence[q]
    BY <1>3, <2>2 DEF Evidence
  <2>4. PICK at \in {"lookup", "judge"} :
          /\ outdated' = [outdated EXCEPT !.at = at, !.row = r, !.localHash = onDisk[r]]
          /\ at = "lookup" => ~outdated.quotaExhausted
    <3>1. outdated' = [outdated EXCEPT !.at = IF asksRegistry(onDisk[r]) THEN "lookup" ELSE "judge",
                                       !.row = r, !.localHash = onDisk[r]]
      BY <1>6 DEF ReadEntry
    <3>2. CASE asksRegistry(onDisk[r])
      BY <3>1, <3>2 DEF asksRegistry
    <3>3. CASE ~asksRegistry(onDisk[r])
      BY <3>1, <3>3
    <3> QED
      BY <3>2, <3>3
  <2>5. outdated' \in OutdatedRuns
    BY <1>3, <2>4 DEF OutdatedRuns, OutdatedTypeOK
  <2>6. /\ outdated'.at = at /\ outdated'.row = r
        /\ UNCHANGED <<outdated.todo, outdated.answer, outdated.quotaFailures, outdated.quotaExhausted>>
    BY <1>3, <2>4 DEF OutdatedRuns
  <2>7. LookupsInOrder'
    <3>1. \A q \in outdated.todo : evidence'[q].live = {}
      BY <1>3, <2>1, <2>3 DEF LookupsInOrder, OutdatedRuns
    <3> QED
      BY <1>6, <2>1, <2>4, <2>6, <3>1 DEF LookupsInOrder
  <2>8. VerdictsHaveEvidence'
    <3> SUFFICES ASSUME NEW a \in outdated.answer, a.status # "unknown"
                 PROVE  Verdict(a)'
      BY <2>6 DEF VerdictsHaveEvidence
    <3>1. a.row \in Row \ {r}
      BY <1>3, <2>1 DEF LookupsInOrder, OutdatedRuns, OutdatedRows
    <3> QED
      BY <2>3, <3>1 DEF VerdictsHaveEvidence, Verdict
  <2> QED
    BY <2>3, <2>5, <2>7, <2>8
<1>7. ASSUME Lookup
      PROVE  /\ evidence' \in [Row -> Evidence] /\ outdated' \in OutdatedRuns
             /\ LookupsInOrder' /\ VerdictsHaveEvidence'
  <2>1. PICK live \in lookupSkillFromRegistry(RowSkill[outdated.row]) :
          Judge(live) /\ evidence' = [evidence EXCEPT ![outdated.row].live = {live}]
    BY <1>7 DEF Lookup
  <2>2. outdated.at = "lookup"
    BY <1>7 DEF Lookup
  <2>3. RowSkill[outdated.row] \in Skills
    BY <1>3, <2>2 DEF LookupsInOrder, Skills, OutdatedRuns
  <2>4. live \in Live
    BY <2>1, <2>3 DEF lookupSkillFromRegistry, Live, HashOrNone, OutdatedTypeOK
  <2> QED
    BY <2>1, <2>2, <2>4, RowGiven
<1>8. ASSUME JudgeWithoutLookup
      PROVE  /\ evidence' \in [Row -> Evidence] /\ outdated' \in OutdatedRuns
             /\ LookupsInOrder' /\ VerdictsHaveEvidence'
  <2>1. outdated.at = "judge" /\ Judge("none") /\ UNCHANGED evidence /\ "none" \in Live
    BY <1>8 DEF JudgeWithoutLookup, Live, HashOrNone
  <2>2. evidence' = [evidence EXCEPT ![outdated.row].live = {}]
    BY <1>3, <2>1 DEF LookupsInOrder, Evidence, OutdatedRuns
  <2> QED
    BY <2>1, <2>2, RowGiven
<1>9. ASSUME OutdatedAnswers
      PROVE  /\ evidence' \in [Row -> Evidence] /\ outdated' \in OutdatedRuns
             /\ LookupsInOrder' /\ VerdictsHaveEvidence'
  <2>1. outdated' = [outdated EXCEPT !.at = "idle"] /\ UNCHANGED evidence
    BY <1>9 DEF OutdatedAnswers
  <2>2. outdated' \in OutdatedRuns
    BY <1>3, <2>1 DEF OutdatedRuns
  <2>3. /\ outdated'.at = "idle"
        /\ UNCHANGED <<outdated.todo, outdated.answer, outdated.quotaFailures, outdated.quotaExhausted>>
    BY <1>3, <2>1 DEF OutdatedRuns
  <2> QED
    BY <1>3, <2>1, <2>2, <2>3 DEF LookupsInOrder, VerdictsHaveEvidence, Verdict
<1> QED
  BY <1>4, <1>5, <1>6, <1>7, <1>8, <1>9

LEMMA UpdatesStep ==
  ASSUME OutdatedInv,
         \/ \E named \in SUBSET Skills : StartUpdates(named)
         \/ \E s \in Skills : CompareSkill(s)
         \/ UpdatesAnswer
  PROVE  OutdatedInv'
<1> USE DEF OutdatedInv
<1>1. /\ UNCHANGED <<worldVars, outdated, evidence>>
      /\ LookupsInOrder' /\ VerdictsHaveEvidence'
  BY DEF StartUpdates, CompareSkill, UpdatesAnswer, worldVars, LookupsInOrder,
         VerdictsHaveEvidence, Verdict
<1>2. SUFFICES updates' \in UpdateRuns /\ InstalledIsTheOnlyHash' /\ UpdateIsUnambiguous'
  BY <1>1 DEF OutdatedTypeOK, worldVars
<1>3. /\ updates \in UpdateRuns /\ recorded \in [Row -> HashOrNone]
      /\ synced \in [Skills -> HashOrNone]
  BY DEF OutdatedTypeOK
<1>4. ASSUME NEW named \in SUBSET Skills, StartUpdates(named)
      PROVE  updates' \in UpdateRuns /\ InstalledIsTheOnlyHash' /\ UpdateIsUnambiguous'
  <2>1. \A s \in Skills : buildManifestInstalledHashMap(s) \in SUBSET HashOrNone
    BY <1>3 DEF buildManifestInstalledHashMap, HashOrNone
  <2>2. updates' \in UpdateRuns
    BY <1>3, <1>4, <2>1 DEF StartUpdates, NoUpdates, UpdateRuns
  <2>3. /\ updates'.installed = [s \in Skills |-> buildManifestInstalledHashMap(s)]
        /\ updates'.manifest = recorded /\ updates'.answer = {}
    BY <1>4 DEF StartUpdates, NoUpdates
  <2>4. ASSUME NEW s \in Skills, NEW h \in buildManifestInstalledHashMap(s), h # "none",
               NEW r \in Row, RowSkill[r] = s
        PROVE  recorded[r] \in {h, "none"}
    <3> DEFINE rows == {q \in Row : RowSkill[q] = s}
               hashes == {recorded[q] : q \in rows} \ {"none"}
    <3>1. h \in hashes /\ Cardinality(hashes) = 1
      BY <2>4 DEF buildManifestInstalledHashMap
    <3>2. IsFiniteSet(rows)
      BY RowAssumption, FS_Subset
    <3>3. IsFiniteSet({recorded[q] : q \in rows})
      <4> DEFINE f == [q \in rows |-> recorded[q]]
      <4>1. f \in Surjection(rows, {recorded[q] : q \in rows})
        BY DEF Surjection
      <4> QED
        BY <3>2, <4>1, FS_Surjection
    <3>4. IsFiniteSet(hashes)
      BY <3>3, FS_Subset
    <3>5. PICK x : hashes = {x}
      <4> HIDE DEF hashes
      <4> QED
        BY <3>1, <3>4, FS_Singleton
    <3>6. recorded[r] \in hashes \cup {"none"}
      BY <2>4
    <3> QED
      BY <3>1, <3>5, <3>6
  <2> QED
    BY <2>2, <2>3, <2>4 DEF InstalledIsTheOnlyHash, UpdateIsUnambiguous
<1>5. ASSUME NEW s \in Skills, CompareSkill(s)
      PROVE  updates' \in UpdateRuns /\ InstalledIsTheOnlyHash' /\ UpdateIsUnambiguous'
  <2>1. CASE synced[s] = "none"
    <3>1. updates' = [updates EXCEPT !.todo = @ \ {s}]
      BY <1>3, <1>5, <2>1 DEF CompareSkill, UpdateRuns
    <3>2. updates' \in UpdateRuns
      BY <1>3, <3>1 DEF UpdateRuns
    <3> QED
      BY <1>3, <3>1, <3>2 DEF UpdateRuns, InstalledIsTheOnlyHash, UpdateIsUnambiguous
  <2>2. CASE synced[s] # "none"
    <3> DEFINE newer == \E h \in updates.installed[s] :
                          compareSkillContentHashes(h, synced[s]) = "outdated"
               b == [skill |-> s, latest |-> synced[s], updateAvailable |-> newer]
    <3>1. updates' = [updates EXCEPT !.todo = @ \ {s}, !.answer = @ \cup {b}]
      BY <1>5, <2>2 DEF CompareSkill
    <3>2. newer => \A r \in Row : RowSkill[r] = s => updates.manifest[r] # synced[s]
      BY <2>2 DEF compareSkillContentHashes, InstalledIsTheOnlyHash
    <3>3. newer \in BOOLEAN
      OBVIOUS
    <3> HIDE DEF newer
    <3>4. b \in UpdateRows
      BY <1>3, <2>2, <3>3 DEF UpdateRows, HashOrNone
    <3>5. b.skill = s /\ b.latest = synced[s] /\ b.updateAvailable = newer
      OBVIOUS
    <3> HIDE DEF b
    <3>6. updates' \in UpdateRuns
      BY <1>3, <3>1, <3>4 DEF UpdateRuns
    <3>7. /\ UNCHANGED <<updates.installed, updates.manifest>>
          /\ updates'.answer = updates.answer \cup {b}
      BY <1>3, <3>1 DEF UpdateRuns
    <3>8. UpdateIsUnambiguous'
      BY <3>2, <3>5, <3>7 DEF UpdateIsUnambiguous
    <3> QED
      BY <3>6, <3>7, <3>8 DEF InstalledIsTheOnlyHash
  <2> QED
    BY <2>1, <2>2
<1>6. ASSUME UpdatesAnswer
      PROVE  updates' \in UpdateRuns /\ InstalledIsTheOnlyHash' /\ UpdateIsUnambiguous'
  <2>1. updates' = [updates EXCEPT !.at = "idle"]
    BY <1>6 DEF UpdatesAnswer
  <2>2. updates' \in UpdateRuns
    BY <1>3, <2>1 DEF UpdateRuns
  <2> QED
    BY <1>3, <2>1, <2>2 DEF UpdateRuns, InstalledIsTheOnlyHash, UpdateIsUnambiguous
<1> QED
  BY <1>4, <1>5, <1>6

LEMMA OutdatedStep ==
  ASSUME OutdatedInv, [OutdatedNext]_outdatedVars
  PROVE  OutdatedInv'
<1>1. ASSUME UNCHANGED <<outdated, updates, evidence>>,
             /\ published' \in [Skills -> HashOrNone] /\ synced' \in [Skills -> HashOrNone]
             /\ onDisk' \in [Row -> HashOrNone] /\ recorded' \in [Row -> HashOrNone]
      PROVE  OutdatedInv'
  BY <1>1 DEF OutdatedInv, OutdatedTypeOK, LookupsInOrder, VerdictsHaveEvidence, Verdict,
              InstalledIsTheOnlyHash, UpdateIsUnambiguous
<1>2. CASE WorldChanges
  <2>1. \A r \in Row : RowSkill[r] # "" => RowSkill[r] \in Skills
    BY DEF Skills
  <2> QED
    BY <1>1, <1>2, <2>1 DEF WorldChanges, OutdatedInv, OutdatedTypeOK, HashOrNone
<1>3. CASE UNCHANGED outdatedVars
  BY <1>1, <1>3 DEF outdatedVars, OutdatedInv, OutdatedTypeOK
<1> QED
  BY <1>2, <1>3, OutdatedRunStep, UpdatesStep DEF OutdatedNext

\* However the registry, its history, the files and the quota change while the manifest is
\* gone through, and for any number of entries: a verdict rests on what was said in the run,
\* a lookup that failed leaves none, the quota is asked once, and an update is offered only
\* against another content than any client recorded.
THEOREM VerdictsRestOnAnswers == Spec => []OutdatedVerdicts
<1>1. OutdatedInv => OutdatedVerdicts
  <2> SUFFICES ASSUME OutdatedInv PROVE OutdatedVerdicts
    OBVIOUS
  <2> USE DEF OutdatedInv
  <2>1. OutdatedHasEvidence
    <3>1. outdated.quotaFailures \in {0, 1}
      BY DEF OutdatedTypeOK, OutdatedRuns
    <3>2. outdated.quotaFailures <= 1
      BY <3>1
    <3> QED
      BY <3>2 DEF OutdatedHasEvidence, VerdictsHaveEvidence, Verdict
  <2>2. ASSUME NEW a \in outdated.answer
        PROVE  LET diagnosis == buildOutdatedDiagnosis(a) IN
               /\ diagnosis.safeToBulkUpdate => a.installed \in Hash /\ a.installed = a.latest
               /\ diagnosis.remediation \in {"update alone", "update or mark local"} =>
                    /\ a.installed \in Hash \ {a.latest}
                    /\ a.latest \in evidence[a.row].live \cup {evidence[a.row].synced}
    <3>1. a.status # "unknown" => Verdict(a)
      BY DEF VerdictsHaveEvidence
    <3>2. buildOutdatedDiagnosis(a).safeToBulkUpdate => a.status = "current"
      BY DEF buildOutdatedDiagnosis
    <3>3. a.status = "current" => buildOutdatedDiagnosis(a).remediation \notin {"update alone", "update or mark local"}
      BY <3>1 DEF buildOutdatedDiagnosis, Verdict
    <3>4. a.status = "unknown" => buildOutdatedDiagnosis(a).remediation \notin {"update alone", "update or mark local"}
      BY DEF buildOutdatedDiagnosis
    <3> QED
      BY <3>1, <3>2, <3>3, <3>4 DEF Verdict
  <2> QED
    BY <2>1, <2>2 DEF OutdatedVerdicts, DiagnosisIsSafe
<1> QED
  BY <1>1, PartsAlone, OutdatedStart, OutdatedStep, PTL DEF OutdatedSpec

-----------------------------------------------------------------------------
(* The inventory audit.                                                    *)

\* The fields of the audit under way and of its directory.
AuditShape ==
  /\ scan = [at |-> scan.at, entries |-> scan.entries, exact |-> scan.exact, generic |-> scan.generic,
             semantic |-> scan.semantic, rot |-> scan.rot, renames |-> scan.renames,
             edits |-> scan.edits, copies |-> scan.copies, excluded |-> scan.excluded]
  /\ auditDir = [result |-> auditDir.result, report |-> auditDir.report,
                 suggestions |-> auditDir.suggestions]

Detected  == {"dedupe", "rot", "suggest"}
Suggested == {"exclude"}
Filtered  == {"history", "report", "suggestions", "answered"}

\* The snapshot: one entry for a slot, as the slot says.
EntriesAreSlots ==
  \A e \in scan.entries : /\ e.slot \in Slot /\ e.kind = SlotKind[e.slot]
                          /\ e.source_path = SlotPath[e.slot]
                          /\ \A f \in scan.entries : e.slot = f.slot => e = f

\* Two entries with one name are in a flag: of those kept, of those found to be copies, or
\* of those left out for an entry that the user excluded.
CollisionsFound ==
  LET all == detectExactCollisions(scan.entries) IN
  /\ scan.exact \subseteq all
  /\ \A flag \in all : flag \in scan.exact \cup scan.copies \/ scan.excluded \cap flag.entries # {}
  /\ scan.at \in Detected \cup Suggested => scan.excluded = {}
  /\ scan.at = "dedupe" => scan.copies = {}

\* A suggestion renames an entry of a flag, to the first name that the scan did not find; from
\* the filter on, the flag was kept.
RenamesFollowFlags ==
  /\ scan.at \in Detected \cup {"idle"} => scan.renames = {}
  /\ \A r \in scan.renames :
       \E flag \in IF scan.at \in Filtered THEN scan.exact ELSE detectExactCollisions(scan.entries) :
         /\ flag.collisionId = r.collisionId /\ r.entry \in flag.entries
         /\ r.entry.kind # "claude_md_rule"
         /\ r.suggested = firstFree(generateSuggestionChain(r.entry), r.entry, flag)

\* What has been written, by the step that the audit is at.
DirectoryFollowsScan ==
  /\ scan.at \in {"report", "suggestions", "answered"} =>
       auditDir.result = {[exact |-> scan.exact, generic |-> scan.generic, semantic |-> scan.semantic]}
  /\ scan.at \in {"suggestions", "answered"} => auditDir.report = {summaryWithRot}
  /\ scan.at = "answered" => auditDir.suggestions = {[renames |-> scan.renames, edits |-> scan.edits]}
  /\ scan.at \notin {"answered", "idle"} => auditDir.suggestions = {}

\* Suggestions are of the result beside them.
SuggestionsHaveFlags ==
  \A file \in auditDir.suggestions :
    /\ auditDir.result # {}
    /\ \A r \in file.renames, result \in auditDir.result :
         \E f \in result.exact : f.collisionId = r.collisionId /\ r.entry \in f.entries

AuditInv ==
  /\ AuditShape /\ EntriesAreSlots /\ CollisionsFound /\ RenamesFollowFlags
  /\ scan.at \in Detected \cup Suggested \cup Filtered \cup {"idle"}
  /\ DirectoryFollowsScan /\ SuggestionsHaveFlags

\* A finite set has an element of the greatest measure.
LEMMA GreatestExists ==
  ASSUME NEW S, IsFiniteSet(S), S # {}, NEW f \in [S -> Nat]
  PROVE  \E x \in S : \A y \in S : f[y] <= f[x]
<1> DEFINE Lacks(T) == T # {} /\ ~\E x \in T : \A y \in T : f[y] <= f[x]
           sizes == {n \in Nat : \E T \in SUBSET S : Lacks(T) /\ Cardinality(T) = n}
<1>1. SUFFICES ASSUME Lacks(S) PROVE FALSE
  OBVIOUS
<1>2. Cardinality(S) \in sizes
  BY <1>1, FS_CardinalityType
<1>3. PICK n \in sizes : \A m \in sizes : ~(m < n)
  <2>1. sizes \subseteq Nat /\ sizes # {}
    BY <1>2
  <2> HIDE DEF sizes
  <2> QED
    BY <2>1, LeastOfNat
<1>4. PICK T \in SUBSET S : Lacks(T) /\ Cardinality(T) = n
  BY <1>3
<1>5. IsFiniteSet(T) /\ T # {}
  BY <1>4, FS_Subset
<1>6. PICK x \in T : TRUE
  BY <1>5
<1>7. Cardinality(T \ {x}) = n - 1 /\ n \in Nat /\ n - 1 \in Nat
  <2>1. Cardinality(T \ {x}) = n - 1 /\ IsFiniteSet(T \ {x})
    BY <1>4, <1>5, <1>6, FS_RemoveElement
  <2>2. n \in Nat
    BY <1>3
  <2>3. Cardinality(T \ {x}) \in Nat
    BY <2>1, FS_CardinalityType
  <2> QED
    BY <2>1, <2>2, <2>3
<1>8. ~Lacks(T \ {x})
  <2>1. SUFFICES ASSUME Lacks(T \ {x}) PROVE FALSE
    OBVIOUS
  <2>2. n - 1 \in sizes
    BY <1>7, <2>1
  <2> HIDE DEF sizes
  <2> QED
    BY <1>3, <1>7, <2>2
<1>9. CASE T \ {x} = {}
  <2>1. \A y \in T : y = x
    BY <1>6, <1>9
  <2> QED
    BY <1>4, <1>6, <2>1
<1>10. CASE T \ {x} # {}
  <2>1. PICK y \in T \ {x} : \A z \in T \ {x} : f[z] <= f[y]
    BY <1>8, <1>10
  <2>2. f[x] \in Nat /\ \A z \in T : f[z] \in Nat
    OBVIOUS
  <2>3. CASE f[x] <= f[y]
    BY <1>4, <2>1, <2>3
  <2>4. CASE f[y] <= f[x]
    <3>1. \A z \in T : f[z] <= f[x]
      BY <2>1, <2>2, <2>4
    <3> QED
      BY <1>4, <3>1
  <2> QED
    BY <2>2, <2>3, <2>4
<1> QED
  BY <1>9, <1>10

\* A flag holds all the entries of one name, and is named by them.
LEMMA FlagIsBucket ==
  ASSUME NEW es, NEW flag \in detectExactCollisions(es)
  PROVE  \E e \in es : /\ flag.entries = {f \in es : SameName(f, e)}
                       /\ flag.collisionId = deriveCollisionId(flag.entries)
                       /\ e \in flag.entries
<1> DEFINE Norm(e) == normalizeIdentifier(e.identifier)
           Bucket(n) == {e \in es : Norm(e) = n}
<1>1. PICK e \in es :
        flag = [collisionId |-> deriveCollisionId(Bucket(Norm(e))), entries |-> Bucket(Norm(e))]
  BY DEF detectExactCollisions
<1>2. flag.entries = Bucket(Norm(e)) /\ flag.collisionId = deriveCollisionId(Bucket(Norm(e)))
  BY <1>1
<1>3. Bucket(Norm(e)) = {f \in es : SameName(f, e)}
  BY DEF SameName
<1>4. e \in Bucket(Norm(e))
  OBVIOUS
<1> HIDE DEF Bucket
<1> QED
  BY <1>2, <1>3, <1>4

\* Two entries with one name make a flag.
LEMMA TwoMakeAFlag ==
  ASSUME NEW es, IsFiniteSet(es), NEW e \in es, NEW f \in es, e # f, SameName(e, f),
         normalizeIdentifier(e.identifier) # <<>>
  PROVE  \E flag \in detectExactCollisions(es) : {e, f} \subseteq flag.entries
<1> DEFINE Norm(x) == normalizeIdentifier(x.identifier)
           Bucket(n) == {x \in es : Norm(x) = n}
           b == Bucket(Norm(e))
           flag == [collisionId |-> deriveCollisionId(b), entries |-> b]
<1>1. {e, f} \subseteq b /\ IsFiniteSet(b)
  BY FS_Subset DEF SameName
<1>2. Cardinality({e, f}) = 2
  <2>1. IsFiniteSet({e}) /\ Cardinality({e}) = 1 /\ f \notin {e}
    BY FS_Singleton
  <2>2. Cardinality({e} \cup {f}) = Cardinality({e}) + 1
    BY <2>1, FS_AddElement, Zenon
  <2>3. {e, f} = {e} \cup {f}
    OBVIOUS
  <2> QED
    BY <2>1, <2>2, <2>3
<1>3. Cardinality(b) >= 2
  <2>1. Cardinality({e, f}) <= Cardinality(b)
    BY <1>1, FS_Subset
  <2>2. Cardinality(b) \in Nat
    BY <1>1, FS_CardinalityType
  <2> HIDE DEF b
  <2> QED
    BY <1>2, <2>1, <2>2
<1>4. flag \in detectExactCollisions(es)
  <2>1. Norm(e) \in {Norm(x) : x \in es} \ {<<>>}
    OBVIOUS
  <2>2. detectExactCollisions(es) =
          {[collisionId |-> deriveCollisionId(Bucket(n)), entries |-> Bucket(n)] :
             n \in {m \in {Norm(x) : x \in es} \ {<<>>} : Cardinality(Bucket(m)) >= 2}}
    BY Zenon DEF detectExactCollisions
  <2> HIDE DEF Norm, Bucket
  <2> QED
    BY <1>3, <2>1, <2>2
<1>5. flag.entries = b
  OBVIOUS
<1> HIDE DEF b, flag
<1> QED
  BY <1>1, <1>4, <1>5

\* Two flags with one identifier share every entry but rules: it has a file of its own.
LEMMA OneIdOneFlag ==
  ASSUME EntriesAreSlots,
         NEW flag \in detectExactCollisions(scan.entries),
         NEW other \in detectExactCollisions(scan.entries),
         flag.collisionId = other.collisionId,
         NEW e \in flag.entries, e.kind # "claude_md_rule"
  PROVE  e \in other.entries
<1> DEFINE Key(x) == <<x.source_path, IF x.kind = "claude_md_rule" THEN x.identifier ELSE <<>> >>
           Keys(es) == {Key(x) : x \in es}
           Id(es) == [k \in Keys(es) |-> Cardinality({x \in es : Key(x) = k})]
<1>1. /\ flag.entries \subseteq scan.entries /\ other.entries \subseteq scan.entries
      /\ flag.collisionId = Id(flag.entries) /\ other.collisionId = Id(other.entries)
  <2>1. \A es : deriveCollisionId(es) = Id(es)
    BY DEF deriveCollisionId
  <2> HIDE DEF Id
  <2> QED
    BY <2>1, FlagIsBucket
<1>2. \A es : DOMAIN Id(es) = Keys(es)
  OBVIOUS
<1>3. Keys(flag.entries) = Keys(other.entries)
  <2> HIDE DEF Keys, Id
  <2> QED
    BY <1>1, <1>2
<1>4. Key(e) \in Keys(other.entries)
  <2>1. Key(e) \in Keys(flag.entries)
    OBVIOUS
  <2> HIDE DEF Keys, Key
  <2> QED
    BY <1>3, <2>1
<1>5. PICK f \in other.entries : Key(f) = Key(e)
  BY <1>4
<1>6. f.source_path = e.source_path
  BY <1>5
<1>7. e.slot = f.slot
  BY <1>1, <1>6, SlotAssumption DEF EntriesAreSlots
<1> QED
  BY <1>1, <1>7 DEF EntriesAreSlots

\* The scan finds finitely many entries, one for a slot.
LEMMA EntriesFinite ==
  ASSUME EntriesAreSlots
  PROVE  IsFiniteSet(scan.entries)
<1> DEFINE f == [e \in scan.entries |-> e.slot]
<1>1. f \in Injection(scan.entries, Slot)
  BY DEF EntriesAreSlots, Injection, IsInjective
<1>2. IsFiniteSet(Slot)
  BY SlotAssumption
<1> HIDE DEF f
<1> QED
  BY <1>1, <1>2, FS_Injection

LEMMA AuditStart == InventoryInit => AuditInv
<1> SUFFICES ASSUME InventoryInit PROVE AuditInv
  OBVIOUS
<1>1. scan = NoScan /\ auditDir = EmptyDir
  BY DEF InventoryInit
<1>2. detectExactCollisions({}) = {}
  BY DEF detectExactCollisions
<1>3. AuditShape /\ EntriesAreSlots
  BY <1>1 DEF NoScan, EmptyDir, AuditShape, EntriesAreSlots
<1>4. CollisionsFound
  BY <1>1, <1>2 DEF NoScan, CollisionsFound
<1>5. RenamesFollowFlags
  BY <1>1 DEF NoScan, RenamesFollowFlags
<1>6. DirectoryFollowsScan /\ SuggestionsHaveFlags
  BY <1>1 DEF NoScan, EmptyDir, DirectoryFollowsScan, SuggestionsHaveFlags
<1> QED
  BY <1>1, <1>3, <1>4, <1>5, <1>6 DEF AuditInv, NoScan

LEMMA InventoryScanned ==
  ASSUME AuditInv, NEW deep \in BOOLEAN, NEW unread \in SUBSET {SlotPath[s] : s \in Slot},
         ScanAndDetect(deep, unread)
  PROVE  AuditInv'
<1>1. /\ scan'.at = "dedupe" /\ scan'.entries = scanLocalInventory(unread)
      /\ scan'.exact = detectExactCollisions(scanLocalInventory(unread))
      /\ scan'.renames = {} /\ scan'.excluded = {} /\ scan'.copies = {}
      /\ auditDir' = EmptyDir
  BY DEF ScanAndDetect, NoScan
<1>2. AuditShape'
  BY DEF ScanAndDetect, NoScan, AuditShape, EmptyDir
<1>3. EntriesAreSlots'
  <2>1. \A e \in scanLocalInventory(unread) : \E s \in Slot : e = entry(s)
    BY DEF scanLocalInventory
  <2>2. \A s \in Slot : /\ entry(s).slot = s /\ entry(s).kind = SlotKind[s]
                        /\ entry(s).source_path = SlotPath[s]
    BY DEF entry
  <2> QED
    BY <1>1, <2>1, <2>2 DEF EntriesAreSlots
<1>4. CollisionsFound'
  BY <1>1 DEF CollisionsFound, Suggested
<1>5. RenamesFollowFlags'
  BY <1>1 DEF RenamesFollowFlags
<1>6. DirectoryFollowsScan' /\ SuggestionsHaveFlags'
  BY <1>1 DEF EmptyDir, DirectoryFollowsScan, SuggestionsHaveFlags
<1>7. (scan.at \in Detected \cup Suggested \cup Filtered \cup {"idle"})'
  BY <1>1 DEF Detected
<1> QED
  BY <1>2, <1>3, <1>4, <1>5, <1>6, <1>7 DEF AuditInv

LEMMA Deduplicated ==
  ASSUME AuditInv, dedupeAgentPackCollisions
  PROVE  AuditInv'
<1> USE DEF AuditInv, Detected, Suggested, Filtered
<1> DEFINE Own == {flag \in scan.exact : isAgentPackSelfCollision(flag)}
           same == {flag \in Own : Cardinality({disk[e.slot] : e \in flag.entries}) = 1}
<1>1. scan' = [scan EXCEPT !.at = "rot", !.exact = @ \ Own, !.copies = same]
  BY DEF dedupeAgentPackCollisions
<1>2. same = Own
  BY DEF isAgentPackSelfCollision
<1>3. scan.at = "dedupe" /\ UNCHANGED auditDir
  BY DEF dedupeAgentPackCollisions
<1> HIDE DEF Own, same
<1>4. /\ scan'.at = "rot" /\ scan'.exact = scan.exact \ Own /\ scan'.copies = Own
      /\ UNCHANGED <<scan.entries, scan.excluded, scan.renames>>
      /\ AuditShape'
  BY <1>1, <1>2, <1>3 DEF AuditShape
<1>5. CollisionsFound'
  BY <1>3, <1>4 DEF CollisionsFound
<1>6. EntriesAreSlots' /\ RenamesFollowFlags'
  BY <1>3, <1>4 DEF EntriesAreSlots, RenamesFollowFlags
<1>7. DirectoryFollowsScan' /\ SuggestionsHaveFlags'
  BY <1>3, <1>4 DEF DirectoryFollowsScan, SuggestionsHaveFlags
<1> QED
  BY <1>4, <1>5, <1>6, <1>7

LEMMA RotDetected ==
  ASSUME AuditInv, detectRot
  PROVE  AuditInv'
<1> USE DEF AuditInv, Detected, Suggested, Filtered
<1>1. /\ scan.at = "rot" /\ scan'.at = "suggest" /\ UNCHANGED auditDir
      /\ UNCHANGED <<scan.entries, scan.exact, scan.copies, scan.excluded, scan.renames>>
      /\ AuditShape'
  BY DEF detectRot, AuditShape
<1>2. EntriesAreSlots' /\ CollisionsFound'
  BY <1>1 DEF EntriesAreSlots, CollisionsFound
<1>3. RenamesFollowFlags'
  BY <1>1 DEF RenamesFollowFlags
<1>4. DirectoryFollowsScan' /\ SuggestionsHaveFlags'
  BY <1>1 DEF DirectoryFollowsScan, SuggestionsHaveFlags
<1> QED
  BY <1>1, <1>2, <1>3, <1>4

\* The newest entry of a flag is one of the flag.
LEMMA NewestIsOfFlag ==
  ASSUME EntriesAreSlots, NEW flag \in detectExactCollisions(scan.entries)
  PROVE  (CHOOSE e \in flag.entries : \A f \in flag.entries : SlotMtime[f.slot] <= SlotMtime[e.slot])
           \in flag.entries
<1>1. flag.entries # {} /\ flag.entries \subseteq scan.entries
  BY FlagIsBucket
<1>2. IsFiniteSet(flag.entries)
  BY <1>1, EntriesFinite, FS_Subset
<1> DEFINE m == [e \in flag.entries |-> SlotMtime[e.slot]]
<1>3. m \in [flag.entries -> Nat]
  BY <1>1, SlotAssumption DEF EntriesAreSlots
<1>4. \A e \in flag.entries : m[e] = SlotMtime[e.slot]
  OBVIOUS
<1> HIDE DEF m
<1>5. PICK e \in flag.entries : \A f \in flag.entries : m[f] <= m[e]
  BY <1>1, <1>2, <1>3, GreatestExists
<1> QED
  BY <1>4, <1>5

LEMMA SuggestionsBuilt ==
  ASSUME AuditInv, BuildSuggestions
  PROVE  AuditInv'
<1> USE DEF AuditInv, Detected, Suggested, Filtered
<1>1. /\ scan.at = "suggest" /\ scan'.at = "exclude" /\ UNCHANGED auditDir
      /\ UNCHANGED <<scan.entries, scan.exact, scan.copies, scan.excluded>>
      /\ scan'.renames = buildRenameSuggestions
      /\ AuditShape'
  BY DEF BuildSuggestions, AuditShape
<1>2. EntriesAreSlots' /\ CollisionsFound'
  BY <1>1 DEF EntriesAreSlots, CollisionsFound
<1>3. RenamesFollowFlags'
  <2> DEFINE target(flag) == CHOOSE e \in flag.entries :
                               \A f \in flag.entries : SlotMtime[f.slot] <= SlotMtime[e.slot]
  <2>1. \A flag \in scan.exact : target(flag) \in flag.entries /\ flag \in detectExactCollisions(scan.entries)
    BY NewestIsOfFlag DEF CollisionsFound
  <2>2. \A r \in scan'.renames : \E flag \in scan.exact :
          /\ target(flag).kind # "claude_md_rule"
          /\ r.collisionId = flag.collisionId /\ r.entry = target(flag)
          /\ r.suggested = firstFree(generateSuggestionChain(target(flag)), target(flag), flag)
    <3>1. buildRenameSuggestions =
            {[collisionId |-> flag.collisionId, entry |-> target(flag),
              suggested |-> firstFree(generateSuggestionChain(target(flag)), target(flag), flag)] :
                flag \in {g \in scan.exact : /\ target(g).kind # "claude_md_rule"
                                             /\ target(g).identifier \notin TooLong}}
      BY Zenon DEF buildRenameSuggestions
    <3> HIDE DEF target
    <3> QED
      BY <1>1, <3>1
  <2> HIDE DEF target
  <2>3. \A names, e, flag : firstFree(names, e, flag) = firstFree(names, e, flag)'
    BY <1>1 DEF firstFree
  <2> QED
    BY <1>1, <2>1, <2>2, <2>3 DEF RenamesFollowFlags
<1>4. DirectoryFollowsScan' /\ SuggestionsHaveFlags'
  BY <1>1 DEF DirectoryFollowsScan, SuggestionsHaveFlags
<1> QED
  BY <1>1, <1>2, <1>3, <1>4

\* What the filter leaves: the flags none of whose entries is left out, and the suggestions
\* of one of those.
LEMMA ExclusionsApplied ==
  ASSUME AuditInv, NEW apply \in BOOLEAN, applyExclusionsFilter(apply)
  PROVE  AuditInv'
<1> USE DEF AuditInv, Detected, Suggested, Filtered
<1> DEFINE LeftOut(e) == apply /\ isExcludedInventoryEntry(e)
           exact == {f \in scan.exact : \A e \in f.entries : ~LeftOut(e)}
           all == detectExactCollisions(scan.entries)
<1>1. /\ scan.at = "exclude" /\ scan'.at = "history" /\ UNCHANGED auditDir
      /\ UNCHANGED <<scan.entries, scan.copies>>
      /\ scan'.exact = exact /\ scan'.renames = filteredRenames(exact)
      /\ scan'.excluded = {e \in scan.entries : LeftOut(e)}
      /\ AuditShape'
  BY DEF applyExclusionsFilter, AuditShape
<1>2. EntriesAreSlots'
  BY <1>1 DEF EntriesAreSlots
<1>3. exact \subseteq scan.exact /\ scan.exact \subseteq all /\ scan.excluded = {}
  BY <1>1 DEF CollisionsFound
<1>4. CollisionsFound'
  <2>1. ASSUME NEW flag \in all
        PROVE  flag \in exact \cup scan.copies \/ scan'.excluded \cap flag.entries # {}
    <3>1. flag \in scan.exact \cup scan.copies
      BY <1>3 DEF CollisionsFound
    <3>2. CASE flag \in scan.exact \ exact
      <4>1. PICK e \in flag.entries : LeftOut(e)
        BY <3>2
      <4>2. e \in scan.entries
        BY FlagIsBucket
      <4> QED
        BY <1>1, <4>1, <4>2
    <3> QED
      BY <3>1, <3>2
  <2>2. all = detectExactCollisions(scan'.entries)
    BY <1>1
  <2> HIDE DEF exact, all
  <2> QED
    BY <1>1, <1>3, <2>1, <2>2 DEF CollisionsFound
<1>5. RenamesFollowFlags'
  <2>1. ASSUME NEW r \in scan'.renames
        PROVE  \E flag \in exact : /\ flag.collisionId = r.collisionId /\ r.entry \in flag.entries
                                   /\ r.entry.kind # "claude_md_rule"
                                   /\ r.suggested = firstFree(generateSuggestionChain(r.entry), r.entry, flag)
    <3>1. PICK flag \in exact : flag.collisionId = r.collisionId
      BY <1>1 DEF filteredRenames
    <3>2. r \in scan.renames
      BY <1>1 DEF filteredRenames
    <3>3. PICK other \in all : /\ other.collisionId = r.collisionId /\ r.entry \in other.entries
                               /\ r.entry.kind # "claude_md_rule"
                               /\ r.suggested = firstFree(generateSuggestionChain(r.entry), r.entry, other)
      BY <1>1, <3>2 DEF RenamesFollowFlags
    <3>4. r.entry \in flag.entries
      BY <1>3, <3>1, <3>3, OneIdOneFlag
    <3>5. \A names : firstFree(names, r.entry, other) = firstFree(names, r.entry, flag)
      BY DEF firstFree
    <3> QED
      BY <3>1, <3>3, <3>4, <3>5
  <2>2. \A names, e, flag : firstFree(names, e, flag) = firstFree(names, e, flag)'
    BY <1>1 DEF firstFree
  <2> HIDE DEF exact
  <2> QED
    BY <1>1, <2>1, <2>2 DEF RenamesFollowFlags
<1>6. DirectoryFollowsScan' /\ SuggestionsHaveFlags'
  BY <1>1 DEF DirectoryFollowsScan, SuggestionsHaveFlags
<1> QED
  BY <1>1, <1>2, <1>4, <1>5, <1>6

\* The three writes change what is on disk, and nothing that was found.
LEMMA AuditWritten ==
  ASSUME AuditInv, writeAuditHistory \/ writeAuditReport \/ writeAuditSuggestions
  PROVE  AuditInv'
<1> USE DEF AuditInv, Detected, Suggested, Filtered
<1>1. \E at \in Filtered \ {"history"} : scan' = [scan EXCEPT !.at = at]
  BY DEF writeAuditHistory, writeAuditReport, writeAuditSuggestions
<1>2. /\ scan.at \in Filtered /\ scan'.at \in Filtered \ {"history"}
      /\ UNCHANGED <<scan.entries, scan.exact, scan.generic, scan.semantic, scan.rot, scan.renames,
                    scan.edits, scan.copies, scan.excluded>>
      /\ scan' = [at |-> scan'.at, entries |-> scan'.entries, exact |-> scan'.exact,
                  generic |-> scan'.generic, semantic |-> scan'.semantic, rot |-> scan'.rot,
                  renames |-> scan'.renames, edits |-> scan'.edits, copies |-> scan'.copies,
                  excluded |-> scan'.excluded]
  BY <1>1 DEF AuditShape, writeAuditHistory, writeAuditReport, writeAuditSuggestions
<1>3. EntriesAreSlots' /\ CollisionsFound'
  BY <1>2 DEF EntriesAreSlots, CollisionsFound
<1>4. RenamesFollowFlags'
  <2>1. \A names, e, flag : firstFree(names, e, flag) = firstFree(names, e, flag)'
    BY <1>2 DEF firstFree
  <2> QED
    BY <1>2, <2>1 DEF RenamesFollowFlags
<1>5. summaryWithRot' = summaryWithRot /\ renderSummaryHeader = summaryWithRot
  BY <1>2 DEF summaryWithRot, summary, renderSummaryHeader
<1>6. AuditShape' /\ DirectoryFollowsScan' /\ SuggestionsHaveFlags'
  <2>1. CASE writeAuditHistory
    <3>1. /\ scan.at = "history" /\ scan'.at = "report"
          /\ auditDir'.result = {[exact |-> scan.exact, generic |-> scan.generic,
                                  semantic |-> scan.semantic]}
          /\ UNCHANGED <<auditDir.report, auditDir.suggestions>>
          /\ AuditShape'
      BY <1>2, <2>1 DEF writeAuditHistory, AuditShape
    <3>2. auditDir.suggestions = {}
      BY <3>1 DEF DirectoryFollowsScan
    <3> QED
      BY <1>2, <3>1, <3>2 DEF DirectoryFollowsScan, SuggestionsHaveFlags
  <2>2. CASE writeAuditReport
    <3>1. /\ scan.at = "report" /\ scan'.at = "suggestions"
          /\ auditDir'.report = {renderSummaryHeader}
          /\ UNCHANGED <<auditDir.result, auditDir.suggestions>>
          /\ AuditShape'
      BY <1>2, <2>2 DEF writeAuditReport, AuditShape
    <3>2. auditDir.suggestions = {}
      BY <3>1 DEF DirectoryFollowsScan
    <3> QED
      BY <1>2, <1>5, <3>1, <3>2 DEF DirectoryFollowsScan, SuggestionsHaveFlags
  <2>3. CASE writeAuditSuggestions
    <3>1. /\ scan.at = "suggestions" /\ scan'.at = "answered"
          /\ auditDir'.suggestions = {[renames |-> scan.renames, edits |-> scan.edits]}
          /\ UNCHANGED <<auditDir.result, auditDir.report>>
          /\ AuditShape'
      BY <1>2, <2>3 DEF writeAuditSuggestions, AuditShape
    <3>2. DirectoryFollowsScan'
      BY <1>2, <1>5, <3>1 DEF DirectoryFollowsScan
    <3>3. auditDir.result = {[exact |-> scan.exact, generic |-> scan.generic, semantic |-> scan.semantic]}
      BY <3>1 DEF DirectoryFollowsScan
    <3>4. \A result \in auditDir.result : result.exact = scan.exact
      BY <3>3
    <3>5. \A file \in auditDir'.suggestions : file.renames = scan.renames
      BY <3>1
    <3>6. \A r \in scan.renames : \E f \in scan.exact : f.collisionId = r.collisionId /\ r.entry \in f.entries
      BY <3>1 DEF RenamesFollowFlags
    <3>7. auditDir'.result = auditDir.result /\ auditDir.result # {}
      BY <3>1, <3>3
    <3>8. SuggestionsHaveFlags'
      BY <3>4, <3>5, <3>6, <3>7 DEF SuggestionsHaveFlags
    <3> QED
      BY <3>1, <3>2, <3>8
  <2> QED
    BY <2>1, <2>2, <2>3
<1> QED
  BY <1>2, <1>3, <1>4, <1>6

LEMMA AuditStep ==
  ASSUME AuditInv, [InventoryNext]_inventoryVars
  PROVE  AuditInv'
<1>1. CASE AuditEnds
  <2>1. scan' = NoScan /\ UNCHANGED auditDir
    BY <1>1 DEF AuditEnds
  <2>2. detectExactCollisions({}) = {}
    BY DEF detectExactCollisions
  <2>3. AuditShape' /\ EntriesAreSlots'
    BY <2>1 DEF NoScan, AuditShape, EntriesAreSlots, AuditInv
  <2>4. CollisionsFound' /\ RenamesFollowFlags'
    BY <2>1, <2>2 DEF NoScan, CollisionsFound, RenamesFollowFlags
  <2>5. DirectoryFollowsScan' /\ SuggestionsHaveFlags'
    BY <2>1 DEF NoScan, DirectoryFollowsScan, SuggestionsHaveFlags, AuditInv
  <2>6. (scan.at \in Detected \cup Suggested \cup Filtered \cup {"idle"})'
    BY <2>1 DEF NoScan
  <2> QED
    BY <2>3, <2>4, <2>5, <2>6 DEF AuditInv
<1>2. ASSUME UNCHANGED <<scan, auditDir>> PROVE AuditInv'
  BY <1>2 DEF AuditInv, AuditShape, EntriesAreSlots, CollisionsFound, RenamesFollowFlags, firstFree,
              DirectoryFollowsScan, summaryWithRot, summary, SuggestionsHaveFlags
<1>3. CASE UserWorks
  BY <1>2, <1>3 DEF UserWorks
<1>4. CASE UNCHANGED inventoryVars
  BY <1>2, <1>4 DEF inventoryVars
<1> QED
  BY <1>1, <1>3, <1>4, InventoryScanned, Deduplicated, RotDetected, SuggestionsBuilt,
     ExclusionsApplied, AuditWritten DEF InventoryNext

\* Whatever the user does between the passes, wherever the audit breaks off, and for any
\* inventory: two entries with one name but for case and blanks are reported, excluded or
\* found to be copies; suggestions on disk belong to flags of the result on disk and take a
\* name the scan did not find if a candidate is such; report and answer count the same.
THEOREM AuditsAreWhole == Spec => []AuditIsWhole
<1>1. AuditInv => AuditIsWhole
  <2> SUFFICES ASSUME AuditInv PROVE AuditIsWhole
    OBVIOUS
  <2> USE DEF AuditInv
  <2>1. NoCollisionHidden
    <3> SUFFICES ASSUME NEW e \in scan.entries, NEW f \in scan.entries, e # f,
                        SameName(e, f), normalizeIdentifier(e.identifier) # <<>>
                 PROVE  \/ \E flag \in scan.exact \cup scan.copies : {e, f} \subseteq flag.entries
                        \/ \E x \in scan.excluded : SameName(e, x)
      BY DEF NoCollisionHidden
    <3>1. PICK flag \in detectExactCollisions(scan.entries) : {e, f} \subseteq flag.entries
      BY EntriesFinite, TwoMakeAFlag
    <3>2. CASE flag \in scan.exact \cup scan.copies
      BY <3>1, <3>2
    <3>3. CASE scan.excluded \cap flag.entries # {}
      <4>1. PICK x \in scan.excluded : x \in flag.entries
        BY <3>3
      <4>2. SameName(e, x)
        BY <3>1, <4>1, FlagIsBucket DEF SameName
      <4> QED
        BY <4>2
    <3> QED
      BY <3>2, <3>3 DEF CollisionsFound
  <2>2. ASSUME scan.at = "answered", NEW file \in auditDir.suggestions, NEW r \in file.renames
        PROVE  LET options == generateSuggestionChain(r.entry) IN
               Taken(r.suggested, scan.entries) => \A i \in DOMAIN options : Taken(options[i], scan.entries)
    <3> DEFINE options == generateSuggestionChain(r.entry)
    <3>1. file.renames = scan.renames
      BY <2>2 DEF DirectoryFollowsScan
    <3>2. \E flag \in scan.exact : r.suggested = firstFree(options, r.entry, flag)
      BY <2>2, <3>1 DEF RenamesFollowFlags, Filtered
    <3>3. DOMAIN options = {} \/ DOMAIN options = {1, 2}
      BY DEF generateSuggestionChain
    <3>4. options = <<>> => DOMAIN options = {}
      OBVIOUS
    <3> HIDE DEF options
    <3>5. Taken(r.suggested, scan.entries) => \A i \in DOMAIN options : Taken(options[i], scan.entries)
      BY <3>2, <3>3, <3>4 DEF firstFree
    <3> QED
      BY <3>5 DEF options
  <2>3. SuggestionsApply
    BY <2>2 DEF SuggestionsApply, SuggestionsHaveFlags
  <2>4. CountsAgree
    BY DEF CountsAgree, DirectoryFollowsScan
  <2> QED
    BY <2>1, <2>3, <2>4 DEF AuditIsWhole, AuditRecordsAgree
<1> QED
  BY <1>1, PartsAlone, AuditStart, AuditStep, PTL DEF InventorySpec
-----------------------------------------------------------------------------
(* The rate limiter of the webhook servers.                                *)

\* The element of a set of ticks that is counted first, and the sums of the subsets.
Foremost(s) == CHOOSE x \in s : TRUE
IsSums(g, times) ==
  g = [s \in SUBSET Ticks |-> IF s = {} THEN 0 ELSE g[s \ {Foremost(s)}] + times[Foremost(s)]]

\* The set of subsets can be counted through.
LEMMA SumsExist ==
  ASSUME NEW times \in [Ticks -> Nat]
  PROVE  \E g \in [SUBSET Ticks -> Nat] : IsSums(g, times)
<1> DEFINE Summed(g, s) == g[s] = IF s = {} THEN 0 ELSE g[s \ {Foremost(s)}] + times[Foremost(s)]
           Upto(n) == \E g \in [SUBSET Ticks -> Nat] :
                        \A s \in SUBSET Ticks : Cardinality(s) <= n => Summed(g, s)
           Lacks == {n \in Nat : ~Upto(n)}
<1>1. IsFiniteSet(Ticks)
  BY WindowAssumption, FS_Interval DEF Ticks
<1>2. \A s \in SUBSET Ticks :
        /\ Cardinality(s) \in Nat /\ (Cardinality(s) = 0 <=> s = {})
        /\ s # {} => /\ Foremost(s) \in s /\ s \ {Foremost(s)} \in SUBSET Ticks
                     /\ Cardinality(s \ {Foremost(s)}) = Cardinality(s) - 1
  <2> TAKE s \in SUBSET Ticks
  <2>1. IsFiniteSet(s)
    BY <1>1, FS_Subset
  <2>2. Cardinality(s) \in Nat /\ (Cardinality(s) = 0 <=> s = {})
    BY <2>1, FS_CardinalityType, FS_EmptySet
  <2>3. s # {} => Foremost(s) \in s
    BY DEF Foremost
  <2>4. s # {} => Cardinality(s \ {Foremost(s)}) = Cardinality(s) - 1
    BY <2>1, <2>3, FS_RemoveElement
  <2> QED
    BY <2>2, <2>3, <2>4
<1> HIDE DEF Foremost
<1>3. Lacks = {}
  <2> SUFFICES ASSUME Lacks # {} PROVE FALSE
    OBVIOUS
  <2>1. PICK n \in Lacks : \A m \in Lacks : ~(m < n)
    <3>1. Lacks \subseteq Nat
      OBVIOUS
    <3> HIDE DEF Lacks
    <3> QED
      BY <3>1, LeastOfNat
  <2>2. n \in Nat
    BY <2>1
  <2>3. CASE n = 0
    <3> DEFINE g == [s \in SUBSET Ticks |-> 0]
    <3>1. \A s \in SUBSET Ticks : Cardinality(s) <= 0 => Summed(g, s)
      <4> SUFFICES ASSUME NEW s \in SUBSET Ticks, Cardinality(s) <= 0 PROVE Summed(g, s)
        OBVIOUS
      <4>1. Cardinality(s) = 0
        <5>1. Cardinality(s) \in Nat
          BY <1>2
        <5> QED
          BY <5>1
      <4>2. s = {} /\ g[s] = 0
        BY <1>2, <4>1
      <4> QED
        BY <4>2
    <3>2. g \in [SUBSET Ticks -> Nat]
      OBVIOUS
    <3> QED
      BY <2>1, <2>3, <3>1, <3>2
  <2>4. CASE n # 0
    <3>1. n - 1 \in Nat /\ n - 1 < n
      BY <2>2, <2>4
    <3>2. Upto(n - 1)
      BY <2>1, <3>1
    <3>3. PICK g \in [SUBSET Ticks -> Nat] :
            \A s \in SUBSET Ticks : Cardinality(s) <= n - 1 => Summed(g, s)
      BY <3>2
    <3> DEFINE h == [s \in SUBSET Ticks |-> IF Cardinality(s) = n THEN g[s \ {Foremost(s)}] + times[Foremost(s)]
                                            ELSE g[s]]
    <3>4. h \in [SUBSET Ticks -> Nat]
      <4> SUFFICES ASSUME NEW s \in SUBSET Ticks, Cardinality(s) = n
                   PROVE  g[s \ {Foremost(s)}] + times[Foremost(s)] \in Nat
        OBVIOUS
      <4>1. Foremost(s) \in Ticks /\ s \ {Foremost(s)} \in SUBSET Ticks
        BY <1>2, <2>4
      <4>2. g[s \ {Foremost(s)}] \in Nat /\ times[Foremost(s)] \in Nat
        BY <4>1
      <4> QED
        BY <4>2
    <3>5. ASSUME NEW s \in SUBSET Ticks, Cardinality(s) <= n PROVE Summed(h, s)
      <4>1. CASE Cardinality(s) = n
        <5>1. s # {} /\ h[s] = g[s \ {Foremost(s)}] + times[Foremost(s)]
          BY <1>2, <2>4, <4>1
        <5>2. h[s \ {Foremost(s)}] = g[s \ {Foremost(s)}]
          BY <1>2, <2>2, <4>1, <5>1
        <5> QED
          BY <5>1, <5>2
      <4>2. CASE Cardinality(s) # n
        <5>0. Cardinality(s) \in Nat
          BY <1>2
        <5>1. Cardinality(s) <= n - 1 /\ h[s] = g[s]
          BY <2>2, <3>5, <4>2, <5>0
        <5>2. Summed(g, s)
          BY <3>3, <5>1
        <5>3. s # {} => h[s \ {Foremost(s)}] = g[s \ {Foremost(s)}]
          BY <1>2, <2>2, <5>1
        <5> QED
          BY <5>1, <5>2, <5>3
      <4> QED
        BY <4>1, <4>2
    <3> HIDE DEF h
    <3>6. Upto(n)
      BY <3>4, <3>5
    <3> QED
      BY <2>1, <3>6
  <2> QED
    BY <2>3, <2>4
<1>4. Upto(Cardinality(Ticks))
  <2>1. Cardinality(Ticks) \in Nat
    BY <1>2
  <2> HIDE DEF Upto
  <2> QED
    BY <1>3, <2>1
<1>5. PICK g \in [SUBSET Ticks -> Nat] :
        \A s \in SUBSET Ticks : Cardinality(s) <= Cardinality(Ticks) => Summed(g, s)
  BY <1>4
<1>6. \A s \in SUBSET Ticks : Cardinality(s) <= Cardinality(Ticks)
  BY <1>1, FS_Subset
<1>7. \A s \in SUBSET Ticks : Summed(g, s)
  BY <1>5, <1>6
<1>8. IsSums(g, times)
  BY <1>7 DEF IsSums
<1> QED
  BY <1>8


\* What holds of the empty set, and of a set when it holds without its first element, holds
\* of every set of ticks.
LEMMA SubsetsOfTicks ==
  ASSUME NEW P, {} \in P,
         \A s \in SUBSET Ticks : s # {} /\ s \ {Foremost(s)} \in P => s \in P
  PROVE  SUBSET Ticks \subseteq P
<1> DEFINE sizes == {Cardinality(s) : s \in (SUBSET Ticks) \ P}
<1>1. IsFiniteSet(Ticks)
  BY WindowAssumption, FS_Interval DEF Ticks
<1>2. \A s \in SUBSET Ticks : IsFiniteSet(s) /\ Cardinality(s) \in Nat
  BY <1>1, FS_Subset, FS_CardinalityType
<1>3. SUFFICES ASSUME (SUBSET Ticks) \ P # {} PROVE FALSE
  OBVIOUS
<1>4. PICK n \in sizes : \A m \in sizes : ~(m < n)
  <2>1. sizes \subseteq Nat /\ sizes # {}
    BY <1>2, <1>3
  <2> HIDE DEF sizes
  <2> QED
    BY <2>1, LeastOfNat
<1>5. PICK s \in (SUBSET Ticks) \ P : Cardinality(s) = n
  BY <1>4
<1>6. s # {} /\ Foremost(s) \in s
  BY DEF Foremost
<1>7. s \ {Foremost(s)} \in (SUBSET Ticks) \ P
  BY <1>6
<1>8. Cardinality(s \ {Foremost(s)}) = Cardinality(s) - 1
  BY <1>2, <1>6, FS_RemoveElement
<1>9. Cardinality(s) \in Nat /\ Cardinality(s \ {Foremost(s)}) \in Nat
  BY <1>2, <1>7
<1>10. Cardinality(s \ {Foremost(s)}) \in sizes
  BY <1>7
<1> HIDE DEF sizes
<1> QED
  BY <1>4, <1>5, <1>8, <1>9, <1>10

LEMMA TotalIsSum ==
  ASSUME NEW times \in [Ticks -> Nat]
  PROVE  \E g \in [SUBSET Ticks -> Nat] : IsSums(g, times) /\ Total(times) = g[Ticks]
<1> DEFINE g == CHOOSE g : g = [s \in SUBSET Ticks |->
                  IF s = {} THEN 0 ELSE g[s \ {CHOOSE x \in s : TRUE}] + times[CHOOSE x \in s : TRUE]]
<1>1. Total(times) = g[Ticks]
  BY Zenon DEF Total, FoldSet, MapThenFoldSet
<1>2. g = CHOOSE h : IsSums(h, times)
  BY Zenon DEF IsSums, Foremost
<1> HIDE DEF g
<1>3. IsSums(g, times)
  BY <1>2, SumsExist, Zenon
<1> DEFINE P == {s \in SUBSET Ticks : g[s] \in Nat}
<1>4. SUBSET Ticks \subseteq P
  <2>1. {} \in P
    BY <1>3 DEF IsSums
  <2>2. ASSUME NEW s \in SUBSET Ticks, s # {}, s \ {Foremost(s)} \in P PROVE s \in P
    <3>1. Foremost(s) \in Ticks
      BY <2>2 DEF Foremost
    <3>2. g[s] = g[s \ {Foremost(s)}] + times[Foremost(s)]
      BY <1>3, <2>2 DEF IsSums
    <3> QED
      BY <2>2, <3>1, <3>2
  <2> HIDE DEF P
  <2> QED
    BY <2>1, <2>2, SubsetsOfTicks
<1>5. g \in [SUBSET Ticks -> Nat]
  BY <1>3, <1>4 DEF IsSums
<1> QED
  BY <1>1, <1>3, <1>5

LEMMA TotalType == \A times \in [Ticks -> Nat] : Total(times) \in Nat
BY TotalIsSum

\* More of every tick is no less in all.
LEMMA TotalGrows ==
  ASSUME NEW few \in [Ticks -> Nat], NEW many \in [Ticks -> Nat], \A t \in Ticks : few[t] <= many[t]
  PROVE  Total(few) <= Total(many)
<1>1. PICK g \in [SUBSET Ticks -> Nat] : IsSums(g, few) /\ Total(few) = g[Ticks]
  BY TotalIsSum
<1>2. PICK h \in [SUBSET Ticks -> Nat] : IsSums(h, many) /\ Total(many) = h[Ticks]
  BY TotalIsSum
<1> DEFINE P == {s \in SUBSET Ticks : g[s] <= h[s]}
<1>3. {} \in P
  BY <1>1, <1>2 DEF IsSums
<1>4. ASSUME NEW s \in SUBSET Ticks, s # {}, s \ {Foremost(s)} \in P PROVE s \in P
  <2>1. Foremost(s) \in Ticks
    BY <1>4 DEF Foremost
  <2>2. /\ g[s] = g[s \ {Foremost(s)}] + few[Foremost(s)]
        /\ h[s] = h[s \ {Foremost(s)}] + many[Foremost(s)]
    BY <1>1, <1>2, <1>4 DEF IsSums
  <2>3. /\ g[s \ {Foremost(s)}] \in Nat /\ h[s \ {Foremost(s)}] \in Nat
        /\ few[Foremost(s)] \in Nat /\ many[Foremost(s)] \in Nat
        /\ g[s \ {Foremost(s)}] <= h[s \ {Foremost(s)}] /\ few[Foremost(s)] <= many[Foremost(s)]
    BY <1>4, <2>1
  <2>4. g[s] <= h[s]
    BY <2>2, <2>3
  <2> QED
    BY <2>4
<1>5. SUBSET Ticks \subseteq P
  <2> HIDE DEF P
  <2> QED
    BY <1>3, <1>4, SubsetsOfTicks
<1> QED
  BY <1>1, <1>2, <1>5

\* One more of a tick is one more in all.
LEMMA TotalOfOneMore ==
  ASSUME NEW times \in [Ticks -> Nat], NEW now \in Ticks
  PROVE  Total([times EXCEPT ![now] = @ + 1]) = Total(times) + 1
<1> DEFINE more == [times EXCEPT ![now] = @ + 1]
<1>1. /\ more \in [Ticks -> Nat] /\ more[now] = times[now] + 1
      /\ \A t \in Ticks \ {now} : more[t] = times[t]
  OBVIOUS
<1> HIDE DEF more
<1>2. PICK g \in [SUBSET Ticks -> Nat] : IsSums(g, times) /\ Total(times) = g[Ticks]
  BY TotalIsSum
<1>3. PICK h \in [SUBSET Ticks -> Nat] : IsSums(h, more) /\ Total(more) = h[Ticks]
  BY <1>1, TotalIsSum
<1> DEFINE P == {s \in SUBSET Ticks : h[s] = IF now \in s THEN g[s] + 1 ELSE g[s]}
<1>4. {} \in P
  BY <1>2, <1>3 DEF IsSums
<1>5. ASSUME NEW s \in SUBSET Ticks, s # {}, s \ {Foremost(s)} \in P PROVE s \in P
  <2>1. Foremost(s) \in Ticks /\ Foremost(s) \in s
    BY <1>5 DEF Foremost
  <2>2. /\ g[s] = g[s \ {Foremost(s)}] + times[Foremost(s)]
        /\ h[s] = h[s \ {Foremost(s)}] + more[Foremost(s)]
    BY <1>2, <1>3, <1>5 DEF IsSums
  <2>3. /\ g[s \ {Foremost(s)}] \in Nat /\ times[Foremost(s)] \in Nat
        /\ h[s \ {Foremost(s)}] = IF now \in s \ {Foremost(s)} THEN g[s \ {Foremost(s)}] + 1 ELSE g[s \ {Foremost(s)}]
    BY <1>5, <2>1
  <2>4. CASE Foremost(s) = now
    BY <1>1, <2>1, <2>2, <2>3, <2>4
  <2>5. CASE Foremost(s) # now
    BY <1>1, <2>1, <2>2, <2>3, <2>5
  <2> QED
    BY <2>4, <2>5
<1>6. SUBSET Ticks \subseteq P
  <2> HIDE DEF P
  <2> QED
    BY <1>4, <1>5, SubsetsOfTicks
<1> QED
  BY <1>2, <1>3, <1>6 DEF more

LEMMA TotalOfNone == Total(NoTimes) = 0
<1>1. NoTimes \in [Ticks -> Nat] /\ \A t \in Ticks : NoTimes[t] = 0
  BY DEF NoTimes
<1>2. PICK g \in [SUBSET Ticks -> Nat] : IsSums(g, NoTimes) /\ Total(NoTimes) = g[Ticks]
  BY <1>1, TotalIsSum
<1> DEFINE P == {s \in SUBSET Ticks : g[s] = 0}
<1>3. {} \in P
  BY <1>2 DEF IsSums
<1>4. ASSUME NEW s \in SUBSET Ticks, s # {}, s \ {Foremost(s)} \in P PROVE s \in P
  <2>1. Foremost(s) \in Ticks
    BY <1>4 DEF Foremost
  <2>2. g[s] = g[s \ {Foremost(s)}] + NoTimes[Foremost(s)]
    BY <1>2, <1>4 DEF IsSums
  <2> QED
    BY <1>1, <1>4, <2>1, <2>2
<1>5. SUBSET Ticks \subseteq P
  <2> HIDE DEF P
  <2> QED
    BY <1>3, <1>4, SubsetsOfTicks
<1> QED
  BY <1>2, <1>5
\* What one address got through in the window that ends at "now".
Passed(ip, now) == [t \in Ticks |-> IF t <= now THEN InWindow(admitted[ip], now)[t] ELSE 0]

\* The limiter is kept: Stripe's stop() has not dropped it.
Limiting == endpoint.state = "up" \/ endpoint.kind = "github"

WebhookTypeOK ==
  /\ endpoint \in [kind: {"github", "stripe"}, state: {"up", "closing", "crashed", "exited"}]
  /\ tick \in Ticks
  /\ limiter \in [Address -> [Ticks -> Nat]] /\ admitted \in [Address -> [Ticks -> Nat]]

\* In the window the limiter has what was let through; nothing was let through yet in ticks to come.
LimiterRemembers ==
  /\ Limiting => \A ip \in Address, t \in Ticks : t + Window > tick => limiter[ip][t] = admitted[ip][t]
  /\ \A ip \in Address, t \in Ticks : t > tick => admitted[ip][t] = 0

PassedBounded == Limiting => \A ip \in Address, now \in Ticks : now <= tick => Total(Passed(ip, now)) <= Limit

WebhookInv == WebhookTypeOK /\ LimiterRemembers /\ PassedBounded

LEMMA PassedType ==
  ASSUME WebhookTypeOK
  PROVE  \A ip \in Address, now \in Ticks :
           /\ Passed(ip, now) \in [Ticks -> Nat]
           /\ \A t \in Ticks : Passed(ip, now)[t] = IF t <= now /\ t + Window > now THEN admitted[ip][t] ELSE 0
BY DEF Passed, InWindow, WebhookTypeOK

LEMMA WindowType ==
  \A times \in [Ticks -> Nat], now \in Ticks :
    /\ InWindow(times, now) \in [Ticks -> Nat]
    /\ \A t \in Ticks : InWindow(times, now)[t] = IF t + Window > now THEN times[t] ELSE 0
BY DEF InWindow

LEMMA WebhookStart == WebhookInit => WebhookInv
<1> SUFFICES ASSUME WebhookInit PROVE WebhookInv
  OBVIOUS
<1>1. NoTimes \in [Ticks -> Nat] /\ \A t \in Ticks : NoTimes[t] = 0
  BY DEF NoTimes
<1>2. 0 \in Ticks
  BY WindowAssumption DEF Ticks
<1>3. endpoint \in [kind: {"github", "stripe"}, state: {"up", "closing", "crashed", "exited"}]
  BY DEF WebhookInit
<1>4. \A ip \in Address : limiter[ip] = NoTimes /\ admitted[ip] = NoTimes
  BY DEF WebhookInit
<1>5. WebhookTypeOK
  BY <1>1, <1>2, <1>3 DEF WebhookInit, WebhookTypeOK
<1>6. LimiterRemembers
  BY <1>1, <1>4 DEF LimiterRemembers
<1>7. PassedBounded
  <2> SUFFICES ASSUME NEW ip \in Address, NEW now \in Ticks PROVE Total(Passed(ip, now)) <= Limit
    BY DEF PassedBounded
  <2>1. \A t \in Ticks : Passed(ip, now)[t] <= NoTimes[t]
    BY <1>1, <1>4, <1>5, PassedType
  <2>2. Passed(ip, now) \in [Ticks -> Nat]
    BY <1>5, PassedType
  <2>3. Total(Passed(ip, now)) <= 0
    BY <1>1, <2>1, <2>2, TotalGrows, TotalOfNone
  <2>4. Total(Passed(ip, now)) \in Nat
    BY <2>2, TotalType
  <2> QED
    BY <2>3, <2>4, WindowAssumption
<1> QED
  BY <1>5, <1>6, <1>7 DEF WebhookInv

LEMMA RequestAdmitted ==
  ASSUME WebhookInv, NEW ip \in Address, ~isRateLimited(ip), Admit(ip), UNCHANGED <<endpoint, tick>>
  PROVE  WebhookInv'
<1> USE DEF WebhookInv
<1>1. /\ tick \in Ticks /\ Ticks \subseteq Nat
      /\ limiter \in [Address -> [Ticks -> Nat]] /\ admitted \in [Address -> [Ticks -> Nat]]
  BY WindowAssumption DEF WebhookTypeOK, Ticks
<1> DEFINE kept == InWindow(limiter[ip], tick)
           held == [kept EXCEPT ![tick] = @ + 1]
           allowed == [admitted[ip] EXCEPT ![tick] = @ + 1]
<1>2. kept \in [Ticks -> Nat] /\ \A t \in Ticks : kept[t] = IF t + Window > tick THEN limiter[ip][t] ELSE 0
  BY <1>1, WindowType
<1>3. limiter' = [limiter EXCEPT ![ip] = held] /\ admitted' = [admitted EXCEPT ![ip] = allowed]
  <2>1. limiter' = [limiter EXCEPT ![ip] = held]
    BY DEF Admit
  <2>2. admitted' = [admitted EXCEPT ![ip][tick] = @ + 1]
    BY DEF Admit
  <2> QED
    BY <1>1, <2>1, <2>2
<1> HIDE DEF kept
<1>4. /\ held \in [Ticks -> Nat] /\ held[tick] = kept[tick] + 1
      /\ \A t \in Ticks \ {tick} : held[t] = kept[t]
  BY <1>1, <1>2
<1>5. /\ allowed \in [Ticks -> Nat] /\ allowed[tick] = admitted[ip][tick] + 1
      /\ \A t \in Ticks \ {tick} : allowed[t] = admitted[ip][t]
  BY <1>1
<1> HIDE DEF held, allowed
<1>6. WebhookTypeOK'
  BY <1>1, <1>3, <1>4, <1>5 DEF WebhookTypeOK
<1>7. /\ admitted'[ip] = allowed /\ limiter'[ip] = held
      /\ \A other \in Address \ {ip} : admitted'[other] = admitted[other] /\ limiter'[other] = limiter[other]
  BY <1>1, <1>3
<1>8. \A other \in Address, t \in Ticks \ {tick} : admitted'[other][t] = admitted[other][t]
  BY <1>5, <1>7
<1>9. LimiterRemembers'
  <2>1. \A other \in Address, t \in Ticks : t > tick => admitted'[other][t] = 0
    BY <1>1, <1>8 DEF LimiterRemembers
  <2>2. ASSUME Limiting, NEW other \in Address, NEW t \in Ticks, t + Window > tick
        PROVE  limiter'[other][t] = admitted'[other][t]
    <3>1. limiter[other][t] = admitted[other][t]
      BY <2>2 DEF LimiterRemembers
    <3>2. CASE other # ip
      BY <1>7, <3>1, <3>2
    <3>3. CASE other = ip
      <4>1. kept[t] = admitted[ip][t]
        BY <1>2, <2>2, <3>1, <3>3
      <4> QED
        BY <1>4, <1>5, <1>7, <3>3, <4>1
    <3> QED
      BY <3>2, <3>3
  <2> QED
    BY <2>1, <2>2 DEF LimiterRemembers, Limiting
<1>10. PassedBounded'
  <2> SUFFICES ASSUME Limiting, NEW other \in Address, NEW now \in Ticks, now <= tick
               PROVE  Total(Passed(other, now)') <= Limit
    BY DEF PassedBounded, Limiting
  <2>1. /\ Passed(other, now)' \in [Ticks -> Nat] /\ Passed(other, now) \in [Ticks -> Nat]
        /\ \A t \in Ticks : Passed(other, now)'[t] = IF t <= now /\ t + Window > now THEN admitted'[other][t] ELSE 0
        /\ \A t \in Ticks : Passed(other, now)[t] = IF t <= now /\ t + Window > now THEN admitted[other][t] ELSE 0
    BY <1>1, <1>6 DEF Passed, InWindow, WebhookTypeOK
  <2>2. Total(Passed(other, now)) <= Limit
    BY DEF PassedBounded
  <2>3. Total(Passed(other, now)) \in Nat /\ Total(Passed(other, now)') \in Nat
    BY <2>1, TotalType
  <2>4. CASE other # ip \/ now # tick
    <3>1. \A t \in Ticks : Passed(other, now)'[t] <= Passed(other, now)[t]
      BY <1>1, <1>7, <1>8, <2>1, <2>4
    <3>2. Total(Passed(other, now)') <= Total(Passed(other, now))
      BY <2>1, <3>1, TotalGrows
    <3> QED
      BY <2>2, <2>3, <3>2, WindowAssumption
  <2>5. CASE other = ip /\ now = tick
    <3> DEFINE old == Passed(ip, tick)
               more == [old EXCEPT ![tick] = @ + 1]
    <3>1. old \in [Ticks -> Nat]
          /\ \A t \in Ticks : old[t] = IF t <= tick /\ t + Window > tick THEN admitted[ip][t] ELSE 0
      BY <2>1, <2>5
    <3> HIDE DEF old
    <3>2. /\ more \in [Ticks -> Nat] /\ more[tick] = old[tick] + 1
          /\ \A t \in Ticks \ {tick} : more[t] = old[t]
      BY <1>1, <3>1
    <3>3. Total(more) = Total(old) + 1
      BY <1>1, <3>1, TotalOfOneMore
    <3> HIDE DEF more
    <3>4. \A t \in Ticks : old[t] <= kept[t]
      BY <1>1, <1>2, <3>1 DEF LimiterRemembers
    <3>5. Total(old) <= Total(kept) /\ Total(old) \in Nat /\ Total(kept) \in Nat
      BY <1>2, <3>1, <3>4, TotalGrows, TotalType
    <3>6. Total(kept) < Limit
      BY <3>5, WindowAssumption DEF isRateLimited, kept
    <3>7. \A t \in Ticks : Passed(ip, tick)'[t] <= more[t]
      <4> SUFFICES ASSUME NEW t \in Ticks PROVE Passed(ip, tick)'[t] <= more[t]
        OBVIOUS
      <4>1. Passed(ip, tick)'[t] = IF t <= tick /\ t + Window > tick THEN allowed[t] ELSE 0
        BY <1>7, <2>1, <2>5
      <4>2. CASE t = tick
        BY <1>1, <1>5, <3>1, <3>2, <4>1, <4>2
      <4>3. CASE t # tick
        BY <1>1, <1>5, <3>1, <3>2, <4>1, <4>3
      <4> QED
        BY <4>2, <4>3
    <3>8. Total(Passed(ip, tick)') <= Total(more)
      BY <2>1, <2>5, <3>2, <3>7, TotalGrows
    <3> QED
      BY <2>3, <2>5, <3>3, <3>5, <3>6, <3>8, WindowAssumption
  <2> QED
    BY <2>4, <2>5
<1> QED
  BY <1>6, <1>9, <1>10

LEMMA WebhookStep ==
  ASSUME WebhookInv, [WebhookNext]_webhookVars
  PROVE  WebhookInv'
<1> USE DEF WebhookInv
<1>1. /\ tick \in Ticks /\ Ticks \subseteq Nat
      /\ limiter \in [Address -> [Ticks -> Nat]] /\ admitted \in [Address -> [Ticks -> Nat]]
  BY WindowAssumption DEF WebhookTypeOK, Ticks
\* The limiter and the ticks as they were: the server goes on, or goes down.
<1>2. ASSUME UNCHANGED <<tick, limiter, admitted>>,
             endpoint' \in [kind: {endpoint.kind}, state: {endpoint.state, "closing", "crashed", "exited"}]
      PROVE  WebhookInv'
  <2>1. WebhookTypeOK'
    BY <1>2 DEF WebhookTypeOK
  <2>2. Limiting' => Limiting
    BY <1>2 DEF Limiting
  <2>3. LimiterRemembers'
    BY <1>2, <2>2 DEF LimiterRemembers
  <2>4. \A ip, now : Passed(ip, now)' = Passed(ip, now)
    BY <1>2 DEF Passed, InWindow
  <2>5. PassedBounded'
    BY <1>2, <2>2, <2>4 DEF PassedBounded
  <2> QED
    BY <2>1, <2>3, <2>5
<1>3. ASSUME NEW c \in Conn, Arrive(c) PROVE WebhookInv'
  <2>1. PICK remote \in Address, forwarded \in {{}} \cup {{ip} : ip \in Address}, headers \in BOOLEAN :
          LET ip == getClientIp(remote, forwarded) IN
          IF isRateLimited(ip) THEN UNCHANGED <<limiter, admitted, handling>>
          ELSE /\ Admit(ip)
               /\ handling' = IF headers THEN [handling EXCEPT ![c] = "body"] ELSE handling
    BY <1>3 DEF Arrive
  <2>2. getClientIp(remote, forwarded) \in Address
    BY <2>1 DEF getClientIp
  <2>3. UNCHANGED <<endpoint, tick>>
    BY <1>3 DEF Arrive
  <2>4. CASE isRateLimited(getClientIp(remote, forwarded))
    BY <1>2, <2>1, <2>3, <2>4 DEF WebhookTypeOK
  <2>5. CASE ~isRateLimited(getClientIp(remote, forwarded))
    BY <2>1, <2>2, <2>3, <2>5, RequestAdmitted
  <2> QED
    BY <2>4, <2>5
<1>4. ASSUME NEW c \in Conn, ReadBody(c) \/ HandleWebhook(c) PROVE WebhookInv'
  BY <1>2, <1>4 DEF ReadBody, HandleWebhook, WebhookTypeOK
<1>5. CASE ProcessQueue \/ StopAgain \/ WebhookExit
  BY <1>2, <1>5 DEF ProcessQueue, StopAgain, WebhookExit, WebhookTypeOK
<1>6. CASE Sweep
  <2>1. UNCHANGED <<endpoint, tick, admitted>> /\ limiter' = [ip \in Address |-> InWindow(limiter[ip], tick)]
    BY <1>6 DEF Sweep
  <2>2. \A ip \in Address : InWindow(limiter[ip], tick) \in [Ticks -> Nat]
    BY <1>1, WindowType
  <2>3. WebhookTypeOK'
    BY <2>1, <2>2 DEF WebhookTypeOK
  <2>4. \A ip \in Address, t \in Ticks : t + Window > tick => limiter'[ip][t] = limiter[ip][t]
    BY <1>1, <2>1, WindowType
  <2>5. LimiterRemembers'
    BY <2>1, <2>4 DEF LimiterRemembers, Limiting
  <2>6. \A ip, now : Passed(ip, now)' = Passed(ip, now)
    BY <2>1 DEF Passed, InWindow
  <2>7. PassedBounded'
    BY <2>1, <2>6 DEF PassedBounded, Limiting
  <2> QED
    BY <2>3, <2>5, <2>7
<1>7. CASE Stop
  <2>1. CASE endpoint.kind = "github"
    BY <1>2, <1>7, <2>1 DEF Stop, WebhookTypeOK
  <2>2. CASE endpoint.kind # "github"
    <3>1. /\ endpoint' = [endpoint EXCEPT !.state = "closing"] /\ UNCHANGED <<tick, admitted>>
          /\ limiter' = [ip \in Address |-> NoTimes]
      BY <1>7, <2>2 DEF Stop
    <3>2. NoTimes \in [Ticks -> Nat]
      BY DEF NoTimes
    <3>3. WebhookTypeOK'
      BY <3>1, <3>2 DEF WebhookTypeOK
    <3>4. ~Limiting'
      BY <2>2, <3>1 DEF Limiting, WebhookTypeOK
    <3> QED
      BY <3>1, <3>3, <3>4 DEF LimiterRemembers, PassedBounded
  <2> QED
    BY <2>1, <2>2
<1>8. CASE TickPasses
  <2>1. tick' = tick + 1 /\ tick' \in Ticks /\ UNCHANGED <<endpoint, limiter, admitted>>
    BY <1>1, <1>8, WindowAssumption DEF TickPasses, Ticks
  <2>2. WebhookTypeOK'
    BY <2>1 DEF WebhookTypeOK
  <2>3. LimiterRemembers'
    BY <1>1, <2>1, WindowAssumption DEF LimiterRemembers, Limiting
  <2>4. PassedBounded'
    <3> SUFFICES ASSUME Limiting, NEW ip \in Address, NEW now \in Ticks, now <= tick + 1
                 PROVE  Total(Passed(ip, now)) <= Limit
      BY <2>1 DEF PassedBounded, Limiting, Passed, InWindow
    <3>1. CASE now <= tick
      BY <3>1 DEF PassedBounded
    <3>2. CASE now = tick + 1
      <4>1. /\ Passed(ip, now) \in [Ticks -> Nat] /\ Passed(ip, tick) \in [Ticks -> Nat]
            /\ \A t \in Ticks : Passed(ip, now)[t] <= Passed(ip, tick)[t]
        BY <1>1, <3>2, WindowAssumption, PassedType DEF LimiterRemembers
      <4>2. Total(Passed(ip, now)) <= Total(Passed(ip, tick)) /\ Total(Passed(ip, tick)) <= Limit
        BY <1>1, <4>1, TotalGrows DEF PassedBounded
      <4>3. Total(Passed(ip, now)) \in Nat /\ Total(Passed(ip, tick)) \in Nat
        BY <4>1, TotalType
      <4> QED
        BY <4>2, <4>3, WindowAssumption
    <3> QED
      BY <1>1, <3>1, <3>2
  <2> QED
    BY <2>2, <2>3, <2>4
<1>9. CASE UNCHANGED webhookVars
  BY <1>2, <1>9 DEF webhookVars, WebhookTypeOK
<1> QED
  BY <1>3, <1>4, <1>5, <1>6, <1>7, <1>8, <1>9 DEF WebhookNext

\* However requests, refusals, sweeps and the shutdown interleave, for any limit, any window
\* and any number of addresses: no address gets more than the limit through in any window.
THEOREM LimitIsKept == Spec => []WindowBounded
<1>1. WebhookInv => WindowBounded
  <2>1. \A ip, now : Passed(ip, now) = [t \in Ticks |-> IF t <= now THEN InWindow(admitted[ip], now)[t] ELSE 0]
    BY DEF Passed
  <2> QED
    BY <2>1 DEF WebhookInv, WindowBounded, PassedBounded, Limiting
<1> QED
  BY <1>1, PartsAlone, WebhookStart, WebhookStep, PTL DEF WebhookSpec
-----------------------------------------------------------------------------
(* Filtered and sorted lists.                                              *)

\* R orders I: it is strict and total on I.
Orders(I, R) ==
  /\ \A i \in I : <<i, i>> \notin R
  /\ \A i, j \in I : i # j => <<i, j>> \in R \/ <<j, i>> \in R
  /\ \A i, j, k \in I : <<i, j>> \in R /\ <<j, k>> \in R => <<i, k>> \in R

\* A list of rows in which f says where each one was.
IsArranged(out, rows, I, R, f) ==
  /\ DOMAIN out = 1 .. Cardinality(I) /\ f \in [1 .. Cardinality(I) -> I]
  /\ \A k \in 1 .. Cardinality(I) : out[k] = rows[f[k]]
  /\ \A i \in I : \E k \in 1 .. Cardinality(I) : f[k] = i
  /\ \A k, l \in 1 .. Cardinality(I) : k < l => <<f[k], f[l]>> \in R

\* Every element has its place: what Arranged takes is each row once, in the order.
LEMMA ArrangedOnce ==
  ASSUME NEW I, IsFiniteSet(I), NEW R, Orders(I, R), NEW rows
  PROVE  /\ Cardinality(I) \in Nat
         /\ \E f : IsArranged(Arranged(rows, I, R), rows, I, R, f)
<1> DEFINE n == Cardinality(I)
           rank == [i \in I |-> Cardinality({j \in I : <<j, i>> \in R})]
           f == [k \in 1 .. n |-> CHOOSE i \in I : rank[i] = k - 1]
<1>1. n \in Nat
  BY FS_CardinalityType
<1>2. ASSUME NEW i \in I
      PROVE  /\ IsFiniteSet({j \in I : <<j, i>> \in R}) /\ Cardinality({j \in I : <<j, i>> \in R}) \in 0 .. n - 1
             /\ rank[i] = Cardinality({j \in I : <<j, i>> \in R})
  <2>1. {j \in I : <<j, i>> \in R} \in SUBSET (I \ {i})
    BY DEF Orders
  <2>2. IsFiniteSet(I \ {i}) /\ Cardinality(I \ {i}) = n - 1
    BY FS_RemoveElement
  <2>3. /\ IsFiniteSet({j \in I : <<j, i>> \in R})
        /\ Cardinality({j \in I : <<j, i>> \in R}) <= Cardinality(I \ {i})
    BY <2>1, <2>2, FS_Subset
  <2>4. Cardinality({j \in I : <<j, i>> \in R}) \in Nat
    BY <2>3, FS_CardinalityType
  <2>5. Cardinality({j \in I : <<j, i>> \in R}) \in 0 .. n - 1
    BY <1>1, <2>2, <2>3, <2>4
  <2> QED
    BY <2>3, <2>5
<1>3. ASSUME NEW i \in I, NEW j \in I, <<i, j>> \in R PROVE rank[i] < rank[j]
  <2> DEFINE below(x) == {y \in I : <<y, x>> \in R}
  <2>1. below(i) \cup {i} \in SUBSET below(j) /\ i \notin below(i)
    BY <1>3 DEF Orders
  <2>2. rank[i] = Cardinality(below(i)) /\ rank[j] = Cardinality(below(j)) /\ IsFiniteSet(below(i)) /\ IsFiniteSet(below(j))
        /\ Cardinality(below(i)) \in Nat
    BY <1>2
  <2> HIDE DEF below, rank
  <2>3. Cardinality(below(i) \cup {i}) = Cardinality(below(i)) + 1
    BY <2>1, <2>2, FS_AddElement
  <2>4. Cardinality(below(i) \cup {i}) <= Cardinality(below(j))
    BY <2>1, <2>2, FS_Subset
  <2>5. Cardinality(below(j)) \in Nat
    BY <2>2, FS_CardinalityType
  <2> QED
    BY <2>2, <2>3, <2>4, <2>5
<1>4. rank \in [I -> 0 .. n - 1]
  BY <1>2
<1>5. Arranged(rows, I, R) = [k \in 1 .. n |-> rows[f[k]]]
  <2>1. \A k \in 1 .. n : f[k] = CHOOSE i \in I : Cardinality({j \in I : <<j, i>> \in R}) = k - 1
    <3> TAKE k \in 1 .. n
    <3>1. \A i \in I : (rank[i] = k - 1) <=> (Cardinality({j \in I : <<j, i>> \in R}) = k - 1)
      BY <1>2
    <3>2. (CHOOSE i \in I : rank[i] = k - 1) = CHOOSE i \in I : Cardinality({j \in I : <<j, i>> \in R}) = k - 1
      OBVIOUS
    <3> QED
      BY <3>2
  <2> HIDE DEF f, rank
  <2>2. [k \in 1 .. n |-> rows[f[k]]]
          = [k \in 1 .. n |-> rows[CHOOSE i \in I : Cardinality({j \in I : <<j, i>> \in R}) = k - 1]]
    BY <2>1
  <2> QED
    BY <2>2 DEF Arranged
<1> HIDE DEF rank
<1>6. \A i, j \in I : i # j => rank[i] # rank[j]
  <2> SUFFICES ASSUME NEW i \in I, NEW j \in I, i # j PROVE rank[i] # rank[j]
    OBVIOUS
  <2>1. <<i, j>> \in R \/ <<j, i>> \in R
    BY DEF Orders
  <2> QED
    BY <1>1, <1>3, <1>4, <2>1
<1>7. \A k \in 1 .. n : \E i \in I : rank[i] = k - 1
  <2> DEFINE place == [i \in I |-> rank[i] + 1]
  <2>1. place \in [I -> 1 .. n] /\ \A i, j \in I : place[i] = place[j] => i = j
    BY <1>1, <1>4, <1>6
  <2>2. place \in Injection(I, 1 .. n)
    BY <2>1 DEF Injection, IsInjective
  <2>3. IsFiniteSet(1 .. n) /\ Cardinality(1 .. n) = n
    BY <1>1, FS_Interval
  <2>4. place \in Surjection(I, 1 .. n)
    <3> HIDE DEF place
    <3> QED
      BY <2>2, <2>3, FS_Injection
  <2>5. \A k \in 1 .. n : \E i \in I : place[i] = k
    <3> HIDE DEF place
    <3> QED
      BY <2>4 DEF Surjection
  <2> QED
    BY <1>1, <1>4, <2>5
<1>8. \A k \in 1 .. n : f[k] \in I /\ rank[f[k]] = k - 1
  BY <1>7
<1>9. f \in [1 .. n -> I]
  BY <1>8
<1> HIDE DEF f
<1>10. \A i \in I : \E k \in 1 .. n : f[k] = i
  <2> TAKE i \in I
  <2>1. PICK k \in 1 .. n : k - 1 = rank[i]
    BY <1>1, <1>4
  <2>2. f[k] \in I /\ rank[f[k]] = rank[i]
    BY <1>8, <2>1
  <2> QED
    BY <1>6, <2>1, <2>2
<1>11. \A k, l \in 1 .. n : k < l => <<f[k], f[l]>> \in R
  <2> SUFFICES ASSUME NEW k \in 1 .. n, NEW l \in 1 .. n, k < l, <<f[k], f[l]>> \notin R PROVE FALSE
    OBVIOUS
  <2>1. f[k] # f[l] /\ f[k] \in I /\ f[l] \in I
    BY <1>1, <1>8
  <2>2. <<f[l], f[k]>> \in R
    BY <2>1 DEF Orders
  <2>3. rank[f[l]] < rank[f[k]]
    BY <1>3, <2>1, <2>2
  <2> QED
    BY <1>1, <1>8, <2>3
<1> QED
  BY <1>1, <1>5, <1>9, <1>10, <1>11 DEF IsArranged

\* The positions of a list are finitely many, and as many as it is long.
LEMMA PositionsFinite ==
  ASSUME NEW S, NEW rows \in Seq(S), NEW I \in SUBSET DOMAIN rows
  PROVE  /\ Len(rows) \in Nat /\ DOMAIN rows = 1 .. Len(rows)
         /\ IsFiniteSet(I) /\ Cardinality(I) \in 0 .. Len(rows) /\ Cardinality(DOMAIN rows) = Len(rows)
<1>1. Len(rows) \in Nat /\ DOMAIN rows = 1 .. Len(rows)
  BY LenProperties
<1>2. IsFiniteSet(DOMAIN rows) /\ Cardinality(DOMAIN rows) = Len(rows)
  <2>1. \A n \in Nat : IsFiniteSet(1 .. n) /\ Cardinality(1 .. n) = n
    BY FS_Interval
  <2> QED
    BY <1>1, <2>1
<1>3. IsFiniteSet(I) /\ Cardinality(I) <= Len(rows)
  BY <1>2, FS_Subset
<1>4. Cardinality(I) \in Nat
  BY <1>3, FS_CardinalityType
<1> QED
  BY <1>1, <1>2, <1>3, <1>4

\* What is arranged are rows of the list, one for each position.
LEMMA ArrangedRows ==
  ASSUME NEW S, NEW rows \in Seq(S), NEW I \in SUBSET DOMAIN rows, NEW R, Orders(I, R)
  PROVE  /\ Arranged(rows, I, R) \in Seq(S) /\ Len(Arranged(rows, I, R)) = Cardinality(I)
         /\ ToSet(Arranged(rows, I, R)) = {rows[i] : i \in I}
         /\ \E f : IsArranged(Arranged(rows, I, R), rows, I, R, f)
<1> DEFINE n == Cardinality(I)
           out == Arranged(rows, I, R)
<1>1. IsFiniteSet(I) /\ n \in Nat /\ DOMAIN rows = 1 .. Len(rows)
  BY PositionsFinite
<1>2. PICK f : IsArranged(out, rows, I, R, f)
  BY <1>1, ArrangedOnce
<1>3. out = [k \in 1 .. n |-> out[k]]
  BY DEF Arranged
<1> HIDE DEF out
<1>4. \A k \in 1 .. n : out[k] = rows[f[k]] /\ f[k] \in I
  BY <1>2 DEF IsArranged
<1>5. \A i \in I : rows[i] \in S
  BY <1>1, ElementOfSeq
<1>6. out \in [1 .. n -> S]
  BY <1>3, <1>4, <1>5
<1>7. out \in Seq(S) /\ Len(out) = n
  BY <1>1, <1>6, IsASeq, LenProperties
<1>8. ToSet(out) = {rows[i] : i \in I}
  <2>1. \A i \in I : \E k \in 1 .. n : rows[i] = out[k]
    BY <1>2, <1>4 DEF IsArranged
  <2>2. ToSet(out) = {out[k] : k \in 1 .. n}
    BY <1>6 DEF ToSet
  <2> QED
    BY <1>4, <2>1, <2>2
<1> QED
  BY <1>2, <1>7, <1>8 DEF out

\* filter() keeps some of the rows in their order, each once.
IsKept(out, rows, I, S) ==
  /\ out \in Seq(S) /\ Len(out) = Cardinality(I) /\ Cardinality(I) \in 0 .. Len(rows)
  /\ ToSet(out) = {rows[i] : i \in I}
  /\ \E f \in [1 .. Cardinality(I) -> I] :
       /\ \A k \in 1 .. Cardinality(I) : out[k] = rows[f[k]]
       /\ \A i \in I : \E k \in 1 .. Cardinality(I) : f[k] = i
       /\ \A k, l \in 1 .. Cardinality(I) : k < l => f[k] < f[l]

LEMMA KeptRows ==
  ASSUME NEW S, NEW rows \in Seq(S), NEW I \in SUBSET DOMAIN rows
  PROVE  IsKept(Kept(rows, I), rows, I, S)
<1> DEFINE R == {p \in I \X I : p[1] < p[2]}
<1>1. DOMAIN rows = 1 .. Len(rows) /\ Len(rows) \in Nat /\ Cardinality(I) \in 0 .. Len(rows)
  BY PositionsFinite
<1>2. \A i, j \in I : <<i, j>> \in R <=> i < j
  OBVIOUS
<1> HIDE DEF R
<1>3. Orders(I, R)
  BY <1>1, <1>2 DEF Orders
<1>4. Kept(rows, I) = Arranged(rows, I, R)
  BY DEF Kept, R
<1>5. PICK f : IsArranged(Kept(rows, I), rows, I, R, f)
  BY <1>3, <1>4, ArrangedRows, ZenonT(60)
<1>6. \A k, l \in 1 .. Cardinality(I) : k < l => f[k] < f[l]
  BY <1>2, <1>5 DEF IsArranged
<1>7. /\ Kept(rows, I) \in Seq(S) /\ Len(Kept(rows, I)) = Cardinality(I)
      /\ ToSet(Kept(rows, I)) = {rows[i] : i \in I}
  BY <1>3, <1>4, ArrangedRows
<1> QED
  BY <1>1, <1>5, <1>6, <1>7 DEF IsArranged, IsKept

\* The ranking is a permutation of the rows in which the rank never falls.
LEMMA RankedRows ==
  ASSUME NEW S, NEW rows \in Seq(S), NEW wanted
  PROVE  LET out == sortByCompatRank(rows, wanted) IN
         /\ out \in Seq(S) /\ Len(out) = Len(rows) /\ ToSet(out) = ToSet(rows)
         /\ \A k, l \in 1 .. Len(rows) : k < l =>
              computeCompatRank(out[k].compat, wanted) <= computeCompatRank(out[l].compat, wanted)
<1> DEFINE rank == [i \in DOMAIN rows |-> computeCompatRank(rows[i].compat, wanted)]
           R == {p \in (DOMAIN rows) \X (DOMAIN rows) :
                   rank[p[1]] < rank[p[2]] \/ (rank[p[1]] = rank[p[2]] /\ p[1] < p[2])}
           out == sortByCompatRank(rows, wanted)
<1>1. DOMAIN rows = 1 .. Len(rows) /\ Len(rows) \in Nat /\ Cardinality(DOMAIN rows) = Len(rows)
  BY PositionsFinite
<1>2. rank \in [DOMAIN rows -> 0 .. 2]
  BY DEF computeCompatRank
<1>3. out = Arranged(rows, DOMAIN rows, R)
  BY DEF sortByCompatRank
<1>4. \A i \in DOMAIN rows : rank[i] = computeCompatRank(rows[i].compat, wanted)
  OBVIOUS
<1> HIDE DEF rank, out
<1>5. \A i, j \in DOMAIN rows : <<i, j>> \in R <=> rank[i] < rank[j] \/ (rank[i] = rank[j] /\ i < j)
  OBVIOUS
<1> HIDE DEF R
<1>6. Orders(DOMAIN rows, R)
  BY <1>1, <1>2, <1>5 DEF Orders
<1>7. /\ out \in Seq(S) /\ Len(out) = Len(rows) /\ ToSet(out) = ToSet(rows)
      /\ \E f : IsArranged(out, rows, DOMAIN rows, R, f)
  <2>1. ToSet(rows) = {rows[i] : i \in DOMAIN rows}
    BY DEF ToSet
  <2> QED
    BY <1>1, <1>3, <1>6, <2>1, ArrangedRows
<1>8. PICK f : IsArranged(out, rows, DOMAIN rows, R, f)
  BY <1>7
<1>9. ASSUME NEW k \in 1 .. Len(rows), NEW l \in 1 .. Len(rows), k < l
      PROVE  computeCompatRank(out[k].compat, wanted) <= computeCompatRank(out[l].compat, wanted)
  <2>1. f[k] \in DOMAIN rows /\ f[l] \in DOMAIN rows /\ <<f[k], f[l]>> \in R /\ out[k] = rows[f[k]] /\ out[l] = rows[f[l]]
    BY <1>1, <1>8, <1>9 DEF IsArranged
  <2>2. rank[f[k]] <= rank[f[l]]
    BY <1>2, <1>5, <2>1
  <2> QED
    BY <1>4, <2>1, <2>2
<1> QED
  BY <1>7, <1>9 DEF out

\* What is sorted by its score is what there was.
LEMMA ScoredRows ==
  ASSUME NEW S, NEW recs \in Seq(S), NEW alsoSimilarity \in BOOLEAN,
         \A r \in S : r.score \in Int /\ r.similarity \in Int
  PROVE  LET out == ByScore(recs, alsoSimilarity) IN
         out \in Seq(S) /\ Len(out) = Len(recs) /\ ToSet(out) = ToSet(recs)
<1> DEFINE score == [i \in DOMAIN recs |-> recs[i].score]
           second == [i \in DOMAIN recs |-> IF alsoSimilarity THEN recs[i].similarity ELSE 0]
           R == {p \in (DOMAIN recs) \X (DOMAIN recs) :
                   \/ score[p[1]] > score[p[2]]
                   \/ score[p[1]] = score[p[2]] /\ second[p[1]] > second[p[2]]
                   \/ score[p[1]] = score[p[2]] /\ second[p[1]] = second[p[2]] /\ p[1] < p[2]}
           out == ByScore(recs, alsoSimilarity)
<1>1. DOMAIN recs = 1 .. Len(recs) /\ Len(recs) \in Nat /\ Cardinality(DOMAIN recs) = Len(recs)
  BY PositionsFinite
<1>2. \A i \in DOMAIN recs : recs[i] \in S
  BY <1>1, ElementOfSeq
<1>3. score \in [DOMAIN recs -> Int] /\ second \in [DOMAIN recs -> Int]
  BY <1>2
<1>4. out = Arranged(recs, DOMAIN recs, R)
  BY DEF ByScore
<1> HIDE DEF score, second
<1>5. \A i, j \in DOMAIN recs : <<i, j>> \in R <=>
        \/ score[i] > score[j]
        \/ score[i] = score[j] /\ second[i] > second[j]
        \/ score[i] = score[j] /\ second[i] = second[j] /\ i < j
  OBVIOUS
<1> HIDE DEF R, out
<1>6. Orders(DOMAIN recs, R)
  <2>1. \A i \in DOMAIN recs : <<i, i>> \notin R
    BY <1>1, <1>3, <1>5
  <2>2. \A i, j \in DOMAIN recs : i # j => <<i, j>> \in R \/ <<j, i>> \in R
    <3> SUFFICES ASSUME NEW i \in DOMAIN recs, NEW j \in DOMAIN recs, i # j
                 PROVE  <<i, j>> \in R \/ <<j, i>> \in R
      OBVIOUS
    <3>1. score[i] \in Int /\ score[j] \in Int /\ second[i] \in Int /\ second[j] \in Int /\ i \in Nat /\ j \in Nat
      BY <1>1, <1>3
    <3>2. CASE score[i] # score[j]
      BY <1>5, <3>1, <3>2
    <3>3. CASE score[i] = score[j] /\ second[i] # second[j]
      BY <1>5, <3>1, <3>3
    <3>4. CASE score[i] = score[j] /\ second[i] = second[j]
      BY <1>5, <3>1, <3>4
    <3> QED
      BY <3>2, <3>3, <3>4
  <2>3. \A i, j, k \in DOMAIN recs : <<i, j>> \in R /\ <<j, k>> \in R => <<i, k>> \in R
    <3> SUFFICES ASSUME NEW i \in DOMAIN recs, NEW j \in DOMAIN recs, NEW k \in DOMAIN recs,
                        <<i, j>> \in R, <<j, k>> \in R
                 PROVE  <<i, k>> \in R
      OBVIOUS
    <3>1. /\ score[i] \in Int /\ score[j] \in Int /\ score[k] \in Int
          /\ second[i] \in Int /\ second[j] \in Int /\ second[k] \in Int
          /\ i \in Nat /\ j \in Nat /\ k \in Nat
      BY <1>1, <1>3
    <3>2. score[i] >= score[j] /\ score[j] >= score[k]
      BY <1>5, <3>1, SMTT(30)
    <3>3. CASE score[i] > score[k]
      BY <1>5, <3>3
    <3>4. CASE score[i] = score[k]
      <4>1. score[i] = score[j] /\ score[j] = score[k]
        BY <3>1, <3>2, <3>4
      <4>2. second[i] > second[j] \/ (second[i] = second[j] /\ i < j)
        BY <1>5, <3>1, <4>1
      <4>3. second[j] > second[k] \/ (second[j] = second[k] /\ j < k)
        BY <1>5, <3>1, <4>1
      <4>4. second[i] > second[k] \/ (second[i] = second[k] /\ i < k)
        BY <3>1, <4>2, <4>3
      <4> QED
        BY <1>5, <3>4, <4>4
    <3> QED
      BY <3>1, <3>2, <3>3, <3>4
  <2> QED
    BY <2>1, <2>2, <2>3 DEF Orders
<1>7. ToSet(recs) = {recs[i] : i \in DOMAIN recs}
  BY DEF ToSet
<1>8. out \in Seq(S) /\ Len(out) = Len(recs) /\ ToSet(out) = ToSet(recs)
  BY <1>1, <1>4, <1>6, <1>7, ArrangedRows
<1> QED
  BY <1>8 DEF out

\* The beginning of a list.
LEMMA FirstRows ==
  ASSUME NEW S, NEW q \in Seq(S), NEW n \in Nat
  PROVE  /\ First(q, n) \in Seq(S) /\ Len(q) \in Nat
         /\ Len(First(q, n)) = (IF n < Len(q) THEN n ELSE Len(q))
         /\ \A i \in 1 .. Len(First(q, n)) : First(q, n)[i] = q[i]
         /\ ToSet(First(q, n)) \subseteq ToSet(q)
<1> DEFINE m == IF n < Len(q) THEN n ELSE Len(q)
<1>1. Len(q) \in Nat /\ DOMAIN q = 1 .. Len(q)
  BY LenProperties
<1>2. m \in 0 .. Len(q) /\ First(q, n) = SubSeq(q, 1, m)
  BY <1>1 DEF First
<1> HIDE DEF m
<1>3. /\ SubSeq(q, 1, m) \in Seq(S) /\ Len(SubSeq(q, 1, m)) = m
      /\ \A i \in 1 .. m : SubSeq(q, 1, m)[i] = q[i]
  BY <1>1, <1>2, SubSeqProperties
<1>4. DOMAIN First(q, n) = 1 .. m
  BY <1>2, <1>3, LenProperties
<1>5. ToSet(First(q, n)) \subseteq ToSet(q)
  BY <1>1, <1>2, <1>3, <1>4 DEF ToSet
<1> QED
  BY <1>1, <1>2, <1>3, <1>5 DEF m

\* A page of search: the skills of this machine come first, each source is ranked, and what
\* does not fit ranks no better.
RankedPage(S, ours, theirs, wanted, only, limit, result) ==
  /\ result.page \in Seq(S) /\ Len(result.page) <= result.mergedTotal /\ result.mergedTotal \in Nat
  /\ result.mergedTotal <= Len(ours) + Len(theirs)
  /\ \A i, j \in 1 .. Len(result.page) : result.page[i].mine /\ ~result.page[j].mine => i < j
  /\ \A i \in 1 .. Len(result.page) : \A r \in IF result.page[i].mine THEN ToSet(ours) ELSE ToSet(theirs) :
       (only => r.installable) /\ r \notin ToSet(result.page) =>
         computeCompatRank(result.page[i].compat, wanted) <= computeCompatRank(r.compat, wanted)
  /\ Len(result.page) < limit =>
       /\ result.mergedTotal = Len(result.page)
       /\ \A r \in ToSet(ours) \cup ToSet(theirs) : (only => r.installable) => r \in ToSet(result.page)
  /\ result.deprioritized =
       Cardinality({i \in DOMAIN result.page : computeCompatRank(result.page[i].compat, wanted) = 2})

LEMMA PageIsRanked ==
  ASSUME NEW S, NEW ours \in Seq(S), NEW theirs \in Seq(S), NEW wanted, NEW only \in BOOLEAN, NEW limit \in Nat,
         \A r \in ToSet(ours) : r.mine, \A r \in ToSet(theirs) : ~r.mine
  PROVE  RankedPage(S, ours, theirs, wanted, only, limit, mergeRankAndPage(ours, theirs, wanted, only, limit))
<1> DEFINE first == sortByCompatRank(ours, wanted)
           second == sortByCompatRank(theirs, wanted)
           merged == first \o second
           I == {i \in DOMAIN merged : only => merged[i].installable}
           kept == Kept(merged, I)
           paged == First(kept, limit)
           Rank(r) == computeCompatRank(r.compat, wanted)
           result == mergeRankAndPage(ours, theirs, wanted, only, limit)
<1>1. /\ result.page = paged /\ result.mergedTotal = Len(kept)
      /\ result.deprioritized = Cardinality({i \in DOMAIN paged : Rank(paged[i]) = 2})
  <2>1. result = [page |-> First(filterInstallable(rankBuckets(ours, theirs, wanted), only), limit),
                  mergedTotal |-> Len(filterInstallable(rankBuckets(ours, theirs, wanted), only)),
                  hidden |-> Len(rankBuckets(ours, theirs, wanted))
                              - Len(filterInstallable(rankBuckets(ours, theirs, wanted), only)),
                  deprioritized |->
                    countCompatDeprioritized(First(filterInstallable(rankBuckets(ours, theirs, wanted), only), limit), wanted)]
    BY DEF mergeRankAndPage
  <2>2. filterInstallable(rankBuckets(ours, theirs, wanted), only) = kept
    BY DEF filterInstallable, rankBuckets
  <2> HIDE DEF kept, result
  <2> QED
    BY <2>1, <2>2 DEF countCompatDeprioritized
<1> HIDE DEF result
<1>2. /\ first \in Seq(S) /\ Len(first) = Len(ours) /\ ToSet(first) = ToSet(ours)
      /\ \A k, l \in 1 .. Len(ours) : k < l => Rank(first[k]) <= Rank(first[l])
  BY RankedRows
<1>3. /\ second \in Seq(S) /\ Len(second) = Len(theirs) /\ ToSet(second) = ToSet(theirs)
      /\ \A k, l \in 1 .. Len(theirs) : k < l => Rank(second[k]) <= Rank(second[l])
  BY RankedRows
<1>4. Len(ours) \in Nat /\ Len(theirs) \in Nat
  BY LenProperties
<1> HIDE DEF first, second
<1>5. /\ merged \in Seq(S) /\ Len(merged) = Len(ours) + Len(theirs) /\ DOMAIN merged = 1 .. Len(ours) + Len(theirs)
      /\ \A i \in 1 .. Len(ours) : merged[i] = first[i]
      /\ \A i \in Len(ours) + 1 .. Len(ours) + Len(theirs) : merged[i] = second[i - Len(ours)]
  <2>1. merged \in Seq(S) /\ Len(merged) = Len(first) + Len(second)
    BY <1>2, <1>3, ConcatProperties
  <2>2. DOMAIN merged = 1 .. Len(merged)
    BY <2>1, LenProperties
  <2>3. \A i \in 1 .. Len(first) + Len(second) :
          merged[i] = IF i <= Len(first) THEN first[i] ELSE second[i - Len(first)]
    BY <1>2, <1>3, ConcatProperties
  <2> HIDE DEF merged
  <2>4. \A i \in 1 .. Len(ours) : merged[i] = first[i]
    BY <1>2, <1>3, <1>4, <2>3, SMTT(60)
  <2>5. \A i \in Len(ours) + 1 .. Len(ours) + Len(theirs) : merged[i] = second[i - Len(ours)]
    BY <1>2, <1>3, <1>4, <2>3, SMTT(60)
  <2> QED
    BY <1>2, <1>3, <2>1, <2>2, <2>4, <2>5
<1>6. /\ DOMAIN first = 1 .. Len(ours) /\ DOMAIN second = 1 .. Len(theirs)
      /\ ToSet(ours) = {first[i] : i \in 1 .. Len(ours)} /\ ToSet(theirs) = {second[i] : i \in 1 .. Len(theirs)}
  <2>1. DOMAIN first = 1 .. Len(ours) /\ DOMAIN second = 1 .. Len(theirs)
    BY <1>2, <1>3, LenProperties
  <2> QED
    BY <1>2, <1>3, <2>1 DEF ToSet
<1> HIDE DEF merged
<1>7. \A i \in DOMAIN merged : merged[i].mine <=> i <= Len(ours)
  <2> TAKE i \in DOMAIN merged
  <2>1. CASE i \in 1 .. Len(ours)
    BY <1>4, <1>5, <1>6, <2>1
  <2>2. CASE i \in Len(ours) + 1 .. Len(ours) + Len(theirs)
    <3>1. i - Len(ours) \in 1 .. Len(theirs) /\ merged[i] = second[i - Len(ours)]
      BY <1>4, <1>5, <2>2
    <3>2. merged[i] \in ToSet(theirs)
      BY <1>6, <3>1
    <3> QED
      BY <1>4, <2>2, <3>2
  <2> QED
    BY <1>4, <1>5, <2>1, <2>2
<1>8. \A r \in ToSet(ours) : \E i \in DOMAIN merged : i <= Len(ours) /\ merged[i] = r
  BY <1>4, <1>5, <1>6
<1>9. \A r \in ToSet(theirs) : \E i \in DOMAIN merged : i > Len(ours) /\ merged[i] = r
  <2> TAKE r \in ToSet(theirs)
  <2>1. PICK k \in 1 .. Len(theirs) : r = second[k]
    BY <1>6
  <2>2. Len(ours) + k \in Len(ours) + 1 .. Len(ours) + Len(theirs) /\ Len(ours) + k - Len(ours) = k
    BY <1>4
  <2>3. merged[Len(ours) + k] = r
    BY <1>5, <2>1, <2>2
  <2>4. Len(ours) + k \in DOMAIN merged /\ Len(ours) + k > Len(ours)
    BY <1>4, <1>5
  <2> QED
    BY <2>3, <2>4
<1>10. ASSUME NEW i \in DOMAIN merged, NEW j \in DOMAIN merged, i < j, merged[i].mine <=> merged[j].mine
       PROVE  Rank(merged[i]) <= Rank(merged[j])
  <2>1. CASE j <= Len(ours)
    <3>1. i \in 1 .. Len(ours) /\ j \in 1 .. Len(ours) /\ merged[i] = first[i] /\ merged[j] = first[j]
      BY <1>4, <1>5, <1>10, <2>1
    <3> QED
      BY <1>2, <1>10, <3>1
  <2>2. CASE i > Len(ours)
    <3>1. /\ i - Len(ours) \in 1 .. Len(theirs) /\ j - Len(ours) \in 1 .. Len(theirs) /\ i - Len(ours) < j - Len(ours)
          /\ merged[i] = second[i - Len(ours)] /\ merged[j] = second[j - Len(ours)]
      BY <1>4, <1>5, <1>10, <2>2
    <3> QED
      BY <1>3, <3>1
  <2>3. j <= Len(ours) \/ i > Len(ours)
    BY <1>4, <1>5, <1>7, <1>10
  <2> QED
    BY <2>1, <2>2, <2>3
<1>11. /\ kept \in Seq(S) /\ Len(kept) = Cardinality(I) /\ Len(kept) \in 0 .. Len(ours) + Len(theirs)
       /\ \E g \in [1 .. Cardinality(I) -> I] :
            /\ \A k \in 1 .. Cardinality(I) : kept[k] = merged[g[k]]
            /\ \A i \in I : \E k \in 1 .. Cardinality(I) : g[k] = i
            /\ \A k, l \in 1 .. Cardinality(I) : k < l => g[k] < g[l]
  <2>1. I \in SUBSET DOMAIN merged
    OBVIOUS
  <2> HIDE DEF I
  <2>2. IsKept(kept, merged, I, S)
    <3>1. merged \in Seq(S)
      BY <1>5
    <3> QED
      BY <2>1, <3>1, KeptRows
  <2> HIDE DEF kept
  <2> QED
    BY <1>5, <2>2 DEF IsKept
<1>12. PICK g \in [1 .. Len(kept) -> I] :
            /\ \A k \in 1 .. Len(kept) : kept[k] = merged[g[k]]
            /\ \A i \in I : \E k \in 1 .. Len(kept) : g[k] = i
            /\ \A k, l \in 1 .. Len(kept) : k < l => g[k] < g[l]
  <2> HIDE DEF I, kept
  <2> QED
    BY <1>11
<1>13. /\ paged \in Seq(S) /\ Len(paged) = (IF limit < Len(kept) THEN limit ELSE Len(kept))
       /\ \A i \in 1 .. Len(paged) : paged[i] = kept[i]
       /\ DOMAIN paged = 1 .. Len(paged)
  <2> HIDE DEF kept
  <2>1. /\ paged \in Seq(S) /\ Len(paged) = (IF limit < Len(kept) THEN limit ELSE Len(kept))
        /\ \A i \in 1 .. Len(paged) : paged[i] = kept[i]
    <3>1. kept \in Seq(S)
      BY <1>11
    <3> QED
      BY <3>1, FirstRows
  <2> HIDE DEF paged
  <2> QED
    BY <2>1, LenProperties
<1>14. I \subseteq DOMAIN merged /\ \A i \in DOMAIN merged : i \in I <=> (only => merged[i].installable)
  OBVIOUS
<1> HIDE DEF I, kept, paged
<1>30. Len(paged) \in Nat /\ Len(kept) \in Nat /\ Len(paged) <= Len(kept)
  BY <1>4, <1>11, <1>13
<1>15. \A k \in 1 .. Len(paged) : k \in 1 .. Len(kept) /\ paged[k] = merged[g[k]] /\ g[k] \in DOMAIN merged
  <2> TAKE k \in 1 .. Len(paged)
  <2>1. k \in 1 .. Len(kept)
    BY <1>30
  <2> QED
    BY <1>12, <1>13, <1>14, <2>1
<1>16. \A i \in I : merged[i] \notin ToSet(paged) => \A k \in 1 .. Len(paged) : g[k] < i
  <2> SUFFICES ASSUME NEW i \in I, merged[i] \notin ToSet(paged), NEW k \in 1 .. Len(paged)
               PROVE  g[k] < i
    OBVIOUS
  <2>1. PICK l \in 1 .. Len(kept) : g[l] = i
    BY <1>12
  <2>2. l \notin 1 .. Len(paged)
    BY <1>13, <1>15, <2>1 DEF ToSet
  <2>3. k < l
    BY <1>11, <1>13, <2>2
  <2> QED
    BY <1>12, <1>15, <2>1, <2>3
<1>17. \A i, j \in 1 .. Len(paged) : paged[i].mine /\ ~paged[j].mine => i < j
  <2> SUFFICES ASSUME NEW i \in 1 .. Len(paged), NEW j \in 1 .. Len(paged), paged[i].mine, ~paged[j].mine, j <= i
               PROVE  FALSE
    BY <1>11, <1>13
  <2>1. j # i /\ i \in 1 .. Len(kept) /\ j \in 1 .. Len(kept)
    BY <1>15
  <2>2. g[j] < g[i]
    BY <1>11, <1>12, <2>1
  <2>3. g[i] <= Len(ours) /\ ~(g[j] <= Len(ours))
    BY <1>7, <1>15
  <2> QED
    BY <1>4, <1>5, <1>15, <2>2, <2>3
<1>18. ASSUME NEW i \in 1 .. Len(paged), NEW r \in IF paged[i].mine THEN ToSet(ours) ELSE ToSet(theirs),
              only => r.installable, r \notin ToSet(paged)
       PROVE  Rank(paged[i]) <= Rank(r)
  <2>1. PICK j \in DOMAIN merged : merged[j] = r /\ (merged[j].mine <=> paged[i].mine)
    <3>1. CASE paged[i].mine
      BY <1>7, <1>8, <1>18, <3>1
    <3>2. CASE ~paged[i].mine
      <4>1. PICK j \in DOMAIN merged : j > Len(ours) /\ merged[j] = r
        BY <1>9, <1>18, <3>2
      <4>2. ~(j <= Len(ours))
        BY <1>4, <1>5, <4>1
      <4> QED
        BY <1>7, <3>2, <4>1, <4>2
    <3> QED
      BY <3>1, <3>2
  <2>2. g[i] < j
    BY <1>14, <1>16, <1>18, <2>1
  <2> QED
    BY <1>10, <1>15, <2>1, <2>2
<1>19. ASSUME Len(paged) < limit
       PROVE  /\ Len(kept) = Len(paged)
              /\ \A r \in ToSet(ours) \cup ToSet(theirs) : (only => r.installable) => r \in ToSet(paged)
  <2>1. Len(kept) = Len(paged)
    BY <1>11, <1>13, <1>19
  <2>2. ASSUME NEW r \in ToSet(ours) \cup ToSet(theirs), only => r.installable PROVE r \in ToSet(paged)
    <3>1. PICK j \in DOMAIN merged : merged[j] = r
      BY <1>8, <1>9
    <3>2. PICK k \in 1 .. Len(kept) : g[k] = j
      BY <1>12, <1>14, <2>2, <3>1
    <3> QED
      BY <1>13, <1>15, <2>1, <3>1, <3>2 DEF ToSet
  <2> QED
    BY <2>1, <2>2
<1>20. Len(paged) <= Len(kept) /\ Len(kept) \in Nat /\ Len(kept) <= Len(ours) + Len(theirs)
  BY <1>4, <1>11, <1>13
<1>21. result.page = paged /\ result.mergedTotal = Len(kept)
  BY <1>1
<1>22. /\ \A i \in 1 .. Len(paged) : \A r \in IF paged[i].mine THEN ToSet(ours) ELSE ToSet(theirs) :
            (only => r.installable) /\ r \notin ToSet(paged) => Rank(paged[i]) <= Rank(r)
       /\ paged \in Seq(S)
  BY <1>13, <1>18
<1>23. RankedPage(S, ours, theirs, wanted, only, limit, result)
  BY <1>1, <1>17, <1>19, <1>20, <1>21, <1>22 DEF RankedPage
<1> QED
  BY <1>23 DEF result

\* An answer whose window is what the sources were asked for is honest.
LEMMA SearchAnswered ==
  ASSUME NEW in \in SearchInput, NEW online \in BOOLEAN, NEW S, NEW matched \in Seq(S), NEW ours \in Seq(S),
         \A i \in DOMAIN ours : ours[i].mine, \A i \in DOMAIN matched : ~matched[i].mine,
         NEW limit \in Nat, limit = resolveSearchLimit(in.limit),
         NEW window \in Nat, limit <= window,
         window = IF online \/ compatibilityWantedSlugs(in.compat) = {} THEN limit
                  ELSE IF 3 * limit < LOCAL_COMPAT_OVERFETCH_MAX THEN 3 * limit ELSE LOCAL_COMPAT_OVERFETCH_MAX,
         reply' = SearchAnswer(in, online, matched, First(matched, window), ours)
  PROVE  SearchIsHonest'
<1> DEFINE wanted == compatibilityWantedSlugs(in.compat)
           only == in.installable # <<FALSE>>
           fetched == First(matched, window)
           result == mergeRankAndPage(ours, fetched, wanted, only, limit)
           total == IF only THEN result.mergedTotal ELSE Len(matched) + Len(ours)
<1>1. /\ reply'.page = result.page /\ reply'.total = total /\ reply'.online = online /\ reply'.only = only
      /\ reply'.wanted = wanted /\ reply'.limit = limit /\ reply'.matched = matched /\ reply'.ours = ours
      /\ reply'.deprioritized = result.deprioritized
  <2> HIDE DEF result, fetched, wanted
  <2> QED
    BY DEF SearchAnswer, result, fetched, wanted
<1> HIDE DEF wanted, only
<1>2. /\ fetched \in Seq(S) /\ Len(matched) \in Nat /\ Len(fetched) \in Nat /\ Len(fetched) <= Len(matched)
      /\ ToSet(fetched) \subseteq ToSet(matched)
  <2>1. /\ fetched \in Seq(S) /\ Len(matched) \in Nat /\ ToSet(fetched) \subseteq ToSet(matched)
        /\ Len(fetched) = IF window < Len(matched) THEN window ELSE Len(matched)
    BY FirstRows
  <2> HIDE DEF fetched
  <2> QED
    BY <2>1
<1>3. \A r \in ToSet(ours) : r.mine
  BY DEF ToSet
<1>4. \A r \in ToSet(fetched) : ~r.mine
  <2>1. \A r \in ToSet(matched) : ~r.mine
    BY DEF ToSet
  <2> QED
    BY <1>2, <2>1
<1>5. only \in BOOLEAN
  BY DEF only
<1> HIDE DEF fetched, result
<1>6. RankedPage(S, ours, fetched, wanted, only, limit, result)
  <2>1. fetched \in Seq(S)
    BY <1>2
  <2> QED
    BY <1>3, <1>4, <1>5, <2>1, PageIsRanked DEF result
<1>7. DOMAIN result.page = 1 .. Len(result.page) /\ Len(result.page) \in Nat /\ Len(ours) \in Nat
  BY <1>6, LenProperties DEF RankedPage
<1>8. ToSet(First(matched, limit)) \subseteq ToSet(fetched)
  <2>1. /\ First(matched, limit) \in Seq(S) /\ Len(First(matched, limit)) = (IF limit < Len(matched) THEN limit ELSE Len(matched))
        /\ \A i \in 1 .. Len(First(matched, limit)) : First(matched, limit)[i] = matched[i]
    BY FirstRows
  <2>2. /\ Len(fetched) = (IF window < Len(matched) THEN window ELSE Len(matched))
        /\ \A i \in 1 .. Len(fetched) : fetched[i] = matched[i]
    BY FirstRows DEF fetched
  <2>3. DOMAIN fetched = 1 .. Len(fetched) /\ DOMAIN First(matched, limit) = 1 .. Len(First(matched, limit))
    BY <1>2, <2>1, LenProperties
  <2>4. \A i \in 1 .. Len(First(matched, limit)) : i \in 1 .. Len(fetched) /\ First(matched, limit)[i] = fetched[i]
    BY <1>2, <2>1, <2>2
  <2> HIDE DEF fetched
  <2> QED
    BY <2>3, <2>4 DEF ToSet
<1>9. fetched = First(matched, IF online \/ wanted = {} THEN limit
                               ELSE IF 3 * limit < LOCAL_COMPAT_OVERFETCH_MAX THEN 3 * limit ELSE LOCAL_COMPAT_OVERFETCH_MAX)
  BY DEF fetched, wanted
<1>10. Len(result.page) <= total
  BY <1>2, <1>6, <1>7 DEF RankedPage
<1> SUFFICES
      /\ \A i, j \in DOMAIN result.page : result.page[i].mine /\ ~result.page[j].mine => i < j
      /\ \A i \in DOMAIN result.page : \A r \in IF result.page[i].mine THEN ToSet(ours) ELSE ToSet(fetched) :
           (only => r.installable) /\ r \notin ToSet(result.page) =>
             computeCompatRank(result.page[i].compat, wanted) <= computeCompatRank(r.compat, wanted)
      /\ Len(result.page) < limit =>
           /\ {r \in ToSet(ours) \cup ToSet(First(matched, limit)) : only => r.installable} \subseteq ToSet(result.page)
           /\ only => total = Len(result.page)
      /\ Len(result.page) <= total
      /\ result.deprioritized =
           Cardinality({i \in DOMAIN result.page : computeCompatRank(result.page[i].compat, wanted) = 2})
  <2> HIDE DEF total
  <2> SUFFICES
        /\ \A i, j \in DOMAIN reply'.page : reply'.page[i].mine /\ ~reply'.page[j].mine => i < j
        /\ \A i \in DOMAIN reply'.page :
             \A r \in ToSet(IF reply'.page[i].mine THEN reply'.ours
                            ELSE First(reply'.matched, IF reply'.online \/ reply'.wanted = {} THEN reply'.limit
                                   ELSE IF 3 * reply'.limit < LOCAL_COMPAT_OVERFETCH_MAX THEN 3 * reply'.limit
                                        ELSE LOCAL_COMPAT_OVERFETCH_MAX)) : (reply'.only => r.installable) /\ r \notin ToSet(reply'.page) =>
               computeCompatRank(reply'.page[i].compat, reply'.wanted) <= computeCompatRank(r.compat, reply'.wanted)
        /\ Len(reply'.page) < reply'.limit =>
             /\ {r \in ToSet(reply'.ours) \cup ToSet(First(reply'.matched, reply'.limit)) : reply'.only => r.installable}
                   \subseteq ToSet(reply'.page)
             /\ reply'.only => reply'.total = Len(reply'.page)
        /\ Len(reply'.page) <= reply'.total
        /\ reply'.deprioritized =
             Cardinality({i \in DOMAIN reply'.page : computeCompatRank(reply'.page[i].compat, reply'.wanted) = 2})
    BY DEF SearchIsHonest
  <2>1. \A i, j \in DOMAIN reply'.page : reply'.page[i].mine /\ ~reply'.page[j].mine => i < j
    BY <1>1
  <2> DEFINE found(i) == ToSet(IF reply'.page[i].mine THEN reply'.ours
                               ELSE First(reply'.matched, IF reply'.online \/ reply'.wanted = {} THEN reply'.limit
                                      ELSE IF 3 * reply'.limit < LOCAL_COMPAT_OVERFETCH_MAX THEN 3 * reply'.limit
                                           ELSE LOCAL_COMPAT_OVERFETCH_MAX))
  <2> HIDE DEF found
  <2>2. \A i \in DOMAIN reply'.page : \A r \in found(i) :
          (reply'.only => r.installable) /\ r \notin ToSet(reply'.page) =>
            computeCompatRank(reply'.page[i].compat, reply'.wanted) <= computeCompatRank(r.compat, reply'.wanted)
    <3> SUFFICES ASSUME NEW i \in DOMAIN reply'.page, NEW r \in found(i),
                        reply'.only => r.installable, r \notin ToSet(reply'.page)
                 PROVE  computeCompatRank(reply'.page[i].compat, reply'.wanted) <= computeCompatRank(r.compat, reply'.wanted)
      OBVIOUS
    <3>1. r \in IF result.page[i].mine THEN ToSet(ours) ELSE ToSet(fetched)
      <4>1. CASE result.page[i].mine
        BY <1>1, <4>1 DEF found
      <4>2. CASE ~result.page[i].mine
        BY <1>1, <1>9, <4>2 DEF found
      <4> QED
        BY <4>1, <4>2
    <3> QED
      BY <1>1, <3>1
  <2>3. Len(reply'.page) < reply'.limit =>
          /\ {r \in ToSet(reply'.ours) \cup ToSet(First(reply'.matched, reply'.limit)) : reply'.only => r.installable}
                \subseteq ToSet(reply'.page)
          /\ reply'.only => reply'.total = Len(reply'.page)
    <3>1. ToSet(reply'.ours) = ToSet(ours) /\ ToSet(reply'.page) = ToSet(result.page)
      BY <1>1
    <3>2. ToSet(First(reply'.matched, reply'.limit)) = ToSet(First(matched, limit))
      BY <1>1
    <3>3. {r \in ToSet(reply'.ours) \cup ToSet(First(reply'.matched, reply'.limit)) : reply'.only => r.installable}
            = {r \in ToSet(ours) \cup ToSet(First(matched, limit)) : only => r.installable}
      BY <1>1, <3>1, <3>2
    <3> QED
      BY <1>1, <3>1, <3>3
  <2>4. /\ Len(reply'.page) <= reply'.total
        /\ reply'.deprioritized =
             Cardinality({i \in DOMAIN reply'.page : computeCompatRank(reply'.page[i].compat, reply'.wanted) = 2})
    <3>1. Len(reply'.page) <= reply'.total
      BY <1>1
    <3>2. {i \in DOMAIN reply'.page : computeCompatRank(reply'.page[i].compat, reply'.wanted) = 2}
            = {i \in DOMAIN result.page : computeCompatRank(result.page[i].compat, wanted) = 2}
      BY <1>1
    <3> QED
      BY <1>1, <3>1, <3>2
  <2> QED
    BY <2>1, <2>2, <2>3, <2>4 DEF found
<1>11. Len(result.page) < limit =>
         /\ {r \in ToSet(ours) \cup ToSet(First(matched, limit)) : only => r.installable} \subseteq ToSet(result.page)
         /\ only => total = Len(result.page)
  BY <1>6, <1>8 DEF RankedPage
<1> HIDE DEF total
<1> QED
  BY <1>6, <1>7, <1>10, <1>11 DEF RankedPage

\* What a source returns names each of its rows at most once.
LEMMA ListsNameOnce ==
  ASSUME NEW X, IsFiniteSet(X), NEW n, NEW q \in Lists(X, n)
  PROVE  /\ q \in Seq(X) /\ Len(q) <= n /\ Len(q) \in Nat /\ Len(q) <= Cardinality(X) /\ Cardinality(X) \in Nat
         /\ ToSet(q) \subseteq X
<1>1. PICK T \in SUBSET X : q \in [1 .. Cardinality(T) -> T]
  BY DEF Lists, SetToAllKPermutations, SetToSeqs
<1>2. IsFiniteSet(T) /\ Cardinality(T) <= Cardinality(X)
  BY FS_Subset
<1>3. Cardinality(T) \in Nat /\ Cardinality(X) \in Nat
  BY <1>2, FS_CardinalityType
<1>4. q \in [1 .. Cardinality(T) -> X]
  BY <1>1
<1>5. q \in Seq(X) /\ Len(q) = Cardinality(T)
  BY <1>3, <1>4, IsASeq, LenProperties
<1>6. ToSet(q) \subseteq X
  BY <1>4 DEF ToSet
<1> QED
  BY <1>2, <1>3, <1>5, <1>6 DEF Lists

\* The rows that are made of a list, one of each element.
AreRows(rows, q, S, g) ==
  /\ rows \in Seq(S) /\ Len(rows) = Len(q) /\ DOMAIN rows = DOMAIN q
  /\ \A i \in DOMAIN rows : rows[i] = g[q[i]]
  /\ \A n \in Nat : [i \in DOMAIN First(q, n) |-> g[First(q, n)[i]]] = First(rows, n)

LEMMA RowsOfList ==
  ASSUME NEW X, NEW q \in Seq(X), NEW S, NEW g \in [X -> S]
  PROVE  AreRows([i \in DOMAIN q |-> g[q[i]]], q, S, g)
<1> DEFINE rows == [i \in DOMAIN q |-> g[q[i]]]
<1>1. Len(q) \in Nat /\ DOMAIN q = 1 .. Len(q) /\ \A i \in 1 .. Len(q) : q[i] \in X
  BY LenProperties, ElementOfSeq
<1>2. rows \in [1 .. Len(q) -> S]
  BY <1>1
<1>3. rows \in Seq(S) /\ Len(rows) = Len(q) /\ DOMAIN rows = DOMAIN q
  BY <1>1, <1>2, IsASeq, LenProperties
<1>5. \A i \in DOMAIN rows : rows[i] = g[q[i]]
  BY <1>3
<1> HIDE DEF rows
<1>4. ASSUME NEW n \in Nat PROVE [i \in DOMAIN First(q, n) |-> g[First(q, n)[i]]] = First(rows, n)
  <2>1. /\ First(q, n) \in Seq(X) /\ Len(First(q, n)) = (IF n < Len(q) THEN n ELSE Len(q))
        /\ \A i \in 1 .. Len(First(q, n)) : First(q, n)[i] = q[i]
    BY FirstRows
  <2>2. /\ First(rows, n) \in Seq(S) /\ Len(First(rows, n)) = (IF n < Len(q) THEN n ELSE Len(q))
        /\ \A i \in 1 .. Len(First(rows, n)) : First(rows, n)[i] = rows[i]
    BY <1>3, FirstRows
  <2> DEFINE m == IF n < Len(q) THEN n ELSE Len(q)
             mapped == [i \in DOMAIN First(q, n) |-> g[First(q, n)[i]]]
  <2>3. m \in 0 .. Len(q)
    BY <1>1
  <2>4. DOMAIN First(q, n) = 1 .. m /\ First(rows, n) \in [1 .. m -> S]
    BY <2>1, <2>2, LenProperties
  <2>5. DOMAIN mapped = 1 .. m /\ \A i \in 1 .. m : mapped[i] = First(rows, n)[i]
    <3>1. DOMAIN mapped = 1 .. m
      BY <2>4
    <3>2. ASSUME NEW i \in 1 .. m PROVE mapped[i] = First(rows, n)[i]
      <4>1. mapped[i] = g[First(q, n)[i]]
        BY <2>4
      <4>2. i \in DOMAIN q /\ First(q, n)[i] = q[i] /\ First(rows, n)[i] = rows[i]
        <5>1. i \in 1 .. Len(First(q, n)) /\ i \in 1 .. Len(First(rows, n))
          BY <2>1, <2>2
        <5>2. i \in DOMAIN q
          BY <1>1, <2>3
        <5> QED
          BY <2>1, <2>2, <5>1, <5>2
      <4>3. rows[i] = g[q[i]]
        BY <1>3, <1>5, <4>2
      <4> QED
        BY <4>1, <4>2, <4>3
    <3> QED
      BY <3>1, <3>2
  <2> HIDE DEF m
  <2> QED
    BY <2>4, <2>5
<1> QED
  BY <1>3, <1>4, <1>5 DEF AreRows, rows

\* A limit is a positive number, whatever was asked for.
LEMMA LimitIsNat ==
  ASSUME NEW in \in SearchInput
  PROVE  resolveSearchLimit(in.limit) \in 1 .. MAX_SEARCH_LIMIT
BY QueryAssumption DEF SearchInput, resolveSearchLimit, NaN

\* The skills of this machine are finitely many.
LEMMA SourcesFinite == IsFiniteSet(DOMAIN Registered) /\ IsFiniteSet(DOMAIN Mine)
<1>1. \A n \in Nat : IsFiniteSet(1 .. n)
  BY FS_Interval
<1> QED
  BY <1>1, QueryAssumption

\* search answers honestly, whichever source it asked.
LEMMA SearchStep ==
  ASSUME NEW in \in SearchInput, executeSearch(in)
  PROVE  SearchIsHonest'
<1> DEFINE limit == resolveSearchLimit(in.limit)
           wanted == compatibilityWantedSlugs(in.compat)
           fetch == computeLocalCompatFetchLimit(limit, wanted # {})
           api == [s \in DOMAIN Registered |-> mapApiSkillToSearchResult(s)]
           db == [s \in DOMAIN Registered |-> mapLocalSkillToSearchResult(s)]
           own == [s \in DOMAIN Mine |-> localSkillToSearchResult(s)]
           S == {api[s] : s \in DOMAIN Registered} \cup {db[s] : s \in DOMAIN Registered} \cup {own[s] : s \in DOMAIN Mine}
<1>1. limit \in Nat /\ limit <= MAX_SEARCH_LIMIT
  BY LimitIsNat, QueryAssumption
<1>2. api \in [DOMAIN Registered -> S] /\ db \in [DOMAIN Registered -> S] /\ own \in [DOMAIN Mine -> S]
  OBVIOUS
<1>3. /\ \A s \in DOMAIN Registered : ~api[s].mine /\ ~db[s].mine
      /\ \A s \in DOMAIN Mine : own[s].mine
  BY DEF mapApiSkillToSearchResult, mapLocalSkillToSearchResult, localSkillToSearchResult
<1> HIDE DEF S
<1>4. ASSUME NEW ours \in localMatches(in)
      PROVE  /\ Rows(ours, localSkillToSearchResult) \in Seq(S)
             /\ \A i \in DOMAIN Rows(ours, localSkillToSearchResult) : Rows(ours, localSkillToSearchResult)[i].mine
  <2>1. ours \in Seq(DOMAIN Mine)
    <3>1. CASE in.tier # "none"
      BY <3>1, EmptySeq DEF localMatches
    <3>2. CASE in.tier = "none"
      <4>1. ours \in Lists(DOMAIN Mine, Len(Mine))
        BY <3>2 DEF localMatches
      <4> QED
        BY <4>1, ListsNameOnce, SourcesFinite
    <3> QED
      BY <3>1, <3>2
  <2> DEFINE rows == [i \in DOMAIN ours |-> own[ours[i]]]
  <2>2. \A i \in DOMAIN ours : ours[i] \in DOMAIN Mine
    BY <2>1, LenProperties, ElementOfSeq
  <2>3. Rows(ours, localSkillToSearchResult) = rows
    BY <2>2 DEF Rows
  <2> HIDE DEF own
  <2>5. AreRows(rows, ours, S, own)
    BY <1>2, <2>1, RowsOfList
  <2> HIDE DEF rows
  <2>4. rows \in Seq(S) /\ DOMAIN rows = DOMAIN ours /\ \A i \in DOMAIN rows : rows[i] = own[ours[i]]
    BY <2>5 DEF AreRows
  <2> QED
    BY <1>3, <2>2, <2>3, <2>4
<1>5. CASE searchRefused(in)
  BY <1>5 DEF executeSearch, SearchIsHonest
<1>6. CASE ~searchRefused(in) /\ SearchRegistry(in)
  <2>1. PICK q \in Lists(DOMAIN Registered, MaxHits), ours \in localMatches(in) :
          reply' = SearchAnswer(in, TRUE, Rows(q, mapApiSkillToSearchResult),
                          Rows(First(q, limit), mapApiSkillToSearchResult), Rows(ours, localSkillToSearchResult))
    BY <1>6 DEF SearchRegistry
  <2>2. q \in Seq(DOMAIN Registered)
    BY ListsNameOnce, SourcesFinite
  <2> DEFINE rows == [i \in DOMAIN q |-> api[q[i]]]
  <2>3. \A i \in DOMAIN q : q[i] \in DOMAIN Registered
    BY <2>2, LenProperties, ElementOfSeq
  <2>4. First(q, limit) \in Seq(DOMAIN Registered)
    BY <1>1, <2>2, FirstRows
  <2>5. \A i \in DOMAIN First(q, limit) : First(q, limit)[i] \in DOMAIN Registered
    BY <2>4, LenProperties, ElementOfSeq
  <2>6. /\ Rows(q, mapApiSkillToSearchResult) = rows
        /\ Rows(First(q, limit), mapApiSkillToSearchResult) = [i \in DOMAIN First(q, limit) |-> api[First(q, limit)[i]]]
    BY <2>3, <2>5 DEF Rows
  <2> HIDE DEF api, limit
  <2>12. AreRows(rows, q, S, api)
    BY <1>2, <2>2, RowsOfList
  <2> HIDE DEF rows
  <2>7. /\ rows \in Seq(S) /\ DOMAIN rows = DOMAIN q /\ \A i \in DOMAIN rows : rows[i] = api[q[i]]
        /\ \A n \in Nat : [i \in DOMAIN First(q, n) |-> api[First(q, n)[i]]] = First(rows, n)
    BY <2>12 DEF AreRows
  <2>8. reply' = SearchAnswer(in, TRUE, rows, First(rows, limit), Rows(ours, localSkillToSearchResult))
    BY <1>1, <2>1, <2>6, <2>7
  <2>9. \A i \in DOMAIN rows : ~rows[i].mine
    BY <1>3, <2>3, <2>7
  <2>10. limit = resolveSearchLimit(in.limit) /\ limit <= limit
    BY <1>1 DEF limit
  <2> QED
    BY <1>1, <1>4, <2>7, <2>8, <2>9, <2>10, SearchAnswered
<1>7. CASE ~searchRefused(in) /\ SearchDatabase(in)
  <2> DEFINE rated == {s \in DOMAIN Registered : in.safeOnly => Registered[s].safe}
  <2>1. PICK q \in Lists(rated, MaxHits), ours \in localMatches(in) :
          reply' = SearchAnswer(in, FALSE, Rows(q, mapLocalSkillToSearchResult),
                          Rows(First(q, fetch), mapLocalSkillToSearchResult), Rows(ours, localSkillToSearchResult))
    BY <1>7 DEF SearchDatabase
  <2>2. q \in Seq(DOMAIN Registered)
    <3>1. IsFiniteSet(rated)
      BY SourcesFinite, FS_Subset
    <3>2. q \in Seq(rated) /\ rated \subseteq DOMAIN Registered
      BY <3>1, ListsNameOnce
    <3> QED
      BY <3>2, SeqMonotonic
  <2> DEFINE rows == [i \in DOMAIN q |-> db[q[i]]]
  <2>3. /\ fetch \in Nat /\ limit <= fetch
        /\ fetch = (IF wanted = {} THEN limit
                    ELSE IF 3 * limit < LOCAL_COMPAT_OVERFETCH_MAX THEN 3 * limit ELSE LOCAL_COMPAT_OVERFETCH_MAX)
    <3> HIDE DEF limit, wanted
    <3> QED
      BY <1>1, QueryAssumption DEF computeLocalCompatFetchLimit
  <2>4. \A i \in DOMAIN q : q[i] \in DOMAIN Registered
    BY <2>2, LenProperties, ElementOfSeq
  <2>5. First(q, fetch) \in Seq(DOMAIN Registered)
    BY <2>2, <2>3, FirstRows
  <2>6. \A i \in DOMAIN First(q, fetch) : First(q, fetch)[i] \in DOMAIN Registered
    BY <2>5, LenProperties, ElementOfSeq
  <2>7. /\ Rows(q, mapLocalSkillToSearchResult) = rows
        /\ Rows(First(q, fetch), mapLocalSkillToSearchResult) = [i \in DOMAIN First(q, fetch) |-> db[First(q, fetch)[i]]]
    BY <2>4, <2>6 DEF Rows
  <2> HIDE DEF db, fetch, limit, rated
  <2>12. AreRows(rows, q, S, db)
    BY <1>2, <2>2, RowsOfList
  <2> HIDE DEF rows
  <2>8. /\ rows \in Seq(S) /\ DOMAIN rows = DOMAIN q /\ \A i \in DOMAIN rows : rows[i] = db[q[i]]
        /\ \A n \in Nat : [i \in DOMAIN First(q, n) |-> db[First(q, n)[i]]] = First(rows, n)
    BY <2>12 DEF AreRows
  <2>9. reply' = SearchAnswer(in, FALSE, rows, First(rows, fetch), Rows(ours, localSkillToSearchResult))
    BY <2>1, <2>3, <2>7, <2>8
  <2>10. \A i \in DOMAIN rows : ~rows[i].mine
    BY <1>3, <2>4, <2>8
  <2>11. limit = resolveSearchLimit(in.limit)
    BY DEF limit
  <2> QED
    BY <1>1, <1>4, <2>3, <2>8, <2>9, <2>10, <2>11, SearchAnswered
<1> QED
  BY <1>5, <1>6, <1>7 DEF executeSearch

-----------------------------------------------------------------------------
(* What is recommended.                                                    *)

Recs == [id : DOMAIN Registered \cup {Mine[s].name : s \in DOMAIN Mine}, name : Names, mine : BOOLEAN,
         roles : SUBSET {RoleOfTag[t] : t \in DOMAIN RoleOfTag}, score : Int, similarity : Int,
         installable : BOOLEAN \cup {Registered[s].repo : s \in DOMAIN Registered}]

LEMMA ApiRecs ==
  ASSUME NEW s \in DOMAIN Registered
  PROVE  LET r == buildApiRecommendation(s) IN
         r \in Recs /\ ~r.mine /\ r.id = s /\ r.name = Registered[s].name
BY QueryAssumption DEF buildApiRecommendation, Recs, Names, inferRolesFromTags

LEMMA LocalRecs ==
  ASSUME NEW s \in DOMAIN Mine
  PROVE  buildLocalSkillRecommendation(s) \in Recs /\ buildLocalSkillRecommendation(s).mine
BY QueryAssumption DEF buildLocalSkillRecommendation, Recs, Names, inferRolesFromTags

LEMMA BoostedIsInt == \A n \in Int : boosted(n) \in Int
BY DEF boosted

LEMMA DbRecs ==
  ASSUME NEW s \in DOMAIN Registered, NEW role, NEW similarity \in {6, 9}
  PROVE  LET r == buildDbFallbackRecommendation(s, role, similarity) IN
         r \in Recs /\ ~r.mine /\ r.id = s /\ r.roles = inferRolesFromTags(Registered[s].tags)
<1>1. /\ transformSkillToMatchData(s) \in Recs /\ ~transformSkillToMatchData(s).mine /\ transformSkillToMatchData(s).id = s
      /\ transformSkillToMatchData(s).roles = inferRolesFromTags(Registered[s].tags)
  BY QueryAssumption DEF transformSkillToMatchData, Recs, Names, inferRolesFromTags
<1> DEFINE row == transformSkillToMatchData(s)
           score == IF role \in row.roles THEN boosted(row.score) ELSE row.score
<1>2. buildDbFallbackRecommendation(s, role, similarity) = [row EXCEPT !.score = score, !.similarity = similarity]
  BY DEF buildDbFallbackRecommendation
<1>3. row \in Recs /\ row.score \in Int
  BY <1>1 DEF Recs
<1>4. score \in Int
  BY <1>3, BoostedIsInt
<1> HIDE DEF row, score
<1>5. /\ [row EXCEPT !.score = score, !.similarity = similarity] \in Recs
      /\ [row EXCEPT !.score = score, !.similarity = similarity].mine = row.mine
      /\ [row EXCEPT !.score = score, !.similarity = similarity].id = row.id
      /\ [row EXCEPT !.score = score, !.similarity = similarity].roles = row.roles
  <2>1. [row EXCEPT !.score = score] \in Recs
    BY <1>3, <1>4 DEF Recs
  <2>2. [row EXCEPT !.score = score, !.similarity = similarity] = [[row EXCEPT !.score = score] EXCEPT !.similarity = similarity]
    BY <1>3 DEF Recs
  <2> DEFINE first == [row EXCEPT !.score = score]
  <2>3. first.mine = row.mine /\ first.id = row.id /\ first.roles = row.roles
    BY <1>3 DEF Recs
  <2>6. first \in Recs
    BY <2>1
  <2> HIDE DEF first
  <2>4. [first EXCEPT !.similarity = similarity] \in Recs
    <3>1. similarity \in Int
      OBVIOUS
    <3> QED
      BY <2>6, <3>1 DEF Recs
  <2>5. /\ [first EXCEPT !.similarity = similarity].mine = first.mine
        /\ [first EXCEPT !.similarity = similarity].id = first.id
        /\ [first EXCEPT !.similarity = similarity].roles = first.roles
    BY <2>6 DEF Recs
  <2> QED
    BY <2>2, <2>3, <2>4, <2>5 DEF first
<1> QED
  BY <1>1, <1>2, <1>5 DEF row

\* What remains of both lists: the registry's rows, and those of this machine that have no
\* such name.
IsMerged(out, theirs, ours) ==
  /\ out \in Seq(Recs) /\ Len(out) \in Nat /\ Len(out) <= Len(theirs) + Len(ours)
  /\ \A r \in ToSet(out) : r \in ToSet(theirs) \/ (r \in ToSet(ours) /\ \A q \in ToSet(theirs) : <<r.name, q.name>> \notin Similar)

LEMMA MergedRows ==
  ASSUME NEW theirs \in Seq(Recs), NEW ours \in Seq(Recs), NEW limit \in Nat
  PROVE  IsMerged(mergeAndDeduplicateRecommendations(theirs, ours, limit), theirs, ours)
<1> DEFINE I == {i \in DOMAIN ours : ~\E j \in DOMAIN theirs : <<ours[i].name, theirs[j].name>> \in Similar}
           unique == Kept(ours, I)
           both == theirs \o unique
           sorted == ByScore(both, TRUE)
<1>1. mergeAndDeduplicateRecommendations(theirs, ours, limit) = First(sorted, limit)
  BY DEF mergeAndDeduplicateRecommendations
<1>2. I \in SUBSET DOMAIN ours
  OBVIOUS
<1>3. \A i \in I : \A q \in ToSet(theirs) : <<ours[i].name, q.name>> \notin Similar
  BY DEF ToSet
<1>4. Len(theirs) \in Nat /\ Len(ours) \in Nat /\ DOMAIN theirs = 1 .. Len(theirs) /\ DOMAIN ours = 1 .. Len(ours)
  BY LenProperties
<1> HIDE DEF I
<1>5. IsKept(unique, ours, I, Recs)
  BY <1>2, KeptRows
<1> HIDE DEF unique
<1>6. unique \in Seq(Recs) /\ Len(unique) \in 0 .. Len(ours) /\ ToSet(unique) = {ours[i] : i \in I}
  BY <1>5 DEF IsKept
<1>7. both \in Seq(Recs) /\ Len(both) = Len(theirs) + Len(unique)
  BY <1>6, ConcatProperties
<1>8. \A r \in ToSet(both) : r \in ToSet(theirs) \/ r \in ToSet(unique)
  <2>1. /\ DOMAIN both = 1 .. Len(theirs) + Len(unique)
        /\ \A i \in 1 .. Len(theirs) + Len(unique) : both[i] = IF i <= Len(theirs) THEN theirs[i] ELSE unique[i - Len(theirs)]
    BY <1>6, <1>7, ConcatProperties, LenProperties
  <2>2. DOMAIN unique = 1 .. Len(unique)
    BY <1>6, LenProperties
  <2> HIDE DEF both
  <2>3. ASSUME NEW i \in 1 .. Len(theirs) + Len(unique) PROVE both[i] \in ToSet(theirs) \/ both[i] \in ToSet(unique)
    <3>1. CASE i <= Len(theirs)
      <4>1. i \in DOMAIN theirs /\ both[i] = theirs[i]
        BY <1>4, <1>6, <2>1, <3>1
      <4> QED
        BY <4>1 DEF ToSet
    <3>2. CASE i > Len(theirs)
      <4>1. i - Len(theirs) \in DOMAIN unique /\ both[i] = unique[i - Len(theirs)]
        BY <1>4, <1>6, <2>1, <2>2, <3>2
      <4> QED
        BY <4>1 DEF ToSet
    <3> QED
      BY <1>4, <1>6, <3>1, <3>2
  <2> QED
    BY <2>1, <2>3 DEF ToSet
<1> HIDE DEF both
<1>9. sorted \in Seq(Recs) /\ Len(sorted) = Len(both) /\ ToSet(sorted) = ToSet(both)
  <2>1. \A r \in Recs : r.score \in Int /\ r.similarity \in Int
    BY DEF Recs
  <2> QED
    BY <1>7, <2>1, ScoredRows
<1> HIDE DEF sorted
<1>10. /\ First(sorted, limit) \in Seq(Recs) /\ Len(First(sorted, limit)) \in Nat
       /\ Len(First(sorted, limit)) <= Len(theirs) + Len(ours) /\ ToSet(First(sorted, limit)) \subseteq ToSet(sorted)
  <2>1. /\ First(sorted, limit) \in Seq(Recs) /\ Len(sorted) \in Nat /\ ToSet(First(sorted, limit)) \subseteq ToSet(sorted)
        /\ Len(First(sorted, limit)) = (IF limit < Len(sorted) THEN limit ELSE Len(sorted))
    BY <1>9, FirstRows
  <2> QED
    BY <1>4, <1>6, <1>7, <1>9, <2>1
<1>11. ASSUME NEW r \in ToSet(First(sorted, limit))
       PROVE  r \in ToSet(theirs) \/ (r \in ToSet(ours) /\ \A q \in ToSet(theirs) : <<r.name, q.name>> \notin Similar)
  <2>1. r \in ToSet(theirs) \/ r \in {ours[i] : i \in I}
    BY <1>6, <1>8, <1>9, <1>10
  <2> QED
    BY <1>2, <1>3, <2>1 DEF ToSet
<1> QED
  BY <1>1, <1>10, <1>11 DEF IsMerged

\* One recommendation is another, but for its score.
SameButScore(r, q) ==
  r.id = q.id /\ r.name = q.name /\ r.mine = q.mine /\ r.roles = q.roles /\ r.installable = q.installable

\* With a role asked for, only its rows remain; what they say of themselves stays.
IsOfRole(out, recs, role) ==
  /\ out \in Seq(Recs) /\ Len(out) \in Nat /\ Len(recs) \in Nat /\ Len(out) <= Len(recs)
  /\ \A r \in ToSet(out) : role # "none" => role \in r.roles
  /\ \A r \in ToSet(out) : \E q \in ToSet(recs) : SameButScore(r, q)

LEMMA KeptRole ==
  ASSUME NEW recs \in Seq(Recs), NEW role
  PROVE  IsOfRole(keepRole(recs, role), recs, role)
<1> DEFINE I == {i \in DOMAIN recs : role \in recs[i].roles}
           inRole == Kept(recs, I)
           raised == [i \in DOMAIN inRole |-> [inRole[i] EXCEPT !.score = boosted(@)]]
<1>1. Len(recs) \in Nat /\ DOMAIN recs = 1 .. Len(recs)
  BY LenProperties
<1>2. CASE role = "none"
  <2>1. keepRole(recs, role) = recs
    BY <1>2 DEF keepRole
  <2> QED
    BY <1>1, <1>2, <2>1 DEF IsOfRole, SameButScore
<1>3. CASE role # "none"
  <2>1. keepRole(recs, role) = ByScore(raised, FALSE)
    BY <1>3 DEF keepRole
  <2>2. I \in SUBSET DOMAIN recs /\ \A i \in I : role \in recs[i].roles
    OBVIOUS
  <2> HIDE DEF I
  <2>3. IsKept(inRole, recs, I, Recs)
    BY <2>2, KeptRows
  <2> HIDE DEF inRole
  <2>4. inRole \in Seq(Recs) /\ Len(inRole) \in 0 .. Len(recs) /\ ToSet(inRole) = {recs[i] : i \in I}
    BY <2>3 DEF IsKept
  <2>5. DOMAIN inRole = 1 .. Len(inRole) /\ Len(inRole) \in Nat /\ \A i \in 1 .. Len(inRole) : inRole[i] \in Recs
    BY <2>4, LenProperties, ElementOfSeq
  <2>6. ASSUME NEW q \in Recs
        PROVE  [q EXCEPT !.score = boosted(@)] \in Recs /\ SameButScore([q EXCEPT !.score = boosted(@)], q)
    <3>1. q.score \in Int
      BY DEF Recs
    <3>2. boosted(q.score) \in Int
      BY <3>1, BoostedIsInt
    <3>3. PICK n \in Int : n = boosted(q.score)
      BY <3>2
    <3>4. [q EXCEPT !.score = boosted(@)] = [q EXCEPT !.score = n]
      BY <3>3
    <3>5. [q EXCEPT !.score = n] \in Recs
      BY DEF Recs
    <3>6. SameButScore([q EXCEPT !.score = n], q)
      BY DEF Recs, SameButScore
    <3> QED
      BY <3>4, <3>5, <3>6
  <2>7. \A i \in DOMAIN inRole : raised[i] \in Recs /\ SameButScore(raised[i], inRole[i])
    <3> TAKE i \in DOMAIN inRole
    <3>1. raised[i] = [inRole[i] EXCEPT !.score = boosted(@)]
      OBVIOUS
    <3> QED
      BY <2>5, <2>6, <3>1
  <2>8. raised = [i \in 1 .. Len(inRole) |-> raised[i]]
    BY <2>5
  <2> HIDE DEF raised
  <2>9. raised \in [1 .. Len(inRole) -> Recs]
    BY <2>5, <2>7, <2>8
  <2>10. raised \in Seq(Recs) /\ Len(raised) = Len(inRole) /\ DOMAIN raised = DOMAIN inRole
    BY <2>5, <2>9, IsASeq, LenProperties
  <2>11. ByScore(raised, FALSE) \in Seq(Recs) /\ Len(ByScore(raised, FALSE)) = Len(raised)
         /\ ToSet(ByScore(raised, FALSE)) = ToSet(raised)
    <3>1. \A r \in Recs : r.score \in Int /\ r.similarity \in Int
      BY DEF Recs
    <3> QED
      BY <2>10, <3>1, ScoredRows
  <2>12. \A r \in ToSet(raised) : \E i \in I : SameButScore(r, recs[i])
    <3> SUFFICES ASSUME NEW k \in DOMAIN raised PROVE \E i \in I : SameButScore(raised[k], recs[i])
      BY DEF ToSet
    <3>1. inRole[k] \in ToSet(inRole) /\ SameButScore(raised[k], inRole[k])
      BY <2>7, <2>10 DEF ToSet
    <3> QED
      BY <2>4, <3>1
  <2>13. \A r \in ToSet(raised) : role \in r.roles /\ \E q \in ToSet(recs) : SameButScore(r, q)
    BY <2>2, <2>12 DEF SameButScore, ToSet
  <2> QED
    <3> DEFINE out == ByScore(raised, FALSE)
    <3>1. out \in Seq(Recs) /\ Len(out) = Len(inRole) /\ ToSet(out) = ToSet(raised)
      BY <2>10, <2>11
    <3> HIDE DEF out
    <3>2. Len(out) \in Nat /\ Len(recs) \in Nat /\ Len(out) <= Len(recs)
      BY <1>1, <2>4, <3>1
    <3>3. \A r \in ToSet(out) : role \in r.roles /\ \E q \in ToSet(recs) : SameButScore(r, q)
      BY <2>13, <3>1
    <3>4. IsOfRole(out, recs, role)
      BY <3>1, <3>2, <3>3 DEF IsOfRole
    <3> QED
      BY <2>1, <3>4 DEF out
<1> QED
  BY <1>2, <1>3

\* The rows of a list that may be given to the one who asked.
Fits(in, recs) ==
  /\ recs \in Seq(Recs) /\ Len(recs) \in Nat
  /\ \A r \in ToSet(recs) : (in.role # "none" => in.role \in r.roles) /\ (~r.mine => r.id \notin installedSkills(in))
  /\ \A r, q \in ToSet(recs) : r.mine /\ ~q.mine => <<r.name, q.name>> \notin Similar

LEMMA RecommendedFits ==
  ASSUME NEW in \in RecommendInput, NEW recs, Fits(in, recs), NEW considered \in Int, NEW roleFiltered \in Int,
         Len(recs) + roleFiltered <= considered, reply' = Recommended(in, recs, considered, roleFiltered)
  PROVE  AdviceFits'
<1> DEFINE I == {i \in DOMAIN recs : in.only => recs[i].installable}
           offered == Kept(recs, I)
           given == First(offered, in.limit)
<1>1. /\ reply'.tool = "recommend" /\ reply'.asked = in /\ reply'.recs = given /\ reply'.considered = considered
      /\ reply'.roleFiltered = roleFiltered /\ reply'.hidden = Len(recs) - Len(offered)
  <2>1. offerInstallable(recs, in.only) = offered
    BY DEF offerInstallable
  <2> HIDE DEF offered
  <2> QED
    BY <2>1 DEF Recommended
<1>2. I \in SUBSET DOMAIN recs /\ \A i \in I : in.only => recs[i].installable
  OBVIOUS
<1>3. recs \in Seq(Recs) /\ Len(recs) \in Nat
  BY DEF Fits
<1> HIDE DEF I
<1>4. IsKept(offered, recs, I, Recs)
  BY <1>2, <1>3, KeptRows
<1> HIDE DEF offered
<1>5. offered \in Seq(Recs) /\ Len(offered) \in 0 .. Len(recs) /\ ToSet(offered) = {recs[i] : i \in I}
  BY <1>4 DEF IsKept
<1>6. in.limit \in Nat
  BY QueryAssumption DEF RecommendInput
<1>7. /\ Len(given) = (IF in.limit < Len(offered) THEN in.limit ELSE Len(offered)) /\ ToSet(given) \subseteq ToSet(offered)
  BY <1>5, <1>6, FirstRows
<1> HIDE DEF given
<1>8. Len(given) <= in.limit /\ Len(given) + (Len(recs) - Len(offered)) + roleFiltered <= considered
  BY <1>3, <1>5, <1>6, <1>7
<1>9. \A r \in ToSet(given) : r \in ToSet(recs) /\ (in.only => r.installable)
  BY <1>2, <1>5, <1>7 DEF ToSet
<1>10. /\ \A r \in ToSet(given) : /\ in.role # "none" => in.role \in r.roles
                                  /\ in.only => r.installable
                                  /\ ~r.mine => r.id \notin installedSkills(in)
       /\ \A r, q \in ToSet(given) : r.mine /\ ~q.mine => <<r.name, q.name>> \notin Similar
  BY <1>9 DEF Fits
<1> QED
  BY <1>1, <1>8, <1>10 DEF AdviceFits

\* The recommendations that are made of the elements of X that a list names.
AreRecs(rows, q, X, g) ==
  /\ rows \in Seq(Recs) /\ Len(rows) = Len(q) /\ Len(q) \in Nat /\ Len(q) <= Cardinality(X) /\ Cardinality(X) \in Nat
  /\ \A r \in ToSet(rows) : \E s \in X : r = g[s]

LEMMA RecsOfList ==
  ASSUME NEW X, IsFiniteSet(X), NEW n, NEW q \in Lists(X, n), NEW Y, X \subseteq Y, NEW g \in [Y -> Recs]
  PROVE  AreRecs([i \in DOMAIN q |-> g[q[i]]], q, X, g)
<1> DEFINE rows == [i \in DOMAIN q |-> g[q[i]]]
<1>1. /\ q \in Seq(X) /\ Len(q) \in Nat /\ Len(q) <= Cardinality(X) /\ Cardinality(X) \in Nat
      /\ ToSet(q) \subseteq X
  BY ListsNameOnce
<1>2. q \in Seq(Y)
  BY <1>1, SeqMonotonic
<1>3. AreRows(rows, q, Recs, g)
  BY <1>2, RowsOfList
<1> HIDE DEF rows
<1>4. rows \in Seq(Recs) /\ Len(rows) = Len(q) /\ DOMAIN rows = DOMAIN q /\ \A i \in DOMAIN rows : rows[i] = g[q[i]]
  BY <1>3 DEF AreRows
<1>5. \A r \in ToSet(rows) : \E s \in X : r = g[s]
  BY <1>1, <1>4 DEF ToSet
<1> QED
  BY <1>1, <1>4, <1>5 DEF rows, AreRecs

\* What the skills of this machine give.
LEMMA OwnRecs ==
  ASSUME NEW n, NEW ours \in Lists(DOMAIN Mine, n)
  PROVE  LET rows == Rows(ours, buildLocalSkillRecommendation) IN
         rows \in Seq(Recs) /\ Len(rows) = Len(ours) /\ Len(ours) \in Nat /\ \A r \in ToSet(rows) : r.mine
<1> DEFINE g == [s \in DOMAIN Mine |-> buildLocalSkillRecommendation(s)]
           rows == [i \in DOMAIN ours |-> g[ours[i]]]
<1>1. g \in [DOMAIN Mine -> Recs] /\ \A s \in DOMAIN Mine : g[s].mine
  BY LocalRecs
<1>2. \A i \in DOMAIN ours : ours[i] \in DOMAIN Mine
  BY ListsNameOnce, SourcesFinite DEF ToSet
<1>3. Rows(ours, buildLocalSkillRecommendation) = rows
  BY <1>2 DEF Rows
<1> HIDE DEF g
<1>4. AreRecs(rows, ours, DOMAIN Mine, g)
  BY <1>1, RecsOfList, SourcesFinite
<1> HIDE DEF rows
<1> QED
  BY <1>1, <1>3, <1>4 DEF AreRecs

LEMMA RecommendedOnline ==
  ASSUME NEW in \in RecommendInput, RecommendOnline(in)
  PROVE  AdviceFits'
<1> DEFINE g == [s \in DOMAIN Registered |-> buildApiRecommendation(s)]
<1>1. PICK hits \in Lists(DOMAIN Registered, in.limit), ours \in Lists(DOMAIN Mine, in.limit) :
        LET theirs == Rows(hits, buildApiRecommendation)
            merged == mergeAndDeduplicateRecommendations(theirs, Rows(ours, buildLocalSkillRecommendation), in.limit)
            fresh == Kept(merged, {i \in DOMAIN merged : merged[i].id \notin installedSkills(in)})
            ofRole == keepRole(fresh, in.role) IN
        reply' = Recommended(in, ofRole, Len(hits) + Len(ours), Len(fresh) - Len(ofRole))
  BY DEF RecommendOnline
<1> DEFINE theirs == [i \in DOMAIN hits |-> g[hits[i]]]
           mineToo == Rows(ours, buildLocalSkillRecommendation)
           merged == mergeAndDeduplicateRecommendations(theirs, mineToo, in.limit)
           I == {i \in DOMAIN merged : merged[i].id \notin installedSkills(in)}
           fresh == Kept(merged, I)
           ofRole == keepRole(fresh, in.role)
<1>2. g \in [DOMAIN Registered -> Recs] /\ \A s \in DOMAIN Registered : ~g[s].mine
  BY ApiRecs
<1>3. Rows(hits, buildApiRecommendation) = theirs
  <2>1. \A i \in DOMAIN hits : hits[i] \in DOMAIN Registered
    BY ListsNameOnce, SourcesFinite DEF ToSet
  <2> QED
    BY <2>1 DEF Rows
<1>4. reply' = Recommended(in, ofRole, Len(hits) + Len(ours), Len(fresh) - Len(ofRole))
  BY <1>1, <1>3
<1> HIDE DEF g
<1>5. /\ theirs \in Seq(Recs) /\ Len(theirs) = Len(hits) /\ Len(hits) \in Nat
      /\ \A r \in ToSet(theirs) : \E s \in DOMAIN Registered : r = g[s]
  <2>1. AreRecs(theirs, hits, DOMAIN Registered, g)
    BY <1>2, RecsOfList, SourcesFinite
  <2> HIDE DEF theirs
  <2> QED
    BY <2>1 DEF AreRecs
<1>6. mineToo \in Seq(Recs) /\ Len(mineToo) = Len(ours) /\ Len(ours) \in Nat /\ \A r \in ToSet(mineToo) : r.mine
  BY OwnRecs
<1>7. in.limit \in Nat
  BY QueryAssumption DEF RecommendInput
<1> HIDE DEF theirs, mineToo
<1>8. IsMerged(merged, theirs, mineToo)
  BY <1>5, <1>6, <1>7, MergedRows
<1>9. \A r, q \in ToSet(merged) : r.mine /\ ~q.mine => <<r.name, q.name>> \notin Similar
  BY <1>2, <1>5, <1>6, <1>8 DEF IsMerged
<1> HIDE DEF merged
<1>10. merged \in Seq(Recs) /\ Len(merged) \in Nat /\ Len(merged) <= Len(hits) + Len(ours)
  BY <1>5, <1>6, <1>8 DEF IsMerged
<1>11. I \in SUBSET DOMAIN merged /\ \A i \in I : merged[i].id \notin installedSkills(in)
  OBVIOUS
<1> HIDE DEF I
<1>12. IsKept(fresh, merged, I, Recs)
  BY <1>10, <1>11, KeptRows
<1> HIDE DEF fresh
<1>13. fresh \in Seq(Recs) /\ Len(fresh) \in 0 .. Len(merged) /\ ToSet(fresh) = {merged[i] : i \in I}
  BY <1>12 DEF IsKept
<1>14. \A r \in ToSet(fresh) : r \in ToSet(merged) /\ r.id \notin installedSkills(in)
  BY <1>11, <1>13 DEF ToSet
<1>15. IsOfRole(ofRole, fresh, in.role)
  BY <1>13, KeptRole
<1> HIDE DEF ofRole
<1>16. \A r \in ToSet(ofRole) : \E q \in ToSet(merged) : SameButScore(r, q) /\ q.id \notin installedSkills(in)
  BY <1>14, <1>15 DEF IsOfRole
<1>17. Fits(in, ofRole)
  <2>1. \A r \in ToSet(ofRole) : (in.role # "none" => in.role \in r.roles) /\ r.id \notin installedSkills(in)
    BY <1>15, <1>16 DEF IsOfRole, SameButScore
  <2>2. ASSUME NEW r \in ToSet(ofRole), NEW q \in ToSet(ofRole), r.mine, ~q.mine
        PROVE  <<r.name, q.name>> \notin Similar
    <3>1. PICK a \in ToSet(merged) : SameButScore(r, a)
      BY <1>16
    <3>2. PICK b \in ToSet(merged) : SameButScore(q, b)
      BY <1>16
    <3> QED
      BY <1>9, <2>2, <3>1, <3>2 DEF SameButScore
  <2> QED
    BY <1>15, <2>1, <2>2 DEF Fits, IsOfRole
<1>18. /\ Len(hits) + Len(ours) \in Int /\ Len(fresh) - Len(ofRole) \in Int
       /\ Len(ofRole) + (Len(fresh) - Len(ofRole)) <= Len(hits) + Len(ours)
  BY <1>5, <1>6, <1>10, <1>13, <1>15 DEF IsOfRole
<1> QED
  BY <1>4, <1>17, <1>18, RecommendedFits

LEMMA RecommendedOffline ==
  ASSUME NEW in \in RecommendInput, RecommendOffline(in)
  PROVE  AdviceFits'
<1> DEFINE OfRole(rows) == {s \in rows : in.role = "none" \/ in.role \in inferRolesFromTags(Registered[s].tags)}
           Given(accepted, hits, ours, similarity) ==
             LET Fallback(s) == buildDbFallbackRecommendation(s, in.role, similarity)
                 merged == mergeAndDeduplicateRecommendations(Rows(hits, Fallback),
                                                              Rows(ours, buildLocalSkillRecommendation), in.limit)
                 again == in.role # "none" /\ ours # <<>>
                 ofRole == Kept(merged, {i \in DOMAIN merged : again => in.role \in merged[i].roles}) IN
             reply' = Recommended(in, ofRole, Cardinality(candidates(in)) + Len(ours),
                        IF again THEN Len(merged) - Len(ofRole) ELSE Cardinality(accepted) - Cardinality(OfRole(accepted)))
<1>1. PICK accepted \in SUBSET candidates(in) :
         \E hits \in Lists(OfRole(accepted), in.limit), ours \in Lists(DOMAIN Mine, in.limit), similarity \in {6, 9} :
           Given(accepted, hits, ours, similarity)
  BY DEF RecommendOffline
<1>1b. PICK hits \in Lists(OfRole(accepted), in.limit), ours \in Lists(DOMAIN Mine, in.limit), similarity \in {6, 9} :
         Given(accepted, hits, ours, similarity)
  BY <1>1
<1> DEFINE again == in.role # "none" /\ ours # <<>>
<1> DEFINE X == OfRole(accepted)
           g == [s \in DOMAIN Registered |-> buildDbFallbackRecommendation(s, in.role, similarity)]
           theirs == [i \in DOMAIN hits |-> g[hits[i]]]
           mineToo == Rows(ours, buildLocalSkillRecommendation)
           merged == mergeAndDeduplicateRecommendations(theirs, mineToo, in.limit)
           I == {i \in DOMAIN merged : again => in.role \in merged[i].roles}
           ofRole == Kept(merged, I)
           considered == Cardinality(candidates(in)) + Len(ours)
           filtered == IF again THEN Len(merged) - Len(ofRole) ELSE Cardinality(accepted) - Cardinality(X)
<1>2. candidates(in) \subseteq DOMAIN Registered /\ \A s \in candidates(in) : s \notin installedSkills(in)
  BY DEF candidates
<1>3. /\ IsFiniteSet(candidates(in)) /\ IsFiniteSet(accepted) /\ IsFiniteSet(X) /\ X \subseteq accepted
      /\ Cardinality(X) \in Nat /\ Cardinality(accepted) \in Nat /\ Cardinality(candidates(in)) \in Nat
      /\ Cardinality(X) <= Cardinality(accepted) /\ Cardinality(accepted) <= Cardinality(candidates(in))
  <2>1. IsFiniteSet(candidates(in))
    BY <1>2, SourcesFinite, FS_Subset
  <2>2. IsFiniteSet(accepted) /\ Cardinality(accepted) <= Cardinality(candidates(in))
    BY <2>1, FS_Subset
  <2>3. X \in SUBSET accepted
    OBVIOUS
  <2> HIDE DEF X
  <2>4. IsFiniteSet(X) /\ Cardinality(X) <= Cardinality(accepted)
    BY <2>2, <2>3, FS_Subset
  <2> QED
    BY <2>1, <2>2, <2>3, <2>4, FS_CardinalityType
<1>4. \A s \in X : /\ s \in DOMAIN Registered /\ s \notin installedSkills(in)
                   /\ in.role # "none" => in.role \in inferRolesFromTags(Registered[s].tags)
  BY <1>2
<1>5. /\ g \in [DOMAIN Registered -> Recs]
      /\ \A s \in DOMAIN Registered : ~g[s].mine /\ g[s].id = s /\ g[s].roles = inferRolesFromTags(Registered[s].tags)
  BY DbRecs
<1>6. reply' = Recommended(in, ofRole, considered, filtered)
  <2>1. \A i \in DOMAIN hits : hits[i] \in DOMAIN Registered
    <3> HIDE DEF X
    <3>1. ToSet(hits) \subseteq X
      BY <1>3, ListsNameOnce DEF X
    <3> QED
      BY <1>4, <3>1 DEF ToSet
  <2>2. [i \in DOMAIN hits |-> buildDbFallbackRecommendation(hits[i], in.role, similarity)] = theirs
    BY <2>1
  <2> QED
    BY <1>1b, <2>2 DEF Rows
<1> HIDE DEF g
<1>7. AreRecs(theirs, hits, X, g)
  <2>1. hits \in Lists(X, in.limit) /\ X \subseteq DOMAIN Registered
    BY <1>4
  <2> HIDE DEF X
  <2> QED
    BY <1>3, <1>5, <2>1, RecsOfList
<1> HIDE DEF theirs, X
<1>8. /\ theirs \in Seq(Recs) /\ Len(theirs) = Len(hits) /\ Len(hits) \in Nat /\ Len(hits) <= Cardinality(X)
      /\ \A r \in ToSet(theirs) : \E s \in X : r = g[s]
  BY <1>7 DEF AreRecs
<1>9. mineToo \in Seq(Recs) /\ Len(mineToo) = Len(ours) /\ Len(ours) \in Nat /\ \A r \in ToSet(mineToo) : r.mine
  BY OwnRecs
<1>10. in.limit \in Nat
  BY QueryAssumption DEF RecommendInput
<1> HIDE DEF mineToo
<1>11. IsMerged(merged, theirs, mineToo)
  BY <1>8, <1>9, <1>10, MergedRows
<1> HIDE DEF merged
<1>12. /\ merged \in Seq(Recs) /\ Len(merged) \in Nat /\ Len(merged) <= Len(hits) + Len(ours)
       /\ \A r \in ToSet(merged) : \/ r \in ToSet(theirs)
                                   \/ r \in ToSet(mineToo) /\ \A q \in ToSet(theirs) : <<r.name, q.name>> \notin Similar
  BY <1>8, <1>9, <1>11 DEF IsMerged
<1>13. \A r \in ToSet(theirs) : /\ ~r.mine /\ r.id \notin installedSkills(in)
                                /\ in.role # "none" => in.role \in r.roles
  BY <1>4, <1>5, <1>8
<1>14. I \in SUBSET DOMAIN merged /\ \A i \in I : again => in.role \in merged[i].roles
  OBVIOUS
<1> HIDE DEF I
<1>15. IsKept(ofRole, merged, I, Recs)
  BY <1>12, <1>14, KeptRows
<1> HIDE DEF ofRole
<1>16. ofRole \in Seq(Recs) /\ Len(ofRole) \in 0 .. Len(merged) /\ ToSet(ofRole) = {merged[i] : i \in I}
  BY <1>15 DEF IsKept
<1>17. \A r \in ToSet(ofRole) : r \in ToSet(merged) /\ (again => in.role \in r.roles)
  BY <1>14, <1>16 DEF ToSet
<1>18. ours = <<>> => ToSet(mineToo) = {}
  <2> SUFFICES ASSUME ours = <<>> PROVE ToSet(mineToo) = {}
    OBVIOUS
  <2>1. DOMAIN mineToo = {}
    BY DEF mineToo, Rows
  <2> QED
    BY <2>1 DEF ToSet
<1>19. Fits(in, ofRole)
  <2>1. \A r \in ToSet(ofRole) : in.role # "none" => in.role \in r.roles
    BY <1>12, <1>13, <1>17, <1>18
  <2>2. \A r \in ToSet(ofRole) : ~r.mine => r.id \notin installedSkills(in)
    BY <1>9, <1>12, <1>13, <1>17
  <2>3. \A r, q \in ToSet(ofRole) : r.mine /\ ~q.mine => <<r.name, q.name>> \notin Similar
    BY <1>9, <1>12, <1>13, <1>17
  <2>4. Len(ofRole) \in Nat
    BY <1>12, <1>16
  <2> QED
    BY <1>16, <2>1, <2>2, <2>3, <2>4 DEF Fits
<1>20. considered \in Int /\ filtered \in Int /\ Len(ofRole) + filtered <= considered
  BY <1>3, <1>8, <1>9, <1>12, <1>16
<1> HIDE DEF considered, filtered
<1> QED
  BY <1>6, <1>19, <1>20, RecommendedFits

-----------------------------------------------------------------------------
(* What is compared.                                                       *)

Compared == [score : Nat, rank : Nat, features : Nat]

\* One difference is worth a point, and a verified skill two more.
LEMMA PointsCount ==
  ASSUME NEW a \in Compared, NEW b \in Compared
  PROVE  /\ points(a, b) \in Nat
         /\ a.score <= b.score /\ a.rank <= b.rank => points(a, b) <= 3
         /\ a.score > b.score /\ a.rank > b.rank => points(a, b) >= 2
<1> DEFINE D == generateDifferences(a, b)
           verified == IF a.rank = 4 THEN 2 ELSE 0
           clear == IF a.score > b.score + 5 THEN 1 ELSE 0
<1>1. a.score \in Nat /\ a.rank \in Nat /\ b.score \in Nat /\ b.rank \in Nat
  BY DEF Compared
<1>2. D \in SUBSET {"score", "rank", "features"}
  BY DEF generateDifferences
<1>3. IsFiniteSet({"score", "rank", "features"}) /\ IsFiniteSet({"features"}) /\ Cardinality({"features"}) = 1
  <2>1. IsFiniteSet({"features"}) /\ Cardinality({"features"}) = 1 /\ IsFiniteSet({"rank"}) /\ IsFiniteSet({"score"})
    BY FS_Singleton
  <2>2. IsFiniteSet({"features"} \cup {"rank"})
    BY <2>1, FS_AddElement
  <2>3. IsFiniteSet(({"features"} \cup {"rank"}) \cup {"score"})
    BY <2>2, FS_AddElement
  <2>4. {"score", "rank", "features"} = ({"features"} \cup {"rank"}) \cup {"score"}
    OBVIOUS
  <2> QED
    BY <2>1, <2>3, <2>4
<1>4. IsFiniteSet(D) /\ Cardinality(D) \in Nat
  <2> HIDE DEF D
  <2> QED
    BY <1>2, <1>3, FS_Subset, FS_CardinalityType
<1>5. ASSUME a.score <= b.score, a.rank <= b.rank PROVE Cardinality(D) <= 1
  <2>1. D \in SUBSET {"features"}
    BY <1>1, <1>5 DEF generateDifferences
  <2> HIDE DEF D
  <2> QED
    BY <1>3, <2>1, FS_Subset
<1>6. ASSUME a.score > b.score, a.rank > b.rank PROVE Cardinality(D) >= 2
  <2>1. {"score"} \cup {"rank"} \in SUBSET D
    BY <1>1, <1>6 DEF generateDifferences
  <2>2. IsFiniteSet({"score"}) /\ Cardinality({"score"}) = 1
    BY FS_Singleton
  <2>3. Cardinality({"score"} \cup {"rank"}) = 2
    BY <2>2, FS_AddElement
  <2> HIDE DEF D
  <2>4. Cardinality({"score"} \cup {"rank"}) <= Cardinality(D)
    BY <1>4, <2>1, FS_Subset
  <2> QED
    BY <1>4, <2>3, <2>4
<1>7. points(a, b) = Cardinality(D) + verified + clear
  BY DEF points
<1>8. verified \in 0 .. 2 /\ clear \in 0 .. 1 /\ (a.score <= b.score => clear = 0)
  BY <1>1
<1> HIDE DEF D, verified, clear
<1> QED
  BY <1>4, <1>5, <1>6, <1>7, <1>8

LEMMA FairlyCompared ==
  ASSUME NEW a \in Compared, NEW b \in Compared
  PROVE  ComparisonIsFair(a, b, generateRecommendation(a, b))
<1> DEFINE p == points(a, b)
           q == points(b, a)
           winner == generateRecommendation(a, b)
           Mirror == [w \in {"a", "b", "tie"} |-> CASE w = "a" -> "b" [] w = "b" -> "a" [] OTHER -> "tie"]
<1>1. p \in Nat /\ q \in Nat
  BY PointsCount
<1>2. a.score \in Nat /\ a.rank \in Nat /\ b.score \in Nat /\ b.rank \in Nat
  BY DEF Compared
<1>3. a.score < b.score /\ a.rank < b.rank => p <= 3 /\ q >= 2
  BY <1>2, PointsCount
<1>4. b.score < a.score /\ b.rank < a.rank => q <= 3 /\ p >= 2
  BY <1>2, PointsCount
<1>5. /\ winner = (IF p > q + 1 THEN "a" ELSE IF q > p + 1 THEN "b" ELSE "tie")
      /\ generateRecommendation(b, a) = (IF q > p + 1 THEN "a" ELSE IF p > q + 1 THEN "b" ELSE "tie")
  BY DEF generateRecommendation
<1>6. Mirror["a"] = "b" /\ Mirror["b"] = "a" /\ Mirror["tie"] = "tie"
  OBVIOUS
<1> HIDE DEF p, q, winner, Mirror
<1>7. generateRecommendation(b, a) = Mirror[winner]
  BY <1>1, <1>5, <1>6
<1>8. winner = "a" => a.score >= b.score \/ a.rank >= b.rank
  BY <1>1, <1>2, <1>3, <1>5
<1>9. winner = "b" => b.score >= a.score \/ b.rank >= a.rank
  BY <1>1, <1>2, <1>4, <1>5
<1> QED
  BY <1>7, <1>8, <1>9 DEF ComparisonIsFair, winner, Mirror

\* What is compared has a score, a rank and a number of features.
LEMMA ExtendedIsCompared ==
  ASSUME NEW s \in DOMAIN Registered, NEW source \in Source
  PROVE  ExtendedSkill(s, source) \in Compared
<1>1. Registered[s].tags \ Excluded \in SUBSET Registered[s].tags /\ IsFiniteSet(Registered[s].tags)
  BY QueryAssumption
<1>2. Cardinality(Registered[s].tags \ Excluded) \in Nat
  BY <1>1, FS_Subset, FS_CardinalityType
<1> QED
  BY <1>2, QueryAssumption DEF ExtendedSkill, Compared

-----------------------------------------------------------------------------
(* Every answer.                                                           *)

\* Each tool signs its answer.
LEMMA AnswersSigned ==
  /\ \A in, online, matched, fetched, ours : SearchAnswer(in, online, matched, fetched, ours).tool = "search"
  /\ \A in, recs, considered, filtered : Recommended(in, recs, considered, filtered).tool = "recommend"
BY DEF SearchAnswer, Recommended

LEMMA QueryStep ==
  ASSUME SearchIsHonest /\ AdviceFits, [QueryNext]_queryVars
  PROVE  (SearchIsHonest /\ AdviceFits)'
<1>1. CASE UNCHANGED queryVars
  <2>1. reply' = reply
    BY <1>1 DEF queryVars
  <2> QED
    BY <2>1 DEF SearchIsHonest, AdviceFits
<1>2. ASSUME NEW in \in SearchInput, executeSearch(in) PROVE (SearchIsHonest /\ AdviceFits)'
  <2>1. SearchIsHonest'
    BY <1>2, SearchStep
  <2>2. reply'.tool \in {"search", "refused"}
    <3>1. CASE searchRefused(in)
      BY <1>2, <3>1 DEF executeSearch
    <3>2. CASE SearchRegistry(in)
      <4>1. \E matched, fetched, ours : reply' = SearchAnswer(in, TRUE, matched, fetched, ours)
        BY <3>2 DEF SearchRegistry
      <4> QED
        BY <4>1, AnswersSigned
    <3>3. CASE SearchDatabase(in)
      <4>1. \E matched, fetched, ours : reply' = SearchAnswer(in, FALSE, matched, fetched, ours)
        BY <3>3 DEF SearchDatabase
      <4> QED
        BY <4>1, AnswersSigned
    <3> QED
      BY <1>2, <3>1, <3>2, <3>3 DEF executeSearch
  <2>3. AdviceFits'
    BY <2>2 DEF AdviceFits
  <2> QED
    BY <2>1, <2>3
<1>3. ASSUME NEW in \in RecommendInput, executeRecommend(in) PROVE (SearchIsHonest /\ AdviceFits)'
  <2>1. reply'.tool = "recommend"
    <3>1. CASE EmptyStack(in)
      BY <3>1 DEF EmptyStack
    <3>2. CASE RecommendOnline(in)
      <4>1. \E recs, considered, filtered : reply' = Recommended(in, recs, considered, filtered)
        BY <3>2 DEF RecommendOnline
      <4> QED
        BY <4>1, AnswersSigned
    <3>3. CASE RecommendOffline(in)
      <4>1. \E recs, considered, filtered : reply' = Recommended(in, recs, considered, filtered)
        BY <3>3, ZenonT(60) DEF RecommendOffline
      <4> QED
        BY <4>1, AnswersSigned
    <3> QED
      BY <1>3, <3>1, <3>2, <3>3 DEF executeRecommend
  <2>2. SearchIsHonest'
    BY <2>1 DEF SearchIsHonest
  <2>3. CASE EmptyStack(in)
    <3>1. /\ reply'.recs = <<>> /\ reply'.asked = in /\ reply'.considered = 0 /\ reply'.roleFiltered = 0
          /\ reply'.hidden = 0
      BY <2>3 DEF EmptyStack
    <3>2. in.limit \in Nat
      BY QueryAssumption DEF RecommendInput
    <3>3. ToSet(reply'.recs) = {} /\ Len(reply'.recs) = 0
      BY <3>1 DEF ToSet
    <3> QED
      BY <2>1, <2>2, <3>1, <3>2, <3>3 DEF AdviceFits
  <2> QED
    BY <1>3, <2>2, <2>3, RecommendedOnline, RecommendedOffline DEF executeRecommend
<1>4. ASSUME NEW installed, NEW categories, executeSuggest(installed, categories, MAX_SEARCH_LIMIT)
      PROVE  (SearchIsHonest /\ AdviceFits)'
  <2>1. PICK hits \in {<<>>} \cup Lists(candidateSkills(installed, categories), MAX_SEARCH_LIMIT) :
          reply' = [tool |-> "suggest", asked |-> installed, categories |-> categories, recs |-> hits]
    BY <1>4 DEF executeSuggest
  <2>2. IsFiniteSet(candidateSkills(installed, categories))
    <3>1. candidateSkills(installed, categories) \in SUBSET DOMAIN Registered
      BY DEF candidateSkills
    <3> QED
      BY <3>1, SourcesFinite, FS_Subset
  <2>3. ToSet(hits) \subseteq candidateSkills(installed, categories)
    <3>1. CASE hits = <<>>
      BY <3>1 DEF ToSet
    <3>2. CASE hits # <<>>
      BY <2>2, <3>2, ListsNameOnce
    <3> QED
      BY <3>1, <3>2
  <2> QED
    BY <2>1, <2>3 DEF SearchIsHonest, AdviceFits, candidateSkills
<1>5. ASSUME NEW a \in DOMAIN Registered, NEW b \in DOMAIN Registered, NEW sourceA \in Source, NEW sourceB \in Source,
             executeCompare(a, b, sourceA, sourceB)
      PROVE  (SearchIsHonest /\ AdviceFits)'
  <2>1. CASE a = b
    BY <1>5, <2>1 DEF executeCompare, SearchIsHonest, AdviceFits
  <2>2. CASE a # b
    <3> DEFINE one == ExtendedSkill(a, sourceA)
               other == ExtendedSkill(b, sourceB)
    <3>1. one \in Compared /\ other \in Compared
      BY ExtendedIsCompared
    <3>2. reply' = [tool |-> "compare", a |-> one, b |-> other, winner |-> generateRecommendation(one, other)]
      BY <1>5, <2>2 DEF executeCompare
    <3> HIDE DEF one, other
    <3>3. ComparisonIsFair(reply'.a, reply'.b, reply'.winner)
      BY <3>1, <3>2, FairlyCompared
    <3> QED
      BY <3>2, <3>3 DEF SearchIsHonest, AdviceFits
  <2> QED
    BY <2>1, <2>2
<1>6. ASSUME NEW s, NEW source, NEW quarantined, executeGetSkill(s, source, quarantined)
      PROVE  (SearchIsHonest /\ AdviceFits)'
  BY <1>6 DEF executeGetSkill, SearchIsHonest, AdviceFits
<1>7. ASSUME NEW name, executeSkillRecoverSource(name) PROVE (SearchIsHonest /\ AdviceFits)'
  BY <1>7 DEF executeSkillRecoverSource, SearchIsHonest, AdviceFits
<1> QED
  BY <1>1, <1>2, <1>3, <1>4, <1>5, <1>6, <1>7 DEF QueryNext

\* A page of search says what it says, whatever the sources hold and whatever is asked for:
\* the skills of this machine come first, within a source none is left out for one that
\* suits the client less, and what a page with room leaves out is counted as hidden
\* (executeSearchImpl, mergeRankAndPage).
THEOREM PagesAreHonest == Spec => []SearchIsHonest
<1>1. QueryInit => SearchIsHonest /\ AdviceFits
  BY DEF QueryInit, NoReply, SearchIsHonest, AdviceFits
<1>2. QuerySpec => []SearchIsHonest
  BY <1>1, QueryStep, PTL DEF QuerySpec
<1> QED
  BY <1>2, PartsAlone

\* What is recommended or suggested was asked for, counts no more than was considered, and a
\* comparison does not depend on the order of what is compared (executeRecommendImpl,
\* executeSuggestImpl, generateRecommendation).
THEOREM AdviceIsFit == Spec => []AdviceFits
<1>1. QueryInit => SearchIsHonest /\ AdviceFits
  BY DEF QueryInit, NoReply, SearchIsHonest, AdviceFits
<1>2. QuerySpec => []AdviceFits
  BY <1>1, QueryStep, PTL DEF QuerySpec
<1> QED
  BY <1>2, PartsAlone
-----------------------------------------------------------------------------
(* What is computed step by step, over a text of some length.              *)

\* f starts at base and takes the n steps one after another.
Unfolds(f, base, step, n) == f[0] = base /\ \A k \in 1 .. n : f[k] = step[<<f[k - 1], k>>]

\* Such an f exists, however many the steps.
LEMMA StepsUnfold ==
  ASSUME NEW n \in Nat, NEW S, NEW base \in S, NEW step \in [S \X (1 .. n) -> S]
  PROVE  \E f \in [0 .. n -> S] : Unfolds(f, base, step, n)
<1> DEFINE Reached(m) == \E f \in [0 .. m -> S] : Unfolds(f, base, step, m)
           missed == {m \in 0 .. n : ~Reached(m)}
<1>1. SUFFICES ASSUME missed # {} PROVE FALSE
  OBVIOUS
<1>2. PICK m \in missed : \A q \in missed : ~(q < m)
  <2>1. missed \subseteq Nat
    OBVIOUS
  <2> HIDE DEF missed
  <2> QED
    BY <1>1, <2>1, LeastOfNat
<1>3. m # 0
  <2>1. Reached(0)
    <3>1. [k \in 0 .. 0 |-> base] \in [0 .. 0 -> S] /\ Unfolds([k \in 0 .. 0 |-> base], base, step, 0)
      BY DEF Unfolds
    <3> QED
      BY <3>1
  <2> QED
    BY <2>1
<1>4. m \in 1 .. n /\ m - 1 \in 0 .. n /\ ~(m - 1 \in missed)
  BY <1>2, <1>3
<1>5. PICK f \in [0 .. m - 1 -> S] : Unfolds(f, base, step, m - 1)
  BY <1>4
<1> DEFINE g == [k \in 0 .. m |-> IF k = m THEN step[<<f[m - 1], m>>] ELSE f[k]]
<1>6. f[m - 1] \in S /\ step[<<f[m - 1], m>>] \in S
  BY <1>4, <1>5
<1>7. g \in [0 .. m -> S]
  BY <1>4, <1>5, <1>6
<1>8. Unfolds(g, base, step, m)
  <2>1. g[0] = base
    BY <1>4, <1>5 DEF Unfolds
  <2>2. ASSUME NEW k \in 1 .. m PROVE g[k] = step[<<g[k - 1], k>>]
    <3>1. CASE k = m
      BY <1>4, <3>1
    <3>2. CASE k # m
      <4>1. k \in 1 .. m - 1 /\ g[k] = f[k] /\ g[k - 1] = f[k - 1]
        BY <1>4, <3>2
      <4> QED
        BY <1>5, <4>1 DEF Unfolds
    <3> QED
      BY <3>1, <3>2
  <2> QED
    BY <2>1, <2>2 DEF Unfolds
<1> HIDE DEF g
<1>9. Reached(m)
  BY <1>7, <1>8
<1> QED
  BY <1>2, <1>9

\* What holds before the first line, and after a line if it held before, holds to the end.
LEMMA HoldsToTheEnd ==
  ASSUME NEW n \in Nat, NEW T, 0 \in T, \A k \in 1 .. n : k - 1 \in T => k \in T
  PROVE  \A k \in 0 .. n : k \in T
<1> DEFINE missed == {k \in 0 .. n : k \notin T}
<1>1. SUFFICES ASSUME missed # {} PROVE FALSE
  OBVIOUS
<1>2. PICK m \in missed : \A q \in missed : ~(q < m)
  <2>1. missed \subseteq Nat
    OBVIOUS
  <2> HIDE DEF missed
  <2> QED
    BY <1>1, <2>1, LeastOfNat
<1>3. m \in 1 .. n /\ m - 1 \in 0 .. n /\ m - 1 \notin missed
  BY <1>2
<1> QED
  BY <1>2, <1>3

\* The texts that are asked about are sequences.
LEMMA UpToIsSeq ==
  ASSUME NEW S, NEW n \in Nat, NEW q \in UpTo(S, n)
  PROVE  q \in Seq(S) /\ Len(q) \in Nat /\ DOMAIN q = 1 .. Len(q) /\ \A i \in 1 .. Len(q) : q[i] \in S
<1>1. PICK k \in 0 .. n : q \in [1 .. k -> S]
  BY DEF UpTo
<1>2. q \in Seq(S)
  BY <1>1, IsASeq
<1> QED
  BY <1>2, LenProperties, ElementOfSeq

\* The number of flags grows skill by skill.
LEMMA NumberCounts ==
  ASSUME NEW F, NEW flags \in Seq(F), \A fs \in F : IsFiniteSet(fs), NEW severity
  PROVE  \E f \in [0 .. Len(flags) -> Nat] :
           /\ f[0] = 0 /\ f[Len(flags)] = Number(flags, severity)
           /\ \A k \in 1 .. Len(flags) : f[k] = f[k - 1] + Cardinality(Severe(flags[k], severity))
<1> DEFINE n == Len(flags)
           Own(k) == Cardinality(Severe(flags[k], severity))
           step == [p \in Nat \X (1 .. n) |-> p[1] + Own(p[2])]
           upTo == CHOOSE f : f = [k \in 0 .. n |-> IF k = 0 THEN 0 ELSE f[k - 1] + Own(k)]
<1>1. n \in Nat
  BY LenProperties
<1>2. \A k \in 1 .. n : Own(k) \in Nat
  <2>1. TAKE k \in 1 .. n
  <2>2. IsFiniteSet(flags[k])
    BY ElementOfSeq
  <2>3. IsFiniteSet(Severe(flags[k], severity))
    BY <2>2, FS_Subset DEF Severe
  <2> QED
    BY <2>3, FS_CardinalityType
<1> HIDE DEF Own
<1>3. step \in [Nat \X (1 .. n) -> Nat]
  BY <1>2
<1>4. PICK f \in [0 .. n -> Nat] : Unfolds(f, 0, step, n)
  <2> HIDE DEF n, step
  <2> QED
    BY <1>1, <1>3, StepsUnfold
<1>5. \A k \in 1 .. n : f[k] = f[k - 1] + Own(k)
  <2>1. TAKE k \in 1 .. n
  <2>2. k - 1 \in 0 .. n /\ f[k - 1] \in Nat
    BY <1>1
  <2> QED
    BY <1>4, <2>2 DEF Unfolds
<1>6. f = [k \in 0 .. n |-> IF k = 0 THEN 0 ELSE f[k - 1] + Own(k)]
  BY <1>1, <1>4, <1>5 DEF Unfolds
<1>7. upTo = [k \in 0 .. n |-> IF k = 0 THEN 0 ELSE upTo[k - 1] + Own(k)]
  BY <1>6
<1>8. Number(flags, severity) = upTo[n]
  BY DEF Number, Own
<1> HIDE DEF upTo
<1>9. upTo \in [0 .. n -> Nat]
  <2> DEFINE T == {k \in 0 .. n : upTo[k] \in Nat}
  <2>1. 0 \in T
    BY <1>1, <1>7
  <2>2. \A k \in 1 .. n : k - 1 \in T => k \in T
    BY <1>1, <1>2, <1>7
  <2>3. \A k \in 0 .. n : k \in T
    <3> HIDE DEF T, n
    <3> QED
      BY <1>1, <2>1, <2>2, HoldsToTheEnd
  <2> QED
    BY <1>7, <2>3
<1>10. upTo[0] = 0 /\ \A k \in 1 .. n : upTo[k] = upTo[k - 1] + Own(k)
  BY <1>1, <1>7
<1> QED
  BY <1>8, <1>9, <1>10 DEF Own
-----------------------------------------------------------------------------
(* What is told of a pack.                                                 *)

\* A finite set, with a number beside each element.
LEMMA Numbered ==
  ASSUME NEW S, IsFiniteSet(S), NEW m
  PROVE  IsFiniteSet({<<m, x>> : x \in S}) /\ Cardinality({<<m, x>> : x \in S}) = Cardinality(S)
<1> DEFINE T == {<<m, x>> : x \in S}
           f == [x \in S |-> <<m, x>>]
<1>1. f \in Bijection(S, T)
  <2>1. f \in [S -> T] /\ \A a, b \in S : f[a] = f[b] => a = b
    OBVIOUS
  <2>2. \A t \in T : \E s \in S : f[s] = t
    OBVIOUS
  <2> QED
    BY <2>1, <2>2 DEF Bijection, Injection, Surjection, IsInjective
<1>2. ExistsBijection(S, T)
  BY <1>1 DEF ExistsBijection
<1> QED
  BY <1>2, FS_Bijection

\* Two finite sets without a common element.
LEMMA Disjoint ==
  ASSUME NEW A, NEW B, IsFiniteSet(A), IsFiniteSet(B), A \cap B = {}
  PROVE  IsFiniteSet(A \cup B) /\ Cardinality(A \cup B) = Cardinality(A) + Cardinality(B)
<1>1. IsFiniteSet(A \cup B) /\ Cardinality(A \cup B) = Cardinality(A) + Cardinality(B) - Cardinality(A \cap B)
  BY FS_Union
<1>2. Cardinality(A \cap B) = 0 /\ Cardinality(A) \in Nat /\ Cardinality(B) \in Nat
  BY FS_EmptySet, FS_CardinalityType
<1> QED
  BY <1>1, <1>2

\* The flags of a skill are finitely many, each an error or a warning.
LEMMA FlagsFinite ==
  ASSUME NEW s \in PackSkill \cup {NotRead}, NEW domain
  PROVE  /\ IsFiniteSet(detectGenericTriggerWords(s, domain))
         /\ \A f \in detectGenericTriggerWords(s, domain) : f.severity \in {"error", "warning"}
<1> DEFINE NewName(t) == IF domain = "" THEN {} ELSE {domain, t}
           InName(t) == [token |-> t, location |-> "name", severity |-> "error", suggested |-> NewName(t)]
           InText(t) == [token |-> t, location |-> "description", severity |-> "warning", suggested |-> NewName(t)]
           A == s.name \cap GenericTrigger
           B == (s.description \ s.name) \cap GenericTrigger
           f == [t \in A |-> InName(t)]
           g == [t \in B |-> InText(t)]
           FA == {InName(t) : t \in A}
           FB == {InText(t) : t \in B}
<1>1. IsFiniteSet(A) /\ IsFiniteSet(B)
  <2>1. IsFiniteSet(s.name) /\ IsFiniteSet(s.description)
    <3>1. CASE s \in PackSkill
      BY <3>1, ReportAssumption
    <3>2. CASE s = NotRead
      BY <3>2, FS_EmptySet DEF NotRead
    <3> QED
      BY <3>1, <3>2
  <2>2. A \in SUBSET s.name /\ B \in SUBSET s.description
    OBVIOUS
  <2> QED
    BY <2>1, <2>2, FS_Subset
<1>2. detectGenericTriggerWords(s, domain) = FA \cup FB
  BY DEF detectGenericTriggerWords
<1>3. /\ \A x \in FA : x.severity = "error" /\ x.location = "name"
      /\ \A x \in FB : x.severity = "warning" /\ x.location = "description"
  <2>1. ASSUME NEW x \in FA PROVE x.severity = "error" /\ x.location = "name"
    <3>1. PICK t \in A : x = InName(t)
      OBVIOUS
    <3> QED
      BY <3>1
  <2>2. ASSUME NEW x \in FB PROVE x.severity = "warning" /\ x.location = "description"
    <3>1. PICK t \in B : x = InText(t)
      OBVIOUS
    <3> QED
      BY <3>1
  <2> QED
    BY <2>1, <2>2
<1> HIDE DEF InName, InText, A, B
<1>4. f \in Surjection(A, FA) /\ g \in Surjection(B, FB)
  BY DEF Surjection
<1> HIDE DEF FA, FB, f, g
<1>5. IsFiniteSet(FA) /\ IsFiniteSet(FB)
  BY <1>1, <1>4, FS_Surjection
<1>6. IsFiniteSet(FA \cup FB)
  BY <1>5, FS_Union
<1> QED
  BY <1>2, <1>3, <1>6

\* Errors and warnings together are the flags of all skills, each once for each skill.
LEMMA FlagsCounted ==
  ASSUME NEW F, NEW flags \in Seq(F), \A fs \in F : IsFiniteSet(fs) /\ \A f \in fs : f.severity \in {"error", "warning"}
  PROVE  Number(flags, "error") + Number(flags, "warning") =
           Cardinality({p \in (DOMAIN flags) \X (UNION ToSet(flags)) : p[2] \in flags[p[1]]})
<1> DEFINE n == Len(flags)
           All == UNION ToSet(flags)
           Pairs(m) == {p \in (1 .. m) \X All : p[2] \in flags[p[1]]}
           Of(m, severity) == Severe(flags[m], severity)
<1>1. n \in Nat /\ DOMAIN flags = 1 .. n /\ \A m \in 1 .. n : flags[m] \in F /\ flags[m] \subseteq All
  BY LenProperties, ElementOfSeq DEF ToSet
<1>a. \A fs \in F : IsFiniteSet(fs)
  OBVIOUS
<1>2. PICK e \in [0 .. n -> Nat] : /\ e[0] = 0 /\ e[n] = Number(flags, "error")
                                   /\ \A k \in 1 .. n : e[k] = e[k - 1] + Cardinality(Of(k, "error"))
  BY <1>a, NumberCounts
<1>3. PICK w \in [0 .. n -> Nat] : /\ w[0] = 0 /\ w[n] = Number(flags, "warning")
                                   /\ \A k \in 1 .. n : w[k] = w[k - 1] + Cardinality(Of(k, "warning"))
  BY <1>a, NumberCounts
<1> DEFINE T == {m \in 0 .. n : IsFiniteSet(Pairs(m)) /\ Cardinality(Pairs(m)) = e[m] + w[m]}
<1>4. 0 \in T
  <2>1. Pairs(0) = {}
    OBVIOUS
  <2>2. IsFiniteSet({}) /\ Cardinality({}) = 0
    BY FS_EmptySet
  <2> HIDE DEF Pairs
  <2>3. IsFiniteSet(Pairs(0)) /\ Cardinality(Pairs(0)) = e[0] + w[0]
    <3>1. e[0] + w[0] = 0
      BY <1>2, <1>3
    <3> HIDE DEF T
    <3> QED
      BY <2>1, <2>2, <3>1
  <2>4. 0 \in 0 .. n
    BY <1>1
  <2> QED
    BY <2>3, <2>4
<1>5. ASSUME NEW m \in 1 .. n, m - 1 \in T PROVE m \in T
  <2> DEFINE Own == {<<m, x>> : x \in flags[m]}
  <2>1. IsFiniteSet(flags[m]) /\ flags[m] = Of(m, "error") \cup Of(m, "warning") /\ Of(m, "error") \cap Of(m, "warning") = {}
    BY <1>1 DEF Severe
  <2>2. Of(m, "error") \in SUBSET flags[m] /\ Of(m, "warning") \in SUBSET flags[m]
    BY DEF Severe
  <2> HIDE DEF Of
  <2>3. IsFiniteSet(Of(m, "error")) /\ IsFiniteSet(Of(m, "warning"))
    BY <2>1, <2>2, FS_Subset
  <2>4. Cardinality(Of(m, "error")) \in Nat /\ Cardinality(Of(m, "warning")) \in Nat
    BY <2>3, FS_CardinalityType
  <2>5. Cardinality(flags[m]) = Cardinality(Of(m, "error")) + Cardinality(Of(m, "warning"))
    BY <2>1, <2>3, Disjoint
  <2>6. IsFiniteSet(Own) /\ Cardinality(Own) = Cardinality(flags[m])
    BY <2>1, Numbered
  <2>7. Pairs(m) = Pairs(m - 1) \cup Own
    <3>1. ASSUME NEW p \in Pairs(m) PROVE p \in Pairs(m - 1) \cup Own
      <4>1. p = <<p[1], p[2]>> /\ p[1] \in 1 .. m /\ p[2] \in All /\ p[2] \in flags[p[1]]
        OBVIOUS
      <4>2. CASE p[1] = m
        BY <4>1, <4>2
      <4>3. CASE p[1] # m
        <5>1. p[1] \in 1 .. m - 1
          BY <1>1, <4>1, <4>3
        <5> QED
          BY <4>1, <5>1
      <4> QED
        BY <4>2, <4>3
    <3>2. Pairs(m - 1) \subseteq Pairs(m)
      BY <1>1
    <3>3. Own \subseteq Pairs(m)
      BY <1>1
    <3> QED
      BY <3>1, <3>2, <3>3
  <2>8. Pairs(m - 1) \cap Own = {}
    BY <1>1
  <2>9. IsFiniteSet(Pairs(m - 1)) /\ Cardinality(Pairs(m - 1)) = e[m - 1] + w[m - 1] /\ m - 1 \in 0 .. n
    BY <1>1, <1>5
  <2> HIDE DEF Pairs, Own
  <2>10. IsFiniteSet(Pairs(m)) /\ Cardinality(Pairs(m)) = Cardinality(Pairs(m - 1)) + Cardinality(Own)
    BY <2>6, <2>7, <2>8, <2>9, Disjoint
  <2>11. e[m] = e[m - 1] + Cardinality(Of(m, "error")) /\ w[m] = w[m - 1] + Cardinality(Of(m, "warning"))
    BY <1>2, <1>3 DEF Of
  <2>12. e[m - 1] \in Nat /\ w[m - 1] \in Nat
    BY <1>2, <1>3, <2>9
  <2> QED
    BY <2>4, <2>5, <2>6, <2>9, <2>10, <2>11, <2>12
<1>6. n \in T
  <2>1. \A m \in 0 .. n : m \in T
    <3> HIDE DEF T, n
    <3> QED
      BY <1>1, <1>4, <1>5, HoldsToTheEnd
  <2> HIDE DEF T
  <2> QED
    BY <1>1, <2>1
<1>7. Cardinality(Pairs(n)) = e[n] + w[n]
  BY <1>6
<1> QED
  BY <1>1, <1>2, <1>3, <1>7

\* The answer about a pack, whatever is in it.
LEMMA PackTold ==
  ASSUME NEW pack, NEW dirs \in UpTo(PackSkill, MaxPack), NEW unread \in SUBSET DOMAIN dirs, NEW check \in BOOLEAN,
         executeSkillPackAudit(pack, dirs, unread, check)
  PROVE  PackIsAccounted'
<1> DEFINE skills == [i \in DOMAIN dirs |-> IF i \in unread THEN NotRead ELSE dirs[i]]
           domain == derivePackDomain(pack, skills, Cardinality(DOMAIN dirs \ unread))
           flags == [i \in DOMAIN skills |-> detectGenericTriggerWords(skills[i], domain)]
           shared == overlappingTokens(pack, flags)
           kept == [i \in DOMAIN skills |-> withoutOverlap(flags[i], shared)]
           F == {kept[i] : i \in DOMAIN skills}
<1>1. SUFFICES ASSUME answer'.checked PROVE PackIsAccounted'
  BY DEF PackIsAccounted
<1> DEFINE n == Len(dirs)
<1>2. n \in Nat
  BY UpToIsSeq, ReportAssumption
<1>3. DOMAIN skills = 1 .. n /\ DOMAIN dirs = 1 .. n /\ \A i \in 1 .. n : skills[i] \in PackSkill \cup {NotRead}
  BY UpToIsSeq, ReportAssumption
<1> HIDE DEF n
<1>4. check
  BY <1>1 DEF executeSkillPackAudit
<1>5. /\ answer'.skills = dirs /\ answer'.unread = unread /\ answer'.flags = kept /\ answer'.reason = shared
      /\ answer'.namespace = IF pack \in GenericNamespace THEN {pack} ELSE {}
      /\ answer'.errorCount = Number(kept, "error") /\ answer'.warningCount = Number(kept, "warning")
  BY <1>4 DEF executeSkillPackAudit
<1>a. \A i \in DOMAIN dirs \ unread : i \in DOMAIN skills /\ skills[i] = dirs[i]
  OBVIOUS
<1> HIDE DEF domain, skills
<1>6. ASSUME NEW i \in DOMAIN skills, NEW t \in (skills[i].name \cup skills[i].description) \cap GenericTrigger
      PROVE  (\E f \in kept[i] : f.token = t) \/ (t \in shared /\ answer'.namespace # {})
  <2>1. PICK f \in flags[i] : f.token = t
    <3>1. \E f \in detectGenericTriggerWords(skills[i], domain) : f.token = t
      <4> DEFINE sug == IF domain = "" THEN {} ELSE {domain, t}
      <4>1. CASE t \in skills[i].name
        <5>1. [token |-> t, location |-> "name", severity |-> "error", suggested |-> sug] \in detectGenericTriggerWords(skills[i], domain)
          BY <4>1 DEF detectGenericTriggerWords
        <5> QED
          BY <5>1
      <4>2. CASE t \notin skills[i].name
        <5>1. [token |-> t, location |-> "description", severity |-> "warning", suggested |-> sug] \in detectGenericTriggerWords(skills[i], domain)
          BY <4>2 DEF detectGenericTriggerWords
        <5> QED
          BY <5>1
      <4> QED
        BY <4>1, <4>2
    <3> QED
      BY <3>1
  <2>2. CASE f \in kept[i]
    BY <2>1, <2>2
  <2>3. CASE f \notin kept[i]
    <3>1. f.token \in shared
      BY <2>1, <2>3 DEF withoutOverlap
    <3>2. pack \in GenericNamespace
      BY <3>1 DEF overlappingTokens
    <3> QED
      BY <1>5, <2>1, <3>1, <3>2
  <2> QED
    BY <2>2, <2>3
<1>7. ASSUME NEW fs \in F PROVE IsFiniteSet(fs) /\ \A f \in fs : f.severity \in {"error", "warning"}
  <2>1. PICK i \in 1 .. n : fs = withoutOverlap(flags[i], shared)
    BY <1>3
  <2>2. flags[i] = detectGenericTriggerWords(skills[i], domain) /\ skills[i] \in PackSkill \cup {NotRead}
    BY <1>3
  <2>3. fs \in SUBSET flags[i]
    BY <2>1 DEF withoutOverlap
  <2> QED
    BY <2>2, <2>3, FlagsFinite, FS_Subset
<1>8. kept \in Seq(F) /\ DOMAIN kept = DOMAIN skills
  <2>1. kept \in [1 .. n -> F]
    BY <1>3
  <2> QED
    <3> HIDE DEF F
    <3> QED
      BY <1>2, <1>3, <2>1, IsASeq
<1> HIDE DEF kept, F, shared
<1>9. Number(kept, "error") + Number(kept, "warning") =
        Cardinality({p \in (DOMAIN kept) \X (UNION ToSet(kept)) : p[2] \in kept[p[1]]})
  BY <1>7, <1>8, FlagsCounted
<1>b. \A i \in DOMAIN dirs \ unread : \A t \in (dirs[i].name \cup dirs[i].description) \cap GenericTrigger :
        (\E f \in kept[i] : f.token = t) \/ (t \in shared /\ answer'.namespace # {})
  BY <1>6, <1>a
<1> QED
  BY <1>3, <1>5, <1>8, <1>9, <1>b DEF PackIsAccounted
-----------------------------------------------------------------------------
(* What two versions differ in.                                            *)

\* In a version whose titles are all different a title has one section.
LEMMA TitlesDiffer ==
  ASSUME NEW doc \in Seq(Section), Untwined(doc)
  PROVE  /\ \A i, j \in DOMAIN doc : doc[i].title = doc[j].title => i = j
         /\ \A i \in DOMAIN doc : extractSectionBodies(doc)[doc[i].title] = doc[i].body
<1> DEFINE D == DOMAIN doc
           titles == extractHeadings(doc)
           f == [i \in D |-> doc[i].title]
<1>1. D = 1 .. Len(doc) /\ Len(doc) \in Nat
  BY LenProperties
<1>2. IsFiniteSet(D) /\ Cardinality(D) = Len(doc)
  <2>1. \A n \in Nat : IsFiniteSet(1 .. n) /\ Cardinality(1 .. n) = n
    BY FS_Interval
  <2> QED
    BY <1>1, <2>1
<1>3. f \in Surjection(D, titles)
  BY DEF Surjection, extractHeadings
<1>4. Cardinality(titles) = Cardinality(D)
  BY <1>2 DEF Untwined
<1> HIDE DEF D, f
<1>5. f \in Injection(D, titles)
  BY <1>2, <1>3, <1>4, FS_SurjSameCardinalityImpliesInj
<1>6. \A i, j \in D : doc[i].title = doc[j].title => i = j
  BY <1>5 DEF Injection, IsInjective, f
<1>7. ASSUME NEW i \in D PROVE extractSectionBodies(doc)[doc[i].title] = doc[i].body
  <2> DEFINE same == {k \in DOMAIN doc : doc[k].title = doc[i].title}
  <2>1. same = {i}
    BY <1>6, <1>7 DEF D
  <2>2. i \in Int
    BY <1>1, <1>7
  <2>3. Max(same) = i
    BY <2>1, <2>2 DEF Max
  <2>4. doc[i].title \in extractHeadings(doc)
    BY <1>7 DEF extractHeadings, D
  <2> QED
    BY <2>3, <2>4 DEF extractSectionBodies
<1> QED
  BY <1>6, <1>7 DEF D

\* Nothing to tell, just if the sections are the same.
LEMMA NothingTold ==
  ASSUME NEW old \in Seq(Section), NEW new \in Seq(Section), Untwined(old), Untwined(new)
  PROVE  /\ extractHeadings(old) = extractHeadings(new) /\ detectModifiedSections(old, new) = {} => ToSet(old) \subseteq ToSet(new)
         /\ ToSet(old) = ToSet(new) => extractHeadings(old) = extractHeadings(new) /\ detectModifiedSections(old, new) = {}
<1>1. /\ \A i \in DOMAIN old : old[i] \in Section /\ old[i] \in [title : STRING, body : STRING]
      /\ \A i \in DOMAIN new : new[i] \in Section /\ new[i] \in [title : STRING, body : STRING]
  BY ReportAssumption, ElementOfSeq, LenProperties
<1>2. ASSUME extractHeadings(old) = extractHeadings(new), detectModifiedSections(old, new) = {}, NEW i \in DOMAIN old
      PROVE  old[i] \in ToSet(new)
  <2>1. PICK j \in DOMAIN new : new[j].title = old[i].title
    BY <1>2 DEF extractHeadings
  <2>2. old[i].title \in extractHeadings(old) \cap extractHeadings(new)
    BY <1>2 DEF extractHeadings
  <2>3. extractSectionBodies(old)[old[i].title] = extractSectionBodies(new)[old[i].title]
    BY <1>2, <2>2 DEF detectModifiedSections
  <2>4. old[i].body = new[j].body
    BY <2>1, <2>3, TitlesDiffer
  <2>5. old[i] = new[j]
    BY <1>1, <2>1, <2>4
  <2> QED
    BY <2>5 DEF ToSet
<1>3. ASSUME ToSet(old) = ToSet(new)
      PROVE  extractHeadings(old) = extractHeadings(new) /\ detectModifiedSections(old, new) = {}
  <2>1. (\A i \in DOMAIN old : \E j \in DOMAIN new : old[i] = new[j]) /\ (\A j \in DOMAIN new : \E i \in DOMAIN old : old[i] = new[j])
    BY <1>3 DEF ToSet
  <2>2. extractHeadings(old) = extractHeadings(new)
    <3>1. ASSUME NEW t \in extractHeadings(old) PROVE t \in extractHeadings(new)
      BY <2>1 DEF extractHeadings
    <3>2. ASSUME NEW t \in extractHeadings(new) PROVE t \in extractHeadings(old)
      BY <2>1 DEF extractHeadings
    <3> QED
      BY <3>1, <3>2
  <2>3. ASSUME NEW t \in extractHeadings(old) PROVE extractSectionBodies(old)[t] = extractSectionBodies(new)[t]
    <3>1. PICK i \in DOMAIN old : old[i].title = t
      BY DEF extractHeadings
    <3>2. PICK j \in DOMAIN new : old[i] = new[j]
      BY <2>1
    <3>3. extractSectionBodies(old)[old[i].title] = old[i].body
      BY TitlesDiffer
    <3>4. extractSectionBodies(new)[new[j].title] = new[j].body
      BY TitlesDiffer
    <3> QED
      BY <3>1, <3>2, <3>3, <3>4
  <2> QED
    BY <2>2, <2>3 DEF detectModifiedSections
<1>4. ASSUME extractHeadings(old) = extractHeadings(new), detectModifiedSections(old, new) = {}
      PROVE  ToSet(old) \subseteq ToSet(new)
  BY <1>2, <1>4 DEF ToSet
<1> QED
  BY <1>3, <1>4

\* What is told of two versions is exact, and the same the other way round.
LEMMA DiffTold ==
  ASSUME NEW old \in UpTo(Section, MaxSections), NEW new \in UpTo(Section, MaxSections), executeSkillDiff(old, new)
  PROVE  DiffIsExact'
<1>1. answer' = Difference(old, new)
  BY DEF executeSkillDiff
<1>2. old \in Seq(Section) /\ new \in Seq(Section)
  BY ReportAssumption, UpToIsSeq
<1> DEFINE back == Difference(new, old)
           there == Difference(old, new)
<1>3. /\ there.old = old /\ there.new = new /\ there.added = extractHeadings(new) \ extractHeadings(old)
      /\ there.removed = extractHeadings(old) \ extractHeadings(new) /\ there.modified = detectModifiedSections(old, new)
      /\ back.added = extractHeadings(old) \ extractHeadings(new)
      /\ back.removed = extractHeadings(new) \ extractHeadings(old) /\ back.modified = detectModifiedSections(new, old)
  BY DEF Difference
<1>4. detectModifiedSections(new, old) = detectModifiedSections(old, new)
  BY DEF detectModifiedSections
<1>5. ASSUME Untwined(old), Untwined(new)
      PROVE  there.added \cup there.removed \cup there.modified = {} <=> ToSet(old) = ToSet(new)
  <2>1. ASSUME there.added \cup there.removed \cup there.modified = {} PROVE ToSet(old) = ToSet(new)
    <3>1. extractHeadings(old) = extractHeadings(new) /\ detectModifiedSections(old, new) = {}
      BY <1>3, <2>1
    <3>2. ToSet(old) \subseteq ToSet(new)
      BY <1>2, <1>5, <3>1, NothingTold
    <3>3. ToSet(new) \subseteq ToSet(old)
      BY <1>2, <1>4, <1>5, <3>1, NothingTold
    <3> QED
      BY <3>2, <3>3
  <2>2. ASSUME ToSet(old) = ToSet(new) PROVE there.added \cup there.removed \cup there.modified = {}
    BY <1>2, <1>3, <1>5, <2>2, NothingTold
  <2> QED
    BY <2>1, <2>2
<1> HIDE DEF back, there
<1>6. back = Difference(answer'.new, answer'.old) /\ answer' = there
  BY <1>1, <1>3 DEF back, there
<1> QED
  BY <1>3, <1>4, <1>5, <1>6 DEF DiffIsExact
-----------------------------------------------------------------------------
(* The frontmatter, as it is validated.                                    *)

Metadata == UNION {[K -> [kind : {"array", "scalar"}, values : Seq(STRING)]] : K \in SUBSET STRING}
Readings == [result : Metadata, key : STRING \cup {""}, buffer : Seq(STRING), block : BOOLEAN]

\* What a line is.
LEMMA LineTyped ==
  ASSUME NEW line \in FrontLine
  PROVE  /\ line.kind \in {"scalar", "open", "block", "item", "text"} /\ line.key \in STRING /\ line.value \in STRING
         /\ IsKey(line) <=> line.kind \in {"scalar", "open", "block"}
         /\ IsKey(line) => line.key # ""
  BY ReportAssumption DEF IsKey

\* One more key, or the same with other values.
IsWith(w, r, key, values) ==
  /\ w \in Metadata /\ DOMAIN w = DOMAIN r \cup {key} /\ w[key].values = values
  /\ \A k \in DOMAIN r : k # key => w[k] = r[k]

LEMMA WithIs ==
  ASSUME NEW r \in Metadata, NEW key \in STRING, NEW kind \in {"array", "scalar"}, NEW values \in Seq(STRING)
  PROVE  IsWith(With(r, key, kind, values), r, key, values)
<1> DEFINE V == [kind : {"array", "scalar"}, values : Seq(STRING)]
           w == With(r, key, kind, values)
<1>1. PICK K \in SUBSET STRING : r \in [K -> V]
  BY DEF Metadata
<1>2. [kind |-> kind, values |-> values] \in V
  OBVIOUS
<1> HIDE DEF V
<1>3. w \in [K \cup {key} -> V]
  BY <1>1, <1>2 DEF With
<1>4. K \cup {key} \in SUBSET STRING
  OBVIOUS
<1>5. w \in Metadata
  BY <1>3, <1>4 DEF Metadata, V
<1>6. w = [k \in K \cup {key} |-> IF k = key THEN [kind |-> kind, values |-> values] ELSE r[k]]
  BY <1>1 DEF With
<1> QED
  BY <1>1, <1>5, <1>6 DEF IsWith

LEMMA WithTyped ==
  ASSUME NEW r \in Metadata, NEW key \in STRING, NEW kind \in {"array", "scalar"}, NEW values \in Seq(STRING)
  PROVE  /\ With(r, key, kind, values) \in Metadata
         /\ DOMAIN With(r, key, kind, values) = DOMAIN r \cup {key}
         /\ With(r, key, kind, values)[key].values = values
         /\ \A k \in DOMAIN r : k # key => With(r, key, kind, values)[k] = r[k]
<1> DEFINE w == With(r, key, kind, values)
<1>1. IsWith(w, r, key, values)
  BY WithIs
<1> HIDE DEF w
<1>2. /\ w \in Metadata /\ DOMAIN w = DOMAIN r \cup {key} /\ w[key].values = values
      /\ \A k \in DOMAIN r : k # key => w[k] = r[k]
  BY <1>1 DEF IsWith
<1> QED
  BY <1>2 DEF w


\* What a key has collected becomes its value.
LEMMA FlushedTyped ==
  ASSUME NEW st \in Readings
  PROVE  /\ Flushed(st) \in Readings /\ Flushed(st).key = st.key /\ Flushed(st).block = st.block
         /\ st.key = "" => Flushed(st) = st
         /\ st.key # "" => Flushed(st).buffer = <<>>
         /\ st.key = "" \/ st.buffer = <<>> => Flushed(st).result = st.result
         /\ st.key # "" /\ st.buffer # <<>> => Flushed(st).result = With(st.result, st.key, "array", st.buffer)
<1>1. st.result \in Metadata /\ st.key \in STRING \cup {""} /\ st.buffer \in Seq(STRING)
  BY DEF Readings
<1>2. CASE st.key = "" \/ st.buffer = <<>>
  BY <1>2 DEF Flushed
<1>3. CASE ~(st.key = "" \/ st.buffer = <<>>)
  <2> DEFINE w == With(st.result, st.key, "array", st.buffer)
  <2>1. w \in Metadata
    BY <1>1, <1>3, WithTyped
  <2>2. Flushed(st) = [st EXCEPT !.result = w, !.buffer = <<>>]
    BY <1>3 DEF Flushed
  <2>3. <<>> \in Seq(STRING)
    OBVIOUS
  <2> HIDE DEF w
  <2>4. [st EXCEPT !.result = w, !.buffer = <<>>] \in Readings
    BY <2>1, <2>3 DEF Readings
  <2>5. /\ Flushed(st).result = w /\ Flushed(st).buffer = <<>> /\ Flushed(st).key = st.key
        /\ Flushed(st).block = st.block
    BY <2>2 DEF Readings
  <2> QED
    BY <1>3, <2>2, <2>4, <2>5 DEF w
<1> QED
  BY <1>2, <1>3

\* What each line does.
ParsedSo(st, line, next) ==
  /\ next \in Readings
  /\ line.kind = "item" /\ st.key = "" => next = st
  /\ line.kind = "item" /\ st.key # "" =>
       next.result = st.result /\ next.key = st.key /\ next.buffer = Append(st.buffer, line.value) /\ ~next.block
  /\ line.kind = "text" /\ ~st.block => next = st
  /\ line.kind = "text" /\ st.block =>
       next.result = st.result /\ next.key = st.key /\ next.buffer = Append(st.buffer, line.value) /\ next.block
  /\ line.kind = "scalar" =>
       /\ next.result = With(Flushed(st).result, line.key, "scalar", <<line.value>>)
       /\ next.key = "" /\ ~next.block /\ next.buffer = Flushed(st).buffer
  /\ line.kind \in {"open", "block"} =>
       /\ next.result = Flushed(st).result /\ next.key = line.key /\ next.buffer = <<>>
       /\ next.block <=> line.kind = "block"

\* Each line is parsed in one of these ways.
LEMMA LineParsed ==
  ASSUME NEW st \in Readings, NEW line \in FrontLine
  PROVE  ParsedSo(st, line, ParseLine(st, line))
<1> DEFINE next == ParseLine(st, line)
           more == Append(st.buffer, line.value)
           flushed == Flushed(st)
           w == With(flushed.result, line.key, "scalar", <<line.value>>)
<1>1. st.result \in Metadata /\ st.key \in STRING \cup {""} /\ st.buffer \in Seq(STRING) /\ st.block \in BOOLEAN
  BY DEF Readings
<1>2. line.kind \in {"scalar", "open", "block", "item", "text"} /\ line.key \in STRING /\ line.value \in STRING
  BY LineTyped
<1>3. more \in Seq(STRING) /\ <<line.value>> \in Seq(STRING) /\ <<>> \in Seq(STRING)
  <2>1. more \in Seq(STRING)
    <3> DEFINE S == STRING
    <3>1. st.buffer \in Seq(S) /\ line.value \in S
      BY <1>1, <1>2
    <3> HIDE DEF S
    <3>2. Append(st.buffer, line.value) \in Seq(S)
      BY <3>1, AppendProperties
    <3> QED
      BY <3>2 DEF S
  <2>2. <<line.value>> \in Seq(STRING)
    BY <1>2
  <2>3. <<>> \in Seq(STRING)
    BY EmptySeq
  <2> QED
    BY <2>1, <2>2, <2>3
<1>4. flushed \in Readings
  BY FlushedTyped
<1>5. flushed.result \in Metadata
  BY <1>4 DEF Readings
<1>6. w \in Metadata
  BY <1>2, <1>3, <1>5, WithTyped
<1> HIDE DEF more, flushed, w
<1>7. CASE line.kind = "item"
  <2>1. next = IF st.key = "" THEN st ELSE [st EXCEPT !.buffer = more, !.block = FALSE]
    BY <1>7 DEF ParseLine, more
  <2> QED
    BY <1>3, <1>7, <2>1 DEF ParsedSo, Readings, more
<1>8. CASE line.kind = "text"
  <2>1. next = IF st.block THEN [st EXCEPT !.buffer = more] ELSE st
    BY <1>8 DEF ParseLine, more
  <2> QED
    BY <1>1, <1>3, <1>8, <2>1 DEF ParsedSo, Readings, more
<1>9. CASE line.kind = "scalar"
  <2>1. next = [flushed EXCEPT !.result = w, !.key = "", !.block = FALSE]
    BY <1>9 DEF ParseLine, flushed, w
  <2>2. /\ next \in Readings /\ next.result = w /\ next.key = "" /\ ~next.block /\ next.buffer = flushed.buffer
    BY <1>3, <1>4, <1>6, <2>1 DEF Readings
  <2> QED
    BY <1>9, <2>2 DEF ParsedSo, w, flushed
<1>10. CASE line.kind \in {"open", "block"}
  <2>1. next = [flushed EXCEPT !.key = line.key, !.buffer = <<>>, !.block = line.kind = "block"]
    BY <1>10 DEF ParseLine, flushed
  <2>2. /\ next \in Readings /\ next.result = flushed.result /\ next.key = line.key /\ next.buffer = <<>>
        /\ next.block <=> line.kind = "block"
    BY <1>2, <1>3, <1>4, <2>1 DEF Readings
  <2> QED
    BY <1>10, <2>2 DEF ParsedSo, flushed
<1> QED
  BY <1>2, <1>7, <1>8, <1>9, <1>10

\* The parser reads one line after the other.
LEMMA LinesParsed ==
  ASSUME NEW lines \in Seq(FrontLine)
  PROVE  /\ Parsed(lines)[0] = Unread /\ \A k \in 0 .. Len(lines) : Parsed(lines)[k] \in Readings
         /\ \A k \in 1 .. Len(lines) : Parsed(lines)[k] = ParseLine(Parsed(lines)[k - 1], lines[k])
<1> DEFINE n == Len(lines)
           step == [p \in Readings \X (1 .. n) |-> ParseLine(p[1], lines[p[2]])]
           after == CHOOSE f : f = [k \in 0 .. n |-> IF k = 0 THEN Unread ELSE ParseLine(f[k - 1], lines[k])]
<1>1. n \in Nat /\ \A k \in 1 .. n : lines[k] \in FrontLine
  BY LenProperties, ElementOfSeq
<1>2. Unread \in Readings
  <2>1. [k \in {} |-> 0] \in [{} -> [kind : {"array", "scalar"}, values : Seq(STRING)]] /\ {} \in SUBSET STRING
    OBVIOUS
  <2>2. [k \in {} |-> 0] \in Metadata
    BY <2>1 DEF Metadata
  <2>3. <<>> \in Seq(STRING)
    BY EmptySeq
  <2> DEFINE nothing == [k \in {} |-> 0]
  <2>4. Unread = [result |-> nothing, key |-> "", buffer |-> <<>>, block |-> FALSE]
    BY DEF Unread
  <2> HIDE DEF nothing
  <2> QED
    BY <2>2, <2>3, <2>4 DEF Readings, nothing
<1>3. step \in [Readings \X (1 .. n) -> Readings]
  <2>1. ASSUME NEW p \in Readings \X (1 .. n) PROVE ParseLine(p[1], lines[p[2]]) \in Readings
    <3>1. p[1] \in Readings /\ lines[p[2]] \in FrontLine
      BY <1>1, <2>1
    <3> QED
      BY <3>1, LineParsed DEF ParsedSo
  <2> QED
    BY <2>1
<1>4. PICK f \in [0 .. n -> Readings] : Unfolds(f, Unread, step, n)
  <2> HIDE DEF n, step
  <2> QED
    BY <1>1, <1>2, <1>3, StepsUnfold
<1>5. \A k \in 1 .. n : f[k] = ParseLine(f[k - 1], lines[k])
  <2>1. TAKE k \in 1 .. n
  <2>2. k - 1 \in 0 .. n /\ f[k - 1] \in Readings
    BY <1>1
  <2> QED
    BY <1>4, <2>2 DEF Unfolds
<1>6. f = [k \in 0 .. n |-> IF k = 0 THEN Unread ELSE ParseLine(f[k - 1], lines[k])]
  BY <1>1, <1>4, <1>5 DEF Unfolds
<1>7. after = [k \in 0 .. n |-> IF k = 0 THEN Unread ELSE ParseLine(after[k - 1], lines[k])]
  BY <1>6
<1>8. Parsed(lines) = after
  BY DEF Parsed
<1> HIDE DEF after
<1>9. after[0] = Unread /\ \A k \in 1 .. n : after[k] = ParseLine(after[k - 1], lines[k])
  BY <1>1, <1>7
<1>10. \A k \in 0 .. n : after[k] \in Readings
  <2> DEFINE T == {k \in 0 .. n : after[k] \in Readings}
  <2>1. 0 \in T
    BY <1>1, <1>2, <1>9
  <2>2. \A k \in 1 .. n : k - 1 \in T => k \in T
    <3>1. TAKE k \in 1 .. n
    <3>2. k \in 0 .. n /\ k - 1 \in 0 .. n /\ lines[k] \in FrontLine /\ after[k] = ParseLine(after[k - 1], lines[k])
      BY <1>1, <1>9
    <3>3. after[k - 1] \in Readings => ParseLine(after[k - 1], lines[k]) \in Readings
      BY <3>2, LineParsed DEF ParsedSo
    <3> QED
      BY <3>2, <3>3
  <2>3. \A k \in 0 .. n : k \in T
    <3> HIDE DEF T, n
    <3> QED
      BY <1>1, <2>1, <2>2, HoldsToTheEnd
  <2> QED
    BY <2>3
<1> QED
  BY <1>8, <1>9, <1>10
-----------------------------------------------------------------------------
(* What the lines say.                                                     *)

\* Of finitely many lines there are finitely many.
LEMMA FirstLines ==
  ASSUME NEW n \in Nat, NEW P \in SUBSET (1 .. n)
  PROVE  IsFiniteSet(P) /\ Cardinality(P) \in Nat
BY FS_Interval, FS_Subset, FS_CardinalityType, 1 \in Int, n \in Int

\* A later line is the last in order.
LEMMA InOrderGrows ==
  ASSUME NEW lines, NEW n \in Nat, NEW P \in SUBSET (1 .. n)
  PROVE  InOrder(lines, P \cup {n + 1}) = Append(InOrder(lines, P), lines[n + 1].value)
<1> DEFINE c == Cardinality(P)
           Q == P \cup {n + 1}
           old == InOrder(lines, P)
           new == InOrder(lines, Q)
           value == lines[n + 1].value
           Before(R, j) == {l \in R : l < j}
<1>1. IsFiniteSet(P) /\ c \in Nat /\ n + 1 \notin P
  BY FirstLines
<1>2. Cardinality(Q) = c + 1
  BY <1>1, FS_AddElement
<1>3. \A j \in P : Before(Q, j) = Before(P, j) /\ Cardinality(Before(P, j)) \in Nat /\ Cardinality(Before(P, j)) < c
  <2>1. TAKE j \in P
  <2>2. Before(P, j) \subseteq P /\ j \notin Before(P, j) /\ Before(Q, j) = Before(P, j)
    OBVIOUS
  <2>3. Before(P, j) # P
    BY <2>2
  <2> HIDE DEF Before
  <2>4. IsFiniteSet(Before(P, j)) /\ Cardinality(Before(P, j)) \in Nat
    BY <1>1, <2>2, FS_Subset, FS_CardinalityType
  <2>5. Cardinality(Before(P, j)) <= c /\ (Cardinality(Before(P, j)) = c => Before(P, j) = P)
    BY <1>1, <2>2, FS_Subset
  <2> QED
    BY <1>1, <2>2, <2>3, <2>4, <2>5
<1>4. Before(Q, n + 1) = P
  <2>1. \A l \in P : l < n + 1
    OBVIOUS
  <2>2. ~(n + 1 < n + 1)
    OBVIOUS
  <2> QED
    BY <2>1, <2>2
<1>5. ASSUME NEW k \in 1 .. c PROVE Nth(Q, k) = Nth(P, k)
  <2>1. \A j \in P : Cardinality(Before(Q, j)) = Cardinality(Before(P, j))
    BY <1>3
  <2>2. Cardinality(Before(Q, n + 1)) # k - 1
    BY <1>1, <1>4
  <2> QED
    BY <2>1, <2>2 DEF Nth
<1>6. Nth(Q, c + 1) = {n + 1}
  <2>1. \A j \in P : Cardinality(Before(Q, j)) # c
    BY <1>1, <1>3
  <2>2. Cardinality(Before(Q, n + 1)) = c
    BY <1>4
  <2> QED
    <3>1. (c + 1) - 1 = c
      BY <1>1
    <3>2. Nth(Q, c + 1) = {j \in Q : Cardinality(Before(Q, j)) = c}
      BY <3>1 DEF Nth
    <3> HIDE DEF Before, c
    <3> QED
      BY <2>1, <2>2, <3>2
<1> HIDE DEF c, Before
<1>7. old = [k \in 1 .. c |-> lines[CHOOSE j \in Nth(P, k) : TRUE].value]
  BY DEF InOrder, c
<1>8. new = [k \in 1 .. c + 1 |-> lines[CHOOSE j \in Nth(Q, k) : TRUE].value]
  BY <1>2 DEF InOrder
<1> DEFINE S == {old[k] : k \in 1 .. c} \cup {value}
<1> HIDE DEF old, new, Q, value
<1>9. old \in Seq(S) /\ Len(old) = c
  <2>1. old \in [1 .. c -> S]
    BY <1>7
  <2> QED
    BY <1>1, <2>1, IsASeq, LenProperties
<1>10. value \in S
  OBVIOUS
<1> HIDE DEF S
<1>11. /\ Append(old, value) \in Seq(S) /\ Len(Append(old, value)) = c + 1
       /\ \A k \in 1 .. c : Append(old, value)[k] = old[k]
       /\ Append(old, value)[c + 1] = value
  BY <1>1, <1>9, <1>10, AppendProperties
<1>12. Append(old, value) \in [1 .. c + 1 -> S]
  BY <1>11, LenProperties, ElementOfSeq
<1>13. \A k \in 1 .. c : new[k] = old[k]
  BY <1>1, <1>5, <1>7, <1>8
<1>14. new[c + 1] = value
  <2>1. (CHOOSE j \in Nth(Q, c + 1) : TRUE) = n + 1
    BY <1>6
  <2> QED
    <3>1. c + 1 \in 1 .. c + 1
      BY <1>1
    <3>2. new[c + 1] = lines[CHOOSE j \in Nth(Q, c + 1) : TRUE].value
      BY <1>8, <3>1
    <3> QED
      BY <2>1, <3>2 DEF value
<1>15. \A k \in 1 .. c + 1 : new[k] = Append(old, value)[k]
  BY <1>1, <1>11, <1>13, <1>14
<1> QED
  BY <1>8, <1>12, <1>15 DEF old, new, Q, value

\* Of no lines nothing is said.
LEMMA NothingInOrder ==
  ASSUME NEW lines
  PROVE  InOrder(lines, {}) = <<>>
BY FS_EmptySet DEF InOrder

\* A key says no more once another began.
LEMMA SaidAlready ==
  ASSUME NEW lines \in Seq(FrontLine), NEW n \in Nat, n + 1 <= Len(lines), NEW j \in 1 .. n,
         \/ \E k \in j + 1 .. n + 1 : IsKey(lines[k])
         \/ lines[j].kind = "scalar"
  PROVE  HoldsBy(lines, j, n + 1) = HoldsBy(lines, j, n)
<1>1. CASE lines[j].kind = "scalar"
  BY <1>1 DEF HoldsBy
<1>2. CASE \E k \in j + 1 .. n + 1 : IsKey(lines[k])
  <2>1. Below(lines, j, n + 1) = Below(lines, j, n)
    <3>1. PICK k \in j + 1 .. n + 1 : IsKey(lines[k])
      BY <1>2
    <3>2. n + 1 \notin Below(lines, j, n + 1)
      BY <3>1 DEF Below
    <3>3. \A i \in j + 1 .. n + 1 : i # n + 1 => i \in j + 1 .. n
      OBVIOUS
    <3>4. \A i \in j + 1 .. n : i \in j + 1 .. n + 1
      OBVIOUS
    <3> QED
      BY <3>2, <3>3, <3>4 DEF Below
  <2> QED
    BY <2>1 DEF HoldsBy, Counting
<1> QED
  BY <1>1, <1>2

\* The key of which the lines speak.
SpokenOf(lines, i, n) ==
  /\ i \in 0 .. n /\ (i # 0 => IsKey(lines[i]))
  /\ \A k \in i + 1 .. n : ~IsKey(lines[k])

\* A line below a key adds its value to what is said of the key, or nothing.
LEMMA KeySaysMore ==
  ASSUME NEW lines \in Seq(FrontLine), NEW n \in Nat, n + 1 <= Len(lines), NEW i \in 1 .. n,
         SpokenOf(lines, i, n), ~IsKey(lines[n + 1]), lines[i].kind # "scalar"
  PROVE  LET more == \/ lines[n + 1].kind = "item"
                     \/ lines[i].kind = "block" /\ \A k \in i + 1 .. n + 1 : lines[k].kind = "text" IN
         HoldsBy(lines, i, n + 1) = IF more THEN Append(HoldsBy(lines, i, n), lines[n + 1].value) ELSE HoldsBy(lines, i, n)
<1> DEFINE more == \/ lines[n + 1].kind = "item"
                   \/ lines[i].kind = "block" /\ \A k \in i + 1 .. n + 1 : lines[k].kind = "text"
           P == Counting(lines, i, n)
<1>1. Below(lines, i, n) = i + 1 .. n /\ Below(lines, i, n + 1) = i + 1 .. n + 1
  BY DEF Below, SpokenOf
<1>2. (i + 1 .. n + 1) = (i + 1 .. n) \cup {n + 1} /\ n + 1 \notin i + 1 .. n
  OBVIOUS
<1>3. Counting(lines, i, n + 1) = IF more THEN P \cup {n + 1} ELSE P
  BY <1>1, <1>2 DEF Counting
<1>4. P \in SUBSET (1 .. n)
  BY <1>1 DEF Counting
<1>5. InOrder(lines, P \cup {n + 1}) = Append(InOrder(lines, P), lines[n + 1].value)
  BY <1>4, InOrderGrows
<1>6. HoldsBy(lines, i, n) = InOrder(lines, P) /\ HoldsBy(lines, i, n + 1) = InOrder(lines, Counting(lines, i, n + 1))
  BY DEF HoldsBy
<1> HIDE DEF P, more
<1>7. HoldsBy(lines, i, n + 1) = IF more THEN Append(HoldsBy(lines, i, n), lines[n + 1].value) ELSE HoldsBy(lines, i, n)
  BY <1>3, <1>5, <1>6
<1> QED
  BY <1>7 DEF more
-----------------------------------------------------------------------------
(* The result is what the lines say.                                       *)

Full(lines, m, n) == {j \in 1 .. m : IsKey(lines[j]) /\ HoldsBy(lines, j, n) # <<>>}

\* The result has the keys of these lines, each with what its last one holds.
ReadAs(result, lines, F, n) ==
  /\ DOMAIN result = {lines[j].key : j \in F}
  /\ \A j \in F : (\A k \in F : lines[k].key = lines[j].key => k <= j) => result[lines[j].key].values = HoldsBy(lines, j, n)

\* After n lines, of which line i is the last with a key.
ReadSoFar(st, lines, i, n) ==
  IF i = 0 \/ lines[i].kind = "scalar"
  THEN st.key = "" /\ st.buffer = <<>> /\ ~st.block /\ ReadAs(st.result, lines, Full(lines, n, n), n)
  ELSE /\ st.key = lines[i].key /\ st.buffer = HoldsBy(lines, i, n)
       /\ st.block <=> lines[i].kind = "block" /\ \A k \in i + 1 .. n : lines[k].kind = "text"
       /\ ReadAs(st.result, lines, Full(lines, i - 1, n), n)

\* The result with one more key is what the lines with that key say.
LEMMA OneMoreKey ==
  ASSUME NEW lines \in Seq(FrontLine), NEW i \in 1 .. Len(lines), NEW F \in SUBSET (1 .. i - 1), NEW n \in Nat,
         NEW r \in Metadata, ReadAs(r, lines, F, n), NEW kind \in {"array", "scalar"}, NEW values \in Seq(STRING),
         values = HoldsBy(lines, i, n)
  PROVE  ReadAs(With(r, lines[i].key, kind, values), lines, F \cup {i}, n)
<1> DEFINE key == lines[i].key
           w == With(r, key, kind, values)
<1>1. key \in STRING
  BY LineTyped, ElementOfSeq
<1>2. /\ DOMAIN w = DOMAIN r \cup {key} /\ w[key].values = values
      /\ \A k \in DOMAIN r : k # key => w[k] = r[k]
  <2>1. r \in Metadata /\ kind \in {"array", "scalar"} /\ values \in Seq(STRING)
    OBVIOUS
  <2> HIDE DEF key
  <2>2. IsWith(w, r, key, values)
    BY <1>1, <2>1, WithIs
  <2> HIDE DEF w
  <2> QED
    BY <2>2 DEF IsWith
<1> HIDE DEF w
<1>3. DOMAIN w = {lines[j].key : j \in F \cup {i}}
  BY <1>2 DEF ReadAs
<1>4. ASSUME NEW j \in F \cup {i}, \A k \in F \cup {i} : lines[k].key = lines[j].key => k <= j
      PROVE  w[lines[j].key].values = HoldsBy(lines, j, n)
  <2>1. CASE j = i
    BY <1>2, <2>1
  <2>2. CASE j # i
    <3>1. j \in F /\ j < i /\ ~(i <= j)
      BY <2>2
    <3>2. lines[j].key # key
      BY <1>4, <3>1
    <3>3. lines[j].key \in DOMAIN r
      BY <3>1 DEF ReadAs
    <3>4. r[lines[j].key].values = HoldsBy(lines, j, n)
      BY <1>4, <3>1 DEF ReadAs
    <3> QED
      BY <1>2, <3>2, <3>3, <3>4
  <2> QED
    BY <2>1, <2>2
<1>5. ReadAs(w, lines, F \cup {i}, n)
  BY <1>3, <1>4 DEF ReadAs
<1> QED
  BY <1>5 DEF w

\* At the end of a key everything so far is read.
LEMMA KeyEnds ==
  ASSUME NEW lines \in Seq(FrontLine), NEW n \in 0 .. Len(lines), NEW st \in Readings,
         NEW i, SpokenOf(lines, i, n), ReadSoFar(st, lines, i, n)
  PROVE  ReadAs(Flushed(st).result, lines, Full(lines, n, n), n) /\ Flushed(st).buffer = <<>>
<1>0. n \in Nat /\ i \in 0 .. n /\ i \in 0 .. Len(lines) /\ Len(lines) \in Nat
  BY LenProperties DEF SpokenOf
<1>1. CASE i = 0 \/ lines[i].kind = "scalar"
  BY <1>1, FlushedTyped DEF ReadSoFar
<1>2. CASE ~(i = 0 \/ lines[i].kind = "scalar")
  <2>1. i \in 1 .. n /\ i \in 1 .. Len(lines) /\ lines[i] \in FrontLine /\ IsKey(lines[i]) /\ lines[i].key # ""
    <3>1. i \in 1 .. n /\ i \in 1 .. Len(lines)
      BY <1>0, <1>2
    <3>2. lines[i] \in FrontLine /\ IsKey(lines[i])
      BY <3>1, ElementOfSeq DEF SpokenOf
    <3> QED
      BY <3>1, <3>2, LineTyped
  <2>2. st.key = lines[i].key /\ st.buffer = HoldsBy(lines, i, n) /\ ReadAs(st.result, lines, Full(lines, i - 1, n), n)
    BY <1>2 DEF ReadSoFar
  <2>3. st.result \in Metadata /\ st.buffer \in Seq(STRING)
    BY DEF Readings
  <2>4. Full(lines, n, n) = Full(lines, i - 1, n) \cup (IF HoldsBy(lines, i, n) = <<>> THEN {} ELSE {i})
    <3>1. \A j \in 1 .. n : j < i \/ j = i \/ j \in i + 1 .. n
      BY <1>0
    <3>2. \A j \in 1 .. n : IsKey(lines[j]) => j < i \/ j = i
      BY <3>1 DEF SpokenOf
    <3>3. \A j \in 1 .. i - 1 : j \in 1 .. n
      BY <1>0
    <3>4. \A j \in 1 .. n : j < i => j \in 1 .. i - 1
      BY <1>0
    <3> QED
      BY <2>1, <3>2, <3>3, <3>4 DEF Full
  <2>5. CASE st.buffer = <<>>
    <3>1. Flushed(st).result = st.result /\ Flushed(st).buffer = <<>>
      BY <2>1, <2>2, <2>5, FlushedTyped
    <3>2. Full(lines, n, n) = Full(lines, i - 1, n)
      BY <2>2, <2>4, <2>5
    <3> QED
      BY <2>2, <3>1, <3>2
  <2>6. CASE st.buffer # <<>>
    <3>1. Flushed(st).result = With(st.result, lines[i].key, "array", st.buffer) /\ Flushed(st).buffer = <<>>
      BY <2>1, <2>2, <2>6, FlushedTyped
    <3>2. Full(lines, n, n) = Full(lines, i - 1, n) \cup {i}
      BY <2>2, <2>4, <2>6
    <3>3. Full(lines, i - 1, n) \in SUBSET (1 .. i - 1)
      BY DEF Full
    <3>4. ReadAs(With(st.result, lines[i].key, "array", st.buffer), lines, Full(lines, i - 1, n) \cup {i}, n)
      <4> DEFINE F == Full(lines, i - 1, n)
      <4> HIDE DEF F
      <4>1. n \in Nat /\ "array" \in {"array", "scalar"}
        BY <1>0
      <4>2. ReadAs(st.result, lines, F, n) /\ F \in SUBSET (1 .. i - 1)
        BY <2>2, <3>3 DEF F
      <4>3. ReadAs(With(st.result, lines[i].key, "array", st.buffer), lines, F \cup {i}, n)
        BY <2>1, <2>2, <2>3, <4>1, <4>2, OneMoreKey
      <4> QED
        BY <4>3 DEF F
    <3> QED
      BY <3>1, <3>2, <3>4
  <2> QED
    BY <2>5, <2>6
<1> QED
  BY <1>1, <1>2

\* What was read stays read: nothing is said of these keys any more.
LEMMA StaysRead ==
  ASSUME NEW lines \in Seq(FrontLine), NEW n \in Nat, n + 1 <= Len(lines), NEW m \in 0 .. n, NEW r,
         ReadAs(r, lines, Full(lines, m, n), n),
         \A j \in 1 .. m : IsKey(lines[j]) => HoldsBy(lines, j, n + 1) = HoldsBy(lines, j, n)
  PROVE  ReadAs(r, lines, Full(lines, m, n + 1), n + 1)
<1>1. Full(lines, m, n + 1) = Full(lines, m, n)
  BY DEF Full
<1>2. \A j \in Full(lines, m, n) : HoldsBy(lines, j, n + 1) = HoldsBy(lines, j, n)
  BY DEF Full
<1> QED
  BY <1>1, <1>2 DEF ReadAs

\* What is read of the first lines is what they say; so it is with the next line.
LEMMA NextLineRead ==
  ASSUME NEW lines \in Seq(FrontLine), NEW n \in Nat, n + 1 <= Len(lines), NEW st \in Readings,
         NEW i, SpokenOf(lines, i, n), ReadSoFar(st, lines, i, n)
  PROVE  \E j : SpokenOf(lines, j, n + 1) /\ ReadSoFar(ParseLine(st, lines[n + 1]), lines, j, n + 1)
<1> DEFINE line == lines[n + 1]
           next == ParseLine(st, line)
<1>1. Len(lines) \in Nat /\ i \in 0 .. n /\ n + 1 \in 1 .. Len(lines) /\ n \in 0 .. Len(lines)
  BY LenProperties DEF SpokenOf
<1>2. /\ line \in FrontLine /\ line.kind \in {"scalar", "open", "block", "item", "text"}
      /\ IsKey(line) <=> line.kind \in {"scalar", "open", "block"}
  <2>1. line \in FrontLine
    BY <1>1, ElementOfSeq
  <2> HIDE DEF line
  <2> QED
    BY <2>1, LineTyped
<1>3. st.result \in Metadata /\ st.key \in STRING \cup {""} /\ st.buffer \in Seq(STRING) /\ st.block \in BOOLEAN
  BY DEF Readings
<1>4. \A j \in 1 .. n : IsKey(lines[j]) /\ (j # i \/ IsKey(line)) => HoldsBy(lines, j, n + 1) = HoldsBy(lines, j, n)
  <2>1. SUFFICES ASSUME NEW j \in 1 .. n, IsKey(lines[j]), j # i \/ IsKey(line)
                 PROVE  HoldsBy(lines, j, n + 1) = HoldsBy(lines, j, n)
    OBVIOUS
  <2>2. CASE IsKey(line)
    <3>1. n + 1 \in j + 1 .. n + 1
      OBVIOUS
    <3> QED
      BY <2>2, <3>1, SaidAlready
  <2>3. CASE j # i
    <3>1. j < i /\ i # 0
      <4>1. ~(j \in i + 1 .. n)
        BY <2>1 DEF SpokenOf
      <4> QED
        BY <1>1, <2>3, <4>1
    <3>2. i \in j + 1 .. n + 1 /\ IsKey(lines[i])
      BY <1>1, <3>1 DEF SpokenOf
    <3> QED
      BY <3>2, SaidAlready
  <2> QED
    BY <2>1, <2>2, <2>3
<1>5. ParsedSo(st, line, next)
  BY <1>2, LineParsed
<1> HIDE DEF next
<1>6. CASE ~IsKey(line) /\ (i = 0 \/ lines[i].kind = "scalar")
  <2>1. st.key = "" /\ st.buffer = <<>> /\ ~st.block /\ ReadAs(st.result, lines, Full(lines, n, n), n)
    BY <1>6 DEF ReadSoFar
  <2>2. next = st
    BY <1>2, <1>5, <1>6, <2>1 DEF ParsedSo
  <2>3. \A j \in 1 .. n : IsKey(lines[j]) => HoldsBy(lines, j, n + 1) = HoldsBy(lines, j, n)
    <3>1. \A j \in 1 .. n : j = i => lines[j].kind = "scalar"
      BY <1>6
    <3>2. \A j \in 1 .. n : lines[j].kind = "scalar" => HoldsBy(lines, j, n + 1) = HoldsBy(lines, j, n)
      BY SaidAlready
    <3> QED
      BY <1>4, <3>1, <3>2
  <2>4. ReadAs(st.result, lines, Full(lines, n, n + 1), n + 1)
    <3>1. n \in 0 .. n
      OBVIOUS
    <3> QED
      BY <2>1, <2>3, <3>1, StaysRead
  <2>5. Full(lines, n + 1, n + 1) = Full(lines, n, n + 1)
    BY <1>6 DEF Full
  <2>6. SpokenOf(lines, i, n + 1)
    BY <1>1, <1>6 DEF SpokenOf
  <2>7. ReadSoFar(next, lines, i, n + 1)
    BY <1>6, <2>1, <2>2, <2>4, <2>5 DEF ReadSoFar
  <2> QED
    BY <2>6, <2>7 DEF next
<1>7. CASE ~IsKey(line) /\ ~(i = 0 \/ lines[i].kind = "scalar")
  <2>1. i \in 1 .. n /\ IsKey(lines[i]) /\ lines[i].key # ""
    <3>1. i \in 1 .. n /\ IsKey(lines[i]) /\ i \in 1 .. Len(lines)
      BY <1>1, <1>7 DEF SpokenOf
    <3>2. lines[i] \in FrontLine
      BY <3>1, ElementOfSeq
    <3> QED
      BY <3>1, <3>2, LineTyped
  <2>0. i \in Nat /\ 1 <= i /\ i <= n
    BY <1>1, <1>7
  <2> DEFINE plain(m) == lines[i].kind = "block" /\ \A k \in i + 1 .. m : lines[k].kind = "text"
  <2>2. /\ st.key = lines[i].key /\ st.buffer = HoldsBy(lines, i, n) /\ (st.block <=> plain(n))
        /\ ReadAs(st.result, lines, Full(lines, i - 1, n), n)
    BY <1>7 DEF ReadSoFar
  <2>3. plain(n + 1) <=> plain(n) /\ line.kind = "text"
    <3>1. (i + 1 .. n + 1) = (i + 1 .. n) \cup {n + 1}
      BY <2>0
    <3> QED
      BY <3>1
  <2>4. HoldsBy(lines, i, n + 1) = IF line.kind = "item" \/ plain(n + 1)
                                   THEN Append(HoldsBy(lines, i, n), line.value) ELSE HoldsBy(lines, i, n)
    BY <1>7, <2>1, KeySaysMore
  <2> HIDE DEF plain, line
  <2>5. next.key = lines[i].key /\ next.result = st.result /\ next.buffer = HoldsBy(lines, i, n + 1) /\ (next.block <=> plain(n + 1))
    BY <1>2, <1>5, <1>7, <2>1, <2>2, <2>3, <2>4 DEF ParsedSo
  <2>6. ReadAs(st.result, lines, Full(lines, i - 1, n + 1), n + 1)
    <3>1. i - 1 \in 0 .. n /\ \A j \in 1 .. i - 1 : j \in 1 .. n /\ j # i
      BY <2>0
    <3>2. \A j \in 1 .. i - 1 : IsKey(lines[j]) => HoldsBy(lines, j, n + 1) = HoldsBy(lines, j, n)
      BY <1>4, <3>1
    <3> QED
      BY <2>2, <3>1, <3>2, StaysRead
  <2>7. SpokenOf(lines, i, n + 1)
    <3>1. \A k \in i + 1 .. n + 1 : k \in i + 1 .. n \/ k = n + 1
      BY <2>0
    <3> QED
      BY <1>1, <1>7, <3>1 DEF SpokenOf, line
  <2>8. ReadSoFar(next, lines, i, n + 1)
    BY <1>7, <2>5, <2>6 DEF ReadSoFar, plain
  <2> QED
    BY <2>7, <2>8 DEF next, line
<1>8. CASE IsKey(line)
  <2>1. ReadAs(Flushed(st).result, lines, Full(lines, n, n), n) /\ Flushed(st).buffer = <<>>
    BY <1>1, KeyEnds
  <2>2. ReadAs(Flushed(st).result, lines, Full(lines, n, n + 1), n + 1)
    <3>1. n \in 0 .. n /\ \A j \in 1 .. n : IsKey(lines[j]) => HoldsBy(lines, j, n + 1) = HoldsBy(lines, j, n)
      BY <1>4, <1>8
    <3> QED
      BY <2>1, <3>1, StaysRead
  <2>3. SpokenOf(lines, n + 1, n + 1)
    BY <1>8 DEF SpokenOf
  <2>4. n + 1 # 0 /\ (n + 1) - 1 = n /\ ~\E k \in (n + 1) + 1 .. n + 1 : TRUE
    OBVIOUS
  <2>5. CASE line.kind = "scalar"
    <3> DEFINE r == Flushed(st).result
               values == <<line.value>>
               F == Full(lines, n, n + 1)
    <3>1. r \in Metadata /\ values \in Seq(STRING) /\ values # <<>>
      <4>1. line.value \in STRING
        BY <1>2, LineTyped DEF line
      <4>2. Flushed(st) \in Readings
        BY FlushedTyped
      <4>3. r \in Metadata
        BY <4>2 DEF Readings
      <4> QED
        BY <4>1, <4>3
    <3>2. HoldsBy(lines, n + 1, n + 1) = values
      BY <2>5 DEF HoldsBy
    <3>3. Full(lines, n + 1, n + 1) = F \cup {n + 1}
      <4>1. (1 .. n + 1) = (1 .. n) \cup {n + 1}
        OBVIOUS
      <4> QED
        BY <1>8, <3>1, <3>2, <4>1 DEF Full
    <3>4. ReadAs(With(r, line.key, "scalar", values), lines, F \cup {n + 1}, n + 1)
      <4>1. F \in SUBSET (1 .. (n + 1) - 1) /\ n + 1 \in Nat /\ "scalar" \in {"array", "scalar"}
        BY <2>4 DEF Full
      <4>2. ReadAs(r, lines, F, n + 1)
        BY <2>2
      <4> HIDE DEF r, values, F
      <4> QED
        BY <1>1, <3>1, <3>2, <4>1, <4>2, OneMoreKey
    <3>5. ReadSoFar(next, lines, n + 1, n + 1)
      BY <1>5, <2>1, <2>5, <3>3, <3>4 DEF ParsedSo, ReadSoFar
    <3> QED
      BY <2>3, <3>5 DEF next
  <2>6. CASE line.kind # "scalar"
    <3>1. line.kind \in {"open", "block"}
      BY <1>2, <1>8, <2>6
    <3>2. HoldsBy(lines, n + 1, n + 1) = <<>>
      <4>1. Counting(lines, n + 1, n + 1) = {}
        BY <2>4 DEF Counting, Below
      <4> QED
        BY <2>6, <4>1, NothingInOrder DEF HoldsBy
    <3>3. /\ next.result = Flushed(st).result /\ next.key = line.key /\ next.buffer = <<>>
          /\ next.block <=> line.kind = "block"
      BY <1>5, <3>1 DEF ParsedSo
    <3>4. ReadSoFar(next, lines, n + 1, n + 1)
      BY <2>2, <2>4, <2>6, <3>2, <3>3 DEF ReadSoFar
    <3> QED
      BY <2>3, <3>4 DEF next
  <2> QED
    BY <2>5, <2>6
<1> QED
  BY <1>6, <1>7, <1>8

\* The parser reads what the lines say.
LEMMA AllIsRead ==
  ASSUME NEW lines \in Seq(FrontLine)
  PROVE  ReadAs(parseYamlFrontmatter(lines), lines, Full(lines, Len(lines), Len(lines)), Len(lines))
<1> DEFINE n == Len(lines)
           after == Parsed(lines)
           T == {k \in 0 .. n : \E i : SpokenOf(lines, i, k) /\ ReadSoFar(after[k], lines, i, k)}
<1>1. n \in Nat
  BY LenProperties
<1>2. /\ after[0] = Unread /\ \A k \in 0 .. n : after[k] \in Readings
      /\ \A k \in 1 .. n : after[k] = ParseLine(after[k - 1], lines[k])
  BY LinesParsed
<1>3. 0 \in T
  <2>1. SpokenOf(lines, 0, 0)
    BY DEF SpokenOf
  <2>2. Full(lines, 0, 0) = {}
    BY DEF Full
  <2>3. Unread.key = "" /\ Unread.buffer = <<>> /\ ~Unread.block /\ DOMAIN Unread.result = {}
    BY DEF Unread
  <2>4. ReadAs(Unread.result, lines, {}, 0)
    BY <2>3 DEF ReadAs
  <2>5. ReadSoFar(after[0], lines, 0, 0)
    BY <1>2, <2>2, <2>3, <2>4 DEF ReadSoFar
  <2> QED
    BY <1>1, <2>1, <2>5
<1>4. \A k \in 1 .. n : k - 1 \in T => k \in T
  <2>1. SUFFICES ASSUME NEW k \in 1 .. n, k - 1 \in T PROVE k \in T
    OBVIOUS
  <2>2. k - 1 \in Nat /\ k - 1 \in 0 .. n /\ (k - 1) + 1 = k /\ k <= Len(lines) /\ k \in 0 .. n
    BY <1>1
  <2>3. PICK i : SpokenOf(lines, i, k - 1) /\ ReadSoFar(after[k - 1], lines, i, k - 1)
    BY <2>1
  <2>4. after[k - 1] \in Readings /\ after[k] = ParseLine(after[k - 1], lines[k])
    BY <1>2, <2>2
  <2> HIDE DEF after
  <2>5. \E j : SpokenOf(lines, j, (k - 1) + 1) /\ ReadSoFar(ParseLine(after[k - 1], lines[(k - 1) + 1]), lines, j, (k - 1) + 1)
    BY <2>2, <2>3, <2>4, NextLineRead
  <2> QED
    BY <2>2, <2>4, <2>5
<1>5. n \in T
  <2>1. n \in 0 .. n
    BY <1>1
  <2> HIDE DEF n, T
  <2> QED
    BY <1>1, <1>3, <1>4, <2>1, HoldsToTheEnd
<1>6. PICK i : SpokenOf(lines, i, n) /\ ReadSoFar(after[n], lines, i, n)
  BY <1>5
<1>7. n \in 0 .. Len(lines) /\ after[n] \in Readings
  BY <1>1, <1>2
<1> HIDE DEF after
<1>8. ReadAs(Flushed(after[n]).result, lines, Full(lines, n, n), n)
  BY <1>6, <1>7, KeyEnds
<1> QED
  BY <1>8 DEF parseYamlFrontmatter, after

\* Finitely many lines have a last one.
LEMMA LastOfThem ==
  ASSUME NEW n \in Nat, NEW S \in SUBSET (1 .. n), S # {}
  PROVE  Max(S) \in S /\ \A y \in S : y <= Max(S)
<1> DEFINE below == {n - y : y \in S}
<1>1. below \subseteq Nat /\ below # {}
  <2>1. \A y \in S : n - y \in Nat
    <3>1. TAKE y \in S
    <3>2. y \in 1 .. n
      OBVIOUS
    <3> QED
      BY <3>2
  <2> QED
    BY <2>1
<1>2. PICK r \in below : \A q \in below : ~(q < r)
  <2> HIDE DEF below
  <2> QED
    BY <1>1, LeastOfNat
<1>3. PICK x \in S : n - x = r
  BY <1>2
<1>4. \A y \in S : x >= y
  BY <1>2, <1>3
<1>5. Max(S) \in S /\ \A y \in S : Max(S) >= y
  BY <1>3, <1>4 DEF Max
<1> QED
  BY <1>5

\* What is accepted strictly has no error, and the errors of a lenient validation are errors of a strict one.
LEMMA StrictIsStricter ==
  ASSUME NEW lines, NEW found, Validation(lines, TRUE, TRUE, found).valid
  PROVE  Validation(lines, TRUE, FALSE, found).valid
<1> DEFINE read == parseYamlFrontmatter(lines)
           named == Has(read, "name") /\ ~IsList(read, "name")
           Errors(strict) == validateMetadata(read, strict) \cup otherScans(found, named)
<1>1. \A e \in Errors(TRUE) : e[2] # "error"
  BY DEF Validation
<1>2. Validation(lines, TRUE, FALSE, found).valid <=> \A e \in Errors(FALSE) : e[2] # "error"
  BY DEF Validation
<1>3. \A e \in recommendedAndSafe(read, FALSE) : e \in recommendedAndSafe(read, TRUE)
  BY DEF recommendedAndSafe
<1>4. \A e \in validateMetadata(read, FALSE) : e \in validateMetadata(read, TRUE) \/ e \in As(Missing(read, {"description"}), "warning")
  BY <1>3 DEF validateMetadata
<1>5. \A e \in As(Missing(read, {"description"}), "warning") : e[2] = "warning"
  BY DEF As
<1> HIDE DEF read, named
<1>6. \A e \in Errors(FALSE) : e[2] # "error"
  BY <1>1, <1>4, <1>5
<1> QED
  BY <1>2, <1>6

\* What is read of a frontmatter is what it says, in whatever order it says it.
LEMMA FrontmatterTold ==
  ASSUME NEW lines \in UpTo(FrontLine, MaxLines), NEW delimited \in BOOLEAN, NEW strict \in BOOLEAN, NEW found,
         executeValidate(lines, delimited, strict, found)
  PROVE  FrontmatterIsRead'
<1>1. lines \in Seq(FrontLine) /\ DOMAIN lines = 1 .. Len(lines) /\ Len(lines) \in Nat
  BY ReportAssumption, UpToIsSeq
<1>2. answer' = Validation(lines, delimited, strict, found)
  BY DEF executeValidate
<1>3. /\ answer'.tool = "validate" /\ answer'.lines = lines /\ answer'.delimited = delimited /\ answer'.found = found
      /\ answer'.strict = strict /\ answer'.valid = Validation(lines, delimited, strict, found).valid
  BY <1>2 DEF Validation
<1> DEFINE n == Len(lines)
           read == parseYamlFrontmatter(lines)
           full == {i \in DOMAIN lines : IsKey(lines[i]) /\ Holds(lines, i) # <<>>}
<1>4. full = Full(lines, n, n) /\ full \in SUBSET (1 .. n)
  BY <1>1 DEF Full, Holds
<1>5. ReadAs(read, lines, full, n)
  BY <1>1, <1>4, AllIsRead
<1> HIDE DEF n, read, full
<1>6. DOMAIN read = {lines[i].key : i \in full}
  BY <1>5 DEF ReadAs
<1>7. ASSUME NEW k \in DOMAIN read
      PROVE  read[k].values = Holds(lines, Max({i \in full : lines[i].key = k}))
  <2> DEFINE S == {i \in full : lines[i].key = k}
             j == Max(S)
  <2>1. S \in SUBSET (1 .. n) /\ S # {} /\ n \in Nat
    BY <1>1, <1>4, <1>6, <1>7 DEF n
  <2>2. j \in S /\ \A y \in S : y <= j
    <3> HIDE DEF S
    <3> QED
      BY <2>1, LastOfThem
  <2> HIDE DEF j
  <2>3. j \in full /\ lines[j].key = k /\ \A y \in full : lines[y].key = lines[j].key => y <= j
    BY <2>2
  <2>4. read[lines[j].key].values = HoldsBy(lines, j, n)
    BY <1>5, <2>3 DEF ReadAs
  <2> QED
    BY <2>3, <2>4 DEF j, Holds, n
<1>8. delimited /\ Validation(lines, delimited, strict, found).valid /\ strict => Validation(lines, TRUE, FALSE, found).valid
  BY StrictIsStricter
<1> QED
  BY <1>3, <1>6, <1>7, <1>8 DEF FrontmatterIsRead, read, full
-----------------------------------------------------------------------------
(* The bill of materials.                                                  *)

RowsDeclared == UNION {Extracted[s] : s \in Ids}
FileStates == {"unreadable", "plain", "declares"}
Outcomes == FileStates \cup WhyNoRows
Reports == [at : {"idle", "manifest", "rows", "backfill", "done", "failed"}, format : {"soc2", "json", "cyclonedx"},
            backfill : BOOLEAN, native : BOOLEAN, total : Nat, activity : Nat, skills : SUBSET Installation,
            had : SUBSET Ids, read : [Ids -> SUBSET RowsDeclared], sparse : SUBSET Ids, todo : SUBSET Installation,
            tried : SUBSET (Installation \X Outcomes), wrote : SUBSET Ids,
            edges : SUBSET (Ids \X {r.target : r \in RowsDeclared}), source : [Ids -> {"none", "pending-rescan", "extracted"}],
            summary : {"none", "pending-rescan", "extracted", "partial"}]

Covered(b) == {InstalledId[i] : i \in b.skills}

\* What a report knows of the dependencies: who has no rows yet, and why.
RowsKnown(b) ==
  /\ \A s \in Covered(b) : s \in b.sparse <=> b.read[s] = {}
  /\ b.backfill /\ b.native =>
       \A i \in b.skills \ b.todo : InstalledId[i] \in b.sparse => \E why \in WhyNoRows : <<i, why>> \in b.tried
  /\ b.had \cap (b.sparse \cup b.wrote) = {}
  /\ b.wrote # {} \/ b.todo # {} => b.backfill
  /\ b.sparse \subseteq Covered(b)

BomTold(b) ==
  /\ \A s \in Covered(b) : b.source[s] = "pending-rescan" <=> b.read[s] = {}
  /\ b.backfill /\ b.native =>
       \A i \in b.skills : b.source[InstalledId[i]] = "pending-rescan" =>
         \E why \in WhyNoRows : <<i, why>> \in b.tried
  /\ b.wrote \cap b.had = {} /\ (b.wrote # {} => b.backfill)
  /\ \A e \in b.edges : \E r \in b.read[e[1]] : r.target = e[2] /\ r.source = "declared"
                                              /\ (r.kind = "skill" => e[2] \in Covered(b))

BomSound(b) ==
  /\ b \in Reports
  /\ b.at \in {"manifest", "rows"} => b.wrote = {} /\ b.tried = {}
  /\ b.at = "backfill" => RowsKnown(b)
  /\ b.at = "done" /\ b.format = "cyclonedx" => BomTold(b)

BomInv ==
  /\ events \in Nat /\ manifest \subseteq Installation
  /\ depRows \in [Ids -> SUBSET RowsDeclared] /\ skillFile \in [Installation -> FileStates]
  /\ BomSound(bom)

LEMMA BomStart == ReportInit => BomInv
<1> SUFFICES ASSUME ReportInit PROVE BomInv
  OBVIOUS
<1>1. NoBom \in Reports /\ NoBom.at = "idle"
  BY DEF NoBom, Reports
<1>2. bom = NoBom /\ events = 0 /\ manifest = Installation
  BY DEF ReportInit
<1>3. depRows \in [Ids -> SUBSET RowsDeclared] /\ skillFile \in [Installation -> FileStates]
  BY DEF ReportInit, FileStates
<1> QED
  BY <1>1, <1>2, <1>3 DEF BomInv, BomSound

\* A SKILL.md that is read fills in the rows of its skill, or there is a reason on record.
LEMMA BomFilledIn ==
  ASSUME BomInv, NEW i \in Installation, Backfill(i) PROVE BomInv'
<1> DEFINE s == InstalledId[i]
           declared == IF skillFile[i] = "declares" THEN Extracted[s] ELSE {}
<1>1. /\ bom \in Reports /\ RowsKnown(bom) /\ bom.at = "backfill" /\ i \in bom.todo
      /\ UNCHANGED <<events, manifest, skillFile, happenings>>
  BY DEF BomInv, BomSound, Backfill
<1>2. s \in Ids /\ declared \in SUBSET RowsDeclared /\ skillFile[i] \in FileStates /\ skillFile' = skillFile
  BY <1>1 DEF BomInv, Ids, RowsDeclared
<1>3. declared = {} => skillFile[i] # "declares"
  BY ReportAssumption
<1> HIDE DEF s, declared
<1>4. CASE s \in bom.sparse /\ i \notin Pathless
  <2>1. PICK stored \in SUBSET declared :
          LET rows == depRows[s] \cup stored IN
          /\ depRows' = [depRows EXCEPT ![s] = rows]
          /\ bom' = [bom EXCEPT !.todo = @ \ {i}, !.read[s] = rows, !.wrote = @ \cup {s},
                                !.sparse = IF rows # {} THEN @ \ {s} ELSE @,
                                !.tried = @ \cup {<<i, IF stored = declared THEN skillFile[i] ELSE "failed">>}]
    BY <1>4 DEF Backfill, Goes, s, declared
  <2> DEFINE rows == depRows[s] \cup stored
             out == IF stored = declared THEN skillFile[i] ELSE "failed"
             c == [bom EXCEPT !.todo = @ \ {i}, !.read[s] = rows, !.wrote = @ \cup {s},
                              !.sparse = IF rows # {} THEN @ \ {s} ELSE @, !.tried = @ \cup {<<i, out>>}]
  <2>a. bom' = c /\ depRows' = [depRows EXCEPT ![s] = rows]
    BY <2>1
  <2>b. rows \in SUBSET RowsDeclared
    BY <1>2 DEF BomInv
  <2>c. out \in Outcomes /\ (rows = {} => out \in WhyNoRows)
    <3>1. out \in Outcomes
      BY <1>2 DEF Outcomes, WhyNoRows
    <3>2. ASSUME rows = {} PROVE out \in WhyNoRows
      <4>1. CASE stored = declared
        <5>1. out = skillFile[i] /\ skillFile[i] \in {"unreadable", "plain"}
          BY <1>2, <1>3, <3>2, <4>1 DEF FileStates
        <5> QED
          BY <5>1 DEF WhyNoRows
      <4>2. CASE stored # declared
        BY <4>2 DEF WhyNoRows
      <4> QED
        BY <4>1, <4>2
    <3> QED
      BY <3>1, <3>2
  <2> HIDE DEF rows, out
  <2>2. /\ c \in Reports /\ c.at = "backfill" /\ c.todo = bom.todo \ {i} /\ c.read = [bom.read EXCEPT ![s] = rows]
        /\ c.wrote = bom.wrote \cup {s} /\ c.sparse = (IF rows # {} THEN bom.sparse \ {s} ELSE bom.sparse)
        /\ c.tried = bom.tried \cup {<<i, out>>} /\ c.skills = bom.skills /\ c.backfill = bom.backfill
        /\ c.native = bom.native /\ c.had = bom.had
    <3>1. /\ bom.read \in [Ids -> SUBSET RowsDeclared] /\ bom.todo \ {i} \in SUBSET Installation /\ bom.wrote \cup {s} \in SUBSET Ids
          /\ (IF rows # {} THEN bom.sparse \ {s} ELSE bom.sparse) \in SUBSET Ids
          /\ bom.tried \cup {<<i, out>>} \in SUBSET (Installation \X Outcomes)
      BY <1>1, <1>2, <2>c DEF Reports
    <3>2. [bom.read EXCEPT ![s] = rows] \in [Ids -> SUBSET RowsDeclared]
      BY <1>2, <2>b, <3>1
    <3>3. c = [bom EXCEPT !.todo = bom.todo \ {i}, !.read = [bom.read EXCEPT ![s] = rows], !.wrote = bom.wrote \cup {s},
                          !.sparse = IF rows # {} THEN bom.sparse \ {s} ELSE bom.sparse,
                          !.tried = bom.tried \cup {<<i, out>>}]
      BY <1>1 DEF Reports
    <3> HIDE DEF c
    <3> QED
      BY <1>1, <3>1, <3>2, <3>3 DEF Reports
  <2> HIDE DEF c
  <2>3. \A t \in Covered(c) : t \in c.sparse <=> c.read[t] = {}
    <3>1. TAKE t \in Covered(c)
    <3>2. t \in Covered(bom) /\ t \in Ids /\ bom.read \in [Ids -> SUBSET RowsDeclared]
      BY <1>1, <2>2 DEF Covered, Reports, Ids
    <3>3. CASE t = s
      BY <1>4, <2>2, <3>2, <3>3
    <3>4. CASE t # s
      BY <1>1, <2>2, <3>2, <3>4 DEF RowsKnown
    <3> QED
      BY <3>3, <3>4
  <2>4. ASSUME c.backfill, c.native, NEW j \in c.skills \ c.todo, InstalledId[j] \in c.sparse
        PROVE  \E why \in WhyNoRows : <<j, why>> \in c.tried
    <3>1. CASE j = i
      <4>1. rows = {}
        BY <1>4, <2>2, <2>4, <3>1 DEF s
      <4> QED
        BY <2>2, <2>c, <3>1, <4>1
    <3>2. CASE j # i
      <4>1. j \in bom.skills \ bom.todo /\ InstalledId[j] \in bom.sparse
        BY <2>2, <2>4, <3>2
      <4> QED
        BY <1>1, <2>2, <2>4, <4>1 DEF RowsKnown
    <3> QED
      BY <3>1, <3>2
  <2>5. c.had \cap (c.sparse \cup c.wrote) = {}
    BY <1>1, <1>4, <2>2 DEF RowsKnown
  <2>6. c.backfill /\ c.sparse \subseteq Covered(c)
    BY <1>1, <2>2 DEF RowsKnown, Covered
  <2>7. RowsKnown(c)
    BY <2>3, <2>4, <2>5, <2>6 DEF RowsKnown
  <2>8. depRows' \in [Ids -> SUBSET RowsDeclared]
    BY <1>2, <2>a, <2>b DEF BomInv
  <2> QED
    BY <1>1, <2>a, <2>2, <2>7, <2>8 DEF BomInv, BomSound
<1>5. CASE s \notin bom.sparse \/ i \in Pathless
  <2> DEFINE more == IF s \in bom.sparse THEN {<<i, "nowhere">>} ELSE {}
  <2>1. bom' = [bom EXCEPT !.todo = @ \ {i}, !.tried = @ \cup more] /\ depRows' = depRows
    <3>1. s \notin bom.sparse \/ i \in Pathless
      BY <1>5
    <3> QED
      BY <3>1 DEF Backfill, Goes, s
  <2> DEFINE c == [bom EXCEPT !.todo = @ \ {i}, !.tried = @ \cup more]
  <2>2. /\ c \in Reports /\ c.at = "backfill" /\ c.todo = bom.todo \ {i} /\ c.read = bom.read
        /\ c.wrote = bom.wrote /\ c.sparse = bom.sparse
        /\ c.tried = bom.tried \cup more /\ c.skills = bom.skills /\ c.backfill = bom.backfill
        /\ c.native = bom.native /\ c.had = bom.had
    <3>1. bom.tried \cup more \in SUBSET (Installation \X Outcomes) /\ bom.todo \ {i} \in SUBSET Installation
      <4>1. more \in SUBSET (Installation \X Outcomes)
        BY DEF Outcomes, WhyNoRows
      <4> QED
        BY <1>1, <4>1 DEF Reports
    <3> QED
      BY <1>1, <3>1 DEF Reports
  <2> HIDE DEF c
  <2>3. ASSUME c.backfill, c.native, NEW j \in c.skills \ c.todo, InstalledId[j] \in c.sparse
        PROVE  \E why \in WhyNoRows : <<j, why>> \in c.tried
    <3>1. CASE j = i
      <4>1. more = {<<i, "nowhere">>}
        BY <2>1, <2>2, <2>3, <3>1 DEF s
      <4>2. <<i, "nowhere">> \in c.tried /\ "nowhere" \in WhyNoRows
        BY <2>2, <4>1 DEF WhyNoRows
      <4> QED
        BY <3>1, <4>2
    <3>2. CASE j # i
      <4>1. j \in bom.skills \ bom.todo /\ InstalledId[j] \in bom.sparse
        BY <2>2, <2>3, <3>2
      <4> QED
        BY <1>1, <2>2, <2>3, <4>1 DEF RowsKnown
    <3> QED
      BY <3>1, <3>2
  <2>4. RowsKnown(c)
    BY <1>1, <2>2, <2>3 DEF RowsKnown, Covered
  <2>5. bom' = c /\ depRows' = depRows
    BY <2>1 DEF c
  <2> QED
    BY <1>1, <2>2, <2>4, <2>5 DEF BomInv, BomSound
<1> QED
  BY <1>4, <1>5

\* What is emitted says what was read.
LEMMA BomEmitted == BomInv /\ EmitBom => BomInv'
<1> SUFFICES ASSUME BomInv, EmitBom PROVE BomInv'
  OBVIOUS
<1> DEFINE ids == {InstalledId[i] : i \in bom.skills}
           source == [s \in Ids |-> IF s \in bom.sparse THEN "pending-rescan" ELSE "extracted"]
           overall == IF bom.skills = {} THEN "pending-rescan" ELSE IF bom.sparse = {} THEN "extracted"
                      ELSE IF Cardinality(bom.sparse) = Cardinality(bom.skills) THEN "pending-rescan"
                      ELSE "partial"
           edges == dependencyEdges(ids, bom.read)
           c == [bom EXCEPT !.at = "done", !.edges = edges, !.source = source, !.summary = overall]
<1>1. bom \in Reports /\ RowsKnown(bom) /\ bom.at = "backfill" /\ bom.todo = {}
  BY DEF BomInv, BomSound, EmitBom
<1>2. bom' = c /\ events' = events + 1 /\ UNCHANGED <<manifest, depRows, skillFile>>
  BY DEF EmitBom, Goes
<1>3. source \in [Ids -> {"none", "pending-rescan", "extracted"}]
      /\ overall \in {"none", "pending-rescan", "extracted", "partial"}
  OBVIOUS
<1>4. ids \subseteq Ids /\ bom.read \in [Ids -> SUBSET RowsDeclared] /\ bom.skills \subseteq Installation
  BY <1>1 DEF Reports, Ids
<1>5. ASSUME NEW e \in edges
      PROVE  /\ e \in Ids \X {r.target : r \in RowsDeclared}
             /\ \E r \in bom.read[e[1]] : r.target = e[2] /\ r.source = "declared" /\ (r.kind = "skill" => e[2] \in ids)
  <2>a. PICK s \in ids : \E r \in bom.read[s] :
          /\ e = <<s, r.target>> /\ r.source = "declared"
          /\ r.kind \in {"mcp", "model"} \/ (r.kind = "skill" /\ r.target \in ids)
    BY DEF dependencyEdges
  <2>1. PICK r \in bom.read[s] :
          /\ e = <<s, r.target>> /\ r.source = "declared"
          /\ r.kind \in {"mcp", "model"} \/ (r.kind = "skill" /\ r.target \in ids)
    BY <2>a
  <2>2. r \in RowsDeclared
    BY <1>4, <2>1
  <2>3. e[1] = s /\ e[2] = r.target
    BY <2>1
  <2>4. r.kind = "skill" => r.target \in ids
    BY <2>1
  <2>5. e \in Ids \X {q.target : q \in RowsDeclared}
    BY <1>4, <2>1, <2>2
  <2> QED
    BY <2>1, <2>3, <2>4, <2>5
<1>6. edges \subseteq Ids \X {r.target : r \in RowsDeclared}
  BY <1>5
<1> HIDE DEF edges, source, overall
<1>7. /\ c \in Reports /\ c.at = "done" /\ c.edges = edges /\ c.source = source /\ c.read = bom.read
      /\ c.wrote = bom.wrote /\ c.had = bom.had /\ c.backfill = bom.backfill /\ c.native = bom.native
      /\ c.tried = bom.tried /\ c.skills = bom.skills
  BY <1>1, <1>3, <1>6 DEF Reports
<1> HIDE DEF c
<1>8. Covered(c) = ids /\ Covered(bom) = ids
  BY <1>7 DEF Covered
<1>9. \A s \in ids : (source[s] = "pending-rescan" <=> s \in bom.sparse) /\ (s \in bom.sparse <=> bom.read[s] = {})
  BY <1>1, <1>4, <1>8 DEF RowsKnown, source
<1>10. ASSUME c.backfill, c.native, NEW i \in c.skills, c.source[InstalledId[i]] = "pending-rescan"
       PROVE  \E why \in WhyNoRows : <<i, why>> \in c.tried
  <2>1. InstalledId[i] \in bom.sparse /\ i \in bom.skills \ bom.todo
    BY <1>1, <1>7, <1>9, <1>10
  <2> QED
    BY <1>1, <1>7, <1>10, <2>1 DEF RowsKnown
<1>11. BomTold(c)
  <2>1. c.wrote \cap c.had = {} /\ (c.wrote # {} => c.backfill)
    BY <1>1, <1>7 DEF RowsKnown
  <2>2. \A e \in c.edges : \E r \in c.read[e[1]] : r.target = e[2] /\ r.source = "declared"
                                              /\ (r.kind = "skill" => e[2] \in Covered(c))
    BY <1>5, <1>7, <1>8
  <2>3. \A s \in Covered(c) : c.source[s] = "pending-rescan" <=> c.read[s] = {}
    BY <1>7, <1>8, <1>9
  <2> QED
    BY <1>10, <2>1, <2>2, <2>3 DEF BomTold
<1> QED
  BY <1>2, <1>7, <1>11 DEF BomInv, BomSound

\* A report reads the rows of the declared dependencies.
RowsReadFor(b, had, sparse, read, todo) ==
  [b EXCEPT !.at = "backfill", !.had = had, !.sparse = sparse, !.read = read, !.todo = todo]

LEMMA RowsWereRead ==
  ASSUME NEW b \in Reports, NEW had \in SUBSET Ids, NEW sparse \in SUBSET Ids,
         NEW read \in [Ids -> SUBSET RowsDeclared], NEW todo \in SUBSET Installation
  PROVE  LET c == RowsReadFor(b, had, sparse, read, todo)
         IN  /\ c \in Reports /\ c.at = "backfill" /\ c.had = had /\ c.sparse = sparse /\ c.read = read
             /\ c.todo = todo /\ c.skills = b.skills /\ c.wrote = b.wrote /\ c.backfill = b.backfill
             /\ c.native = b.native
BY DEF Reports, RowsReadFor

LEMMA BomKept == BomInv /\ [ReportNext]_reportVars => BomInv'
<1> SUFFICES ASSUME BomInv, [ReportNext]_reportVars PROVE BomInv'
  OBVIOUS
<1>1. /\ events \in Nat /\ manifest \subseteq Installation
      /\ depRows \in [Ids -> SUBSET RowsDeclared] /\ skillFile \in [Installation -> FileStates] /\ BomSound(bom) /\ bom \in Reports
  BY DEF BomInv, BomSound
<1>2. CASE UNCHANGED <<bom, events, manifest, depRows, skillFile>>
  BY <1>1, <1>2 DEF BomInv
<1>3. CASE Asked \/ AskedOfText
  BY <1>2, <1>3 DEF Asked, AskedOfText
<1>4. ASSUME NEW c \in Reports, bom' = c, UNCHANGED World, BomSound(c) PROVE BomInv'
  BY <1>1, <1>4 DEF BomInv, World
<1>5. ASSUME NEW format \in {"soc2", "json", "cyclonedx"}, NEW backfill \in BOOLEAN, NEW native \in BOOLEAN,
             StartReport(format, backfill, native)
      PROVE  BomInv'
  <2> DEFINE c == [at |-> "manifest", format |-> format, backfill |-> backfill, native |-> native, total |-> events,
                   activity |-> 0, skills |-> {}, had |-> {}, read |-> [s \in Ids |-> {}], sparse |-> {},
                   todo |-> {}, tried |-> {}, wrote |-> {}, edges |-> {}, source |-> [s \in Ids |-> "none"],
                   summary |-> "none"]
  <2>1. c \in Reports /\ c.at = "manifest" /\ c.wrote = {} /\ c.tried = {}
    <3>1. [s \in Ids |-> {}] \in [Ids -> SUBSET RowsDeclared]
      OBVIOUS
    <3>2. [s \in Ids |-> "none"] \in [Ids -> {"none", "pending-rescan", "extracted"}]
      OBVIOUS
    <3>3. {} \in SUBSET Installation /\ {} \in SUBSET Ids /\ {} \in SUBSET (Installation \X Outcomes)
          /\ {} \in SUBSET (Ids \X {r.target : r \in RowsDeclared})
      OBVIOUS
    <3> QED
      BY <1>1, <3>1, <3>2, <3>3 DEF Reports
  <2>2. bom' = c /\ UNCHANGED World
    BY <1>5 DEF StartReport, Goes, NoBom
  <2> HIDE DEF c
  <2>3. BomSound(c)
    BY <2>1 DEF BomSound
  <2> QED
    BY <1>4, <2>1, <2>2, <2>3
<1>6. CASE LoadManifest
  <2>1. bom.at = "manifest" /\ UNCHANGED World
    BY <1>6 DEF LoadManifest
  <2>2. CASE bom' = [bom EXCEPT !.at = "failed"]
    <3> DEFINE c == [bom EXCEPT !.at = "failed"]
    <3>1. c \in Reports /\ c.at = "failed"
      BY <1>1 DEF Reports
    <3> HIDE DEF c
    <3>2. BomSound(c)
      BY <3>1 DEF BomSound
    <3> QED
      BY <1>4, <2>1, <2>2, <3>1, <3>2 DEF c
  <2>3. CASE bom' = [bom EXCEPT !.at = IF bom.format = "cyclonedx" THEN "rows" ELSE "done", !.skills = manifest,
                                !.activity = events]
    <3> DEFINE c == [bom EXCEPT !.at = IF bom.format = "cyclonedx" THEN "rows" ELSE "done", !.skills = manifest,
                                !.activity = events]
    <3>1. /\ c \in Reports /\ c.at = (IF bom.format = "cyclonedx" THEN "rows" ELSE "done") /\ c.format = bom.format
          /\ c.wrote = bom.wrote /\ c.tried = bom.tried
      BY <1>1 DEF Reports
    <3> HIDE DEF c
    <3>2. BomSound(c)
      BY <1>1, <2>1, <3>1 DEF BomSound
    <3> QED
      BY <1>4, <2>1, <2>3, <3>1, <3>2 DEF c
  <2> QED
    BY <1>6, <2>2, <2>3 DEF LoadManifest, Goes
<1>7. CASE ReadRows
  <2> DEFINE ids == {InstalledId[i] : i \in bom.skills}
             sparse == sparseSkillIds(ids, depRows)
             had  == ids \ sparse
             todo == IF bom.backfill /\ bom.native THEN bom.skills ELSE {}
             c == RowsReadFor(bom, had, sparse, depRows, todo)
  <2>1. bom.at = "rows" /\ bom' = c /\ UNCHANGED World
    BY <1>7 DEF ReadRows, Goes, RowsReadFor
  <2>2. sparse \subseteq ids /\ ids \subseteq Ids /\ sparse = {s \in ids : depRows[s] = {}}
    BY <1>1 DEF sparseSkillIds, Ids, Reports
  <2>3. bom.wrote = {} /\ bom.tried = {}
    BY <1>1, <2>1 DEF BomSound
  <2> HIDE DEF ids, sparse
  <2>4. /\ c \in Reports /\ c.at = "backfill" /\ c.had = ids \ sparse /\ c.sparse = sparse /\ c.read = depRows
        /\ c.todo = (IF bom.backfill /\ bom.native THEN bom.skills ELSE {}) /\ c.skills = bom.skills
        /\ c.wrote = bom.wrote /\ c.backfill = bom.backfill /\ c.native = bom.native
    <3>1. had \in SUBSET Ids /\ sparse \in SUBSET Ids
      BY <2>2
    <3>2. todo \in SUBSET Installation
      BY <1>1 DEF Reports
    <3> HIDE DEF had, todo
    <3>3. /\ c \in Reports /\ c.at = "backfill" /\ c.had = had /\ c.sparse = sparse /\ c.read = depRows
          /\ c.todo = todo /\ c.skills = bom.skills
          /\ c.wrote = bom.wrote /\ c.backfill = bom.backfill /\ c.native = bom.native
      BY <1>1, <3>1, <3>2, RowsWereRead
    <3> HIDE DEF c
    <3> QED
      BY <3>3 DEF had, todo
  <2> HIDE DEF c
  <2>5. Covered(c) = ids
    BY <2>4 DEF Covered, ids
  <2>6. RowsKnown(c)
    BY <2>2, <2>3, <2>4, <2>5 DEF RowsKnown
  <2>7. BomSound(c)
    BY <2>4, <2>6 DEF BomSound
  <2> QED
    BY <1>4, <2>1, <2>4, <2>7
<1>8. CASE WorldGoesOn
  <2>1. bom' = bom
    BY <1>8 DEF WorldGoesOn
  <2>2. CASE events' = events + 1 /\ UNCHANGED <<manifest, depRows, skillFile>>
    BY <1>1, <2>1, <2>2 DEF BomInv
  <2>3. ASSUME NEW i \in Installation, manifest' = (manifest \cup {i}) \ (manifest \cap {i}), UNCHANGED <<events, depRows, skillFile>>
        PROVE  BomInv'
    BY <1>1, <2>1, <2>3 DEF BomInv
  <2>4. ASSUME NEW i \in Installation, UNCHANGED <<events, manifest, skillFile>>,
               depRows' = [depRows EXCEPT ![InstalledId[i]] = @ \cup Extracted[InstalledId[i]]]
        PROVE  BomInv'
    <3>1. InstalledId[i] \in Ids /\ Extracted[InstalledId[i]] \subseteq RowsDeclared
      BY DEF Ids, RowsDeclared
    <3>2. depRows' \in [Ids -> SUBSET RowsDeclared]
      BY <1>1, <2>4, <3>1
    <3> QED
      BY <1>1, <2>1, <2>4, <3>2 DEF BomInv
  <2>5. ASSUME NEW i \in Installation, NEW f \in FileStates, skillFile' = [skillFile EXCEPT ![i] = f],
               UNCHANGED <<events, manifest, depRows>>
        PROVE  BomInv'
    BY <1>1, <2>1, <2>5 DEF BomInv
  <2> QED
    BY <1>8, <2>2, <2>3, <2>4, <2>5 DEF WorldGoesOn, FileStates
<1>9. CASE UNCHANGED reportVars
  BY <1>2, <1>9 DEF reportVars
<1>10. ASSUME NEW lines, NEW delimited, NEW strict, NEW found, executeValidate(lines, delimited, strict, found)
       PROVE  BomInv'
  BY <1>3, <1>10 DEF executeValidate
<1>11. ASSUME NEW old, NEW new, executeSkillDiff(old, new) PROVE BomInv'
  BY <1>3, <1>11 DEF executeSkillDiff
<1>12. ASSUME NEW pack, NEW dirs, NEW unread, NEW check, executeSkillPackAudit(pack, dirs, unread, check)
       PROVE  BomInv'
  BY <1>3, <1>12 DEF executeSkillPackAudit
<1>13. ASSUME NEW recent, NEW dated, NEW limit, executeAuditExport(recent, dated, limit) PROVE BomInv'
  BY <1>3, <1>13 DEF executeAuditExport
<1>14. CASE \E i \in Installation : Backfill(i)
  BY <1>14, BomFilledIn
<1>15. CASE EmitBom
  BY <1>15, BomEmitted
<1> QED
  BY <1>5, <1>6, <1>7, <1>8, <1>9, <1>10, <1>11, <1>12, <1>13, <1>14, <1>15 DEF ReportNext
-----------------------------------------------------------------------------
(* The frontmatter, as it is indexed.                                      *)

IndexKeys == TextKeys \cup ListKeys
Indexings == [result : [IndexKeys -> Seq(STRING)], key : STRING \cup {""}, mode : {"none", "scalar", "list", "block"},
              buffer : Seq(STRING)]
Assigned(r, key, values) == [k \in IndexKeys |-> IF k = key /\ key \in TextKeys THEN values ELSE r[k]]

\* A text takes its values, a list does not.
LEMMA AssignTyped ==
  ASSUME NEW x \in Indexings, NEW key, NEW values \in Seq(STRING)
  PROVE  LET next == assignValue(x, key, values) IN
         /\ next \in Indexings /\ next.result = Assigned(x.result, key, values)
         /\ next.key = x.key /\ next.mode = x.mode /\ next.buffer = x.buffer
<1> DEFINE S == Seq(STRING)
<1>1. x.result \in [IndexKeys -> S] /\ values \in S
  BY DEF Indexings
<1> HIDE DEF S
<1>2. CASE key \in TextKeys
  <2>1. key \in IndexKeys
    BY <1>2 DEF IndexKeys
  <2>2. Assigned(x.result, key, values) \in [IndexKeys -> S]
    BY <1>1 DEF Assigned
  <2>3. assignValue(x, key, values) = [x EXCEPT !.result = [@ EXCEPT ![key] = values]]
    BY <1>2 DEF assignValue
  <2>4. [x.result EXCEPT ![key] = values] = Assigned(x.result, key, values)
    BY <1>1, <1>2, <2>1 DEF Assigned
  <2> DEFINE new == Assigned(x.result, key, values)
  <2> HIDE DEF new
  <2>5. assignValue(x, key, values) = [x EXCEPT !.result = new]
    BY <2>3, <2>4 DEF new, Indexings
  <2> QED
    BY <2>2, <2>5 DEF Indexings, S, new
<1>3. CASE key \notin TextKeys
  <2>1. Assigned(x.result, key, values) = x.result
    BY <1>1, <1>3 DEF Assigned
  <2> QED
    BY <1>3, <2>1 DEF assignValue
<1> QED
  BY <1>2, <1>3

\* What was collected is assigned, and the buffer is empty.
LEMMA FlushBlockTyped ==
  ASSUME NEW x \in Indexings
  PROVE  LET next == flushBlock(x) IN
         /\ next \in Indexings /\ next.key = x.key /\ next.mode = x.mode
         /\ x.key = "" \/ x.buffer = <<>> => next = x
         /\ ~(x.key = "" \/ x.buffer = <<>>) => next.buffer = <<>> /\ next.result = Assigned(x.result, x.key, x.buffer)
<1> DEFINE a == assignValue(x, x.key, x.buffer)
<1>1. x.buffer \in Seq(STRING) /\ <<>> \in Seq(STRING)
  BY EmptySeq DEF Indexings
<1>2. /\ a \in Indexings /\ a.result = Assigned(x.result, x.key, x.buffer)
      /\ a.key = x.key /\ a.mode = x.mode /\ a.buffer = x.buffer
  BY <1>1, AssignTyped
<1>3. CASE x.key = "" \/ x.buffer = <<>>
  BY <1>3 DEF flushBlock
<1>4. CASE ~(x.key = "" \/ x.buffer = <<>>)
  <2>1. flushBlock(x) = [a EXCEPT !.buffer = <<>>]
    BY <1>4 DEF flushBlock
  <2> HIDE DEF a
  <2>2. /\ [a EXCEPT !.buffer = <<>>] \in Indexings /\ [a EXCEPT !.buffer = <<>>].result = a.result
        /\ [a EXCEPT !.buffer = <<>>].key = a.key /\ [a EXCEPT !.buffer = <<>>].mode = a.mode
        /\ [a EXCEPT !.buffer = <<>>].buffer = <<>>
    BY <1>1, <1>2 DEF Indexings
  <2> QED
    BY <1>2, <1>4, <2>1, <2>2
<1> QED
  BY <1>3, <1>4

\* A sequence of texts with one more.
LEMMA MoreText ==
  ASSUME NEW s \in Seq(STRING), NEW e \in STRING
  PROVE  Append(s, e) \in Seq(STRING)
<1> DEFINE S == STRING
<1>1. s \in Seq(S) /\ e \in S
  OBVIOUS
<1> HIDE DEF S
<1>2. Append(s, e) \in Seq(S)
  BY <1>1, AppendProperties
<1> QED
  BY <1>2 DEF S

LEMMA OneText ==
  ASSUME NEW e \in STRING
  PROVE  <<e>> \in Seq(STRING)
<1> DEFINE S == STRING
<1>1. e \in S
  OBVIOUS
<1> HIDE DEF S
<1>2. Append(<<>>, e) \in Seq(S)
  BY <1>1, EmptySeq, AppendProperties
<1>3. Append(<<>>, e) = <<e>>
  OBVIOUS
<1> QED
  BY <1>2, <1>3 DEF S

\* What a line does.
KeyEnded(x) == IF x.mode \in {"block", "scalar"} /\ x.key # "" THEN flushBlock(x) ELSE x
IndexedSo(x, line, next) ==
  LET ended == KeyEnded(x) IN
  /\ next \in Indexings
  /\ line.kind = "item" /\ x.mode \in {"scalar", "list"} /\ x.key \in ListKeys /\ x.key # "" =>
       /\ next.key = x.key /\ next.mode = "list" /\ next.buffer = x.buffer
       /\ next.result = [x.result EXCEPT ![x.key] = Append(@, line.value)]
  /\ line.kind \in {"item", "text"} /\ x.mode = "none" => next = x
  /\ line.kind = "text" /\ x.mode = "block" /\ x.key # "" =>
       /\ next.key = x.key /\ next.mode = "block" /\ next.buffer = Append(x.buffer, line.value)
       /\ next.result = x.result
  /\ line.kind = "scalar" =>
       /\ next.key = line.key /\ next.mode = "none" /\ next.buffer = ended.buffer
       /\ next.result = Assigned(ended.result, line.key, <<line.value>>)
  /\ line.kind \in {"open", "block"} =>
       /\ next.key = line.key /\ next.mode = (IF line.kind = "block" THEN "block" ELSE "scalar") /\ next.buffer = <<>>
       /\ next.result = ended.result

\* Each line is indexed in one of these ways.
LEMMA LineIndexed ==
  ASSUME NEW x \in Indexings, NEW line \in FrontLine
  PROVE  IndexedSo(x, line, indexLine(x, line))
<1> DEFINE next == indexLine(x, line)
           ended == KeyEnded(x)
           more == Append(x.buffer, line.value)
           S == Seq(STRING)
<1>1. /\ x.result \in [IndexKeys -> S] /\ x.key \in STRING \cup {""} /\ x.buffer \in S
      /\ x.mode \in {"none", "scalar", "list", "block"}
  BY DEF Indexings
<1>2. line.kind \in {"scalar", "open", "block", "item", "text"} /\ line.key \in STRING /\ line.value \in STRING
  BY LineTyped
<1>3. more \in S /\ <<line.value>> \in S /\ <<>> \in S
  <2>1. more \in S
    BY <1>1, <1>2, MoreText
  <2>2. <<line.value>> \in S
    <3> DEFINE e == line.value
    <3>1. e \in STRING
      BY <1>2
    <3> HIDE DEF e
    <3>2. <<e>> \in Seq(STRING)
      BY <3>1, OneText
    <3> QED
      BY <3>2 DEF e
  <2>3. <<>> \in S
    BY EmptySeq
  <2> QED
    BY <2>1, <2>2, <2>3
<1>4. ended \in Indexings /\ ended = IF x.mode \in {"block", "scalar"} /\ x.key # "" THEN flushBlock(x) ELSE x
  BY FlushBlockTyped DEF KeyEnded
<1> HIDE DEF more
<1>5. CASE line.kind = "item" /\ x.key # "" /\ x.mode \in {"list", "scalar"}
  <2> DEFINE result == WithItem(x, line.value)
  <2>1. next = [x EXCEPT !.mode = "list", !.result = result]
    BY <1>5 DEF indexLine
  <2>2. result \in [IndexKeys -> S]
    <3>1. CASE x.key \in ListKeys
      <4>1. x.key \in IndexKeys
        BY <3>1 DEF IndexKeys
      <4>2. x.result[x.key] \in S
        BY <1>1, <4>1
      <4>3. Append(x.result[x.key], line.value) \in S
        BY <1>2, <4>2, MoreText
      <4> HIDE DEF S
      <4> QED
        BY <1>1, <3>1, <4>1, <4>3 DEF WithItem
    <3> QED
      BY <1>1, <3>1 DEF WithItem
  <2> HIDE DEF result
  <2>3. next \in Indexings /\ next.key = x.key /\ next.mode = "list" /\ next.buffer = x.buffer /\ next.result = result
    BY <2>1, <2>2 DEF Indexings
  <2> HIDE DEF next
  <2>9. IndexedSo(x, line, next)
    BY <1>5, <2>3 DEF result, WithItem, IndexedSo
  <2> QED
    BY <2>9 DEF next
<1>6. CASE line.kind \in {"item", "text"} /\ x.key # "" /\ (x.mode = "block" \/ (x.mode = "scalar" /\ line.kind = "text"))
  <2>1. next = [x EXCEPT !.buffer = more]
    BY <1>6 DEF indexLine, more
  <2>2. next \in Indexings /\ next.key = x.key /\ next.mode = x.mode /\ next.buffer = more /\ next.result = x.result
    BY <1>3, <2>1 DEF Indexings
  <2> HIDE DEF next
  <2>9. IndexedSo(x, line, next)
    BY <1>6, <2>2 DEF more, IndexedSo
  <2> QED
    BY <2>9 DEF next
<1>7. CASE line.kind = "scalar"
  <2> DEFINE a == assignValue(ended, line.key, <<line.value>>)
  <2>1. next = [a EXCEPT !.key = line.key, !.mode = "none"]
    BY <1>4, <1>7 DEF indexLine
  <2>2. /\ a \in Indexings /\ a.result = Assigned(ended.result, line.key, <<line.value>>) /\ a.buffer = ended.buffer
    BY <1>3, <1>4, AssignTyped
  <2> HIDE DEF a, ended
  <2>3. /\ next \in Indexings /\ next.key = line.key /\ next.mode = "none" /\ next.buffer = a.buffer /\ next.result = a.result
    BY <1>2, <2>1, <2>2 DEF Indexings
  <2> HIDE DEF next
  <2>9. IndexedSo(x, line, next)
    BY <1>7, <2>2, <2>3 DEF ended, IndexedSo
  <2> QED
    BY <2>9 DEF next
<1>8. CASE line.kind \in {"open", "block"}
  <2>1. next = [ended EXCEPT !.key = line.key, !.mode = (IF line.kind = "block" THEN "block" ELSE "scalar"), !.buffer = <<>>]
    BY <1>4, <1>8 DEF indexLine
  <2> HIDE DEF ended
  <2>2. /\ next \in Indexings /\ next.key = line.key /\ next.mode = (IF line.kind = "block" THEN "block" ELSE "scalar")
        /\ next.buffer = <<>> /\ next.result = ended.result
    BY <1>2, <1>3, <1>4, <2>1 DEF Indexings
  <2> HIDE DEF next
  <2>9. IndexedSo(x, line, next)
    BY <1>8, <2>2 DEF ended, IndexedSo
  <2> QED
    BY <2>9 DEF next
<1>9. CASE /\ line.kind \in {"item", "text"}
           /\ ~(line.kind = "item" /\ x.key # "" /\ x.mode \in {"list", "scalar"})
           /\ ~(line.kind \in {"item", "text"} /\ x.key # "" /\ (x.mode = "block" \/ (x.mode = "scalar" /\ line.kind = "text")))
  <2>1. next = x
    BY <1>9 DEF indexLine
  <2> HIDE DEF next
  <2>9. IndexedSo(x, line, next)
    BY <1>9, <2>1 DEF IndexedSo
  <2> QED
    BY <2>9 DEF next
<1> QED
  BY <1>2, <1>5, <1>6, <1>7, <1>8, <1>9

LEMMA UnindexedTyped == Unindexed \in Indexings
<1>1. <<>> \in Seq(STRING)
  BY EmptySeq
<1> DEFINE nothing == [k \in IndexKeys |-> <<>>]
<1>2. nothing \in [IndexKeys -> Seq(STRING)]
  BY <1>1
<1>3. Unindexed = [result |-> nothing, key |-> "", mode |-> "none", buffer |-> <<>>]
  BY DEF Unindexed, IndexKeys
<1> HIDE DEF nothing
<1> QED
  BY <1>1, <1>2, <1>3 DEF Indexings

\* Line by line.
LEMMA LinesIndexed ==
  ASSUME NEW lines \in Seq(FrontLine)
  PROVE  /\ Indexed(lines)[0] = Unindexed
         /\ \A k \in 1 .. Len(lines) : Indexed(lines)[k] = indexLine(Indexed(lines)[k - 1], lines[k])
<1> DEFINE n == Len(lines)
           step == [p \in Indexings \X (1 .. n) |-> indexLine(p[1], lines[p[2]])]
           after == CHOOSE f : f = [k \in 0 .. n |-> IF k = 0 THEN Unindexed ELSE indexLine(f[k - 1], lines[k])]
<1>1. n \in Nat /\ \A k \in 1 .. n : lines[k] \in FrontLine
  BY LenProperties, ElementOfSeq
<1>2. step \in [Indexings \X (1 .. n) -> Indexings]
  <2>1. ASSUME NEW p \in Indexings \X (1 .. n) PROVE indexLine(p[1], lines[p[2]]) \in Indexings
    <3>1. p[1] \in Indexings /\ lines[p[2]] \in FrontLine
      BY <1>1, <2>1
    <3> QED
      BY <3>1, LineIndexed DEF IndexedSo
  <2> QED
    BY <2>1
<1>3. PICK f \in [0 .. n -> Indexings] : Unfolds(f, Unindexed, step, n)
  <2> HIDE DEF n, step
  <2> QED
    BY <1>1, <1>2, UnindexedTyped, StepsUnfold
<1>4. \A k \in 1 .. n : f[k] = indexLine(f[k - 1], lines[k])
  <2>1. TAKE k \in 1 .. n
  <2>2. k - 1 \in 0 .. n /\ f[k - 1] \in Indexings
    BY <1>1
  <2> QED
    BY <1>3, <2>2 DEF Unfolds
<1>5. f = [k \in 0 .. n |-> IF k = 0 THEN Unindexed ELSE indexLine(f[k - 1], lines[k])]
  BY <1>1, <1>3, <1>4 DEF Unfolds
<1>6. after = [k \in 0 .. n |-> IF k = 0 THEN Unindexed ELSE indexLine(after[k - 1], lines[k])]
  BY <1>5
<1>7. Indexed(lines) = after
  BY DEF Indexed
<1> HIDE DEF after
<1>8. after[0] = Unindexed /\ \A k \in 1 .. n : after[k] = indexLine(after[k - 1], lines[k])
  BY <1>1, <1>6
<1> QED
  BY <1>7, <1>8

\* What is validated of a key.
ValuesOf(r, k) == IF k \in DOMAIN r THEN r[k].values ELSE <<>>
Agree(x, y, K) == \A k \in K : x.result[k] = ValuesOf(y.result, k)
\* The two parsers after the same lines, the last key of which is of this kind.
Alike(x, y, kind, key) ==
  /\ kind \in {"none", "scalar"} =>
       x.mode = "none" /\ x.buffer = <<>> /\ y.key = "" /\ y.buffer = <<>> /\ ~y.block /\ Agree(x, y, IndexKeys)
  /\ kind = "open" =>
       /\ x.key = key /\ y.key = key /\ key \in ListKeys /\ key # "" /\ x.mode \in {"scalar", "list"} /\ x.buffer = <<>>
       /\ ~y.block /\ y.buffer = x.result[key] /\ key \notin DOMAIN y.result /\ Agree(x, y, IndexKeys \ {key})
  /\ kind = "block" =>
       /\ x.key = key /\ y.key = key /\ key \notin ListKeys /\ key # "" /\ x.mode = "block" /\ y.block
       /\ x.buffer = y.buffer /\ Agree(x, y, IndexKeys)

\* Where a key ends both have the same.
EndedAlike(x, y, key) ==
  /\ KeyEnded(x) = flushBlock(x)
  /\ Agree(flushBlock(x), Flushed(y), IndexKeys) /\ flushBlock(x).buffer = <<>> /\ Flushed(y).buffer = <<>>
  /\ DOMAIN Flushed(y).result \subseteq DOMAIN y.result \cup ({key} \ {""})

\* Two parsers that agree so far agree on what the key has when it ends.
LEMMA EndsAlike ==
  ASSUME NEW x \in Indexings, NEW y \in Readings, NEW kind \in {"none", "scalar", "open", "block"}, NEW key,
         Alike(x, y, kind, key)
  PROVE  EndedAlike(x, y, key)
<1> USE DEF EndedAlike
<1>1. /\ x.result \in [IndexKeys -> Seq(STRING)] /\ x.key \in STRING \cup {""} /\ x.buffer \in Seq(STRING)
      /\ x.mode \in {"none", "scalar", "list", "block"}
      /\ y.result \in Metadata /\ y.key \in STRING \cup {""} /\ y.buffer \in Seq(STRING)
  BY DEF Indexings, Readings
<1>2. x.key = "" \/ x.buffer = <<>> => flushBlock(x) = x
  BY FlushBlockTyped
<1>3. CASE kind \in {"none", "scalar"}
  <2>1. flushBlock(x) = x /\ Flushed(y) = y
    BY <1>2, <1>3, FlushedTyped DEF Alike
  <2> QED
    BY <1>3, <2>1 DEF Alike, KeyEnded
<1>4. CASE kind = "open"
  <2>0. /\ x.key = key /\ y.key = key /\ key \in ListKeys /\ key # "" /\ x.buffer = <<>>
        /\ y.buffer = x.result[key] /\ key \notin DOMAIN y.result /\ Agree(x, y, IndexKeys \ {key})
    BY <1>4 DEF Alike
  <2>1. flushBlock(x) = x /\ key \in IndexKeys
    BY <1>2, <2>0 DEF IndexKeys
  <2>2. CASE y.buffer = <<>>
    <3>1. Flushed(y).result = y.result /\ Flushed(y).buffer = <<>>
      BY <2>0, <2>2, FlushedTyped
    <3>2. x.result[key] = ValuesOf(y.result, key)
      BY <2>0, <2>2 DEF ValuesOf
    <3>3. Agree(x, Flushed(y), IndexKeys)
      BY <2>0, <3>1, <3>2 DEF Agree
    <3> QED
      BY <2>0, <2>1, <3>1, <3>3 DEF KeyEnded
  <2>3. CASE y.buffer # <<>>
    <3> DEFINE w == With(y.result, key, "array", y.buffer)
    <3>1. Flushed(y).result = w /\ Flushed(y).buffer = <<>>
      BY <2>0, <2>3, FlushedTyped
    <3>2. /\ DOMAIN w = DOMAIN y.result \cup {key} /\ w[key].values = y.buffer
          /\ \A k \in DOMAIN y.result : k # key => w[k] = y.result[k]
      <4>1. key \in STRING /\ "array" \in {"array", "scalar"}
        BY <1>1, <2>0
      <4>2. IsWith(w, y.result, key, y.buffer)
        BY <1>1, <4>1, WithIs
      <4> HIDE DEF w
      <4> QED
        BY <4>2 DEF IsWith
    <3> HIDE DEF w
    <3>3. \A k \in IndexKeys : x.result[k] = ValuesOf(w, k)
      BY <2>0, <3>2 DEF Agree, ValuesOf
    <3> QED
      BY <2>0, <2>1, <3>1, <3>2, <3>3 DEF Agree, KeyEnded
  <2> QED
    BY <2>2, <2>3
<1>5. CASE kind = "block"
  <2>0. /\ x.key = key /\ y.key = key /\ key \notin ListKeys /\ key # "" /\ x.buffer = y.buffer /\ Agree(x, y, IndexKeys)
        /\ x.mode = "block"
    BY <1>5 DEF Alike
  <2>1. KeyEnded(x) = flushBlock(x)
    BY <2>0 DEF KeyEnded
  <2>2. CASE y.buffer = <<>>
    <3>1. Flushed(y).result = y.result /\ Flushed(y).buffer = <<>> /\ flushBlock(x) = x
      BY <1>2, <2>0, <2>2, FlushedTyped
    <3> QED
      BY <2>0, <2>1, <2>2, <3>1 DEF Agree
  <2>3. CASE y.buffer # <<>>
    <3> DEFINE w == With(y.result, key, "array", y.buffer)
    <3>1. Flushed(y).result = w /\ Flushed(y).buffer = <<>>
      BY <2>0, <2>3, FlushedTyped
    <3>2. /\ DOMAIN w = DOMAIN y.result \cup {key} /\ w[key].values = y.buffer
          /\ \A k \in DOMAIN y.result : k # key => w[k] = y.result[k]
      <4>1. key \in STRING /\ "array" \in {"array", "scalar"}
        BY <1>1, <2>0
      <4>2. IsWith(w, y.result, key, y.buffer)
        BY <1>1, <4>1, WithIs
      <4> HIDE DEF w
      <4> QED
        BY <4>2 DEF IsWith
    <3> HIDE DEF w
    <3>3. flushBlock(x).buffer = <<>> /\ flushBlock(x).result = Assigned(x.result, key, y.buffer)
      BY <2>0, <2>3, FlushBlockTyped
    <3>4. \A k \in IndexKeys : Assigned(x.result, key, y.buffer)[k] = ValuesOf(w, k)
      BY <2>0, <3>2 DEF Agree, ValuesOf, Assigned, IndexKeys
    <3> QED
      BY <2>0, <2>1, <3>1, <3>2, <3>3, <3>4 DEF Agree
  <2> QED
    BY <2>2, <2>3
<1> QED
  BY <1>3, <1>4, <1>5

KindOf(lines, i) == IF i = 0 THEN "none" ELSE lines[i].kind
KeyOf(lines, i) == IF i = 0 THEN "" ELSE lines[i].key

\* The line that is spoken of is the nearest key.
LEMMA AboveIs ==
  ASSUME NEW lines \in Seq(FrontLine), NEW n \in Nat, n + 1 <= Len(lines), NEW i, SpokenOf(lines, i, n)
  PROVE  Above(lines, n + 1) = KindOf(lines, i)
<1> DEFINE keys == {j \in 1 .. n : IsKey(lines[j])}
<1>1. Above(lines, n + 1) = IF keys = {} THEN "none" ELSE lines[Max(keys)].kind
  <2>1. (n + 1) - 1 = n
    OBVIOUS
  <2> QED
    BY <2>1 DEF Above
<1>2. i \in Nat /\ i <= n /\ (i # 0 => i \in keys) /\ \A j \in keys : j <= i
  <2>1. i \in 0 .. n /\ (i # 0 => IsKey(lines[i])) /\ \A k \in i + 1 .. n : ~IsKey(lines[k])
    BY DEF SpokenOf
  <2>2. ASSUME NEW j \in keys PROVE j <= i
    <3>1. j \in 1 .. n /\ j \notin i + 1 .. n
      BY <2>1, <2>2
    <3> QED
      BY <2>1, <3>1
  <2> QED
    BY <2>1, <2>2
<1>3. CASE keys = {}
  BY <1>1, <1>2, <1>3 DEF KindOf
<1>4. CASE keys # {}
  <2>1. keys \in SUBSET (1 .. n)
    OBVIOUS
  <2> HIDE DEF keys
  <2>2. Max(keys) \in keys /\ \A y \in keys : y <= Max(keys)
    BY <1>4, <2>1, LastOfThem
  <2>3. i # 0
    <3>1. Max(keys) \in 1 .. n
      BY <2>1, <2>2
    <3> QED
      BY <1>2, <2>2, <3>1
  <2>4. Max(keys) = i
    <3>1. Max(keys) \in 1 .. n
      BY <2>1, <2>2
    <3> QED
      BY <1>2, <2>2, <2>3, <3>1
  <2> QED
    BY <1>1, <1>4, <2>3, <2>4 DEF KindOf
<1> QED
  BY <1>3, <1>4

\* The two parsers agree on the next line, if the frontmatter is plain.
LEMMA NextAlike ==
  ASSUME NEW lines \in Seq(FrontLine), Plain(lines), NEW n \in Nat, n + 1 <= Len(lines),
         NEW x \in Indexings, NEW y \in Readings, NEW i, SpokenOf(lines, i, n), Alike(x, y, KindOf(lines, i), KeyOf(lines, i)),
         DOMAIN y.result \subseteq {lines[j].key : j \in 1 .. n}
  PROVE  \E j : /\ SpokenOf(lines, j, n + 1)
                /\ Alike(indexLine(x, lines[n + 1]), ParseLine(y, lines[n + 1]), KindOf(lines, j), KeyOf(lines, j))
                /\ DOMAIN ParseLine(y, lines[n + 1]).result \subseteq {lines[k].key : k \in 1 .. n + 1}
<1> DEFINE line == lines[n + 1]
           kind == KindOf(lines, i)
           key == KeyOf(lines, i)
           x1 == indexLine(x, line)
           y1 == ParseLine(y, line)
           Keys(m) == {lines[j].key : j \in 1 .. m}
           Goal == \E j : /\ SpokenOf(lines, j, n + 1) /\ Alike(x1, y1, KindOf(lines, j), KeyOf(lines, j))
                          /\ DOMAIN y1.result \subseteq Keys(n + 1)
<1>1. n + 1 \in 1 .. Len(lines) /\ n + 1 \in DOMAIN lines /\ i \in 0 .. n /\ Len(lines) \in Nat
  BY LenProperties DEF SpokenOf
<1>2. /\ line \in FrontLine /\ line.kind \in {"scalar", "open", "block", "item", "text"}
      /\ (IsKey(line) <=> line.kind \in {"scalar", "open", "block"})
      /\ line.key \in STRING /\ line.value \in STRING /\ (IsKey(line) => line.key # "")
  <2>1. line \in FrontLine
    BY <1>1, ElementOfSeq
  <2> HIDE DEF line
  <2> QED
    BY <2>1, LineTyped
<1>3. /\ line.kind = "text" => kind \in {"none", "block"}
      /\ line.kind = "item" => kind \in {"none", "open"}
      /\ line.kind \in {"scalar", "block"} => line.key \notin ListKeys
      /\ line.kind = "open" => line.key \in ListKeys /\ \A j \in DOMAIN lines : lines[j].key = line.key => j = n + 1
  BY <1>1, AboveIs DEF Plain
<1>4. kind \in {"none", "scalar", "open", "block"} /\ (i # 0 => key \in Keys(n)) /\ (i = 0 => key = "")
  <2>1. CASE i = 0
    BY <2>1 DEF KindOf, KeyOf
  <2>2. CASE i # 0
    <3>1. i \in 1 .. n /\ i \in 1 .. Len(lines) /\ IsKey(lines[i])
      BY <1>1, <2>2 DEF SpokenOf
    <3>2. lines[i] \in FrontLine
      BY <3>1, ElementOfSeq
    <3> QED
      BY <2>2, <3>1, <3>2, LineTyped DEF KindOf, KeyOf
  <2> QED
    BY <2>1, <2>2
<1>5. IndexedSo(x, line, x1)
  BY <1>2, LineIndexed
<1>6. ParsedSo(y, line, y1)
  BY <1>2, LineParsed
<1>7. Keys(n) \subseteq Keys(n + 1) /\ line.key \in Keys(n + 1)
  BY <1>1
<1>8. Alike(x, y, kind, key) /\ DOMAIN y.result \subseteq Keys(n)
  OBVIOUS
<1>9. ASSUME ~IsKey(line) PROVE Goal
  <2>1. SpokenOf(lines, i, n + 1)
    <3>1. \A k \in i + 1 .. n + 1 : k \in i + 1 .. n \/ k = n + 1
      BY <1>1
    <3> QED
      BY <1>1, <1>9, <3>1 DEF SpokenOf
  <2>2. line.kind \in {"item", "text"}
    BY <1>2, <1>9
  <2> HIDE DEF line, kind, key, x1, y1, Keys
  <2>3. CASE kind = "none"
    <3>1. x1 = x /\ y1 = y
      BY <1>5, <1>6, <1>8, <2>2, <2>3 DEF Alike, IndexedSo, ParsedSo
    <3>2. Alike(x1, y1, kind, key)
      BY <1>8, <3>1
    <3> QED
      BY <1>7, <1>8, <2>1, <3>1, <3>2 DEF kind, key
  <2>4. CASE kind = "block"
    <3>1. line.kind = "text"
      BY <1>3, <2>2, <2>4
    <3>2. /\ x1.result = x.result /\ x1.key = x.key /\ x1.mode = "block" /\ x1.buffer = Append(x.buffer, line.value)
          /\ y1.result = y.result /\ y1.key = y.key /\ y1.block /\ y1.buffer = Append(y.buffer, line.value)
      BY <1>5, <1>6, <1>8, <2>4, <3>1 DEF Alike, IndexedSo, ParsedSo
    <3>3. Alike(x1, y1, kind, key)
      BY <1>8, <2>4, <3>2 DEF Alike, Agree
    <3> QED
      BY <1>7, <1>8, <2>1, <3>2, <3>3 DEF kind, key
  <2>5. CASE kind = "open"
    <3>1. line.kind = "item"
      BY <1>3, <2>2, <2>5
    <3>2. /\ x1.result = [x.result EXCEPT ![key] = Append(@, line.value)] /\ x1.key = key /\ x1.mode = "list" /\ x1.buffer = <<>>
          /\ y1.result = y.result /\ y1.key = key /\ ~y1.block /\ y1.buffer = Append(x.result[key], line.value)
      BY <1>5, <1>6, <1>8, <2>5, <3>1 DEF Alike, IndexedSo, ParsedSo
    <3>3. DOMAIN x.result = IndexKeys /\ key \in IndexKeys
      BY <1>8, <2>5 DEF Indexings, Alike, IndexKeys
    <3>4. x1.result[key] = y1.buffer /\ \A k \in IndexKeys \ {key} : x1.result[k] = x.result[k]
      BY <3>2, <3>3
    <3>5. Alike(x1, y1, kind, key)
      BY <1>8, <2>5, <3>2, <3>4 DEF Alike, Agree
    <3> QED
      BY <1>7, <1>8, <2>1, <3>2, <3>5 DEF kind, key
  <2>6. kind # "scalar"
    BY <1>3, <2>2
  <2> QED
    BY <1>4, <2>3, <2>4, <2>5, <2>6
<1>10. ASSUME IsKey(line) PROVE Goal
  <2>1. SpokenOf(lines, n + 1, n + 1) /\ KindOf(lines, n + 1) = line.kind /\ KeyOf(lines, n + 1) = line.key
    <3>1. n + 1 # 0 /\ n + 1 \in 0 .. n + 1 /\ \A k \in (n + 1) + 1 .. n + 1 : FALSE
      OBVIOUS
    <3> QED
      BY <1>10, <3>1 DEF SpokenOf, KindOf, KeyOf
  <2> DEFINE fx == flushBlock(x)
             fy == Flushed(y)
  <2>2. /\ KeyEnded(x) = fx /\ Agree(fx, fy, IndexKeys) /\ fx.buffer = <<>> /\ fy.buffer = <<>>
        /\ DOMAIN fy.result \subseteq DOMAIN y.result \cup ({key} \ {""})
    <3>1. x \in Indexings /\ y \in Readings
      OBVIOUS
    <3> HIDE DEF kind, key, line, x1, y1, Keys, Goal
    <3>2. EndedAlike(x, y, key)
      <4>1. kind \in {"none", "scalar", "open", "block"} /\ Alike(x, y, kind, key)
        BY <1>4, <1>8
      <4> QED
        BY ONLY <4>1, <3>1, EndsAlike
    <3> QED
      BY <3>2 DEF EndedAlike
  <2>3. DOMAIN fy.result \subseteq Keys(n)
    BY <1>4, <1>8, <2>2
  <2>4. fx \in Indexings /\ fy \in Readings /\ fy.result \in Metadata /\ fx.result \in [IndexKeys -> Seq(STRING)]
    <3>1. fx \in Indexings /\ fy \in Readings
      BY FlushBlockTyped, FlushedTyped
    <3> HIDE DEF fx, fy
    <3> QED
      BY <3>1 DEF Indexings, Readings
  <2>5. CASE line.kind = "scalar"
    <3> DEFINE values == <<line.value>>
               w == With(fy.result, line.key, "scalar", values)
    <3>1. /\ y1.result = w /\ y1.key = "" /\ ~y1.block /\ y1.buffer = <<>>
          /\ x1.mode = "none" /\ x1.buffer = <<>> /\ x1.result = Assigned(fx.result, line.key, values)
      BY <1>5, <1>6, <2>2, <2>5 DEF IndexedSo, ParsedSo
    <3>2. /\ DOMAIN w = DOMAIN fy.result \cup {line.key} /\ w[line.key].values = values
          /\ \A k \in DOMAIN fy.result : k # line.key => w[k] = fy.result[k]
      <4> DEFINE r == fy.result
                 own == line.key
      <4>1. own \in STRING /\ "scalar" \in {"array", "scalar"} /\ values \in Seq(STRING) /\ r \in Metadata
        BY <1>2, <2>4, OneText
      <4> HIDE DEF r, own, values, w
      <4>2. /\ With(r, own, "scalar", values) \in Metadata
            /\ DOMAIN With(r, own, "scalar", values) = DOMAIN r \cup {own}
            /\ With(r, own, "scalar", values)[own].values = values
            /\ \A k \in DOMAIN r : k # own => With(r, own, "scalar", values)[k] = r[k]
        BY <4>1, WithTyped
      <4> QED
        BY <4>2 DEF w, r, own
    <3>3. line.key \notin ListKeys
      BY <1>3, <2>5
    <3> HIDE DEF w, values, x1, y1, fx, fy, line, Keys
    <3>4. \A k \in IndexKeys : Assigned(fx.result, line.key, values)[k] = ValuesOf(w, k)
      BY <2>2, <3>2, <3>3 DEF Agree, ValuesOf, Assigned, IndexKeys
    <3>5. Alike(x1, y1, line.kind, line.key)
      BY <2>5, <3>1, <3>4 DEF Alike, Agree
    <3>6. DOMAIN y1.result \subseteq Keys(n + 1)
      BY <1>7, <2>3, <3>1, <3>2
    <3> QED
      BY <2>1, <3>5, <3>6
  <2>6. CASE line.kind \in {"open", "block"}
    <3> HIDE DEF x1, y1, fx, fy, line, Keys
    <3>1. /\ y1.result = fy.result /\ y1.key = line.key /\ y1.buffer = <<>> /\ (y1.block <=> line.kind = "block")
          /\ x1.key = line.key /\ x1.mode = (IF line.kind = "block" THEN "block" ELSE "scalar") /\ x1.buffer = <<>>
          /\ x1.result = fx.result
      BY <1>5, <1>6, <2>2, <2>6 DEF IndexedSo, ParsedSo, fy, fx
    <3>2. Agree(x1, y1, IndexKeys)
      BY <2>2, <3>1 DEF Agree
    <3>3. DOMAIN y1.result \subseteq Keys(n + 1)
      BY <1>7, <2>3, <3>1
    <3>4. line.key # ""
      BY <1>2, <1>10
    <3>5. CASE line.kind = "block"
      <4>1. line.key \notin ListKeys
        BY <1>3, <3>5
      <4>2. Alike(x1, y1, line.kind, line.key)
        BY <3>1, <3>2, <3>4, <3>5, <4>1 DEF Alike
      <4> QED
        BY <2>1, <3>3, <4>2
    <3>6. CASE line.kind = "open"
      <4>1. line.key \in ListKeys /\ \A j \in DOMAIN lines : lines[j].key = line.key => j = n + 1
        BY <1>3, <3>6
      <4>2. line.key \notin Keys(n)
        <5>1. \A j \in 1 .. n : j \in DOMAIN lines /\ j # n + 1
          BY <1>1, LenProperties
        <5> QED
          BY <4>1, <5>1 DEF Keys
      <4>3. line.key \notin DOMAIN y1.result
        BY <2>3, <3>1, <4>2
      <4>4. x1.result[line.key] = <<>>
        BY <3>2, <4>1, <4>3 DEF Agree, ValuesOf, IndexKeys
      <4>5. Alike(x1, y1, line.kind, line.key)
        BY <3>1, <3>2, <3>4, <3>6, <4>1, <4>3, <4>4 DEF Alike, Agree
      <4> QED
        BY <2>1, <3>3, <4>5
    <3> QED
      BY <2>6, <3>5, <3>6
  <2> QED
    BY <1>2, <1>10, <2>5, <2>6
<1> QED
  BY <1>9, <1>10

\* The indexer holds of a plain frontmatter what the validation reads: step by step the two
\* parsers are alike.
LEMMA IndexTold ==
  ASSUME NEW lines \in UpTo(FrontLine, MaxLines + 1), IndexFrontmatter(lines)
  PROVE  IndexerReadsAlike'
<1> DEFINE n == Len(lines)
           ix == Indexed(lines)
           px == Parsed(lines)
<1>1. lines \in Seq(FrontLine) /\ n \in Nat
  <2>1. MaxLines + 1 \in Nat
    <3>1. MaxLines \in Nat
      BY ReportAssumption
    <3> QED
      BY <3>1
  <2> QED
    BY <2>1, UpToIsSeq
<1>2. told' = [tool |-> "index", lines |-> lines, read |-> parseFrontmatter(lines)]
  BY DEF IndexFrontmatter, Answers
<1>3. told'.lines = lines /\ told'.read = parseFrontmatter(lines)
  BY <1>2
<1>4. SUFFICES ASSUME Plain(lines)
               PROVE  \A k \in IndexKeys : parseFrontmatter(lines)[k] = ValuesOf(parseYamlFrontmatter(lines), k)
  BY <1>3 DEF IndexerReadsAlike, ValuesOf, IndexKeys
<1> DEFINE T == {k \in 0 .. n : \E i : /\ ix[k] \in Indexings /\ px[k] \in Readings /\ SpokenOf(lines, i, k)
                                       /\ Alike(ix[k], px[k], KindOf(lines, i), KeyOf(lines, i))
                                       /\ DOMAIN px[k].result \subseteq {lines[j].key : j \in 1 .. k}}
<1>5. /\ px[0] = Unread /\ \A k \in 0 .. n : px[k] \in Readings
      /\ \A k \in 1 .. n : px[k] = ParseLine(px[k - 1], lines[k])
  BY <1>1, LinesParsed
<1>6. /\ ix[0] = Unindexed /\ \A k \in 1 .. n : ix[k] = indexLine(ix[k - 1], lines[k])
  BY <1>1, LinesIndexed
<1> HIDE DEF n, ix, px
<1>7. 0 \in T
  <2>1. SpokenOf(lines, 0, 0) /\ KindOf(lines, 0) = "none" /\ 0 \in 0 .. n
    BY <1>1 DEF SpokenOf, KindOf
  <2>2. /\ Unread.key = "" /\ Unread.buffer = <<>> /\ ~Unread.block /\ DOMAIN Unread.result = {}
        /\ Unindexed.mode = "none" /\ Unindexed.buffer = <<>> /\ \A k \in IndexKeys : Unindexed.result[k] = <<>>
    BY DEF Unread, Unindexed, IndexKeys
  <2>3. Alike(Unindexed, Unread, "none", KeyOf(lines, 0))
    BY <2>2 DEF Alike, Agree, ValuesOf
  <2> QED
    BY <1>5, <1>6, <2>1, <2>2, <2>3, UnindexedTyped
<1>8. \A k \in 1 .. n : k - 1 \in T => k \in T
  <2>1. SUFFICES ASSUME NEW k \in 1 .. n, k - 1 \in T PROVE k \in T
    OBVIOUS
  <2>2. k - 1 \in Nat /\ k - 1 \in 0 .. n /\ (k - 1) + 1 = k /\ k <= n /\ k \in 0 .. n
    BY <1>1
  <2> DEFINE x == ix[k - 1]
             y == px[k - 1]
             m == k - 1
  <2>3. PICK i : /\ x \in Indexings /\ y \in Readings /\ SpokenOf(lines, i, m)
                 /\ Alike(x, y, KindOf(lines, i), KeyOf(lines, i))
                 /\ DOMAIN y.result \subseteq {lines[j].key : j \in 1 .. m}
    BY <2>1
  <2>4. ix[k] = indexLine(x, lines[m + 1]) /\ px[k] = ParseLine(y, lines[m + 1]) /\ px[k] \in Readings
    BY <1>5, <1>6, <2>2
  <2>5. m \in Nat /\ m + 1 <= Len(lines) /\ m + 1 = k
    BY <2>2 DEF n
  <2>6. indexLine(x, lines[m + 1]) \in Indexings
    <3>1. lines[m + 1] \in FrontLine
      BY <1>1, <2>2, ElementOfSeq DEF n
    <3> QED
      BY <2>3, <3>1, LineIndexed DEF IndexedSo
  <2> HIDE DEF x, y, m
  <2>7. \E j : /\ SpokenOf(lines, j, m + 1)
               /\ Alike(indexLine(x, lines[m + 1]), ParseLine(y, lines[m + 1]), KindOf(lines, j), KeyOf(lines, j))
               /\ DOMAIN ParseLine(y, lines[m + 1]).result \subseteq {lines[l].key : l \in 1 .. m + 1}
    BY <1>1, <1>4, <2>3, <2>5, NextAlike
  <2> QED
    BY <2>2, <2>4, <2>5, <2>6, <2>7
<1>9. n \in T
  <2>1. n \in 0 .. n
    BY <1>1
  <2> HIDE DEF T
  <2> QED
    BY <1>1, <1>7, <1>8, <2>1, HoldsToTheEnd
<1>10. PICK i : /\ ix[n] \in Indexings /\ px[n] \in Readings /\ SpokenOf(lines, i, n)
                /\ Alike(ix[n], px[n], KindOf(lines, i), KeyOf(lines, i))
  BY <1>9
<1>11. KindOf(lines, i) \in {"none", "scalar", "open", "block"}
  <2>1. CASE i = 0
    BY <2>1 DEF KindOf
  <2>2. CASE i # 0
    <3>1. i \in 1 .. n /\ i \in 1 .. Len(lines) /\ IsKey(lines[i])
      BY <1>1, <1>10, <2>2 DEF SpokenOf, n
    <3> QED
      BY <1>1, <2>2, <3>1 DEF KindOf, IsKey
  <2> QED
    BY <2>1, <2>2
<1>12. EndedAlike(ix[n], px[n], KeyOf(lines, i))
  <2> DEFINE x == ix[n]
             y == px[n]
             kind == KindOf(lines, i)
             key == KeyOf(lines, i)
  <2>1. x \in Indexings /\ y \in Readings /\ kind \in {"none", "scalar", "open", "block"} /\ Alike(x, y, kind, key)
    BY <1>10, <1>11
  <2> HIDE DEF x, y, kind, key
  <2>2. EndedAlike(x, y, key)
    BY <2>1, EndsAlike
  <2> QED
    BY <2>2 DEF x, y, key
<1>13. \A k \in IndexKeys : flushBlock(ix[n]).result[k] = ValuesOf(Flushed(px[n]).result, k)
  BY <1>12 DEF EndedAlike, Agree
<1> QED
  BY <1>13 DEF parseFrontmatter, parseYamlFrontmatter, ix, px, n
-----------------------------------------------------------------------------
(* The scan of the inventory.                                              *)

\* Min, of two numbers.
LEMMA LesserOfTwo ==
  ASSUME NEW m \in Nat, NEW n \in Nat
  PROVE  Min({m, n}) = IF m <= n THEN m ELSE n
<1>1. CASE m <= n
  <2>1. m \in {m, n} /\ \A y \in {m, n} : m <= y
    BY <1>1
  <2> QED
    BY <1>1, <2>1 DEF Min
<1>2. CASE ~(m <= n)
  <2>1. n \in {m, n} /\ \A y \in {m, n} : n <= y
    BY <1>2
  <2> QED
    BY <1>2, <2>1 DEF Min
<1> QED
  BY <1>1, <1>2

\* What a surface leaves out is told.
LEMMA CappedFairly ==
  ASSUME NEW id, NEW n \in Nat
  PROVE  LET cap == capTriggerSurface(id, n) IN
         /\ cap.kept <= MAX_TRIGGER_PHRASES_PER_SKILL
         /\ cap.kept = n \/ <<"truncated", id, n - cap.kept>> \in cap.warned
         /\ \A w \in cap.warned : w[1] = "truncated"
<1>1. MAX_TRIGGER_PHRASES_PER_SKILL \in Nat
  BY FilesAssumption
<1>2. Min({n, MAX_TRIGGER_PHRASES_PER_SKILL}) = IF n <= MAX_TRIGGER_PHRASES_PER_SKILL THEN n ELSE MAX_TRIGGER_PHRASES_PER_SKILL
  BY <1>1, LesserOfTwo
<1> QED
  BY <1>1, <1>2 DEF capTriggerSurface

Directories(folder) == {e \in folder : e.kind = "dir"}
DirId(d) == IF d.md /\ d.read /\ d.name # "" THEN d.name ELSE d.dir
DirPhrases(d) == 1 + IF d.md /\ d.read THEN d.phrases ELSE 0
DirCap(d) == capTriggerSurface(DirId(d), DirPhrases(d))
DirEntry(home, place, d) ==
  [kind |-> "skill", place |-> place, file |-> d.dir, id |-> DirId(d), surface |-> DirCap(d).kept,
   author |-> lookupAuthor(home, DirId(d))]

\* What cannot be listed gives nothing.
LEMMA FolderLost ==
  ASSUME NEW home, NEW place, NEW folder, place \in home.unlisted
  PROVE  LET r == scanSkillsDirEntries(home, place, folder) IN r.entries = {} /\ r.warnings = {}
<1>1. scanSkillsDirEntries(home, place, folder) = Nothing
  BY DEF scanSkillsDirEntries
<1> QED
  BY <1>1 DEF Nothing

\* A directory is one entry, and its warnings are its own.
LEMMA FolderScanned ==
  ASSUME NEW home, NEW place, NEW folder, place \notin home.unlisted
  PROVE  LET r == scanSkillsDirEntries(home, place, folder) IN
         /\ r.entries = {DirEntry(home, place, d) : d \in Directories(folder)}
         /\ r.warnings = {<<"no_skill_md", d.dir, 0>> : d \in {e \in Directories(folder) : ~e.md}}
                         \cup UNION {DirCap(d).warned : d \in Directories(folder)}
BY DEF scanSkillsDirEntries, DirEntry, DirCap, DirId, DirPhrases, Directories

LEMMA PhrasesCounted ==
  ASSUME NEW d \in SkillEntry
  PROVE  DirPhrases(d) \in Nat
<1>1. d.phrases \in Nat
  BY FilesAssumption
<1> QED
  BY <1>1 DEF DirPhrases

\* Where the entries are, and what is warned of.
LEMMA FolderWarns ==
  ASSUME NEW home, NEW place, NEW folder \in SUBSET SkillEntry
  PROVE  /\ \A e \in scanSkillsDirEntries(home, place, folder).entries : e.place = place
         /\ \A w \in scanSkillsDirEntries(home, place, folder).warnings : w[1] \in {"no_skill_md", "truncated"}
<1>0. CASE place \in home.unlisted
  BY <1>0, FolderLost
<1>4. CASE place \notin home.unlisted
  <2>1. \A e \in {DirEntry(home, place, d) : d \in Directories(folder)} : e.place = place
    BY DEF DirEntry
  <2>2. ASSUME NEW w \in UNION {DirCap(d).warned : d \in Directories(folder)} PROVE w[1] = "truncated"
    <3>1. PICK d \in Directories(folder) : w \in DirCap(d).warned
      BY <2>2
    <3>2. DirPhrases(d) \in Nat
      BY PhrasesCounted DEF Directories
    <3> QED
      BY <3>1, <3>2, CappedFairly DEF DirCap
  <2> QED
    BY <1>4, <2>1, <2>2, FolderScanned
<1> QED
  BY <1>0, <1>4

\* If the entries of a place are those of its folder, all of it is accounted for.
LEMMA FolderTold ==
  ASSUME NEW home, NEW place, NEW folder \in SUBSET SkillEntry, told'.home = home,
         {e \in told'.entries : e.place = place} = scanSkillsDirEntries(home, place, folder).entries,
         scanSkillsDirEntries(home, place, folder).warnings \subseteq told'.warnings
  PROVE  Scanned(place, folder)'
<1>1. SUFFICES ASSUME place \notin home.unlisted, NEW d \in Directories(folder)
               PROVE  LET found == {e \in told'.entries : e.place = place /\ e.file = d.dir} IN
                      /\ Cardinality(found) = 1
                      /\ \A e \in found : /\ e.surface <= MAX_TRIGGER_PHRASES_PER_SKILL
                                          /\ \/ e.surface = DirPhrases(d)
                                             \/ <<"truncated", e.id, DirPhrases(d) - e.surface>> \in told'.warnings
  BY DEF Directories, DirPhrases, Scanned, Covers
<1> DEFINE found == {e \in told'.entries : e.place = place /\ e.file = d.dir}
           one == DirEntry(home, place, d)
<1>2. d \in SkillEntry /\ folder \subseteq SkillEntry
  BY DEF Directories
<1>3. \A c \in Directories(folder) : c.dir = d.dir => c = d
  <2>1. \A c, e \in SkillEntry : c.dir = e.dir => c = e
    BY FilesAssumption
  <2> QED
    BY <1>2, <2>1 DEF Directories
<1>4. {e \in told'.entries : e.place = place} = {DirEntry(home, place, c) : c \in Directories(folder)}
  BY <1>1, FolderScanned
<1>5. \A c \in Directories(folder) : DirEntry(home, place, c).file = c.dir /\ DirEntry(home, place, c).place = place
  BY DEF DirEntry
<1>6. found = {one}
  <2>1. one \in found
    BY <1>4, <1>5
  <2>2. ASSUME NEW e \in found PROVE e = one
    <3>1. PICK c \in Directories(folder) : e = DirEntry(home, place, c)
      BY <1>4
    <3>2. c.dir = d.dir
      BY <1>5, <3>1
    <3> QED
      BY <1>3, <3>1, <3>2
  <2> QED
    BY <2>1, <2>2
<1>7. Cardinality(found) = 1
  BY <1>6, FS_Singleton
<1>8. one.id = DirId(d) /\ one.surface = DirCap(d).kept
  BY DEF DirEntry
<1>9. DirCap(d).warned \subseteq told'.warnings
  BY <1>1, FolderScanned
<1>10. /\ DirCap(d).kept <= MAX_TRIGGER_PHRASES_PER_SKILL
       /\ DirCap(d).kept = DirPhrases(d) \/ <<"truncated", DirId(d), DirPhrases(d) - DirCap(d).kept>> \in DirCap(d).warned
  BY <1>2, PhrasesCounted, CappedFairly DEF DirCap
<1> QED
  BY <1>6, <1>7, <1>8, <1>9, <1>10

LEMMA MdPhrases ==
  ASSUME NEW f \in MdEntry
  PROVE  PhrasesOf(f) \in Nat
<1>1. f.described \in Nat /\ f.first \in Nat
  BY FilesAssumption
<1> QED
  BY <1>1 DEF PhrasesOf

\* The commands and the agents.
LEMMA MdTold ==
  ASSUME NEW home, NEW kind, kind \notin home.unlisted, NEW folder \in SUBSET MdEntry, NEW f \in folder, f.kind = "md",
         scanMdDir(home, kind, folder).entries \subseteq told'.entries,
         scanMdDir(home, kind, folder).warnings \subseteq told'.warnings
  PROVE  \E e \in told'.entries :
           /\ e.kind = kind /\ e.file = f.file
           /\ e.surface <= MAX_TRIGGER_PHRASES_PER_SKILL
           /\ e.surface = PhrasesOf(f) \/ <<"truncated", e.id, PhrasesOf(f) - e.surface>> \in told'.warnings
<1> DEFINE n == PhrasesOf(f)
           cap == capTriggerSurface(f.file, n)
           e == [kind |-> kind, place |-> kind, file |-> f.file, id |-> f.file, surface |-> cap.kept, author |-> FALSE]
<1>2. n \in Nat
  BY MdPhrases
<1>3. e \in scanMdDir(home, kind, folder).entries /\ cap.warned \subseteq scanMdDir(home, kind, folder).warnings
  BY DEF scanMdDir
<1> HIDE DEF n
<1>4. cap.kept <= MAX_TRIGGER_PHRASES_PER_SKILL /\ (cap.kept = n \/ <<"truncated", f.file, n - cap.kept>> \in cap.warned)
  BY <1>2, CappedFairly
<1> HIDE DEF cap
<1>5. e.kind = kind /\ e.file = f.file /\ e.id = f.file /\ e.surface = cap.kept
  OBVIOUS
<1> HIDE DEF e
<1> QED
  BY <1>3, <1>4, <1>5 DEF n

\* What cannot be listed gives nothing.
LEMMA MdLost ==
  ASSUME NEW home, NEW kind, NEW folder, kind \in home.unlisted \/ folder = {}
  PROVE  LET r == scanMdDir(home, kind, folder) IN r.entries = {} /\ r.warnings = {}
<1>1. CASE kind \in home.unlisted
  <2>1. scanMdDir(home, kind, folder) = Nothing
    BY <1>1 DEF scanMdDir
  <2> QED
    BY <2>1 DEF Nothing
<1>2. CASE kind \notin home.unlisted /\ folder = {}
  BY <1>2 DEF scanMdDir
<1> QED
  BY <1>1, <1>2

\* Where the entries are, and what is warned of.
LEMMA MdPlaced ==
  ASSUME NEW home, NEW kind, NEW folder \in SUBSET MdEntry
  PROVE  /\ \A e \in scanMdDir(home, kind, folder).entries : e.place = kind
         /\ \A w \in scanMdDir(home, kind, folder).warnings : w[1] = "truncated"
<1>1. CASE kind \in home.unlisted
  BY <1>1, MdLost
<1>2. CASE kind \notin home.unlisted
  <2>1. \A e \in scanMdDir(home, kind, folder).entries : e.place = kind
    BY <1>2 DEF scanMdDir
  <2>2. ASSUME NEW w \in scanMdDir(home, kind, folder).warnings PROVE w[1] = "truncated"
    <3>1. PICK f \in folder : w \in capTriggerSurface(f.file, PhrasesOf(f)).warned
      BY <1>2, <2>2 DEF scanMdDir
    <3>2. PhrasesOf(f) \in Nat
      BY MdPhrases
    <3> QED
      BY <3>1, <3>2, CappedFairly
  <2> QED
    BY <2>1, <2>2
<1> QED
  BY <1>1, <1>2

\* The rules of a CLAUDE.md.
Captures == [mode : BOOLEAN, found : Seq(Nat)]

\* Below a heading the lines are under it, until the next.
LEMMA NearestHeading ==
  ASSUME NEW lines \in Seq(ClaudeLine), NEW k \in 1 .. Len(lines)
  PROVE  /\ lines[k].kind \in {"trigger", "other"} /\ ~lines[k].marker => (UnderTrigger(lines, k) <=> lines[k].kind = "trigger")
         /\ ~(lines[k].kind \in {"trigger", "other"} /\ ~lines[k].marker) => (UnderTrigger(lines, k) <=> UnderTrigger(lines, k - 1))
<1>0. k \in Nat /\ k - 1 \in Nat /\ 1 <= k
  BY LenProperties
<1>1. CASE lines[k].kind \in {"trigger", "other"} /\ ~lines[k].marker
  <2> DEFINE H == HeadingsTo(lines, k)
  <2>1. k \in H /\ H \in SUBSET (1 .. k)
    BY <1>0, <1>1 DEF HeadingsTo
  <2> HIDE DEF H
  <2>2. Max(H) \in H /\ \A y \in H : y <= Max(H)
    BY <1>0, <2>1, LastOfThem
  <2>3. Max(H) \in 1 .. k /\ k <= Max(H)
    BY <2>1, <2>2
  <2>4. Max(H) = k
    BY <1>0, <2>3
  <2> QED
    BY <1>1, <2>1, <2>4 DEF UnderTrigger, H
<1>2. CASE ~(lines[k].kind \in {"trigger", "other"} /\ ~lines[k].marker)
  <2>1. (1 .. k) = (1 .. k - 1) \cup {k}
    BY <1>0
  <2>2. HeadingsTo(lines, k) = HeadingsTo(lines, k - 1)
    BY <1>2, <2>1 DEF HeadingsTo
  <2> QED
    BY <1>2, <2>2 DEF UnderTrigger
<1> QED
  BY <1>1, <1>2

\* After k lines.
CapturedTo(st, lines, k) ==
  /\ st \in Captures /\ (st.mode <=> UnderTrigger(lines, k))
  /\ ToSet(st.found) = {i \in 1 .. k : RuleAt(lines, i)}
  /\ \A m, n \in DOMAIN st.found : m < n => st.found[m] < st.found[n]

\* What is captured of the first lines are their rules; so it is with the next line.
LEMMA NextCaptured ==
  ASSUME NEW lines \in Seq(ClaudeLine), NEW k \in 1 .. Len(lines), NEW st, CapturedTo(st, lines, k - 1)
  PROVE  CapturedTo(Captured(st, lines, k), lines, k)
<1> DEFINE line == lines[k]
           more == RuleAt(lines, k)
           found == IF more THEN Append(st.found, k) ELSE st.found
<1>1. k \in Nat /\ 1 <= k /\ k - 1 \in Nat /\ k \in 1 .. Len(lines)
  BY LenProperties
<1>2. /\ line.kind \in {"trigger", "other", "bullet", "text"} /\ line.marker \in BOOLEAN /\ line.phrase \in BOOLEAN
  <2>1. line \in ClaudeLine
    BY ElementOfSeq
  <2> QED
    BY <2>1, FilesAssumption
<1>3. st.mode \in BOOLEAN /\ st.found \in Seq(Nat) /\ (st.mode <=> UnderTrigger(lines, k - 1))
  BY DEF CapturedTo, Captures
<1>4. captureMode(st.mode, line) \in BOOLEAN /\ (captureMode(st.mode, line) <=> UnderTrigger(lines, k))
  BY <1>2, <1>3, NearestHeading DEF captureMode
<1>5. more <=> (\/ line.marker /\ line.phrase
                \/ ~line.marker /\ line.kind = "bullet" /\ st.mode)
  BY <1>2, <1>3, NearestHeading DEF RuleAt
<1>6. Captured(st, lines, k) = [mode |-> captureMode(st.mode, line), found |-> found]
  BY <1>5 DEF Captured
<1> HIDE DEF more, line
<1>7. (1 .. k) = (1 .. k - 1) \cup {k}
  BY <1>1
<1>8. ToSet(st.found) = {i \in 1 .. k - 1 : RuleAt(lines, i)} /\ \A m, n \in DOMAIN st.found : m < n => st.found[m] < st.found[n]
  BY DEF CapturedTo
<1>9. /\ found \in Seq(Nat) /\ ToSet(found) = {i \in 1 .. k : RuleAt(lines, i)}
      /\ \A m, n \in DOMAIN found : m < n => found[m] < found[n]
  <2>1. CASE ~more
    <3>1. {i \in 1 .. k : RuleAt(lines, i)} = {i \in 1 .. k - 1 : RuleAt(lines, i)}
      BY <1>7, <2>1 DEF more
    <3> QED
      BY <1>3, <1>8, <2>1, <3>1
  <2>2. CASE more
    <3> DEFINE c == Len(st.found)
    <3>1. /\ found \in Seq(Nat) /\ c \in Nat /\ DOMAIN found = 1 .. c + 1 /\ DOMAIN st.found = 1 .. c
          /\ found[c + 1] = k /\ \A m \in 1 .. c : found[m] = st.found[m]
      BY <1>1, <1>3, <2>2, AppendProperties, LenProperties
    <3> HIDE DEF found, c
    <3>2. \A m \in 1 .. c : st.found[m] \in 1 .. k - 1
      BY <1>8, <3>1 DEF ToSet
    <3>3. ToSet(found) = ToSet(st.found) \cup {k}
      <4>1. \A m \in 1 .. c + 1 : m \in 1 .. c \/ m = c + 1
        BY <3>1
      <4>2. \A m \in 1 .. c : m \in 1 .. c + 1
        BY <3>1
      <4>3. c + 1 \in 1 .. c + 1
        BY <3>1
      <4> QED
        BY <3>1, <4>1, <4>2, <4>3 DEF ToSet
    <3>4. ToSet(found) = {i \in 1 .. k : RuleAt(lines, i)}
      BY <1>7, <1>8, <2>2, <3>3 DEF more
    <3>5. ASSUME NEW m \in 1 .. c + 1, NEW n \in 1 .. c + 1, m < n PROVE found[m] < found[n]
      <4>1. m \in 1 .. c /\ found[m] = st.found[m] /\ found[m] \in 1 .. k - 1
        BY <3>1, <3>2, <3>5
      <4>2. CASE n = c + 1
        BY <1>1, <3>1, <4>1, <4>2
      <4>3. CASE n # c + 1
        <5>1. n \in 1 .. c
          BY <3>1, <4>3
        <5> QED
          BY <1>8, <3>1, <3>5, <4>1, <5>1
      <4> QED
        BY <4>2, <4>3
    <3> QED
      BY <3>1, <3>4, <3>5
  <2> QED
    BY <2>1, <2>2
<1> HIDE DEF found
<1> QED
  BY <1>4, <1>6, <1>9 DEF CapturedTo, Captures, line

\* What is captured of all lines are the rules.
LEMMA RulesCaptured ==
  ASSUME NEW lines \in Seq(ClaudeLine)
  PROVE  CapturedTo(Capturing(lines)[Len(lines)], lines, Len(lines))
<1> DEFINE n == Len(lines)
           start == [mode |-> FALSE, found |-> <<>>]
           after == CHOOSE f : f = [k \in 0 .. n |-> IF k = 0 THEN start ELSE Captured(f[k - 1], lines, k)]
           step == [p \in Captures \X (1 .. n) |-> Captured(p[1], lines, p[2])]
<1>1. n \in Nat
  BY LenProperties
<1>2. start \in Captures
  BY EmptySeq DEF Captures
<1>3. step \in [Captures \X (1 .. n) -> Captures]
  <2>1. ASSUME NEW p \in Captures \X (1 .. n) PROVE Captured(p[1], lines, p[2]) \in Captures
    <3> DEFINE st == p[1]
               k == p[2]
    <3>1. st \in Captures /\ k \in 1 .. n
      BY <2>1
    <3>2. st.mode \in BOOLEAN /\ st.found \in Seq(Nat)
      BY <3>1 DEF Captures
    <3>3. k \in Nat
      BY <1>1, <3>1
    <3> HIDE DEF st, k
    <3>4. captureMode(st.mode, lines[k]) \in BOOLEAN
      BY <3>2 DEF captureMode
    <3>5. Append(st.found, k) \in Seq(Nat)
      BY <3>2, <3>3, AppendProperties
    <3>6. Captured(st, lines, k) \in Captures
      BY <3>2, <3>4, <3>5 DEF Captured, Captures
    <3> QED
      BY <3>6 DEF st, k
  <2> QED
    BY <2>1
<1>4. PICK f \in [0 .. n -> Captures] : Unfolds(f, start, step, n)
  <2> HIDE DEF n, step, start
  <2> QED
    BY <1>1, <1>2, <1>3, StepsUnfold
<1>5. \A k \in 1 .. n : f[k] = Captured(f[k - 1], lines, k)
  <2>1. TAKE k \in 1 .. n
  <2>2. k - 1 \in 0 .. n /\ f[k - 1] \in Captures
    BY <1>1
  <2> QED
    BY <1>4, <2>2 DEF Unfolds
<1> HIDE DEF start
<1>6. f = [k \in 0 .. n |-> IF k = 0 THEN start ELSE Captured(f[k - 1], lines, k)]
  BY <1>1, <1>4, <1>5 DEF Unfolds
<1>7. after = [k \in 0 .. n |-> IF k = 0 THEN start ELSE Captured(after[k - 1], lines, k)]
  BY <1>6
<1>8. Capturing(lines) = after
  BY DEF Capturing, start
<1> HIDE DEF after
<1>9. after[0] = start /\ \A k \in 1 .. n : after[k] = Captured(after[k - 1], lines, k)
  BY <1>1, <1>7
<1> DEFINE T == {k \in 0 .. n : CapturedTo(after[k], lines, k)}
<1>10. 0 \in T
  <2>1. start.mode = FALSE /\ start.found = <<>> /\ ToSet(<<>>) = {} /\ DOMAIN <<>> = {}
    BY DEF start, ToSet
  <2>2. ~UnderTrigger(lines, 0)
    BY DEF UnderTrigger, HeadingsTo
  <2>3. CapturedTo(start, lines, 0)
    BY <1>2, <2>1, <2>2 DEF CapturedTo
  <2> QED
    BY <1>1, <1>9, <2>3
<1>11. \A k \in 1 .. n : k - 1 \in T => k \in T
  <2>1. SUFFICES ASSUME NEW k \in 1 .. n, k - 1 \in T PROVE k \in T
    OBVIOUS
  <2>2. k \in 0 .. n /\ k \in 1 .. Len(lines) /\ CapturedTo(after[k - 1], lines, k - 1)
    BY <1>1, <2>1
  <2>3. CapturedTo(Captured(after[k - 1], lines, k), lines, k)
    BY <2>2, NextCaptured
  <2> QED
    BY <1>9, <2>2, <2>3
<1>12. n \in T
  <2>1. n \in 0 .. n
    BY <1>1
  <2> HIDE DEF T, n
  <2> QED
    BY <1>1, <1>10, <1>11, <2>1, HoldsToTheEnd
<1> QED
  BY <1>8, <1>12

\* What the places of a home may hold.
HomeTyped(home) ==
  /\ home.claudeMd \in Seq(ClaudeLine) /\ DOMAIN home.claudeMd = 1 .. Len(home.claudeMd)
  /\ home.skills \in SUBSET SkillEntry /\ home.own \in SUBSET SkillEntry
  /\ home.commands \in SUBSET MdEntry /\ home.agents \in SUBSET MdEntry /\ home.plugins \in SUBSET PluginEntry
  /\ home.plugins = {} \/ (home.skills = {} /\ home.commands = {} /\ home.agents = {} /\ home.project = "absent")

\* The homes that are asked about.
LEMMA HomesTyped ==
  ASSUME ScanInventory
  PROVE  \E home : HomeTyped(home) /\ ScanHome(home)
<1>0. <<>> \in Seq(ClaudeLine) /\ DOMAIN <<>> = 1 .. Len(<<>>)
  BY EmptySeq
<1>1. ASSUME NEW l \in UpTo(ClaudeLine, MaxClaudeLines)
      PROVE  HomeTyped([NoHome EXCEPT !.claudeMd = l])
  <2>1. MaxClaudeLines \in Nat
    BY FilesAssumption
  <2>2. l \in Seq(ClaudeLine) /\ DOMAIN l = 1 .. Len(l)
    BY <2>1, UpToIsSeq
  <2> QED
    BY <2>2 DEF NoHome, HomeTyped
<1>2. ASSUME NEW f \in SUBSET SkillEntry, NEW g \in {{}, SkillEntry}, NEW at, NEW shape, NEW names, NEW lost
      PROVE  HomeTyped([NoHome EXCEPT !.skills = f, !.own = g, !.project = at, !.manifest = shape, !.recorded = names,
                                      !.unlisted = lost])
  BY <1>0 DEF NoHome, HomeTyped
<1>3. ASSUME NEW c \in SUBSET MdEntry, NEW a \in SUBSET MdEntry, NEW lost
      PROVE  HomeTyped([NoHome EXCEPT !.commands = c, !.agents = a, !.unlisted = lost])
  BY <1>0 DEF NoHome, HomeTyped
<1>4. ASSUME NEW s, NEW g \in PluginEntry, NEW h \in PluginEntry, NEW lost
      PROVE  HomeTyped([NoHome EXCEPT !.settings = s, !.plugins = {g, h}, !.unlisted = lost])
  BY <1>0 DEF NoHome, HomeTyped
<1> QED
  BY <1>1, <1>2, <1>3, <1>4, Zenon DEF ScanInventory

\* A plugin is skipped for a reason, and one that is not has one version.
LEMMA SkippedKnown ==
  ASSUME NEW g \in PluginEntry
  PROVE  /\ pluginSkipped(g) \in PluginWarnings \cup {"none"}
         /\ pluginSkipped(g) = "none" => g.versions = 1
         /\ "none" \notin PluginWarnings
<1>1. g.shape \in {"ok", "shapeless", "unsafe"} /\ g.cache \in {"inside", "outside", "missing", "file"}
  BY FilesAssumption
<1>2. pluginSkipped(g) = "none" => g.versions = 1
  <2>1. CASE g.shape = "shapeless"
    BY <2>1 DEF pluginSkipped
  <2>2. CASE g.shape = "unsafe"
    BY <2>2 DEF pluginSkipped, isSafePathComponent
  <2>3. CASE g.shape = "ok" /\ g.cache \in {"outside", "missing"}
    BY <2>3 DEF pluginSkipped, isSafePathComponent, isWithinRoot
  <2>4. CASE g.shape = "ok" /\ g.cache = "file"
    BY <2>4 DEF pluginSkipped, isSafePathComponent, isWithinRoot
  <2>5. CASE g.shape = "ok" /\ g.cache = "inside"
    BY <2>5 DEF pluginSkipped, isSafePathComponent, isWithinRoot
  <2> QED
    BY <1>1, <2>1, <2>2, <2>3, <2>4, <2>5
<1>3. pluginSkipped(g) \in PluginWarnings \cup {"none"}
  BY DEF pluginSkipped, PluginWarnings
<1> QED
  BY <1>2, <1>3 DEF PluginWarnings

ScannedPlugins(home) == {g \in readEnabledPluginIds(home) : pluginSkipped(g) = "none" /\ g.versions = 1}

ScanWarnings(home) == UNION {scanSkillsDirEntries(home, g.id, g.dirs).warnings : g \in ScannedPlugins(home)}
SkipWarnings(home) == {<<pluginSkipped(g), g.id, 0>> : g \in {e \in readEnabledPluginIds(home) : pluginSkipped(e) # "none"}}
SettingsWarnings(home) == IF home.settings = "malformed" THEN {<<"settings", "", 0>>} ELSE {}

\* The warnings about plugins come from what is scanned, what is skipped and the settings.
LEMMA PluginsWarned ==
  ASSUME NEW home
  PROVE  scanPluginInventory(home).warnings = ScanWarnings(home) \cup SkipWarnings(home) \cup SettingsWarnings(home)
BY DEF scanPluginInventory, ScannedPlugins, ScanWarnings, SkipWarnings, SettingsWarnings

\* An enabled plugin is scanned or warned of, and no other.
LEMMA PluginsScanned ==
  ASSUME NEW home, HomeTyped(home)
  PROVE  LET r == scanPluginInventory(home) IN
         /\ r.entries = UNION {scanSkillsDirEntries(home, g.id, g.dirs).entries : g \in ScannedPlugins(home)}
         /\ \A g \in ScannedPlugins(home) : scanSkillsDirEntries(home, g.id, g.dirs).warnings \subseteq r.warnings
         /\ \A w \in r.warnings : w[1] \in PluginWarnings =>
              \E g \in readEnabledPluginIds(home) : pluginSkipped(g) # "none" /\ w[2] = g.id
         /\ \A g \in readEnabledPluginIds(home) : pluginSkipped(g) # "none" => <<pluginSkipped(g), g.id, 0>> \in r.warnings
         /\ readEnabledPluginIds(home) \subseteq home.plugins /\ home.plugins \subseteq PluginEntry
         /\ \A g \in home.plugins : g.dirs \in SUBSET SkillEntry
<1> DEFINE r == scanPluginInventory(home)
<1>1. readEnabledPluginIds(home) \subseteq home.plugins /\ home.plugins \subseteq PluginEntry
  BY DEF readEnabledPluginIds, HomeTyped
<1>2. \A g \in home.plugins : g.dirs \in SUBSET SkillEntry
  BY <1>1, FilesAssumption
<1>3. r.entries = UNION {scanSkillsDirEntries(home, g.id, g.dirs).entries : g \in ScannedPlugins(home)}
  BY DEF scanPluginInventory, ScannedPlugins
<1>4. r.warnings = ScanWarnings(home) \cup SkipWarnings(home) \cup SettingsWarnings(home)
  BY PluginsWarned
<1>5. ASSUME NEW w \in r.warnings, w[1] \in PluginWarnings
      PROVE  \E g \in readEnabledPluginIds(home) : pluginSkipped(g) # "none" /\ w[2] = g.id
  <2>1. w \notin ScanWarnings(home)
    <3>1. ASSUME NEW g \in ScannedPlugins(home), w \in scanSkillsDirEntries(home, g.id, g.dirs).warnings PROVE FALSE
      <4>1. g.dirs \in SUBSET SkillEntry
        BY <1>1, <1>2 DEF ScannedPlugins
      <4>2. w[1] \in {"no_skill_md", "truncated"}
        BY <3>1, <4>1, FolderWarns
      <4> QED
        BY <1>5, <4>2 DEF PluginWarnings
    <3> QED
      BY <3>1 DEF ScanWarnings
  <2>2. w \notin SettingsWarnings(home)
    <3>1. <<"settings", "", 0>>[1] \notin PluginWarnings
      BY DEF PluginWarnings
    <3> QED
      BY <1>5, <3>1 DEF SettingsWarnings
  <2>3. w \in SkipWarnings(home)
    BY <1>4, <1>5, <2>1, <2>2
  <2>4. PICK g \in readEnabledPluginIds(home) : pluginSkipped(g) # "none" /\ w = <<pluginSkipped(g), g.id, 0>>
    BY <2>3 DEF SkipWarnings
  <2> QED
    BY <2>4
<1>6. \A g \in ScannedPlugins(home) : scanSkillsDirEntries(home, g.id, g.dirs).warnings \subseteq r.warnings
  BY <1>4 DEF ScanWarnings
<1>7. \A g \in readEnabledPluginIds(home) : pluginSkipped(g) # "none" => <<pluginSkipped(g), g.id, 0>> \in r.warnings
  BY <1>4 DEF SkipWarnings
<1> HIDE DEF r
<1> QED
  BY <1>1, <1>2, <1>3, <1>5, <1>6, <1>7 DEF r

\* What is told of a home accounts for what is there.
LEMMA InventoryTold ==
  ASSUME ScanInventory
  PROVE  InventoryIsAccounted'
<1>1. PICK home : HomeTyped(home) /\ ScanHome(home)
  BY HomesTyped
<1> DEFINE lines == home.claudeMd
           clients == scanSkillsDirEntries(home, "client", home.skills)
           commands == scanMdDir(home, "command", home.commands)
           agents == scanMdDir(home, "agent", home.agents)
           plugins == scanPluginInventory(home)
           project == scanProjectSkills(home)
           parts == {clients, commands, agents, plugins, project}
<1>2. told' = [tool |-> "inventory", home |-> home, rules |-> extractClaudeMdTriggers(lines),
               entries |-> UNION {r.entries : r \in parts}, warnings |-> UNION {r.warnings : r \in parts}]
  BY <1>1 DEF ScanHome, Answers
<1>3. /\ told'.home = home /\ told'.rules = extractClaudeMdTriggers(lines)
      /\ told'.entries = UNION {r.entries : r \in parts} /\ told'.warnings = UNION {r.warnings : r \in parts}
  <2> HIDE DEF parts, lines
  <2> QED
    BY <1>2
<1> HIDE DEF clients, commands, agents, plugins, project
<1>4. /\ told'.entries = clients.entries \cup commands.entries \cup agents.entries \cup plugins.entries \cup project.entries
      /\ told'.warnings = clients.warnings \cup commands.warnings \cup agents.warnings \cup plugins.warnings \cup project.warnings
  BY <1>3
<1>5. /\ home.skills \in SUBSET SkillEntry /\ home.own \in SUBSET SkillEntry
      /\ home.commands \in SUBSET MdEntry /\ home.agents \in SUBSET MdEntry /\ home.plugins \in SUBSET PluginEntry
      /\ home.plugins = {} \/ (home.skills = {} /\ home.commands = {} /\ home.agents = {} /\ home.project = "absent")
      /\ lines \in Seq(ClaudeLine) /\ DOMAIN lines = 1 .. Len(lines)
  BY <1>1 DEF HomeTyped
\* Where the entries and the warnings of each part are.
<1>6. /\ \A e \in clients.entries : e.place = "client"
      /\ \A w \in clients.warnings : w[1] \in {"no_skill_md", "truncated"}
  BY <1>5, FolderWarns DEF clients
<1>7. /\ \A e \in commands.entries : e.place = "command"
      /\ \A w \in commands.warnings : w[1] = "truncated"
  BY <1>5, MdPlaced DEF commands
<1>8. /\ \A e \in agents.entries : e.place = "agent"
      /\ \A w \in agents.warnings : w[1] = "truncated"
  BY <1>5, MdPlaced DEF agents
<1>9. /\ home.project = "inside" => project = scanSkillsDirEntries(home, "project", home.own)
      /\ home.project # "inside" => project.entries = {} /\ \A w \in project.warnings : w[1] = "outside_project"
  <2>1. CASE home.project = "inside"
    BY <2>1 DEF project, scanProjectSkills
  <2>2. CASE home.project = "outside"
    <3>1. project = [entries |-> {}, warnings |-> {<<"outside_project", "", 0>>}]
      BY <2>2 DEF project, scanProjectSkills
    <3>2. project.entries = {} /\ project.warnings = {<<"outside_project", "", 0>>}
      BY <3>1
    <3> DEFINE escaped == <<"outside_project", "", 0>>
    <3>3. escaped[1] = "outside_project"
      OBVIOUS
    <3> HIDE DEF escaped
    <3>4. home.project # "inside"
      BY <2>2
    <3>5. \A w \in project.warnings : w[1] = "outside_project"
      <4>1. project.warnings = {escaped}
        BY <3>2 DEF escaped
      <4> QED
        BY <3>3, <4>1
    <3> QED
      BY <3>2, <3>4, <3>5
  <2>3. CASE home.project \notin {"inside", "outside"}
    <3>1. project = [entries |-> {}, warnings |-> {}]
      BY <2>3 DEF project, scanProjectSkills, Nothing
    <3> QED
      BY <2>3, <3>1
  <2> QED
    BY <2>1, <2>2, <2>3
<1>10. /\ \A e \in project.entries : e.place = "project"
       /\ \A w \in project.warnings : w[1] \in {"no_skill_md", "truncated", "outside_project"}
  BY <1>5, <1>9, FolderWarns
<1>11. /\ plugins.entries = UNION {scanSkillsDirEntries(home, g.id, g.dirs).entries : g \in ScannedPlugins(home)}
       /\ \A g \in ScannedPlugins(home) : scanSkillsDirEntries(home, g.id, g.dirs).warnings \subseteq plugins.warnings
       /\ \A w \in plugins.warnings : w[1] \in PluginWarnings =>
            \E g \in readEnabledPluginIds(home) : pluginSkipped(g) # "none" /\ w[2] = g.id
       /\ \A g \in readEnabledPluginIds(home) : pluginSkipped(g) # "none" => <<pluginSkipped(g), g.id, 0>> \in plugins.warnings
       /\ readEnabledPluginIds(home) \subseteq home.plugins /\ home.plugins \subseteq PluginEntry
       /\ \A g \in home.plugins : g.dirs \in SUBSET SkillEntry
  BY <1>1, PluginsScanned DEF plugins
<1>12. \A g \in ScannedPlugins(home) : g \in readEnabledPluginIds(home)
  BY DEF ScannedPlugins
<1>13. \A g \in ScannedPlugins(home) : \A e \in scanSkillsDirEntries(home, g.id, g.dirs).entries : e.place = g.id
  BY <1>11, <1>12, FolderWarns
<1>14. home.plugins = {} => plugins.entries = {}
  BY <1>11, <1>12
<1> HIDE DEF parts, lines
<1>15. Scanned("client", home.skills)'
  <2>1. CASE home.skills = {}
    BY <2>1 DEF Scanned
  <2>2. CASE home.skills # {}
    <3>1. {e \in told'.entries : e.place = "client"} = clients.entries
      BY <1>4, <1>5, <1>6, <1>7, <1>8, <1>10, <1>14, <2>2
    <3>2. clients.warnings \subseteq told'.warnings
      BY <1>4
    <3> QED
      BY <1>3, <1>5, <3>1, <3>2, FolderTold DEF clients
  <2> QED
    BY <2>1, <2>2
<1>16. home.project = "inside" => Scanned("project", home.own)'
  <2>1. SUFFICES ASSUME home.project = "inside" PROVE Scanned("project", home.own)'
    OBVIOUS
  <2>2. {e \in told'.entries : e.place = "project"} = project.entries
    BY <1>4, <1>5, <1>6, <1>7, <1>8, <1>10, <1>14, <2>1
  <2>3. project.warnings \subseteq told'.warnings
    BY <1>4
  <2> QED
    BY <1>3, <1>5, <1>9, <2>1, <2>2, <2>3, FolderTold
<1>17. home.project = "outside" => \A e \in told'.entries : e.place # "project"
  BY <1>4, <1>5, <1>6, <1>7, <1>8, <1>9, <1>14
<1>18. \A kind \in {"command", "agent"} \ home.unlisted :
         \A f \in IF kind = "command" THEN home.commands ELSE home.agents : f.kind = "md" =>
           \E e \in told'.entries : /\ e.kind = kind /\ e.file = f.file
                                    /\ Covers(e.surface, e.id, PhrasesOf(f))'
  <2>1. "command" \notin home.unlisted => \A f \in home.commands : f.kind = "md" =>
          \E e \in told'.entries : /\ e.kind = "command" /\ e.file = f.file
                                   /\ Covers(e.surface, e.id, PhrasesOf(f))'
    <3>1. SUFFICES ASSUME "command" \notin home.unlisted, NEW f \in home.commands, f.kind = "md"
                   PROVE  \E e \in told'.entries : /\ e.kind = "command" /\ e.file = f.file
                                                   /\ Covers(e.surface, e.id, PhrasesOf(f))'
      OBVIOUS
    <3>2. /\ scanMdDir(home, "command", home.commands).entries \subseteq told'.entries
          /\ scanMdDir(home, "command", home.commands).warnings \subseteq told'.warnings
      BY <1>4 DEF commands
    <3>4. home.commands \in SUBSET MdEntry
      BY <1>5
    <3>3. \E e \in told'.entries :
            /\ e.kind = "command" /\ e.file = f.file
            /\ e.surface <= MAX_TRIGGER_PHRASES_PER_SKILL
            /\ e.surface = PhrasesOf(f) \/ <<"truncated", e.id, PhrasesOf(f) - e.surface>> \in told'.warnings
      BY <3>1, <3>2, <3>4, MdTold
    <3> QED
      BY <3>3 DEF Covers
  <2>2. "agent" \notin home.unlisted => \A f \in home.agents : f.kind = "md" =>
          \E e \in told'.entries : /\ e.kind = "agent" /\ e.file = f.file
                                   /\ Covers(e.surface, e.id, PhrasesOf(f))'
    <3>1. SUFFICES ASSUME "agent" \notin home.unlisted, NEW f \in home.agents, f.kind = "md"
                   PROVE  \E e \in told'.entries : /\ e.kind = "agent" /\ e.file = f.file
                                                   /\ Covers(e.surface, e.id, PhrasesOf(f))'
      OBVIOUS
    <3>2. /\ scanMdDir(home, "agent", home.agents).entries \subseteq told'.entries
          /\ scanMdDir(home, "agent", home.agents).warnings \subseteq told'.warnings
      BY <1>4 DEF agents
    <3>4. home.agents \in SUBSET MdEntry
      BY <1>5
    <3>3. \E e \in told'.entries :
            /\ e.kind = "agent" /\ e.file = f.file
            /\ e.surface <= MAX_TRIGGER_PHRASES_PER_SKILL
            /\ e.surface = PhrasesOf(f) \/ <<"truncated", e.id, PhrasesOf(f) - e.surface>> \in told'.warnings
      BY <3>1, <3>2, <3>4, MdTold
    <3> QED
      BY <3>3 DEF Covers
  <2> QED
    BY <2>1, <2>2
<1> DEFINE Warned(g) == \E w \in told'.warnings : w[1] \in PluginWarnings /\ w[2] = g.id
<1>19. \A g \in home.plugins :
         IF home.settings = "map" /\ g.value = "true"
         THEN IF Warned(g) THEN \A e \in told'.entries : e.place # g.id ELSE Scanned(g.id, g.dirs)'
         ELSE ~Warned(g) /\ \A e \in told'.entries : e.place # g.id
  <2>1. SUFFICES ASSUME NEW g \in home.plugins
                 PROVE  IF home.settings = "map" /\ g.value = "true"
                        THEN IF Warned(g) THEN \A e \in told'.entries : e.place # g.id ELSE Scanned(g.id, g.dirs)'
                        ELSE ~Warned(g) /\ \A e \in told'.entries : e.place # g.id
    OBVIOUS
  <2>2. clients.entries = {} /\ commands.entries = {} /\ agents.entries = {} /\ project.entries = {}
    <3>1. home.skills = {} /\ home.commands = {} /\ home.agents = {} /\ home.project # "inside"
      BY <1>5, <2>1
    <3>2. clients.entries = {}
      BY <3>1, FolderScanned, FolderLost DEF clients, Directories
    <3>3. commands.entries = {} /\ agents.entries = {}
      BY <3>1, MdLost DEF commands, agents
    <3> QED
      BY <1>9, <3>1, <3>2, <3>3
  <2>3. told'.entries = plugins.entries
    BY <1>4, <2>2
  <2>4. \A w \in told'.warnings : w[1] \in PluginWarnings => w \in plugins.warnings
    BY <1>4, <1>6, <1>7, <1>8, <1>10 DEF PluginWarnings
  <2>5. \A h \in home.plugins : h.id = g.id => h = g
    BY <1>5, <2>1, FilesAssumption
  <2>6. ASSUME Warned(g) PROVE g \in readEnabledPluginIds(home) /\ pluginSkipped(g) # "none"
    <3>1. PICK w \in told'.warnings : w[1] \in PluginWarnings /\ w[2] = g.id
      BY <2>6
    <3>2. PICK h \in readEnabledPluginIds(home) : pluginSkipped(h) # "none" /\ w[2] = h.id
      BY <1>11, <2>4, <3>1
    <3> QED
      BY <1>11, <2>5, <3>1, <3>2
  <2>7. ASSUME g \in readEnabledPluginIds(home), pluginSkipped(g) # "none" PROVE Warned(g)
    <3> DEFINE w == <<pluginSkipped(g), g.id, 0>>
    <3>1. w \in told'.warnings
      BY <1>4, <1>11, <2>7
    <3>2. w[1] \in PluginWarnings /\ w[2] = g.id
      BY <1>5, <2>7, SkippedKnown
    <3> QED
      BY <3>1, <3>2
  <2>8. ASSUME NEW e \in told'.entries, e.place = g.id PROVE g \in ScannedPlugins(home)
    <3>1. PICK h \in ScannedPlugins(home) : e \in scanSkillsDirEntries(home, h.id, h.dirs).entries
      BY <1>11, <2>3
    <3>2. e.place = h.id /\ h \in home.plugins
      BY <1>11, <1>12, <1>13, <3>1
    <3> QED
      BY <2>5, <2>8, <3>1, <3>2
  <2>9. g \in readEnabledPluginIds(home) <=> home.settings = "map" /\ g.value = "true"
    BY DEF readEnabledPluginIds
  <2>10. g \in ScannedPlugins(home) => g \in readEnabledPluginIds(home) /\ pluginSkipped(g) = "none"
    BY DEF ScannedPlugins
  <2>11. ASSUME g \in readEnabledPluginIds(home), pluginSkipped(g) = "none" PROVE Scanned(g.id, g.dirs)'
    <3>1. g \in ScannedPlugins(home)
      BY <1>5, <2>11, SkippedKnown DEF ScannedPlugins
    <3>2. {e \in told'.entries : e.place = g.id} = scanSkillsDirEntries(home, g.id, g.dirs).entries
      <4>1. ASSUME NEW e \in told'.entries, e.place = g.id PROVE e \in scanSkillsDirEntries(home, g.id, g.dirs).entries
        <5>1. PICK h \in ScannedPlugins(home) : e \in scanSkillsDirEntries(home, h.id, h.dirs).entries
          BY <1>11, <2>3
        <5>2. e.place = h.id /\ h \in home.plugins
          BY <1>11, <1>12, <1>13, <5>1
        <5> QED
          BY <2>5, <4>1, <5>1, <5>2
      <4>2. ASSUME NEW e \in scanSkillsDirEntries(home, g.id, g.dirs).entries PROVE e \in told'.entries /\ e.place = g.id
        BY <1>11, <1>13, <2>3, <3>1
      <4> QED
        BY <4>1, <4>2
    <3>3. scanSkillsDirEntries(home, g.id, g.dirs).warnings \subseteq told'.warnings
      BY <1>4, <1>11, <3>1
    <3>4. g.dirs \in SUBSET SkillEntry
      BY <1>11
    <3> QED
      BY <1>3, <3>2, <3>3, <3>4, FolderTold
  <2> HIDE DEF Warned
  <2> QED
    BY <2>6, <2>7, <2>8, <2>9, <2>10, <2>11
<1>22. \A g \in home.plugins : PluginTold(g)'
  BY <1>3, <1>19 DEF PluginTold
<1>20. CapturedTo(Capturing(lines)[Len(lines)], lines, Len(lines)) /\ told'.rules = Capturing(lines)[Len(lines)].found
  BY <1>3, <1>5, RulesCaptured DEF extractClaudeMdTriggers
<1>21. /\ ToSet(told'.rules) = {i \in DOMAIN lines : RuleAt(lines, i)}
       /\ \A m, n \in DOMAIN told'.rules : m < n => told'.rules[m] < told'.rules[n]
  BY <1>5, <1>20 DEF CapturedTo
<1> QED
  BY <1>3, <1>15, <1>16, <1>17, <1>18, <1>21, <1>22
     DEF InventoryIsAccounted, lines

\* What a scan accounts for it accounts for later.
LEMMA ScannedStays ==
  ASSUME UNCHANGED told, NEW place, NEW folder, Scanned(place, folder)
  PROVE  Scanned(place, folder)'
<1> DEFINE found(d) == {e \in told.entries : e.place = place /\ e.file = d.dir}
           later(d) == {e \in told'.entries : e.place = place /\ e.file = d.dir}
<1>1. SUFFICES ASSUME place \notin told.home.unlisted, NEW d \in {e \in folder : e.kind = "dir"}
               PROVE  /\ Cardinality(later(d)) = 1
                      /\ \A e \in later(d) : Covers(e.surface, e.id, 1 + IF d.md /\ d.read THEN d.phrases ELSE 0)'
  BY DEF Scanned
<1>2. /\ Cardinality(found(d)) = 1
      /\ \A e \in found(d) : Covers(e.surface, e.id, 1 + IF d.md /\ d.read THEN d.phrases ELSE 0)
  BY <1>1 DEF Scanned
<1>3. later(d) = found(d)
  OBVIOUS
<1> HIDE DEF found, later
<1>4. \A e \in later(d) : Covers(e.surface, e.id, 1 + IF d.md /\ d.read THEN d.phrases ELSE 0)'
  BY <1>2, <1>3 DEF Covers
<1> QED
  BY <1>2, <1>3, <1>4

\* So it does as long as it is told.
LEMMA InventoryStays ==
  ASSUME UNCHANGED told, InventoryIsAccounted
  PROVE  InventoryIsAccounted'
<1>1. SUFFICES ASSUME told.tool = "inventory" PROVE InventoryIsAccounted'
  BY DEF InventoryIsAccounted
<1>0. PICK home : home = told.home /\ home = told'.home
  OBVIOUS
<1>2. /\ Scanned("client", home.skills)
      /\ home.project = "inside" => Scanned("project", home.own)
      /\ home.project = "outside" => \A e \in told.entries : e.place # "project"
  BY <1>0, <1>1 DEF InventoryIsAccounted
<1>3. \A kind \in {"command", "agent"} \ home.unlisted :
        \A f \in IF kind = "command" THEN home.commands ELSE home.agents : f.kind = "md" =>
          \E e \in told.entries : e.kind = kind /\ e.file = f.file /\ Covers(e.surface, e.id, PhrasesOf(f))
  BY <1>0, <1>1 DEF InventoryIsAccounted
<1>4. \A g \in home.plugins : PluginTold(g)
  BY <1>0, <1>1 DEF InventoryIsAccounted
<1>5. ToSet(told.rules) = {i \in DOMAIN home.claudeMd : RuleAt(home.claudeMd, i)}
  BY <1>0, <1>1 DEF InventoryIsAccounted
<1>6. \A m, n \in DOMAIN told.rules : m < n => told.rules[m] < told.rules[n]
  BY <1>0, <1>1 DEF InventoryIsAccounted
<1>7. told' = told /\ told'.tool = "inventory"
  BY <1>1
<1>8. /\ Scanned("client", home.skills)'
      /\ home.project = "inside" => Scanned("project", home.own)'
      /\ home.project = "outside" => \A e \in told'.entries : e.place # "project"
  BY <1>2, <1>7, ScannedStays
<1>9. \A kind \in {"command", "agent"} \ home.unlisted :
        \A f \in IF kind = "command" THEN home.commands ELSE home.agents : f.kind = "md" =>
          \E e \in told'.entries : e.kind = kind /\ e.file = f.file /\ Covers(e.surface, e.id, PhrasesOf(f))'
  BY <1>3, <1>7 DEF Covers
<1>10. \A g \in home.plugins : PluginTold(g)'
  <2>1. TAKE g \in home.plugins
  <2>2. PluginTold(g)
    BY <1>4
  <2>3. Scanned(g.id, g.dirs) => Scanned(g.id, g.dirs)'
    BY <1>7, ScannedStays
  <2> QED
    BY <1>7, <2>2, <2>3 DEF PluginTold
<1>11. ToSet(told'.rules) = {i \in DOMAIN home.claudeMd : RuleAt(home.claudeMd, i)}
  BY <1>5, <1>7
<1>12. \A m, n \in DOMAIN told'.rules : m < n => told'.rules[m] < told'.rules[n]
  BY <1>6, <1>7
<1> QED
  BY <1>0, <1>7, <1>8, <1>9, <1>10, <1>11, <1>12 DEF InventoryIsAccounted
-----------------------------------------------------------------------------
(* What is published.                                                      *)

NextSteps == {"install_gh", "sign_in_gh", "review", "push", "push_to", "create", "registry_topic", "add_topic"}
Refusals == {"bad_path", "not_found", "unreadable", "invalid", "failed"}

Calls == [at : {"idle", "read", "list", "scan", "write", "github", "done"}, create : BOOLEAN, topic : BOOLEAN,
          check : BOOLEAN, content : Content \cup {"none"}, todo : SUBSET (Doc \cup {"SKILL.md"}),
          seen : SUBSET (Doc \cup {"SKILL.md"}), warned : SUBSET (Doc \cup {"SKILL.md"}), url : BOOLEAN,
          steps : SUBSET NextSteps, out : Refusals \cup {"none", "ready"}]

\* What a call has seen it warns of, what it has read is valid, and what it tells is so.
CallHonest(c, r) ==
  /\ c.warned = c.seen \cap Referring
  /\ c.at \in {"idle", "read", "list"} => c.seen = {}
  /\ c.at \in {"list", "scan", "write"} => c.content \in ValidContent
  /\ c.at \in {"write", "github"} \/ (c.at = "done" /\ c.out = "ready") =>
       (c.seen \cap Referring # {} => "review" \in c.steps)
  /\ c.at = "done" /\ c.out = "ready" =>
       /\ c.url => r.there
       /\ c.topic => r.topic \/ c.steps \cap {"add_topic", "registry_topic"} # {}

PublishInv ==
  /\ onRecord \in ValidContent \cup {"none"} /\ docs \subseteq Doc
  /\ repo \in [there : BOOLEAN, topic : BOOLEAN]
  /\ pub \in [Publisher -> Calls]
  /\ \A p \in Publisher : CallHonest(pub[p], repo)

LEMMA PublishStart == FileInit => PublishInv
<1> SUFFICES ASSUME FileInit PROVE PublishInv
  OBVIOUS
<1>1. NotPublishing \in Calls /\ CallHonest(NotPublishing, repo)
  BY DEF NotPublishing, Calls, CallHonest, NextSteps, Refusals
<1>2. \A p \in Publisher : pub[p] = NotPublishing
  BY DEF FileInit
<1> QED
  BY <1>1, <1>2 DEF FileInit, PublishInv

\* One call goes on; what is there of the repository stays.
LEMMA CallGoesOn ==
  ASSUME PublishInv, NEW p \in Publisher, NEW c, Told(p, c), c \in Calls, CallHonest(c, repo'),
         onRecord' \in ValidContent \cup {"none"}, docs' \subseteq Doc, repo' \in [there : BOOLEAN, topic : BOOLEAN],
         repo.there => repo'.there, repo.topic => repo'.topic
  PROVE  PublishInv'
<1>1. pub' = [pub EXCEPT ![p] = c]
  BY DEF Told
<1>2. pub' \in [Publisher -> Calls]
  BY <1>1 DEF PublishInv
<1>3. ASSUME NEW q \in Publisher PROVE CallHonest(pub'[q], repo')
  <2>1. CASE q = p
    <3>1. pub'[q] = c
      BY <1>1, <2>1 DEF PublishInv
    <3> QED
      BY <3>1 DEF CallHonest
  <2>2. CASE q # p
    <3>1. pub'[q] = pub[q] /\ CallHonest(pub[q], repo)
      BY <1>1, <2>2 DEF PublishInv
    <3> QED
      BY <3>1 DEF CallHonest
  <2> QED
    BY <2>1, <2>2
<1> QED
  BY <1>2, <1>3 DEF PublishInv

\* A call that is refused has told nothing.
LEMMA CallRejected ==
  ASSUME PublishInv, NEW p \in Publisher, NEW why \in Refusals, Rejected(p, why)
  PROVE  PublishInv'
<1> DEFINE c == [pub[p] EXCEPT !.at = "done", !.out = why]
<1>1. Told(p, c) /\ UNCHANGED Files
  BY DEF Rejected
<1>2. pub[p] \in Calls /\ CallHonest(pub[p], repo)
  BY DEF PublishInv
<1>3. c \in Calls /\ c.at = "done" /\ c.out = why /\ c.warned = pub[p].warned /\ c.seen = pub[p].seen
  BY <1>2 DEF Calls, Refusals
<1> HIDE DEF c
<1>4. CallHonest(c, repo')
  BY <1>2, <1>3 DEF CallHonest, Refusals
<1>5. /\ repo' = repo /\ onRecord' = onRecord /\ docs' = docs
      /\ onRecord \in ValidContent \cup {"none"} /\ docs \subseteq Doc /\ repo \in [there : BOOLEAN, topic : BOOLEAN]
  BY <1>1 DEF Files, PublishInv
<1> QED
  BY <1>1, <1>3, <1>4, <1>5, CallGoesOn

\* What a call tells of the repository is so when it tells it.
LEMMA GitHubTold ==
  ASSUME PublishInv, NEW p \in Publisher, GitHub(p) PROVE PublishInv'
<1> DEFINE o == pub[p]
<1>1. o \in Calls /\ CallHonest(o, repo) /\ o.at = "github"
  BY DEF PublishInv, GitHub
<1>2. repo \in [there : BOOLEAN, topic : BOOLEAN] /\ docs \subseteq Doc /\ onRecord \in ValidContent \cup {"none"}
  BY DEF PublishInv
\* It is told right if the topic is set or told, and an address only of what is there.
<1>3. ASSUME NEW created \in [url : BOOLEAN, there : BOOLEAN], NEW topic \in BOOLEAN, NEW steps \in SUBSET NextSteps,
             Finish(p, created, topic, steps), created.url => created.there, repo.there => created.there,
             repo.topic => topic, o.topic => topic \/ "add_topic" \in steps \/ ~created.url
      PROVE  PublishInv'
  <2> DEFINE usual == IF created.url THEN {} ELSE {"push", "registry_topic"}
             c == [o EXCEPT !.at = "done", !.out = "ready", !.url = created.url, !.steps = @ \cup steps \cup usual]
  <2>1. repo' = [there |-> created.there, topic |-> topic] /\ Told(p, c) /\ onRecord' = onRecord /\ docs' = docs
    BY <1>3 DEF Finish
  <2>2. c \in Calls
    BY <1>1 DEF Calls, NextSteps, Refusals
  <2>3. repo'.there = created.there /\ repo'.topic = topic /\ repo' \in [there : BOOLEAN, topic : BOOLEAN]
    BY <2>1
  <2>4. /\ c.at = "done" /\ c.url = created.url /\ c.steps = o.steps \cup steps \cup usual /\ c.topic = o.topic
        /\ c.warned = o.warned /\ c.seen = o.seen
    BY <1>1 DEF Calls
  <2> HIDE DEF c
  <2>5. CallHonest(c, repo')
    <3>1. c.warned = c.seen \cap Referring /\ (c.seen \cap Referring # {} => "review" \in c.steps)
      BY <1>1, <2>4 DEF CallHonest
    <3>2. c.url => repo'.there
      BY <1>3, <2>3, <2>4
    <3>3. c.topic => repo'.topic \/ c.steps \cap {"add_topic", "registry_topic"} # {}
      BY <1>3, <2>3, <2>4
    <3> QED
      BY <2>4, <3>1, <3>2, <3>3 DEF CallHonest
  <2> QED
    BY <1>2, <1>3, <2>1, <2>2, <2>3, <2>5, CallGoesOn
<1> DEFINE same == [url |-> FALSE, there |-> repo.there]
<1>4. /\ same \in [url : BOOLEAN, there : BOOLEAN] /\ ~same.url /\ same.there = repo.there
      /\ {} \in SUBSET NextSteps /\ repo.topic \in BOOLEAN /\ o.create \in BOOLEAN /\ o.topic \in BOOLEAN
  BY <1>1, <1>2 DEF Calls
<1> HIDE DEF same, o
<1>5. CASE ~o.create /\ ~o.topic /\ Finish(p, same, repo.topic, {})
  BY <1>2, <1>3, <1>4, <1>5
<1>6. CASE \E gh \in checkGhPreflight \ {"ready"} : Finish(p, same, repo.topic, {gh})
  <2>1. PICK gh \in checkGhPreflight \ {"ready"} : Finish(p, same, repo.topic, {gh})
    BY <1>6
  <2>2. {gh} \in SUBSET NextSteps
    BY DEF checkGhPreflight, NextSteps
  <2> QED
    BY <1>2, <1>3, <1>4, <2>1, <2>2
<1>7. ASSUME NEW created \in IF o.create THEN createGitHubRepo ELSE {same},
             LET make == IF ~o.create THEN {} ELSE IF created.url THEN {"push_to"} ELSE {"create"} IN
             IF o.topic /\ (created.url \/ ~o.create)
             THEN \E added \in addClaudeSkillTopic(created.there) :
                    Finish(p, created, repo.topic \/ added, make \cup IF added THEN {} ELSE {"add_topic"})
             ELSE Finish(p, created, repo.topic, make)
      PROVE  PublishInv'
  <2> DEFINE make == IF ~o.create THEN {} ELSE IF created.url THEN {"push_to"} ELSE {"create"}
  <2>1. /\ created \in [url : BOOLEAN, there : BOOLEAN] /\ (created.url => created.there)
        /\ (repo.there => created.there) /\ (created.url => o.create)
    <3>1. CASE o.create
      <4>1. created \in createGitHubRepo
        BY <1>7, <3>1
      <4>2. \A r \in createGitHubRepo : /\ r \in [url : BOOLEAN, there : BOOLEAN] /\ (r.url => r.there)
                                       /\ (repo.there => r.there)
        <5>1. TAKE r \in createGitHubRepo
        <5>2. repo.there \in BOOLEAN
          BY <1>2
        <5>3. \/ r = [url |-> FALSE, there |-> repo.there] \/ r = [url |-> FALSE, there |-> TRUE]
              \/ r = [url |-> TRUE, there |-> TRUE]
          BY DEF createGitHubRepo
        <5>4. CASE r = [url |-> FALSE, there |-> repo.there]
          BY <5>2, <5>4
        <5>5. CASE r = [url |-> FALSE, there |-> TRUE]
          BY <5>5
        <5>6. CASE r = [url |-> TRUE, there |-> TRUE]
          BY <5>6
        <5> QED
          BY <5>3, <5>4, <5>5, <5>6
      <4> QED
        BY <3>1, <4>1, <4>2
    <3>2. CASE ~o.create
      BY <1>4, <1>7, <3>2
    <3> QED
      BY <3>1, <3>2
  <2>2. make \in SUBSET NextSteps
    BY DEF NextSteps
  <2> HIDE DEF make
  <2>3. CASE o.topic /\ (created.url \/ ~o.create)
    <3>1. PICK added \in addClaudeSkillTopic(created.there) :
            Finish(p, created, repo.topic \/ added, make \cup IF added THEN {} ELSE {"add_topic"})
      BY <1>7, <2>3 DEF make
    <3>2. added \in BOOLEAN
      BY DEF addClaudeSkillTopic
    <3>3. (repo.topic \/ added) \in BOOLEAN
      BY <1>2, <3>2
    <3>4. (make \cup IF added THEN {} ELSE {"add_topic"}) \in SUBSET NextSteps
      BY <2>2 DEF NextSteps
    <3>5. added \/ "add_topic" \in (make \cup IF added THEN {} ELSE {"add_topic"})
      BY <3>2
    <3> QED
      BY <1>3, <2>1, <3>1, <3>3, <3>4, <3>5
  <2>4. CASE ~(o.topic /\ (created.url \/ ~o.create))
    <3>1. Finish(p, created, repo.topic, make)
      BY <1>7, <2>4 DEF make
    <3> QED
      BY <1>2, <1>3, <2>1, <2>2, <2>4, <3>1
  <2> QED
    BY <2>3, <2>4
<1> QED
  BY <1>5, <1>6, <1>7 DEF GitHub, same, o

\* One step of one call.
LEMMA PublishOn ==
  ASSUME PublishInv, NEW p \in Publisher, PublishStep(p) PROVE PublishInv'
<1> DEFINE o == pub[p]
<1>1. o \in Calls /\ CallHonest(o, repo)
  BY DEF PublishInv
<1>2. onRecord \in ValidContent \cup {"none"} /\ docs \subseteq Doc /\ repo \in [there : BOOLEAN, topic : BOOLEAN]
  BY DEF PublishInv
\* Nothing but the call itself changes.
<1>3. ASSUME NEW c \in Calls, Told(p, c), UNCHANGED Files, CallHonest(c, repo) PROVE PublishInv'
  <2>1. CallHonest(c, repo')
    BY <1>3 DEF CallHonest, Files
  <2> QED
    BY <1>2, <1>3, <2>1, CallGoesOn DEF Files
<1>4. ASSUME NEW create \in BOOLEAN, NEW topic \in BOOLEAN, NEW check \in BOOLEAN, StartPublish(p, create, topic, check)
      PROVE  PublishInv'
  <2> DEFINE c == [NotPublishing EXCEPT !.at = "read", !.create = create, !.topic = topic, !.check = check]
  <2>1. c \in Calls /\ CallHonest(c, repo)
    BY DEF Calls, NextSteps, Refusals, CallHonest, NotPublishing
  <2>2. CASE \E why \in {"bad_path", "not_found"} : Rejected(p, why)
    BY <2>2, CallRejected DEF Refusals
  <2>3. CASE Told(p, c) /\ UNCHANGED Files
    <3> HIDE DEF c
    <3> QED
      BY <1>3, <2>1, <2>3
  <2> QED
    BY <1>4, <2>2, <2>3 DEF StartPublish
<1>5. CASE ReadSkill(p)
  <2> DEFINE c == [o EXCEPT !.at = IF o.check THEN "list" ELSE "write", !.content = skillMd]
  <2>1. CASE Validates(skillMd)
    <3>1. Told(p, c) /\ UNCHANGED Files /\ skillMd \in ValidContent /\ o.at = "read"
      BY <1>5, <2>1 DEF ReadSkill, Validates
    <3>2. /\ c \in Calls /\ c.content = skillMd /\ c.at \in {"list", "write"}
          /\ c.warned = o.warned /\ c.seen = o.seen /\ c.steps = o.steps
      BY <1>1, <3>1, FilesAssumption DEF Calls
    <3> HIDE DEF c
    <3>3. CallHonest(c, repo)
      <4>1. /\ c.warned = c.seen \cap Referring
            /\ c.seen = {}
        BY <1>1, <3>1, <3>2 DEF CallHonest
      <4> QED
        BY <1>1, <3>1, <3>2, <4>1 DEF CallHonest
    <3> QED
      BY <1>3, <3>1, <3>2, <3>3
  <2>2. CASE ~Validates(skillMd)
    <3>1. PICK why \in Refusals : Rejected(p, why)
      BY <1>5, <2>2 DEF ReadSkill, Refusals
    <3> QED
      BY <3>1, CallRejected
  <2> QED
    BY <2>1, <2>2
<1>6. CASE ListDocs(p)
  <2>1. PICK first \in SUBSET Listing : Told(p, [o EXCEPT !.at = "scan", !.todo = first])
    BY <1>6 DEF ListDocs
  <2> DEFINE c == [o EXCEPT !.at = "scan", !.todo = first]
  <2>2. first \subseteq Doc \cup {"SKILL.md"}
    BY <1>2 DEF Listing
  <2>3. /\ c \in Calls /\ c.content = o.content /\ c.at = "scan"
        /\ c.warned = o.warned /\ c.seen = o.seen /\ o.at = "list"
    BY <1>1, <1>6, <2>2 DEF Calls, ListDocs
  <2>4. UNCHANGED Files
    BY <1>6 DEF ListDocs
  <2> HIDE DEF c
  <2>5. CallHonest(c, repo)
    BY <1>1, <2>3 DEF CallHonest
  <2> QED
    BY <1>3, <2>1, <2>3, <2>4, <2>5 DEF c
<1>7. CASE scanReferences(p)
  <2>1. CASE o.todo = {} /\ UNCHANGED Files
             /\ Told(p, [o EXCEPT !.at = "write", !.steps = IF o.warned # {} THEN {"review"} ELSE {}])
    <3> DEFINE c == [o EXCEPT !.at = "write", !.steps = IF o.warned # {} THEN {"review"} ELSE {}]
    <3>1. /\ c \in Calls /\ c.content = o.content /\ c.at = "write"
          /\ c.warned = o.warned /\ c.seen = o.seen /\ c.steps = IF o.warned # {} THEN {"review"} ELSE {}
      BY <1>1 DEF Calls, NextSteps
    <3>2. o.at = "scan"
      BY <1>7 DEF scanReferences
    <3> HIDE DEF c
    <3>3. CallHonest(c, repo)
      BY <1>1, <3>1, <3>2 DEF CallHonest
    <3> QED
      BY <1>3, <2>1, <3>1, <3>3 DEF c
  <2>2. ASSUME NEW d \in o.todo,
               Told(p, [o EXCEPT !.todo = @ \ {d}, !.seen = @ \cup {d},
                                 !.warned = IF d \in Referring THEN @ \cup {d} ELSE @]), UNCHANGED Files
        PROVE  PublishInv'
    <3> DEFINE c == [o EXCEPT !.todo = @ \ {d}, !.seen = @ \cup {d},
                              !.warned = IF d \in Referring THEN @ \cup {d} ELSE @]
    <3>1. /\ c \in Calls /\ c.content = o.content /\ c.at = o.at /\ c.seen = o.seen \cup {d}
          /\ c.warned = IF d \in Referring THEN o.warned \cup {d} ELSE o.warned
      BY <1>1, <2>2 DEF Calls
    <3>2. o.at = "scan"
      BY <1>7 DEF scanReferences
    <3> HIDE DEF c
    <3>3. CallHonest(c, repo)
      BY <1>1, <3>1, <3>2 DEF CallHonest
    <3> QED
      BY <1>3, <2>2, <3>1, <3>3 DEF c
  <2>3. CASE Rejected(p, "failed")
    BY <2>3, CallRejected DEF Refusals
  <2> QED
    BY <1>7, <2>1, <2>2, <2>3 DEF scanReferences
<1>8. CASE writeManifest(p)
  <2>1. CASE /\ onRecord' = o.content /\ Told(p, [o EXCEPT !.at = "github"])
             /\ UNCHANGED <<skillMd, docs, repo, rewrites>>
    <3> DEFINE c == [o EXCEPT !.at = "github"]
    <3>1. /\ c \in Calls /\ c.at = "github" /\ c.warned = o.warned /\ c.seen = o.seen /\ c.steps = o.steps
      BY <1>1 DEF Calls
    <3>2. o.at = "write" /\ o.content \in ValidContent
      BY <1>1, <1>8 DEF writeManifest, CallHonest
    <3> HIDE DEF c
    <3>3. CallHonest(c, repo')
      BY <1>1, <3>1, <3>2 DEF CallHonest
    <3> QED
      BY <1>2, <2>1, <3>1, <3>2, <3>3, CallGoesOn DEF c
  <2>2. CASE Rejected(p, "failed")
    BY <2>2, CallRejected DEF Refusals
  <2> QED
    BY <1>8, <2>1, <2>2 DEF writeManifest
<1> QED
  BY <1>4, <1>5, <1>6, <1>7, <1>8, GitHubTold DEF PublishStep

\* The author's edits and the other tools leave it so.
LEMMA PublishKept == PublishInv /\ [FileNext]_fileVars => PublishInv'
<1> SUFFICES ASSUME PublishInv, [FileNext]_fileVars PROVE PublishInv'
  OBVIOUS
<1>1. ASSUME UNCHANGED <<pub, onRecord, repo>>, docs' \subseteq Doc PROVE PublishInv'
  BY <1>1 DEF PublishInv
<1>2. docs \subseteq Doc
  BY DEF PublishInv
<1>3. CASE UNCHANGED fileVars
  BY <1>1, <1>2, <1>3 DEF fileVars
<1>4. ASSUME NEW a, Answers(a) PROVE PublishInv'
  BY <1>1, <1>2, <1>4 DEF Answers
<1>5. CASE ScanInventory
  <2>1. \A home : ScanHome(home) => PublishInv'
    BY <1>4 DEF ScanHome
  <2> QED
    BY <1>5, <2>1 DEF ScanInventory
<1>6. CASE \E lines \in UpTo(FrontLine, MaxLines + 1) : IndexFrontmatter(lines)
  BY <1>4, <1>6 DEF IndexFrontmatter
<1>7. CASE AuthorEdits
  <2>1. docs' \subseteq Doc
    BY <1>2, <1>7 DEF AuthorEdits
  <2> QED
    BY <1>1, <1>7, <2>1 DEF AuthorEdits
<1> QED
  BY <1>3, <1>5, <1>6, <1>7, PublishOn DEF FileNext
-----------------------------------------------------------------------------
(* What is told of this machine, and left on it.                           *)

\* A report that is made of the installations leaves the answers of the other tools alone.
LEMMA AnswerStays ==
  ASSUME UNCHANGED answer, FrontmatterIsRead, DiffIsExact, PackIsAccounted
  PROVE  FrontmatterIsRead' /\ DiffIsExact' /\ PackIsAccounted'
<1>1. FrontmatterIsRead'
  BY DEF FrontmatterIsRead
<1>2. DiffIsExact'
  BY DEF DiffIsExact
<1>3. PackIsAccounted'
  BY DEF PackIsAccounted
<1> QED
  BY <1>1, <1>2, <1>3

\* What one tool answers is no statement of another one.
LEMMA OtherAnswers ==
  /\ answer'.tool # "validate" => FrontmatterIsRead'
  /\ answer'.tool # "diff" => DiffIsExact'
  /\ answer'.tool # "pack" => PackIsAccounted'
<1>1. answer'.tool # "validate" => FrontmatterIsRead'
  BY DEF FrontmatterIsRead
<1>2. answer'.tool # "diff" => DiffIsExact'
  BY DEF DiffIsExact
<1>3. answer'.tool # "pack" => PackIsAccounted'
  BY DEF PackIsAccounted
<1> QED
  BY <1>1, <1>2, <1>3

ReportInv == BomInv /\ FrontmatterIsRead /\ DiffIsExact /\ PackIsAccounted

LEMMA ReportStart == ReportInit => ReportInv
<1> SUFFICES ASSUME ReportInit PROVE ReportInv
  OBVIOUS
<1>1. answer.tool = "none"
  BY DEF ReportInit, NoAnswer
<1>2. FrontmatterIsRead /\ DiffIsExact /\ PackIsAccounted
  BY <1>1 DEF FrontmatterIsRead, DiffIsExact, PackIsAccounted
<1> QED
  BY <1>2, BomStart DEF ReportInv

LEMMA ReportKept == ReportInv /\ [ReportNext]_reportVars => ReportInv'
<1> SUFFICES ASSUME ReportInv, [ReportNext]_reportVars PROVE ReportInv'
  OBVIOUS
<1> DEFINE AnswersTrue == FrontmatterIsRead' /\ DiffIsExact' /\ PackIsAccounted'
<1>1. BomInv'
  BY BomKept DEF ReportInv
<1>2. ASSUME UNCHANGED answer PROVE AnswersTrue
  BY <1>2, AnswerStays DEF ReportInv
<1>3. ASSUME NEW lines \in UpTo(FrontLine, MaxLines), NEW delimited \in BOOLEAN, NEW strict \in BOOLEAN,
             NEW found \in ScanFindings, executeValidate(lines, delimited, strict, found)
      PROVE  AnswersTrue
  <2>1. answer'.tool = "validate"
    BY <1>3 DEF executeValidate, Validation
  <2> QED
    BY <1>3, <2>1, FrontmatterTold, OtherAnswers
<1>4. ASSUME NEW old \in UpTo(Section, MaxSections), NEW new \in UpTo(Section, MaxSections), executeSkillDiff(old, new)
      PROVE  AnswersTrue
  <2>1. answer'.tool = "diff"
    BY <1>4 DEF executeSkillDiff, Difference
  <2> QED
    BY <1>4, <2>1, DiffTold, OtherAnswers
<1>5. ASSUME NEW pack \in DOMAIN PackDomain, NEW dirs \in UpTo(PackSkill, MaxPack), NEW check \in BOOLEAN,
             NEW unread \in SUBSET DOMAIN dirs, executeSkillPackAudit(pack, dirs, unread, check)
      PROVE  AnswersTrue
  <2>1. answer'.tool = "pack"
    BY <1>5 DEF executeSkillPackAudit
  <2> QED
    BY <1>5, <2>1, PackTold, OtherAnswers
<1>6. ASSUME NEW recent, NEW dated, NEW limit, executeAuditExport(recent, dated, limit)
      PROVE  AnswersTrue
  <2>1. answer'.tool = "audit"
    BY <1>6 DEF executeAuditExport
  <2> QED
    BY <2>1, OtherAnswers
<1>7. ASSUME NEW format, NEW backfill, NEW native, StartReport(format, backfill, native) PROVE UNCHANGED answer
  BY <1>7 DEF StartReport, Goes
<1>8. ASSUME LoadManifest \/ ReadRows \/ EmitBom \/ WorldGoesOn PROVE UNCHANGED answer
  BY <1>8 DEF LoadManifest, ReadRows, EmitBom, WorldGoesOn, Goes
<1>9. ASSUME NEW i \in Installation, Backfill(i) PROVE UNCHANGED answer
  BY <1>9 DEF Backfill, Goes
<1>10. ASSUME UNCHANGED reportVars PROVE UNCHANGED answer
  BY <1>10 DEF reportVars
<1> HIDE DEF AnswersTrue
<1>11. AnswersTrue
  BY <1>2, <1>3, <1>4, <1>5, <1>6, <1>7, <1>8, <1>9, <1>10 DEF ReportNext
<1> QED
  BY <1>1, <1>11 DEF ReportInv, AnswersTrue

LEMMA ReportTold == ReportInv => ReportsAreTrue
<1>1. BomInv => BomIsComplete
  BY DEF BomInv, BomSound, BomTold, Covered, BomIsComplete
<1> QED
  BY <1>1 DEF ReportInv, ReportsAreTrue

FileInv == PublishInv /\ InventoryIsAccounted /\ IndexerReadsAlike

LEMMA FileStart == FileInit => FileInv
<1> SUFFICES ASSUME FileInit PROVE FileInv
  OBVIOUS
<1>1. told.tool = "none"
  BY DEF FileInit, NoAnswer
<1>2. InventoryIsAccounted /\ IndexerReadsAlike
  BY <1>1 DEF InventoryIsAccounted, IndexerReadsAlike
<1> QED
  BY <1>2, PublishStart DEF FileInv

LEMMA FileKept == FileInv /\ [FileNext]_fileVars => FileInv'
<1> SUFFICES ASSUME FileInv, [FileNext]_fileVars PROVE FileInv'
  OBVIOUS
<1>1. PublishInv'
  BY PublishKept DEF FileInv
<1> DEFINE AnswersTrue == InventoryIsAccounted' /\ IndexerReadsAlike'
<1>2. ASSUME UNCHANGED told PROVE AnswersTrue
  <2>1. InventoryIsAccounted'
    BY <1>2, InventoryStays DEF FileInv
  <2>2. IndexerReadsAlike'
    BY <1>2 DEF FileInv, IndexerReadsAlike
  <2> QED
    BY <2>1, <2>2
<1>3. ASSUME ScanInventory PROVE AnswersTrue
  <2>1. \A home : ScanHome(home) => told'.tool = "inventory"
    BY DEF ScanHome, Answers
  <2>2. told'.tool = "inventory"
    BY <1>3, <2>1 DEF ScanInventory
  <2>3. IndexerReadsAlike'
    BY <2>2 DEF IndexerReadsAlike
  <2> QED
    BY <1>3, <2>3, InventoryTold
<1>4. ASSUME NEW lines \in UpTo(FrontLine, MaxLines + 1), IndexFrontmatter(lines) PROVE AnswersTrue
  <2>1. told'.tool = "index"
    BY <1>4 DEF IndexFrontmatter, Answers
  <2>2. InventoryIsAccounted'
    BY <2>1 DEF InventoryIsAccounted
  <2> QED
    BY <1>4, <2>2, IndexTold
<1>5. ASSUME NEW p \in Publisher, PublishStep(p) PROVE UNCHANGED told
  <2>1. \A c : Told(p, c) => UNCHANGED told
    BY DEF Told
  <2> QED
    BY <1>5, <2>1 DEF PublishStep, StartPublish, ReadSkill, ListDocs, scanReferences, writeManifest, GitHub, Finish, Rejected
<1>6. ASSUME AuthorEdits \/ UNCHANGED fileVars PROVE UNCHANGED told
  BY <1>6 DEF AuthorEdits, fileVars
<1> HIDE DEF AnswersTrue
<1>7. AnswersTrue
  BY <1>2, <1>3, <1>4, <1>5, <1>6 DEF FileNext
<1> QED
  BY <1>1, <1>7 DEF FileInv, AnswersTrue

LEMMA FileTold == FileInv => FilesAreTrue
<1>1. PublishInv => PublishIsHonest
  BY DEF PublishInv, CallHonest, PublishIsHonest
<1> QED
  BY <1>1 DEF FileInv, FilesAreTrue

\* What the tools tell of this machine agrees with what lies on it, whatever texts and homes
\* are asked about and whatever is edited meanwhile: frontmatter, versions, packs and the
\* bill of materials (validate.helpers.ts, skill-diff.ts, skill-pack-audit.ts, sbom), the
\* inventory and the index (local-inventory, FrontmatterParser.ts), and what is published.
THEOREM AnswersAreTrueOfDisk == Spec => []LocalAnswersAreTrue
<1>1. ReportSpec => []ReportsAreTrue
  BY ReportStart, ReportKept, ReportTold, PTL DEF ReportSpec
<1>2. FileSpec => []FilesAreTrue
  BY FileStart, FileKept, FileTold, PTL DEF FileSpec
<1>3. ReportsAreTrue /\ FilesAreTrue => LocalAnswersAreTrue
  BY DEF LocalAnswersAreTrue
<1> QED
  BY <1>1, <1>2, <1>3, PartsAlone, PTL
=============================================================================
