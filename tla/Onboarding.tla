----------------------------- MODULE Onboarding -----------------------------
(***************************************************************************)
(* What a server does beside serving while it starts: the first-run setup, *)
(* the bundled skills, the Tier-1 skills with their retries, and the       *)
(* welcome that waits for an answer to ride on.  Several servers start at  *)
(* any time and share the home directory.                                  *)
(***************************************************************************)
EXTENDS Naturals

CONSTANTS
  Server, Tier1, Bundled,
  RetryAfter,      \* RETRY_THROTTLE_MS, in ticks of the clock
  MaxClock, MaxStarts, MaxDeletions      \* bounds

VARIABLES
  asset,        \* the directory of a skill, or of the docs: "absent", "part" or "whole"
  firstRunDone, \* the marker .first-run-complete
  tier1,        \* .tier1-status.json
  boot,         \* boot[p]: where the start of server p and its Tier-1 pass stand
  welcome,      \* welcome[p]: pendingWelcome
  clock, starts, deletions,
  seen,         \* history: the directories that ever existed
  credited      \* history: the names a delivered welcome listed

onboardingVars == <<asset, firstRunDone, tier1, boot, welcome, clock, starts, deletions, seen, credited>>
timeVars == <<clock, starts, deletions>>

Docs == "docs"
Assets == Tier1 \cup Bundled \cup {Docs}

Down == [at |-> "down", first |-> FALSE, noTier1 |-> FALSE, fresh |-> {}, known |-> {}, todo |-> {},
         newly |-> {}]

OnboardingInit ==
  /\ asset = [a \in Assets |-> "absent"]
  /\ firstRunDone = FALSE
  /\ tier1 = [form |-> "absent", installed |-> {}, lastAttempt |-> 0]
  /\ boot = [p \in Server |-> Down]
  /\ welcome = [p \in Server |-> {}]
  /\ clock = 1 /\ starts = 0 /\ deletions = 0
  /\ seen = {} /\ credited = {}

Put(a, state) == /\ asset' = [asset EXCEPT ![a] = state]
                 /\ seen' = seen \cup {a}
-----------------------------------------------------------------------------
(* main(): first-run setup or the recovery of the bundled skill.           *)

\* With SKILLSMITH_SKIP_SKILL_INSTALL only the recovery is skipped.
Start(p) ==
  /\ boot[p].at = "down" /\ starts < MaxStarts
  /\ starts' = starts + 1
  /\ \E skip, noTier1 \in BOOLEAN :
       boot' = [boot EXCEPT ![p] = [Down EXCEPT !.noTier1 = noTier1, !.first = ~firstRunDone,
                  !.at = IF firstRunDone /\ skip THEN "heal" ELSE "bundled"]]
  /\ UNCHANGED <<asset, firstRunDone, tier1, welcome, clock, deletions, seen, credited>>

\* installBundledSkills: a directory that is there is left alone, a copy may
\* fail half way.  The names are credited on the first run only.
InstallBundled(p) ==
  /\ boot[p].at = "bundled"
  /\ \E whole, part \in SUBSET {b \in Bundled : asset[b] = "absent"} :
       /\ whole \cap part = {}
       /\ asset' = [a \in Assets |-> IF a \in whole THEN "whole" ELSE IF a \in part THEN "part"
                                     ELSE asset[a]]
       /\ seen' = seen \cup whole \cup part
       /\ boot' = [boot EXCEPT ![p].at = IF boot[p].first THEN "docs" ELSE "heal",
                               ![p].fresh = IF boot[p].first THEN whole ELSE {}]
  /\ UNCHANGED <<firstRunDone, tier1, welcome, timeVars, credited>>

\* installUserDocs: the directory is made before the copy, and never looked into again.
InstallUserDocs(p) ==
  /\ boot[p].at = "docs"
  /\ \/ asset[Docs] # "absent" /\ UNCHANGED <<asset, seen>>
     \/ asset[Docs] = "absent" /\ \E copied \in {"part", "whole"} : Put(Docs, copied)
  /\ boot' = [boot EXCEPT ![p].at = "mark"]
  /\ UNCHANGED <<firstRunDone, tier1, welcome, timeVars, credited>>

MarkFirstRunComplete(p) ==
  /\ boot[p].at = "mark"
  /\ firstRunDone' = TRUE
  /\ boot' = [boot EXCEPT ![p].at = "heal"]
  /\ UNCHANGED <<asset, tier1, welcome, timeVars, seen, credited>>
-----------------------------------------------------------------------------
(* maybeInstallMissingTier1Skills, which nobody awaits.                    *)

readTier1Status == IF tier1.form = "ok" THEN tier1
                   ELSE [form |-> "ok", installed |-> {}, lastAttempt |-> 0]

isThrottled(last) == last # 0 /\ clock - last < RetryAfter

\* Opted out, nothing missing, or tried lately: the pass ends as it begins.
ReadTier1(p) ==
  LET status == readTier1Status
      missing == Tier1 \ status.installed IN
  /\ boot[p].at = "heal"
  /\ boot' = IF boot[p].noTier1 \/ missing = {} \/ isThrottled(status.lastAttempt)
             THEN [boot EXCEPT ![p].at = "done"]
             ELSE [boot EXCEPT ![p].at = "install", ![p].known = status.installed,
                               ![p].todo = missing]
  /\ UNCHANGED <<asset, firstRunDone, tier1, timeVars, welcome, seen, credited>>

\* What the core service answers: a refused target is somebody else's directory,
\* or one the manifest names and nobody finds.
InstallAnswer(s) ==
  {"success", "failed", "INSTALL_TARGET_UNTRACKED"}
  \cup IF asset[s] = "absent" THEN {} ELSE {"ALREADY_INSTALLED", "INSTALL_TARGET_GIT_WORKTREE"}

\* Faulty: the code is taken at its word.
countsByCode(s, code) == code # "failed"

\* A target that was refused counts only when it is there.
countsAsInstalled(s, code) ==
  \/ code \in {"success", "ALREADY_INSTALLED"}
  \/ code \in {"INSTALL_TARGET_UNTRACKED", "INSTALL_TARGET_GIT_WORKTREE"} /\ asset[s] # "absent"

\* One missing skill; the code takes them in the order of TIER1_SKILLS.
InstallTier1(p) ==
  /\ boot[p].at = "install"
  /\ \E s \in boot[p].todo : \E code \in InstallAnswer(s) :
       /\ IF code = "success" THEN Put(s, "whole") ELSE UNCHANGED <<asset, seen>>
       /\ boot' = [boot EXCEPT
            ![p].todo = @ \ {s},
            ![p].newly = IF countsAsInstalled(s, code) THEN @ \cup {s} ELSE @]
  /\ UNCHANGED <<firstRunDone, tier1, timeVars, welcome, credited>>

\* writeTier1Status may fail; the welcome is queued in either case.
RecordTier1(p) ==
  LET merged == boot[p].known \cup boot[p].newly IN
  /\ boot[p].at = "install" /\ boot[p].todo = {}
  /\ \/ tier1' = [form |-> "ok", installed |-> merged, lastAttempt |-> clock]
     \/ UNCHANGED tier1
  /\ welcome' = [welcome EXCEPT ![p] = boot[p].fresh \cup merged]
  /\ boot' = [boot EXCEPT ![p].at = "done"]
  /\ UNCHANGED <<asset, firstRunDone, timeVars, seen, credited>>

\* annotateResponseWithWelcome: an answer that is no error and whose text is a
\* JSON object takes the welcome with it; every other leaves it queued.
Deliver(p) ==
  /\ welcome[p] # {}
  /\ credited' = credited \cup welcome[p]
  /\ welcome' = [welcome EXCEPT ![p] = {}]
  /\ UNCHANGED <<asset, firstRunDone, tier1, boot, timeVars, seen>>
-----------------------------------------------------------------------------
\* A server ends at any point, also because its setup threw.
Exit(p) ==
  /\ boot[p].at # "down"
  /\ boot' = [boot EXCEPT ![p] = Down]
  /\ welcome' = [welcome EXCEPT ![p] = {}]
  /\ UNCHANGED <<asset, firstRunDone, tier1, timeVars, seen, credited>>

TimePasses ==
  /\ clock < MaxClock /\ clock' = clock + 1
  /\ UNCHANGED <<asset, firstRunDone, tier1, boot, welcome, starts, deletions, seen, credited>>

\* The user deletes a skill, makes a directory of the same name, or damages the status.
UserMeddles ==
  /\ deletions < MaxDeletions /\ deletions' = deletions + 1
  /\ \/ /\ \E a \in Tier1 \cup Bundled :
             IF asset[a] = "absent" THEN Put(a, "part")
             ELSE asset' = [asset EXCEPT ![a] = "absent"] /\ UNCHANGED seen
        /\ UNCHANGED tier1
     \/ tier1' = [tier1 EXCEPT !.form = "bad"] /\ UNCHANGED <<asset, seen>>
  /\ UNCHANGED <<firstRunDone, boot, welcome, clock, starts, credited>>

OnboardingNext ==
  \/ \E p \in Server :
       \/ Start(p) \/ InstallBundled(p) \/ InstallUserDocs(p) \/ MarkFirstRunComplete(p)
       \/ ReadTier1(p) \/ InstallTier1(p) \/ RecordTier1(p) \/ Deliver(p) \/ Exit(p)
  \/ TimePasses \/ UserMeddles

-----------------------------------------------------------------------------
\* Whatever the core service answers, whoever deletes directories and however
\* servers overlap: a Tier-1 skill that is recorded as installed, and so never
\* tried again, had a directory, and a welcome credits nothing else.
CreditedWasInstalled == tier1.installed \cup credited \subseteq seen
=============================================================================
