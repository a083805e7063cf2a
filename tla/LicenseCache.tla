---------------------------- MODULE LicenseCache ----------------------------
(***************************************************************************)
(* How a tool call learns the caller's subscription tier.                  *)
(*                                                                         *)
(* A license key is validated locally; otherwise the tier is asked of the  *)
(* server, with the API key or, without one, with the session that         *)
(* `skillsmith login` stored.  One cache slot serves all calls of the      *)
(* process.  A definitive answer is kept for five minutes (Full); after a  *)
(* failure what is there, or else the community tier, is kept for thirty   *)
(* seconds (Retry).  Lookups overlap: each call that finds the slot        *)
(* expired asks for itself, and answers arrive in any order.               *)
(***************************************************************************)
EXTENDS Integers

CONSTANTS
  Calls,             \* tool calls in flight
  Features,          \* feature flags, each with the lowest tier that has it
  FeatureTier,
  KeyFeatures,       \* the flags issued with a license key, by its tier
  Modes,             \* credentials a process may be configured with
  Accounts,          \* what the account can be: a tier, or unknown to the server
  MaxAccountChanges  \* bound: upgrades, downgrades, logins and logouts

Tiers == {"community", "individual", "team", "enterprise"}
Rank == [community |-> 0, individual |-> 1, team |-> 2, enterprise |-> 3]
Unknown == "unknown"

ASSUME LicenseAssumption ==
  /\ FeatureTier \in [Features -> Tiers \ {"community"}]
  /\ KeyFeatures \in [Tiers -> SUBSET Features]
  /\ Modes \subseteq {"key", "api", "device"}
  /\ Accounts \subseteq Tiers \cup {Unknown}
  /\ MaxAccountChanges \in Nat

VARIABLES
  mode,      \* which credential the process has
  account,   \* the account as the server has it
  login,     \* a session is stored on this machine
  cache,     \* cachedLicense with its expiry
  lookup,    \* the state of each call's lookup
  changes,   \* how often account or login has changed
  told,      \* history: the licenses definitively established so far
  asOf,      \* history: how old the cached license is, as a count of changes
  newest,    \* history: the same of the newest license established so far
  overlap    \* history: two lookups have been out at the same time

licenseVars == <<mode, account, login, cache, lookup, changes, told, asOf, newest, overlap>>

\* A LicenseInfo; identified is whether it has an organizationId.
Licenses == [tier : Tiers, identified : BOOLEAN]
Community == [tier |-> "community", identified |-> FALSE]
NoLicense == [tier |-> "none", identified |-> FALSE]

\* The license an account's definitive answer stands for.
LicenseOf(a) ==
  IF a = Unknown THEN Community ELSE [tier |-> a, identified |-> TRUE]

\* Where a lookup stands: not begun, reading the stored session, about to
\* settle for community, waiting for the server, the server's answer on its
\* way, waiting for the validator, done.
Stages == {"none", "loading", "noSession", "asking", "replied", "validating", "done"}
Pending == Stages \ {"none", "done"}

At(c) == lookup[c].at
\* asOf is the time of what the lookup has learnt.
MoveTo(c, stage, license) ==
  lookup' = [lookup EXCEPT ![c] = [at |-> stage, license |-> license, asOf |-> changes]]
NoLookup == [at |-> "none", license |-> NoLicense, asOf |-> 0]

Lives == {"full", "retry", "over"}
Slot(license, life) == [license |-> license, life |-> life]
Empty == Slot(NoLicense, "over")

LicenseInit ==
  /\ mode \in Modes
  /\ account \in Accounts
  /\ login \in (IF mode = "device" THEN BOOLEAN ELSE {FALSE})
  /\ cache = Empty
  /\ lookup = [c \in Calls |-> NoLookup]
  /\ changes = 0 /\ told = {} /\ asOf = 0 /\ newest = 0 /\ overlap = FALSE

\* getLicenseInfo up to its first await.
StartLookup(c) ==
  /\ At(c) = "none"
  /\ IF cache.life # "over" THEN MoveTo(c, "done", cache.license)
     ELSE MoveTo(c, CASE mode = "key" -> "validating" [] mode = "api" -> "asking"
                      [] mode = "device" -> "loading", NoLicense)
  /\ overlap' = (overlap \/ /\ cache.life = "over"
                            /\ \E d \in Calls : At(d) \in Pending)
  /\ UNCHANGED <<mode, account, login, cache, changes, told, asOf, newest>>

\* The stored credentials have been read: a session to resolve, or none.
LoadCredentials(c) ==
  /\ At(c) = "loading"
  /\ MoveTo(c, IF login THEN "asking" ELSE "noSession", NoLicense)
  /\ UNCHANGED <<mode, account, login, cache, changes, told, asOf, newest, overlap>>

Learn(c, license) ==
  /\ told' = told \cup {license}
  /\ newest' = IF lookup[c].asOf > newest THEN lookup[c].asOf ELSE newest
  /\ MoveTo(c, "done", license)

(* Faulty: a definitive community answer does not replace a paid tier. *)
EstablishKeepsPaid(c, license) ==
  /\ cache' = Slot(IF license.tier = "community" /\ cache.license # NoLicense
                   THEN cache.license ELSE license, "full")
  /\ Learn(c, license)
  /\ asOf' = IF cache'.license = license THEN lookup[c].asOf ELSE asOf
  /\ UNCHANGED <<mode, account, login, changes, overlap>>

\* A definitive outcome: kept for the full time.
Establish(c, license) ==
  /\ cache' = Slot(license, "full")
  /\ Learn(c, license)
  /\ asOf' = lookup[c].asOf
  /\ UNCHANGED <<mode, account, login, changes, overlap>>

\* No API key and no session: a community user.
DefaultCommunity(c) == At(c) = "noSession" /\ Establish(c, Community)

\* The server evaluates the request; the answer is on its way.
Reply(c) ==
  /\ At(c) = "asking"
  /\ MoveTo(c, "replied", LicenseOf(account))
  /\ UNCHANGED <<mode, account, login, cache, changes, told, asOf, newest, overlap>>

\* The answer arrives, authenticated with a tier or definitively not.
Resolved(c) == At(c) = "replied" /\ Establish(c, lookup[c].license)

(* Faulty: a failure is taken for "not a customer", as before SMI-1953. *)
TransientFailureDemotes(c) ==
  /\ At(c) \in {"asking", "replied"}
  /\ cache' = Slot(Community, "retry")
  /\ MoveTo(c, "done", Community)
  /\ UNCHANGED <<mode, account, login, changes, told, asOf, newest, overlap>>

\* 429, 5xx, a malformed body, no network, no token, or the five seconds are
\* over, whether or not an answer was under way: what is cached, expired or not,
\* else community, for a short time.
TransientFailure(c) ==
  LET kept == IF cache.license = NoLicense THEN Community ELSE cache.license
  IN  /\ At(c) \in {"asking", "replied"}
      /\ cache' = Slot(kept, "retry")
      /\ MoveTo(c, "done", kept)
      /\ UNCHANGED <<mode, account, login, changes, told, asOf, newest, overlap>>

\* The validator accepts the key.
Validated(c) ==
  /\ At(c) = "validating"
  /\ account # Unknown
  /\ Establish(c, LicenseOf(account))

\* No validator is installed, it refuses the key, or throws: null, not cached.
NotValidated(c) ==
  /\ At(c) = "validating"
  /\ MoveTo(c, "done", NoLicense)
  /\ UNCHANGED <<mode, account, login, cache, changes, told, asOf, newest, overlap>>

\* The cache entry's time is over; the entry itself stays.
Expire ==
  /\ cache.life # "over"
  /\ cache' = [cache EXCEPT !.life = "over"]
  /\ UNCHANGED <<mode, account, login, lookup, changes, told, asOf, newest, overlap>>

\* The account is upgraded, downgraded or revoked; the user logs in or out.
\* What a license key stands for is written in the key.
AccountChanges ==
  /\ changes < MaxAccountChanges /\ mode # "key"
  /\ changes' = changes + 1
  /\ \/ /\ account' \in Accounts \ {account}
        /\ UNCHANGED login
     \/ /\ mode = "device"
        /\ login' = ~login
        /\ UNCHANGED account
  /\ UNCHANGED <<mode, cache, lookup, told, asOf, newest, overlap>>

\* The caller takes the result.
Taken(c) == lookup' = [lookup EXCEPT ![c] = NoLookup]

LicenseStep(c) ==
  \/ LoadCredentials(c) \/ DefaultCommunity(c) \/ Reply(c) \/ Resolved(c)
  \/ TransientFailure(c) \/ Validated(c) \/ NotValidated(c)

LicenseTypeOK ==
  /\ mode \in Modes /\ account \in Tiers \cup {Unknown} /\ login \in BOOLEAN
  /\ cache \in [license : Licenses \cup {NoLicense}, life : Lives]
  /\ lookup \in [Calls -> [at : Stages, license : Licenses \cup {NoLicense}, asOf : Nat]]
  /\ changes \in Nat /\ told \subseteq Licenses
  /\ asOf \in Nat /\ newest \in Nat /\ overlap \in BOOLEAN

-----------------------------------------------------------------------------
(* What a license allows *)

\* featuresForTier: every flag at or below the tier.
FeaturesForTier(t) == {f \in Features : Rank[FeatureTier[f]] <= Rank[t]}

FeaturesOf(license) ==
  IF mode = "key" THEN KeyFeatures[license.tier] ELSE FeaturesForTier(license.tier)

\* The ladder of tier checks of checkFeature.
TierReaches(t, f) ==
  /\ t # "community"
  /\ t = "individual" => FeatureTier[f] \notin {"team", "enterprise"}
  /\ t = "team" => FeatureTier[f] # "enterprise"

\* checkFeature: a license, of a sufficient tier, that lists the flag.
Allows(license, f) ==
  /\ license # NoLicense
  /\ TierReaches(license.tier, f)
  /\ f \in FeaturesOf(license)
=============================================================================
