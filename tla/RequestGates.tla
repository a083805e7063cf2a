---------------------------- MODULE RequestGates ----------------------------
(***************************************************************************)
(* The way of a tool call from the request to its handler and back: the    *)
(* consent of the telemetry, the license check, the quota, and the consent *)
(* prompt that is spliced into one answer.                                 *)
(*                                                                         *)
(* Calls interleave at every await.  A tool is direct (no gate), metered   *)
(* (quota alone: skill_suggest) or licensed: it needs a feature and then   *)
(* passes the quota and a second look at the consent.                      *)
(***************************************************************************)
EXTENDS LicenseCache, FiniteSets

CONSTANTS
  Tools, NoTool,
  Gate,        \* what a tool must pass: "none", "quota" or a feature
  Quota,       \* calls per month of each tier, Unlimited for none
  Unlimited,
  MaxRequests, \* bound: requests received
  MaxPeriods   \* bound: months

Preferences == {"granted", "refused", "unasked"}

ASSUME CallsAssumption == IsFiniteSet(Calls) /\ Calls # {}

ASSUME GateAssumption ==
  /\ NoTool \notin Tools
  /\ Gate \in [Tools -> Features \cup {"none", "quota"}]
  /\ Features \cap {"none", "quota"} = {}
  /\ Unlimited = -1
  /\ Quota \in [Tiers -> Nat \cup {Unlimited}] /\ Quota["community"] \in Nat
  /\ MaxRequests \in Nat /\ MaxPeriods \in Nat

VARIABLES
  pc,          \* where each call stands
  tool,        \* its tool
  seen,        \* the consent its emission gate was opened with
  inner,       \* the consent of the second gate, inside that one
  license,     \* the license its quota is taken from, or that it was let in with
  charge,      \* the account and month it is about to be counted in
  usage,       \* the quota storage
  period,      \* the month
  enforced,    \* SKILLSMITH_ENFORCE_MCP_QUOTA
  consent,     \* the cached promise: none, awaiting the session's token,
               \* asking, or the settled answer
  preference,  \* what the user chose on the website
  prompted,    \* promptedIds holds this installation's id
  prompts,     \* history: direct answers with a consent prompt
  admitted,    \* history: calls let through in this month, by account
  requests     \* requests received

gateVars == <<pc, tool, seen, inner, license, charge, usage, period, enforced, consent,
              preference, prompted, prompts, admitted, requests>>
vars == <<licenseVars, gateVars>>

Customers == {"anonymous", "organization"}
NoCharge == [customer |-> "anonymous", period |-> 0]

Licensed(c) == Gate[tool[c]] \in Features

Init ==
  /\ LicenseInit
  /\ pc = [c \in Calls |-> "idle"] /\ tool = [c \in Calls |-> NoTool]
  /\ seen = [c \in Calls |-> "none"] /\ inner = seen
  /\ license = [c \in Calls |-> NoLicense]
  /\ charge = [c \in Calls |-> NoCharge]
  /\ usage = [k \in Customers |-> 0] /\ admitted = usage
  /\ period = 1 /\ enforced \in BOOLEAN
  /\ consent = "none" /\ preference = "unasked"
  /\ prompted = FALSE /\ prompts = 0
  /\ requests = 0

Goto(c, place) == pc' = [pc EXCEPT ![c] = place]

-----------------------------------------------------------------------------
(* Consent *)

(* Faulty: a failed answer is not kept, the next call asks again. *)
ReceiveAsksAgain(c, t) ==
  /\ pc[c] = "idle" /\ requests < MaxRequests
  /\ requests' = requests + 1
  /\ tool' = [tool EXCEPT ![c] = t]
  /\ consent' = IF consent \in {"none", "unasked"} THEN "token" ELSE consent
  /\ Goto(c, "consent")
  /\ UNCHANGED <<licenseVars, seen, inner, license, charge, usage, period, enforced,
                 preference, prompted, prompts, admitted>>

\* handleCallToolRequest up to its first await: the first call begins to ask
\* the server, the others share the promise.
Receive(c, t) ==
  /\ pc[c] = "idle" /\ requests < MaxRequests
  /\ requests' = requests + 1
  /\ tool' = [tool EXCEPT ![c] = t]
  /\ consent' = IF consent = "none" THEN "token" ELSE consent
  /\ Goto(c, "consent")
  /\ UNCHANGED <<licenseVars, seen, inner, license, charge, usage, period, enforced,
                 preference, prompted, prompts, admitted>>

\* The session's access token has been refreshed, or there is none, or that
\* failed: only now the request is sent and its timer is set.
TokenResolved ==
  /\ consent = "token"
  /\ consent' = "asking"
  /\ UNCHANGED <<licenseVars, pc, tool, seen, inner, license, charge, usage, period,
                 enforced, preference, prompted, prompts,
                 admitted, requests>>

\* The server answers with the preference; a failure or two seconds without an
\* answer are taken for "not asked yet".  Either is kept while the process lives.
ConsentSettles(answer) ==
  /\ consent = "asking"
  /\ consent' = answer
  /\ UNCHANGED <<licenseVars, pc, tool, seen, inner, license, charge, usage, period,
                 enforced, preference, prompted, prompts,
                 admitted, requests>>
ConsentAnswered == ConsentSettles(preference)

(* Faulty: the request is dropped, and with it everyone who waits for it. *)
ConsentFailsUnheard == ConsentSettles("none")

ConsentFails == ConsentSettles("unasked")

Settled == consent \in Preferences

\* Direct tools run; metered ones ask for the license, licensed ones first ask
\* whether it allows the tool; arguments that do not parse end the call.
RunDirect(c) == Gate[tool[c]] = "none" /\ Goto(c, "run") /\ UNCHANGED licenseVars
AskQuota(c) == Gate[tool[c]] = "quota" /\ Goto(c, "meter") /\ StartLookup(c)
AskLicense(c) == Licensed(c) /\ Goto(c, "check") /\ StartLookup(c)
RefuseArguments(c) == Goto(c, "refused") /\ UNCHANGED licenseVars

Dispatch(c) ==
  /\ pc[c] = "consent" /\ Settled
  /\ seen' = [seen EXCEPT ![c] = consent]
  /\ RunDirect(c) \/ AskQuota(c) \/ AskLicense(c) \/ RefuseArguments(c)
  /\ UNCHANGED <<tool, inner, license, charge, usage, period, enforced, consent,
                 preference, prompted, prompts, admitted, requests>>

-----------------------------------------------------------------------------
(* License and quota *)

\* A step of a call's getLicenseInfo.
Lookup(c) == LicenseStep(c) /\ UNCHANGED gateVars

(* Faulty: a license that could not be validated passes as a community one. *)
CheckedAnyway(c) ==
  /\ pc[c] = "check" /\ At(c) = "done"
  /\ license' = [license EXCEPT ![c] = lookup[c].license]
  /\ Goto(c, IF \/ lookup[c].license = NoLicense
                \/ Allows(lookup[c].license, Gate[tool[c]]) THEN "allowed" ELSE "refused")
  /\ Taken(c)
  /\ UNCHANGED <<mode, account, login, cache, changes, told, asOf, newest, overlap,
                 tool, seen, inner, charge, usage, period, enforced, consent, preference,
                 prompted, prompts, admitted, requests>>

\* checkTool returns.
Checked(c) ==
  /\ pc[c] = "check" /\ At(c) = "done"
  /\ license' = [license EXCEPT ![c] = lookup[c].license]
  /\ Goto(c, IF Allows(lookup[c].license, Gate[tool[c]]) THEN "allowed" ELSE "refused")
  /\ Taken(c)
  /\ UNCHANGED <<mode, account, login, cache, changes, told, asOf, newest, overlap,
                 tool, seen, inner, charge, usage, period, enforced, consent, preference,
                 prompted, prompts, admitted, requests>>

\* withLicenseAndQuota looks the license up again for the quota.
AskAgain(c) ==
  /\ pc[c] = "allowed"
  /\ Goto(c, "meter")
  /\ StartLookup(c)
  /\ UNCHANGED <<tool, seen, inner, license, charge, usage, period, enforced, consent,
                 preference, prompted, prompts, admitted, requests>>

\* A call without a license is metered as a community user's.
TierOf(l) == IF l = NoLicense THEN "community" ELSE l.tier
CustomerOf(l) == IF l.identified THEN "organization" ELSE "anonymous"

(* Faulty: every metered tool is sent to the second gate. *)

\* After the quota: a licensed tool looks at the consent again, a metered runs.
PastQuota(c) == IF Licensed(c) THEN "gate" ELSE "run"

(* Faulty: the call that reaches the limit does not count as beyond it. *)
ExhaustedOffByOne(l) ==
  /\ Quota[TierOf(l)] # Unlimited
  /\ usage[CustomerOf(l)] > Quota[TierOf(l)]

\* The quota refuses the next call of an account.
Exhausted(l) ==
  /\ Quota[TierOf(l)] # Unlimited
  /\ usage[CustomerOf(l)] + 1 > Quota[TierOf(l)]

\* checkAndTrack up to incrementUsage, whose storage entry is the one of now.
Meter(c) ==
  LET l == lookup[c].license
  IN  /\ pc[c] = "meter" /\ At(c) = "done"
      /\ Taken(c)
      /\ charge' = [charge EXCEPT ![c] = [customer |-> CustomerOf(l), period |-> period]]
      /\ \/ /\ Quota[TierOf(l)] = Unlimited
            /\ Goto(c, PastQuota(c))
         \/ /\ Quota[TierOf(l)] # Unlimited
            /\ Goto(c, IF Exhausted(l) /\ enforced THEN "refused" ELSE "count")
      /\ UNCHANGED <<mode, account, login, cache, changes, told, asOf, newest, overlap,
                     tool, seen, inner, license, usage, period, enforced, consent, preference,
                     prompted, prompts, admitted, requests>>

\* incrementUsage resumes; an entry of last month is no longer in the storage.
Count(c) ==
  LET k == charge[c].customer
  IN  /\ pc[c] = "count"
      /\ Goto(c, PastQuota(c))
      /\ IF charge[c].period = period
         THEN /\ usage' = [usage EXCEPT ![k] = @ + 1]
              /\ admitted' = [admitted EXCEPT ![k] = @ + 1]
         ELSE UNCHANGED <<usage, admitted>>
      /\ UNCHANGED <<licenseVars, tool, seen, inner, license, charge, period, enforced,
                     consent, preference, prompted, prompts, requests>>

\* The month ends: the next look at an account starts a new entry.
NewPeriod ==
  /\ period < MaxPeriods
  /\ period' = period + 1
  /\ usage' = [k \in Customers |-> 0] /\ admitted' = usage'
  /\ UNCHANGED <<licenseVars, pc, tool, seen, inner, license, charge, enforced, consent,
                 preference, prompted, prompts, requests>>

\* withLicenseAndQuota opens its own emission gate inside the first.
InnerGate(c) ==
  /\ pc[c] = "gate" /\ Settled
  /\ inner' = [inner EXCEPT ![c] = consent]
  /\ Goto(c, "run")
  /\ UNCHANGED <<licenseVars, tool, seen, license, charge, usage, period, enforced, consent,
                 preference, prompted, prompts, admitted, requests>>

-----------------------------------------------------------------------------
(* The answer *)

\* Bodies: a JSON object, anything else, an error envelope.
Bodies == {"json", "prose", "error"}

\* A licensed tool's answer has the prompt already, whoever has seen it before,
\* so that the dispatcher neither adds nor records one.
Prompts(c, body) ==
  body = "json" /\ seen[c] = "unasked" /\ ~prompted /\ ~Licensed(c)

(* Faulty: the prompt counts as shown when the answer could not carry it. *)
RespondMarksAnyBody(c, body) ==
  /\ \/ pc[c] = "run"
     \/ pc[c] = "refused" /\ body = "error"
  /\ prompted' = (prompted \/ seen[c] = "unasked")
  /\ prompts' = IF Prompts(c, body) THEN prompts + 1 ELSE prompts
  /\ Goto(c, "idle")
  /\ tool' = [tool EXCEPT ![c] = NoTool]
  /\ seen' = [seen EXCEPT ![c] = "none"] /\ inner' = [inner EXCEPT ![c] = "none"]
  /\ license' = [license EXCEPT ![c] = NoLicense]
  /\ charge' = [charge EXCEPT ![c] = NoCharge]
  /\ UNCHANGED <<licenseVars, usage, period, enforced, consent, preference,
                 admitted, requests>>

\* The handler returns and the prompt is spliced in, in one synchronous step.
Respond(c, body) ==
  /\ \/ pc[c] = "run"
     \/ pc[c] = "refused" /\ body = "error"
  /\ IF Prompts(c, body)
     THEN prompted' = TRUE /\ prompts' = prompts + 1
     ELSE UNCHANGED <<prompted, prompts>>
  /\ Goto(c, "idle")
  /\ tool' = [tool EXCEPT ![c] = NoTool]
  /\ seen' = [seen EXCEPT ![c] = "none"] /\ inner' = [inner EXCEPT ![c] = "none"]
  /\ license' = [license EXCEPT ![c] = NoLicense]
  /\ charge' = [charge EXCEPT ![c] = NoCharge]
  /\ UNCHANGED <<licenseVars, usage, period, enforced, consent, preference,
                 admitted, requests>>

\* The user chooses on the website.
PreferenceChanges ==
  /\ preference = "unasked"
  /\ preference' \in {"granted", "refused"}
  /\ UNCHANGED <<licenseVars, pc, tool, seen, inner, license, charge, usage, period, enforced,
                 consent, prompted, prompts, admitted, requests>>

Step(c) ==
  \/ Dispatch(c) \/ Lookup(c) \/ Checked(c) \/ AskAgain(c)
  \/ Meter(c) \/ Count(c) \/ InnerGate(c)

Next ==
  \/ \E c \in Calls : Step(c)
  \/ \E c \in Calls, t \in Tools : Receive(c, t)
  \/ \E c \in Calls, body \in Bodies : Respond(c, body)
  \/ TokenResolved \/ ConsentAnswered \/ ConsentFails
  \/ NewPeriod \/ PreferenceChanges
  \/ (Expire \/ AccountChanges) /\ UNCHANGED gateVars

Spec == Init /\ [][Next]_vars

\* Continuations whose promise has settled run; the consent request ends after
\* two seconds and an API key's license request after five.  Nothing bounds the
\* refresh of a token: TokenResolved is not fair, nor is a lookup that
\* waits for a session or for the validator of a license key.
FairSpec ==
  /\ Spec
  /\ WF_vars(ConsentAnswered \/ ConsentFails)
  /\ \A c \in Calls :
       /\ WF_vars(mode = "api" /\ Step(c))
       /\ WF_vars(Respond(c, "error") /\ pc[c] = "refused")

-----------------------------------------------------------------------------
(* Properties *)

Places == {"idle", "consent", "check", "allowed", "meter", "count", "gate", "run", "refused"}

GateTypeOK ==
  /\ pc \in [Calls -> Places] /\ tool \in [Calls -> Tools \cup {NoTool}]
  /\ seen \in [Calls -> Preferences \cup {"none"}]
  /\ inner \in [Calls -> Preferences \cup {"none"}]
  /\ license \in [Calls -> Licenses \cup {NoLicense}]
  /\ charge \in [Calls -> [customer : Customers, period : Nat]]
  /\ usage \in [Customers -> Nat] /\ admitted \in [Customers -> Nat]
  /\ period \in Nat /\ enforced \in BOOLEAN
  /\ consent \in Preferences \cup {"none", "token", "asking"} /\ preference \in Preferences
  /\ prompted \in BOOLEAN /\ prompts \in Nat /\ requests \in Nat

\* Calls, cache, quota storage and consent have their types; a call in a
\* gate has a tool that passes there, and a lookup is under way only where
\* the license is awaited.
TypeOK ==
  /\ LicenseTypeOK /\ GateTypeOK
  /\ \A c \in Calls :
       /\ pc[c] # "idle" => tool[c] \in Tools
       /\ pc[c] \in {"check", "allowed", "gate"} => Licensed(c)
       /\ At(c) # "none" => pc[c] \in {"check", "meter"}

\* A licensed tool is past its license check only with a license that the
\* server, the session or the key has definitively stood for, and that allows
\* the tool's feature: no failure, timeout or overlap of lookups lets a call
\* through (license.ts:334-398, license.tier.ts:130-155).
PaidRunWasTold ==
  \A c \in Calls :
    pc[c] \in {"allowed", "meter", "count", "gate", "run"} /\ Licensed(c) =>
      license[c] \in told /\ Allows(license[c], Gate[tool[c]])

\* Once a license has been established, failed lookups never put another one
\* in its place, however many there are and however they overlap
\* (license.tier.ts:115-129: stale-if-error).
TierRemembered == told # {} => cache.license \in told

\* While lookups never overlapped, the cache holds the license established
\* last, and no older one (license.ts:248-332; overlapping lookups write in the
\* order of their answers' arrival).
NewestWithoutOverlap == ~overlap => asOf = newest

\* The highest limit that any caller of an account is measured by.
Limits(k) == {Quota[t] : t \in IF k = "anonymous" THEN {"community"} ELSE Tiers}

\* With the quota enforced, an account gets at most the calls in flight, less
\* one, beyond its highest limit: the check and the increment are apart
\* (quota.ts:155-193), but no more than that is lost.  ("Enforces API call
\* quotas", quota.ts:9, is thereby not exact: batched calls overrun it.)
OverrunBounded ==
  enforced =>
    \A k \in Customers :
      \E limit \in Limits(k) : admitted[k] <= limit + Cardinality(Calls) - 1

\* The consent prompt of the direct tools is shown at most once, and an answer
\* that could not carry it does not use it up (call-tool-handler.ts:85-97).
PromptShownOnce == prompts = (IF prompted THEN 1 ELSE 0)

\* The two emission gates of one call "always agree on the value"
\* (license.gate.ts:182-186), whatever the consent request came to meanwhile.
GatesAgree == \A c \in Calls : inner[c] \in {"none", seen[c]}

\* What a user is asked and what is done about the answer do not disagree.
ConsentIsConsistent == GatesAgree /\ PromptShownOnce

\* The refresh of the session's token comes to an end.
RefreshEnds == consent = "token" ~> consent # "token"

\* A refresh of the token that never returns, before the consent request and
\* its timer (telemetry-consent.ts:116), is the one thing that can hold a call
\* of a process with an API key for ever: without it every request gets past
\* its gates or is refused, however long the consent server, the license server
\* and the other calls take.
GatesSettle ==
  RefreshEnds =>
    \A c \in Calls :
      (pc[c] \notin {"idle", "run"} /\ mode = "api") ~> (pc[c] \in {"idle", "run"})
=============================================================================
