------------------------- MODULE RequestGates_proofs -------------------------
(***************************************************************************)
(* What the gates of a tool call guarantee, for any number of calls, tools, *)
(* features and quotas.                                                     *)
(***************************************************************************)
EXTENDS RequestGates, FiniteSetTheorems, TLAPS

-----------------------------------------------------------------------------
(* The license cache *)

\* A license that only stands in for an answer, or has been established.
Known == told \cup {NoLicense, Community}

\* Everything a lookup may end with is known, and only what was established
\* is ever kept in place of an established license.
LicenseInv ==
  /\ LicenseTypeOK
  /\ cache.license \in Known
  /\ told # {} => cache.license \in told
  /\ \A l \in told : ~l.identified => l = Community
  /\ \A c \in Calls :
       /\ At(c) = "done" => lookup[c].license \in Known
       /\ At(c) = "replied" => lookup[c].license.identified \/ lookup[c].license = Community

\* The lookup of c moved; no other did.
OnlyLookup(c) ==
  /\ At(c)' # "none"
  /\ \A d \in Calls \ {c} : lookup'[d] = lookup[d]

LEMMA LicenseOfIsLicense ==
  ASSUME NEW a \in Tiers \cup {Unknown}
  PROVE  /\ LicenseOf(a) \in Licenses
         /\ LicenseOf(a).identified \/ LicenseOf(a) = Community
BY DEF LicenseOf, Licenses, Tiers, Community, Unknown

LEMMA NoLicenseIsNone == NoLicense \notin Licenses /\ Community \in Licenses
<1>1. NoLicense.tier \notin Tiers
  BY DEF NoLicense, Tiers
<1>2. \A l \in Licenses : l.tier \in Tiers
  BY DEF Licenses
<1> QED
  BY <1>1, <1>2 DEF Licenses, Community, Tiers

LEMMA LookupMoves ==
  ASSUME LicenseTypeOK, NEW c \in Calls, NEW stage \in Stages \ {"none"},
         NEW l \in Licenses \cup {NoLicense}, MoveTo(c, stage, l)
  PROVE  /\ lookup' \in [Calls -> [at : Stages, license : Licenses \cup {NoLicense},
                              asOf : Nat]]
         /\ OnlyLookup(c) /\ At(c)' = stage /\ lookup'[c].license = l
BY DEF LicenseTypeOK, MoveTo, OnlyLookup, At

LEMMA StartKeeps ==
  ASSUME LicenseInv, NEW c \in Calls, StartLookup(c)
  PROVE  LicenseInv' /\ OnlyLookup(c)
<1> USE DEF LicenseInv, LicenseTypeOK, StartLookup
<1>1. PICK stage \in Stages \ {"none", "replied"},
           l \in Known : MoveTo(c, stage, l)
  <2>1. CASE cache.life # "over"
    BY <2>1 DEF Stages
  <2>2. CASE cache.life = "over"
    <3>1. mode \in {"key", "api", "device"}
      BY LicenseAssumption
    <3>2. \E stage \in {"validating", "asking", "loading"} : MoveTo(c, stage, NoLicense)
      BY <2>2, <3>1
    <3> QED
      BY <3>2 DEF Stages, Known
  <2> QED
    BY <2>1, <2>2
<1>2. OnlyLookup(c) /\ At(c)' = stage /\ lookup'[c].license = l
  BY <1>1, LookupMoves, NoLicenseIsNone DEF Known
<1>3. LicenseTypeOK'
  BY <1>1, LookupMoves, NoLicenseIsNone DEF Known
<1> QED
  BY <1>2, <1>3 DEF OnlyLookup, At, Known

LEMMA EstablishKeeps ==
  ASSUME LicenseInv, NEW c \in Calls, NEW l \in Licenses, Establish(c, l),
         l.identified \/ l = Community
  PROVE  LicenseInv' /\ OnlyLookup(c)
<1> USE DEF LicenseInv, LicenseTypeOK, Establish, Learn, Slot
<1>1. OnlyLookup(c) /\ At(c)' = "done" /\ lookup'[c].license = l
  BY LookupMoves DEF Stages
<1>2. LicenseTypeOK'
  BY LookupMoves DEF Stages, Lives
<1> QED
  BY <1>1, <1>2 DEF OnlyLookup, At, Known

LEMMA LicenseStepKeeps ==
  ASSUME LicenseInv, NEW c \in Calls, LicenseStep(c)
  PROVE  LicenseInv' /\ OnlyLookup(c) /\ At(c) # "none"
<1> USE DEF LicenseInv
<1>1. CASE LoadCredentials(c)
  BY <1>1, LookupMoves DEF LoadCredentials, OnlyLookup, At, Known, LicenseTypeOK, Stages
<1>2. CASE DefaultCommunity(c)
  BY <1>2, EstablishKeeps, NoLicenseIsNone DEF DefaultCommunity, At
<1>3. CASE Reply(c)
  BY <1>3, LookupMoves, LicenseOfIsLicense
  DEF Reply, OnlyLookup, At, Known, LicenseTypeOK, Stages
<1>4. CASE Resolved(c)
  <2>1. lookup[c].license \in Licenses
    BY <1>4, NoLicenseIsNone DEF Resolved, LicenseTypeOK, NoLicense, Community
  <2> QED
    BY <1>4, <2>1, EstablishKeeps DEF Resolved, At
<1>5. CASE TransientFailure(c)
  <2> DEFINE kept == IF cache.license = NoLicense THEN Community ELSE cache.license
  <2>1. kept \in Licenses /\ kept \in Known /\ (told # {} => kept \in told)
    BY NoLicenseIsNone DEF LicenseTypeOK, Known
  <2>2. MoveTo(c, "done", kept) /\ cache' = Slot(kept, "retry")
    BY <1>5 DEF TransientFailure
  <2>3. OnlyLookup(c) /\ At(c)' = "done" /\ lookup'[c].license = kept
    BY <2>1, <2>2, LookupMoves DEF Stages
  <2>4. LicenseTypeOK'
    BY <1>5, <2>1, <2>2, LookupMoves
    DEF TransientFailure, LicenseTypeOK, Slot, Lives, Stages
  <2> QED
    BY <1>5, <2>1, <2>2, <2>3, <2>4 DEF TransientFailure, OnlyLookup, At, Known, Slot
<1>6. CASE Validated(c)
  BY <1>6, EstablishKeeps, LicenseOfIsLicense DEF Validated, LicenseTypeOK, At
<1>7. CASE NotValidated(c)
  BY <1>7, LookupMoves DEF NotValidated, OnlyLookup, At, Known, LicenseTypeOK, Stages
<1> QED
  BY <1>1, <1>2, <1>3, <1>4, <1>5, <1>6, <1>7 DEF LicenseStep

LEMMA TakenKeeps ==
  ASSUME LicenseInv, NEW c \in Calls, Taken(c),
         UNCHANGED <<mode, account, login, cache, changes, told, asOf, newest, overlap>>
  PROVE  LicenseInv' /\ (\A d \in Calls \ {c} : lookup'[d] = lookup[d]) /\ At(c)' = "none"
BY DEF LicenseInv, LicenseTypeOK, Taken, NoLookup, At, Known, Stages

LEMMA EnvironmentKeeps ==
  ASSUME LicenseInv, Expire \/ AccountChanges
  PROVE  LicenseInv' /\ lookup' = lookup
<1>1. CASE Expire
  BY <1>1 DEF Expire, LicenseInv, LicenseTypeOK, Lives, Known, At
<1>2. CASE AccountChanges
  <2>1. account' \in Tiers \cup {Unknown} /\ login' \in BOOLEAN
    BY <1>2, LicenseAssumption DEF AccountChanges, LicenseInv, LicenseTypeOK
  <2> QED
    BY <1>2, <2>1 DEF AccountChanges, LicenseInv, LicenseTypeOK, Known, At
<1> QED
  BY <1>1, <1>2

LEMMA NothingKeeps ==
  ASSUME LicenseInv, UNCHANGED licenseVars
  PROVE  LicenseInv' /\ lookup' = lookup
BY DEF licenseVars, LicenseInv, LicenseTypeOK, Known, At

LEMMA LicenseNext == LicenseInv /\ [Next]_vars => LicenseInv'
<1> SUFFICES ASSUME LicenseInv, [Next]_vars PROVE LicenseInv'
  OBVIOUS
<1>1. ASSUME NEW c \in Calls, Dispatch(c) PROVE LicenseInv'
  BY <1>1, StartKeeps, NothingKeeps
  DEF Dispatch, RunDirect, AskQuota, AskLicense, RefuseArguments, Goto
<1>2. ASSUME NEW c \in Calls, Lookup(c) PROVE LicenseInv'
  BY <1>2, LicenseStepKeeps DEF Lookup
<1>3. ASSUME NEW c \in Calls, Checked(c) PROVE LicenseInv'
  BY <1>3, TakenKeeps DEF Checked, Goto
<1>4. ASSUME NEW c \in Calls, AskAgain(c) PROVE LicenseInv'
  BY <1>4, StartKeeps DEF AskAgain, Goto
<1>5. ASSUME NEW c \in Calls, Meter(c) PROVE LicenseInv'
  BY <1>5, TakenKeeps DEF Meter, Goto, PastQuota
<1>6. ASSUME NEW c \in Calls, Count(c) PROVE LicenseInv'
  BY <1>6, NothingKeeps DEF Count, Goto, PastQuota
<1>7. ASSUME NEW c \in Calls, InnerGate(c) PROVE LicenseInv'
  BY <1>7, NothingKeeps DEF InnerGate, Goto
<1>8. ASSUME NEW c \in Calls, NEW t \in Tools, Receive(c, t) PROVE LicenseInv'
  BY <1>8, NothingKeeps DEF Receive, Goto
<1>9. ASSUME NEW c \in Calls, NEW body \in Bodies, Respond(c, body) PROVE LicenseInv'
  BY <1>9, NothingKeeps DEF Respond, Goto
<1>10. CASE TokenResolved \/ ConsentAnswered \/ ConsentFails
  BY <1>10, NothingKeeps DEF TokenResolved, ConsentAnswered, ConsentFails, ConsentSettles
<1>11. CASE NewPeriod
  BY <1>11, NothingKeeps DEF NewPeriod
<1>12. CASE PreferenceChanges
  BY <1>12, NothingKeeps DEF PreferenceChanges
<1>13. CASE (Expire \/ AccountChanges) /\ UNCHANGED gateVars
  BY <1>13, EnvironmentKeeps
<1>14. CASE UNCHANGED vars
  BY <1>14, NothingKeeps DEF vars
<1> QED
  BY <1>1, <1>2, <1>3, <1>4, <1>5, <1>6, <1>7, <1>8,
     <1>9, <1>10, <1>11, <1>12, <1>13, <1>14 DEF Next, Step

-----------------------------------------------------------------------------
(* The calls *)

LEMMA TypeNext == LicenseInv /\ TypeOK /\ [Next]_vars => TypeOK'
<1> SUFFICES ASSUME LicenseInv, TypeOK, [Next]_vars PROVE TypeOK'
  OBVIOUS
<1>0. LicenseTypeOK'
  BY LicenseNext DEF LicenseInv
<1> USE <1>0 DEF TypeOK, GateTypeOK, Places, Preferences, Customers, At, Licensed
<1>1. ASSUME NEW c \in Calls, Dispatch(c) PROVE TypeOK'
  <2>1. /\ GateTypeOK'
        /\ \A d \in Calls \ {c} : pc'[d] = pc[d] /\ tool'[d] = tool[d]
    BY <1>1 DEF Dispatch, RunDirect, AskQuota, AskLicense, RefuseArguments, Goto, Settled
  <2>2. CASE /\ StartLookup(c)
             /\ Goto(c, "meter") \/ (Licensed(c) /\ Goto(c, "check"))
    <3>1. tool' = tool /\ tool[c] \in Tools
      BY <1>1 DEF Dispatch, RunDirect, AskQuota, AskLicense, RefuseArguments
    <3>2. pc'[c] = "meter" \/ (Licensed(c) /\ pc'[c] = "check")
      BY <2>2 DEF Goto
    <3>3. \A d \in Calls \ {c} : lookup'[d] = lookup[d]
      BY <2>2, StartKeeps DEF OnlyLookup
    <3> QED
      BY <2>1, <3>1, <3>2, <3>3
  <2>3. CASE UNCHANGED licenseVars /\ (Goto(c, "run") \/ Goto(c, "refused"))
    BY <1>1, <2>1, <2>3, NothingKeeps
    DEF Dispatch, RunDirect, AskQuota, AskLicense, RefuseArguments, Goto
  <2>4. \/ StartLookup(c) /\ (Goto(c, "meter") \/ (Licensed(c) /\ Goto(c, "check")))
        \/ UNCHANGED licenseVars /\ (Goto(c, "run") \/ Goto(c, "refused"))
    BY <1>1 DEF Dispatch, RunDirect, AskQuota, AskLicense, RefuseArguments, Goto, licenseVars
  <2> QED
    BY <2>2, <2>3, <2>4
<1>2. ASSUME NEW c \in Calls, Lookup(c) PROVE TypeOK'
  BY <1>2, LicenseStepKeeps DEF Lookup, gateVars, OnlyLookup
<1>3. ASSUME NEW c \in Calls, Checked(c) PROVE TypeOK'
  <2>1. GateTypeOK'
    BY <1>3 DEF Checked, Goto, LicenseTypeOK
  <2>2. /\ pc[c] = "check" /\ At(c)' = "none" /\ pc'[c] \in {"allowed", "refused"}
        /\ tool' = tool
        /\ \A d \in Calls \ {c} : pc'[d] = pc[d] /\ lookup'[d] = lookup[d]
    BY <1>3, TakenKeeps DEF Checked, Goto
  <2> QED
    BY <2>1, <2>2
<1>4. ASSUME NEW c \in Calls, AskAgain(c) PROVE TypeOK'
  BY <1>4, StartKeeps, ZenonT(60) DEF AskAgain, Goto, OnlyLookup
<1>5. ASSUME NEW c \in Calls, Meter(c) PROVE TypeOK'
  BY <1>5, TakenKeeps DEF Meter, Goto, PastQuota, CustomerOf
<1>6. ASSUME NEW c \in Calls, Count(c) PROVE TypeOK'
  BY <1>6, NothingKeeps DEF Count, Goto, PastQuota
<1>7. ASSUME NEW c \in Calls, InnerGate(c) PROVE TypeOK'
  BY <1>7, NothingKeeps DEF InnerGate, Goto, Settled
<1>8. ASSUME NEW c \in Calls, NEW t \in Tools, Receive(c, t) PROVE TypeOK'
  BY <1>8, NothingKeeps DEF Receive, Goto
<1>9. ASSUME NEW c \in Calls, NEW body \in Bodies, Respond(c, body) PROVE TypeOK'
  <2>1. prompted' \in BOOLEAN /\ prompts' \in Nat
    <3>1. CASE Prompts(c, body)
      BY <1>9, <3>1 DEF Respond
    <3>2. CASE ~Prompts(c, body)
      BY <1>9, <3>2 DEF Respond
    <3> QED
      BY <3>1, <3>2
  <2>2. /\ charge' \in [Calls -> [customer : Customers, period : Nat]]
        /\ license' \in [Calls -> Licenses \cup {NoLicense}]
    BY <1>9 DEF Respond, NoCharge
  <2>3. /\ pc' \in [Calls -> Places] /\ tool' \in [Calls -> Tools \cup {NoTool}]
        /\ seen' \in [Calls -> Preferences \cup {"none"}]
        /\ inner' \in [Calls -> Preferences \cup {"none"}]
    BY <1>9 DEF Respond, Goto
  <2>4. GateTypeOK'
    BY <1>9, <2>1, <2>2, <2>3 DEF Respond
  <2>5. /\ pc[c] \in {"run", "refused"} /\ pc'[c] = "idle" /\ lookup' = lookup
        /\ \A d \in Calls \ {c} : pc'[d] = pc[d] /\ tool'[d] = tool[d]
    BY <1>9, NothingKeeps DEF Respond, Goto
  <2> QED
    BY <2>4, <2>5
<1>10. CASE TokenResolved \/ ConsentAnswered \/ ConsentFails
  BY <1>10, NothingKeeps DEF TokenResolved, ConsentAnswered, ConsentFails, ConsentSettles
<1>11. CASE NewPeriod
  BY <1>11, NothingKeeps DEF NewPeriod
<1>12. CASE PreferenceChanges
  BY <1>12, NothingKeeps DEF PreferenceChanges
<1>13. CASE (Expire \/ AccountChanges) /\ UNCHANGED gateVars
  BY <1>13, EnvironmentKeeps DEF gateVars
<1>14. CASE UNCHANGED vars
  BY <1>14, NothingKeeps DEF vars, gateVars, licenseVars
<1> QED
  BY <1>1, <1>2, <1>3, <1>4, <1>5, <1>6, <1>7, <1>8,
     <1>9, <1>10, <1>11, <1>12, <1>13, <1>14 DEF Next, Step

\* The gates of a call are open as the one answer says that the process keeps.
ConsentInv ==
  /\ consent \in Preferences \cup {"none", "token", "asking"}
  /\ prompts = (IF prompted THEN 1 ELSE 0)
  /\ pc \in [Calls -> Places]
  /\ seen \in [Calls -> Preferences \cup {"none"}]
  /\ inner \in [Calls -> Preferences \cup {"none"}]
  /\ \A c \in Calls :
       /\ seen[c] # "none" => consent = seen[c]
       /\ inner[c] # "none" => inner[c] = seen[c]
       /\ pc[c] \in {"idle", "consent"} => seen[c] = "none" /\ inner[c] = "none"
       /\ pc[c] \notin {"idle", "consent"} => seen[c] # "none"

LEMMA ConsentNext == TypeOK /\ ConsentInv /\ [Next]_vars => ConsentInv'
<1> SUFFICES ASSUME TypeOK, ConsentInv, [Next]_vars PROVE ConsentInv'
  OBVIOUS
<1> USE DEF ConsentInv, Places, Preferences, Settled
<1>1. ASSUME NEW c \in Calls, Dispatch(c) PROVE ConsentInv'
  BY <1>1 DEF Dispatch, RunDirect, AskQuota, AskLicense, RefuseArguments, Goto
<1>2. ASSUME NEW c \in Calls, Lookup(c) PROVE ConsentInv'
  BY <1>2 DEF Lookup, gateVars
<1>3. ASSUME NEW c \in Calls, Checked(c) PROVE ConsentInv'
  BY <1>3 DEF Checked, Goto
<1>4. ASSUME NEW c \in Calls, AskAgain(c) PROVE ConsentInv'
  BY <1>4 DEF AskAgain, Goto
<1>5. ASSUME NEW c \in Calls, Meter(c) PROVE ConsentInv'
  BY <1>5 DEF Meter, Goto, PastQuota
<1>6. ASSUME NEW c \in Calls, Count(c) PROVE ConsentInv'
  BY <1>6 DEF Count, Goto, PastQuota
<1>7. ASSUME NEW c \in Calls, InnerGate(c) PROVE ConsentInv'
  BY <1>7 DEF InnerGate, Goto
<1>8. ASSUME NEW c \in Calls, NEW t \in Tools, Receive(c, t) PROVE ConsentInv'
  BY <1>8 DEF Receive, Goto
<1>9. ASSUME NEW c \in Calls, NEW body \in Bodies, Respond(c, body) PROVE ConsentInv'
  <2>1. prompts' = (IF prompted' THEN 1 ELSE 0)
    <3>1. CASE Prompts(c, body)
      BY <1>9, <3>1 DEF Respond, Prompts
    <3>2. CASE ~Prompts(c, body)
      BY <1>9, <3>2 DEF Respond
    <3> QED
      BY <3>1, <3>2
  <2> QED
    BY <1>9, <2>1 DEF Respond, Goto
<1>10. CASE TokenResolved \/ ConsentAnswered \/ ConsentFails
  BY <1>10 DEF TokenResolved, ConsentAnswered, ConsentFails, ConsentSettles, TypeOK, GateTypeOK
<1>11. CASE NewPeriod
  BY <1>11 DEF NewPeriod
<1>12. CASE PreferenceChanges
  BY <1>12 DEF PreferenceChanges
<1>13. CASE (Expire \/ AccountChanges) /\ UNCHANGED gateVars
  BY <1>13 DEF gateVars
<1>14. CASE UNCHANGED vars
  BY <1>14 DEF vars, gateVars
<1> QED
  BY <1>1, <1>2, <1>3, <1>4, <1>5, <1>6, <1>7, <1>8,
     <1>9, <1>10, <1>11, <1>12, <1>13, <1>14 DEF Next, Step

\* The license a licensed tool was let in with is one that was established.
LEMMA AllowedWasTold ==
  ASSUME NEW l \in Known, NEW f, Allows(l, f)
  PROVE  l \in told
BY DEF Known, Allows, TierReaches, Community

\* What was established stays so, and the credential is the process's own.
LEMMA ToldGrows == [Next]_vars => told \subseteq told' /\ mode' = mode
<1> SUFFICES ASSUME [Next]_vars PROVE told \subseteq told' /\ mode' = mode
  OBVIOUS
<1>1. ASSUME NEW c \in Calls, Dispatch(c) PROVE told \subseteq told' /\ mode' = mode
  BY <1>1
  DEF Dispatch, RunDirect, AskQuota, AskLicense, RefuseArguments, StartLookup, licenseVars
<1>2. ASSUME NEW c \in Calls, Lookup(c) PROVE told \subseteq told' /\ mode' = mode
  BY <1>2 DEF Lookup, LicenseStep, LoadCredentials, DefaultCommunity, Reply, Resolved, TransientFailure, Validated, NotValidated, Establish, Learn
<1>3. ASSUME NEW c \in Calls, Checked(c) PROVE told \subseteq told' /\ mode' = mode
  BY <1>3 DEF Checked
<1>4. ASSUME NEW c \in Calls, AskAgain(c) PROVE told \subseteq told' /\ mode' = mode
  BY <1>4 DEF AskAgain, StartLookup, licenseVars
<1>5. ASSUME NEW c \in Calls, Meter(c) PROVE told \subseteq told' /\ mode' = mode
  BY <1>5 DEF Meter
<1>6. ASSUME NEW c \in Calls, Count(c) PROVE told \subseteq told' /\ mode' = mode
  BY <1>6 DEF Count, licenseVars
<1>7. ASSUME NEW c \in Calls, InnerGate(c) PROVE told \subseteq told' /\ mode' = mode
  BY <1>7 DEF InnerGate, licenseVars
<1>8. ASSUME NEW c \in Calls, NEW t \in Tools, Receive(c, t) PROVE told \subseteq told' /\ mode' = mode
  BY <1>8 DEF Receive, licenseVars
<1>9. ASSUME NEW c \in Calls, NEW body \in Bodies, Respond(c, body) PROVE told \subseteq told' /\ mode' = mode
  BY <1>9 DEF Respond, licenseVars
<1>10. CASE TokenResolved \/ ConsentAnswered \/ ConsentFails
  BY <1>10 DEF TokenResolved, ConsentAnswered, ConsentFails, ConsentSettles, licenseVars
<1>11. CASE NewPeriod
  BY <1>11 DEF NewPeriod, licenseVars
<1>12. CASE PreferenceChanges
  BY <1>12 DEF PreferenceChanges, licenseVars
<1>13. CASE (Expire \/ AccountChanges) /\ UNCHANGED gateVars
  BY <1>13 DEF Expire, AccountChanges
<1>14. CASE UNCHANGED vars
  BY <1>14 DEF vars, licenseVars
<1> QED
  BY <1>1, <1>2, <1>3, <1>4, <1>5, <1>6, <1>7, <1>8,
     <1>9, <1>10, <1>11, <1>12, <1>13, <1>14 DEF Next, Step

LEMMA PaidNext ==
  LicenseInv /\ TypeOK /\ PaidRunWasTold /\ [Next]_vars => PaidRunWasTold'
<1> SUFFICES ASSUME LicenseInv, TypeOK, PaidRunWasTold, [Next]_vars
             PROVE  PaidRunWasTold'
  OBVIOUS
<1>0. told \subseteq told' /\ mode' = mode
  BY ToldGrows
<1> USE GateAssumption, <1>0
    DEF PaidRunWasTold, Licensed, TypeOK, GateTypeOK, Places, Allows, FeaturesOf
<1>1. ASSUME NEW c \in Calls, Dispatch(c) PROVE PaidRunWasTold'
  BY <1>1 DEF Dispatch, RunDirect, AskQuota, AskLicense, RefuseArguments, Goto
<1>2. ASSUME NEW c \in Calls, Lookup(c) PROVE PaidRunWasTold'
  BY <1>2 DEF Lookup, gateVars
<1>3. ASSUME NEW c \in Calls, Checked(c) PROVE PaidRunWasTold'
  <2>1. Allows(lookup[c].license, Gate[tool[c]]) => lookup[c].license \in told
    BY <1>3, AllowedWasTold DEF Checked, LicenseInv
  <2> QED
    BY <1>3, <2>1 DEF Checked, Goto
<1>4. ASSUME NEW c \in Calls, AskAgain(c) PROVE PaidRunWasTold'
  BY <1>4 DEF AskAgain, Goto
<1>5. ASSUME NEW c \in Calls, Meter(c) PROVE PaidRunWasTold'
  BY <1>5 DEF Meter, PastQuota, Goto
<1>6. ASSUME NEW c \in Calls, Count(c) PROVE PaidRunWasTold'
  BY <1>6 DEF Count, PastQuota, Goto
<1>7. ASSUME NEW c \in Calls, InnerGate(c) PROVE PaidRunWasTold'
  BY <1>7 DEF InnerGate, Goto
<1>8. ASSUME NEW c \in Calls, NEW t \in Tools, Receive(c, t) PROVE PaidRunWasTold'
  BY <1>8 DEF Receive, Goto
<1>9. ASSUME NEW c \in Calls, NEW body \in Bodies, Respond(c, body) PROVE PaidRunWasTold'
  BY <1>9 DEF Respond, Goto
<1>10. CASE TokenResolved \/ ConsentAnswered \/ ConsentFails
  BY <1>10 DEF TokenResolved, ConsentAnswered, ConsentFails, ConsentSettles, TypeOK, GateTypeOK
<1>11. CASE NewPeriod
  BY <1>11 DEF NewPeriod
<1>12. CASE PreferenceChanges
  BY <1>12 DEF PreferenceChanges
<1>13. CASE (Expire \/ AccountChanges) /\ UNCHANGED gateVars
  BY <1>13 DEF gateVars
<1>14. CASE UNCHANGED vars
  BY <1>14 DEF vars, gateVars
<1> QED
  BY <1>1, <1>2, <1>3, <1>4, <1>5, <1>6, <1>7, <1>8,
     <1>9, <1>10, <1>11, <1>12, <1>13, <1>14 DEF Next, Step

-----------------------------------------------------------------------------
(* The quota *)

\* The calls of an account that passed the quota in this month and are still to
\* be counted.
Counting(k) ==
  {c \in Calls : pc[c] = "count" /\ charge[c].customer = k /\ charge[c].period = period}

\* Together with those the account is no further beyond a limit.
QuotaInv ==
  /\ TypeOK
  /\ admitted = usage
  /\ \A c \in Calls : charge[c].period <= period
  /\ enforced =>
       \A k \in Customers :
         \E limit \in Limits(k) :
           usage[k] + Cardinality(Counting(k)) <= limit + Cardinality(Calls) - 1

LEMMA CountingFinite ==
  ASSUME IsFiniteSet(Calls), NEW k
  PROVE  /\ IsFiniteSet(Counting(k)) /\ Cardinality(Counting(k)) \in Nat
         /\ Cardinality(Counting(k)) <= Cardinality(Calls)
         /\ Cardinality(Calls) \in Nat
BY FS_Subset, FS_CardinalityType DEF Counting

\* The limits are numbers.
LEMMA LimitsAreIntegers == \A k \in Customers : Limits(k) \subseteq Int
BY GateAssumption DEF Limits, Tiers

\* A step that neither uses the quota nor lets a call through to be counted.
LEMMA QuotaFrame ==
  ASSUME QuotaInv, TypeOK', UNCHANGED <<usage, admitted, enforced, period>>,
         \A k \in Customers : Counting(k)' \subseteq Counting(k),
         \A c \in Calls : charge'[c].period <= period,
         IsFiniteSet(Calls)
  PROVE  QuotaInv'
<1>1. ASSUME enforced, NEW k \in Customers
      PROVE  \E limit \in Limits(k) :
               usage'[k] + Cardinality(Counting(k)') <= limit + Cardinality(Calls) - 1
  <2>1. /\ IsFiniteSet(Counting(k)) /\ Cardinality(Counting(k)) \in Nat
        /\ Cardinality(Calls) \in Nat
    BY CountingFinite
  <2>2. Cardinality(Counting(k)') <= Cardinality(Counting(k)) /\ Cardinality(Counting(k)') \in Nat
    BY <2>1, FS_Subset, FS_CardinalityType
  <2>3. PICK limit \in Limits(k) :
          usage[k] + Cardinality(Counting(k)) <= limit + Cardinality(Calls) - 1
    BY <1>1 DEF QuotaInv
  <2>4. usage'[k] = usage[k] /\ usage[k] \in Nat /\ limit \in Int
    BY LimitsAreIntegers DEF QuotaInv, TypeOK, GateTypeOK
  <2> QED
    BY <2>1, <2>2, <2>3, <2>4
<1> QED
  BY <1>1 DEF QuotaInv, Limits

LEMMA QuotaNext == LicenseInv /\ QuotaInv /\ [Next]_vars => QuotaInv'
<1> SUFFICES ASSUME LicenseInv, QuotaInv, [Next]_vars PROVE QuotaInv'
  OBVIOUS
<1>0. TypeOK'
  BY TypeNext DEF QuotaInv
<1> USE <1>0, CallsAssumption DEF QuotaInv, TypeOK, GateTypeOK, Places
<1>1. ASSUME NEW c \in Calls, Dispatch(c) PROVE QuotaInv'
  <2>1. /\ UNCHANGED <<usage, admitted, enforced, period>>
        /\ \A d \in Calls : charge'[d].period <= period
    BY <1>1 DEF Dispatch, RunDirect, AskQuota, AskLicense, RefuseArguments
  <2>2. \A k \in Customers : Counting(k)' \subseteq Counting(k)
    BY <1>1, <2>1 DEF Dispatch, RunDirect, AskQuota, AskLicense, RefuseArguments, Goto, Counting
  <2> QED
    BY <2>1, <2>2, QuotaFrame
<1>2. ASSUME NEW c \in Calls, Lookup(c) PROVE QuotaInv'
  BY <1>2, QuotaFrame DEF Lookup, gateVars, Counting
<1>3. ASSUME NEW c \in Calls, Checked(c) PROVE QuotaInv'
  BY <1>3, QuotaFrame DEF Checked, Goto, Counting
<1>4. ASSUME NEW c \in Calls, AskAgain(c) PROVE QuotaInv'
  BY <1>4, QuotaFrame DEF AskAgain, Goto, Counting
<1>5. ASSUME NEW c \in Calls, Meter(c) PROVE QuotaInv'
  <2> PICK l, k : l = lookup[c].license /\ k = CustomerOf(l)
    OBVIOUS
  <2>1. CASE pc'[c] # "count"
    <3>1. /\ UNCHANGED <<usage, admitted, enforced, period>>
          /\ \A d \in Calls : charge'[d].period <= period
      BY <1>5 DEF Meter
    <3>2. \A j \in Customers : Counting(j)' \subseteq Counting(j)
      BY <1>5, <2>1, <3>1 DEF Meter, Goto, Counting
    <3> QED
      BY <3>1, <3>2, QuotaFrame
  <2>2. CASE pc'[c] = "count"
    <3>1. pc'[c] \in {"gate", "run", "refused"} \/ ~(Exhausted(l) /\ enforced)
      BY <1>5 DEF Meter, Goto, PastQuota
    <3>2. Quota[TierOf(l)] # Unlimited /\ ~(Exhausted(l) /\ enforced)
      BY <1>5, <2>2, <3>1 DEF Meter, Goto, PastQuota
    <3>3. TierOf(l) \in Tiers /\ k \in Customers /\ (k = "anonymous" => TierOf(l) = "community")
      <4>1. l \in Known /\ (l \in told => l \in Licenses)
        BY <1>5 DEF Meter, LicenseInv, LicenseTypeOK
      <4>2. l \in Licenses \cup {NoLicense}
        BY <4>1, NoLicenseIsNone DEF Known
      <4>3. l = NoLicense => TierOf(l) = "community" /\ k = "anonymous"
        BY DEF TierOf, CustomerOf, NoLicense
      <4>4. l \in Licenses => TierOf(l) = l.tier /\ l.tier \in Tiers
        BY NoLicenseIsNone DEF TierOf, Licenses
      <4>5. l \in Licenses /\ k = "anonymous" => l = Community
        BY <4>1, NoLicenseIsNone DEF LicenseInv, Known, CustomerOf
      <4>6. k \in Customers
        BY DEF CustomerOf, Customers
      <4> QED
        BY <4>2, <4>3, <4>4, <4>5, <4>6 DEF Tiers, Community
    <3>4. Quota[TierOf(l)] \in Limits(k) /\ Quota[TierOf(l)] \in Nat
      <4>1. Quota[TierOf(l)] \in Nat \cup {Unlimited}
        BY <3>3, GateAssumption
      <4> QED
        BY <3>2, <3>3, <4>1 DEF Limits
    <3>5. ASSUME enforced, NEW j \in Customers
          PROVE  \E limit \in Limits(j) :
                   usage'[j] + Cardinality(Counting(j)') <= limit + Cardinality(Calls) - 1
      <4>1. usage' = usage /\ usage[j] \in Nat
        BY <1>5 DEF Meter
      <4>2. CASE j = k
        <5>1. usage[k] + 1 <= Quota[TierOf(l)]
          BY <3>2, <3>4, <3>5, <4>1, <4>2 DEF Exhausted
        <5>2. Cardinality(Counting(k)') <= Cardinality(Calls) /\ Cardinality(Counting(k)') \in Nat
              /\ Cardinality(Calls) \in Nat
          BY FS_Subset, FS_CardinalityType, CallsAssumption DEF Counting
        <5>3. usage'[k] + Cardinality(Counting(k)') <= Quota[TierOf(l)] + Cardinality(Calls) - 1
          BY <3>4, <4>1, <4>2, <5>1, <5>2
        <5> QED
          BY <3>4, <4>2, <5>3
      <4>3. CASE j # k
        <5>1. Counting(j)' = Counting(j)
          BY <1>5, <4>3 DEF Meter, Goto, Counting
        <5> QED
          BY <3>5, <4>1, <5>1
      <4> QED
        BY <4>2, <4>3
    <3> QED
      BY <1>5, <3>5 DEF Meter, Limits
  <2> QED
    BY <2>1, <2>2
<1>6. ASSUME NEW c \in Calls, Count(c) PROVE QuotaInv'
  <2> PICK k : k = charge[c].customer
    OBVIOUS
  <2>1. CASE charge[c].period # period
    BY <1>6, <2>1, QuotaFrame DEF Count, Goto, Counting, PastQuota
  <2>2. CASE charge[c].period = period
    <3>1. k \in Customers /\ usage' = [usage EXCEPT ![k] = @ + 1] /\ admitted' = usage'
      BY <1>6, <2>2 DEF Count
    <3>2. ASSUME enforced, NEW j \in Customers
          PROVE  \E limit \in Limits(j) :
                   usage'[j] + Cardinality(Counting(j)') <= limit + Cardinality(Calls) - 1
      <4>0. PICK limit \in Limits(j) :
              usage[j] + Cardinality(Counting(j)) <= limit + Cardinality(Calls) - 1
        BY <3>2
      <4>1. /\ usage[j] \in Nat /\ limit \in Int /\ IsFiniteSet(Counting(j))
            /\ Cardinality(Counting(j)) \in Nat /\ Cardinality(Calls) \in Nat
        BY LimitsAreIntegers, CountingFinite, CallsAssumption
      <4>2. CASE j = k
        <5>1. c \in Counting(k) /\ Counting(k)' = Counting(k) \ {c}
          BY <1>6, <2>2 DEF Count, Goto, Counting, PastQuota
        <5>2. Cardinality(Counting(k)') = Cardinality(Counting(k)) - 1
          <6>1. IsFiniteSet(Counting(k)) /\ Cardinality(Counting(k)) \in Nat
            BY CountingFinite
          <6>2. Cardinality(Counting(k) \ {c}) = Cardinality(Counting(k)) - 1
            BY <5>1, <6>1, FS_RemoveElement
          <6> QED
            BY <5>1, <6>2
        <5>3. usage'[k] = usage[k] + 1
          BY <3>1
        <5>4. usage'[j] + Cardinality(Counting(j)') = usage[j] + Cardinality(Counting(j))
          BY <4>1, <4>2, <5>2, <5>3
        <5> QED
          BY <4>0, <5>4
      <4>3. CASE j # k
        <5>1. Counting(j)' = Counting(j) /\ usage'[j] = usage[j]
          BY <1>6, <3>1, <4>3 DEF Count, Goto, Counting, PastQuota
        <5> QED
          BY <4>0, <5>1
      <4> QED
        BY <4>2, <4>3
    <3> QED
      BY <1>6, <3>1, <3>2 DEF Count, Limits
  <2> QED
    BY <2>1, <2>2
<1>7. ASSUME NEW c \in Calls, InnerGate(c) PROVE QuotaInv'
  BY <1>7, QuotaFrame, ZenonT(60) DEF InnerGate, Goto, Counting
<1>8. ASSUME NEW c \in Calls, NEW t \in Tools, Receive(c, t) PROVE QuotaInv'
  BY <1>8, QuotaFrame, ZenonT(60) DEF Receive, Goto, Counting
<1>9. ASSUME NEW c \in Calls, NEW body \in Bodies, Respond(c, body) PROVE QuotaInv'
  <2>1. /\ UNCHANGED <<usage, admitted, enforced, period>>
        /\ \A d \in Calls : charge'[d].period <= period
    BY <1>9 DEF Respond, NoCharge
  <2>2. \A k \in Customers : Counting(k)' \subseteq Counting(k)
    BY <1>9, <2>1 DEF Respond, Goto, Counting
  <2> QED
    BY <2>1, <2>2, QuotaFrame
<1>10. CASE TokenResolved \/ ConsentAnswered \/ ConsentFails
  BY <1>10, QuotaFrame DEF TokenResolved, ConsentAnswered, ConsentFails, ConsentSettles, Counting
<1>11. CASE NewPeriod
  <2>1. \A k \in Customers : Cardinality(Counting(k)') = 0 /\ usage'[k] = 0
    <3> SUFFICES ASSUME NEW k \in Customers
                 PROVE  Cardinality(Counting(k)') = 0 /\ usage'[k] = 0
      OBVIOUS
    <3>1. Counting(k)' = {} /\ usage'[k] = 0
      BY <1>11 DEF NewPeriod, Counting
    <3> QED
      BY <3>1, FS_EmptySet
  <2>2. \A k \in Customers : "community" \in Tiers /\ Quota["community"] \in Limits(k)
    BY DEF Limits, Tiers
  <2>3. Cardinality(Calls) \in Nat /\ Cardinality(Calls) # 0
    BY CallsAssumption, FS_CardinalityType, FS_EmptySet
  <2>4. Quota["community"] \in Nat
    BY GateAssumption
  <2>5. ASSUME NEW k \in Customers
        PROVE  \E limit \in Limits(k) :
                 usage'[k] + Cardinality(Counting(k)') <= limit + Cardinality(Calls) - 1
    <3>1. usage'[k] + Cardinality(Counting(k)') = 0
      BY <2>1
    <3>2. \A q, n \in Nat : n # 0 => 0 <= q + n - 1
      OBVIOUS
    <3>3. 0 <= Quota["community"] + Cardinality(Calls) - 1
      BY <2>3, <2>4, <3>2, Zenon
    <3> QED
      BY <2>2, <3>1, <3>3
  <2> QED
    BY <1>11, <2>5 DEF NewPeriod, Limits
<1>12. CASE PreferenceChanges
  BY <1>12, QuotaFrame DEF PreferenceChanges, Counting
<1>13. CASE (Expire \/ AccountChanges) /\ UNCHANGED gateVars
  BY <1>13, QuotaFrame DEF gateVars, Counting
<1>14. CASE UNCHANGED vars
  BY <1>14, QuotaFrame DEF vars, gateVars, Counting
<1> QED
  BY <1>1, <1>2, <1>3, <1>4, <1>5, <1>6, <1>7, <1>8,
     <1>9, <1>10, <1>11, <1>12, <1>13, <1>14 DEF Next, Step

-----------------------------------------------------------------------------
(* The age of the cached license *)

\* As long as lookups never overlapped, one is out at a time, and it has seen
\* the account no earlier than the newest license established so far.
NewestInv ==
  /\ newest <= changes
  /\ \A c \in Calls : lookup[c].asOf <= changes
  /\ ~overlap =>
       /\ asOf = newest
       /\ \A c, d \in Calls : At(c) \in Pending /\ At(d) \in Pending => c = d
       /\ \A c \in Calls : At(c) \in Pending => newest <= lookup[c].asOf

LEMMA NewestFrame ==
  ASSUME NewestInv, UNCHANGED <<lookup, changes, asOf, newest, overlap>>
  PROVE  NewestInv'
BY DEF NewestInv, At

\* A pending lookup goes on, or any ends.
LEMMA MoveKeepsNewest ==
  ASSUME NewestInv, LicenseTypeOK, NEW c \in Calls, NEW stage, NEW l, MoveTo(c, stage, l),
         stage \notin Pending \/ At(c) \in Pending,
         UNCHANGED <<changes, asOf, newest, overlap>>
  PROVE  NewestInv'
<1>1. /\ lookup'[c] = [at |-> stage, license |-> l, asOf |-> changes]
      /\ \A d \in Calls \ {c} : lookup'[d] = lookup[d]
  BY DEF MoveTo, LicenseTypeOK
<1>2. At(c)' = stage /\ lookup'[c].asOf = changes /\ changes \in Nat
  BY <1>1 DEF At, LicenseTypeOK
<1>3. \A d \in Calls \ {c} : At(d)' = At(d)
  BY <1>1 DEF At
<1> QED
  BY <1>1, <1>2, <1>3 DEF NewestInv

LEMMA StartKeepsNewest ==
  ASSUME NewestInv, LicenseTypeOK, NEW c \in Calls, StartLookup(c)
  PROVE  NewestInv'
<1>1. CASE cache.life # "over"
  <2>1. MoveTo(c, "done", cache.license) /\ "done" \notin Pending
    BY <1>1 DEF StartLookup, Pending
  <2>2. UNCHANGED <<changes, asOf, newest, overlap>>
    BY <1>1 DEF StartLookup, LicenseTypeOK
  <2> QED
    BY <2>1, <2>2, MoveKeepsNewest
<1>2. CASE cache.life = "over"
  <2>1. PICK stage : MoveTo(c, stage, NoLicense)
    BY <1>2 DEF StartLookup
  <2>2. /\ lookup'[c].asOf = changes /\ changes \in Nat
        /\ \A d \in Calls \ {c} : lookup'[d] = lookup[d]
    BY <2>1 DEF MoveTo, LicenseTypeOK
  <2>3. \A d \in Calls \ {c} : At(d)' = At(d)
    BY <2>2 DEF At
  <2>4. UNCHANGED <<changes, asOf, newest>>
    BY DEF StartLookup
  <2>5. ~overlap' => ~overlap /\ \A d \in Calls : At(d) \notin Pending
    BY <1>2 DEF StartLookup
  <2> QED
    BY <2>2, <2>3, <2>4, <2>5 DEF NewestInv
<1> QED
  BY <1>1, <1>2

\* The one lookup that is out knows the account as it was after the license
\* in the cache was established.
LEMMA EstablishKeepsNewest ==
  ASSUME NewestInv, LicenseTypeOK, NEW c \in Calls, NEW l, Establish(c, l), At(c) \in Pending
  PROVE  NewestInv'
<1>1. /\ lookup'[c] = [at |-> "done", license |-> l, asOf |-> changes]
      /\ \A d \in Calls \ {c} : lookup'[d] = lookup[d]
  BY DEF Establish, Learn, MoveTo, LicenseTypeOK
<1>2. At(c)' \notin Pending /\ lookup'[c].asOf = changes
  BY <1>1 DEF At, Pending
<1>3. \A d \in Calls \ {c} : At(d)' = At(d)
  BY <1>1 DEF At
<1>4. /\ lookup[c].asOf \in Nat /\ newest \in Nat /\ changes \in Nat
      /\ asOf' = lookup[c].asOf /\ UNCHANGED <<changes, overlap>>
      /\ newest' = IF lookup[c].asOf > newest THEN lookup[c].asOf ELSE newest
  BY DEF Establish, Learn, LicenseTypeOK
<1>5. newest' <= changes' /\ \A d \in Calls : lookup'[d].asOf <= changes'
  BY <1>1, <1>2, <1>4 DEF NewestInv
<1>6. ASSUME ~overlap
      PROVE  asOf' = newest' /\ \A d \in Calls : At(d)' \notin Pending
  <2>1. newest <= lookup[c].asOf
    BY <1>6 DEF NewestInv
  <2>2. asOf' = newest'
    BY <1>4, <2>1
  <2>3. \A d \in Calls \ {c} : At(d) \notin Pending
    BY <1>6 DEF NewestInv
  <2> QED
    BY <1>2, <1>3, <2>2, <2>3
<1> QED
  BY <1>4, <1>5, <1>6 DEF NewestInv

LEMMA LicenseStepKeepsNewest ==
  ASSUME NewestInv, LicenseTypeOK, NEW c \in Calls, LicenseStep(c)
  PROVE  NewestInv'
<1> USE DEF Pending, Stages
<1>1. CASE LoadCredentials(c)
  BY <1>1, MoveKeepsNewest DEF LoadCredentials
<1>2. CASE DefaultCommunity(c)
  BY <1>2, EstablishKeepsNewest DEF DefaultCommunity
<1>3. CASE Reply(c)
  BY <1>3, MoveKeepsNewest DEF Reply
<1>4. CASE Resolved(c)
  BY <1>4, EstablishKeepsNewest DEF Resolved
<1>5. CASE TransientFailure(c)
  BY <1>5, MoveKeepsNewest DEF TransientFailure
<1>6. CASE Validated(c)
  BY <1>6, EstablishKeepsNewest DEF Validated
<1>7. CASE NotValidated(c)
  BY <1>7, MoveKeepsNewest DEF NotValidated
<1> QED
  BY <1>1, <1>2, <1>3, <1>4, <1>5, <1>6, <1>7 DEF LicenseStep

LEMMA TakenKeepsNewest ==
  ASSUME NewestInv, LicenseTypeOK, NEW c \in Calls, Taken(c),
         UNCHANGED <<changes, asOf, newest, overlap>>
  PROVE  NewestInv'
<1>1. /\ lookup'[c] = NoLookup
      /\ \A d \in Calls \ {c} : lookup'[d] = lookup[d]
  BY DEF Taken, LicenseTypeOK
<1>2. At(c)' \notin Pending /\ lookup'[c].asOf = 0 /\ changes \in Nat
  BY <1>1 DEF At, NoLookup, Pending, LicenseTypeOK
<1>3. \A d \in Calls \ {c} : At(d)' = At(d)
  BY <1>1 DEF At
<1> QED
  BY <1>1, <1>2, <1>3 DEF NewestInv

LEMMA EnvironmentKeepsNewest ==
  ASSUME NewestInv, LicenseTypeOK, Expire \/ AccountChanges
  PROVE  NewestInv'
<1>1. CASE Expire
  BY <1>1, NewestFrame DEF Expire
<1>2. CASE AccountChanges
  BY <1>2 DEF AccountChanges, NewestInv, LicenseTypeOK, At
<1> QED
  BY <1>1, <1>2

LEMMA NewestNext == LicenseInv /\ NewestInv /\ [Next]_vars => NewestInv'
<1> SUFFICES ASSUME LicenseInv, NewestInv, [Next]_vars PROVE NewestInv'
  OBVIOUS
<1>0. LicenseTypeOK
  BY DEF LicenseInv
<1>1. ASSUME NEW c \in Calls, Dispatch(c) PROVE NewestInv'
  BY <1>0, <1>1, StartKeepsNewest, NewestFrame
  DEF Dispatch, RunDirect, AskQuota, AskLicense, RefuseArguments, licenseVars
<1>2. ASSUME NEW c \in Calls, Lookup(c) PROVE NewestInv'
  BY <1>0, <1>2, LicenseStepKeepsNewest DEF Lookup
<1>3. ASSUME NEW c \in Calls, Checked(c) PROVE NewestInv'
  BY <1>0, <1>3, TakenKeepsNewest DEF Checked
<1>4. ASSUME NEW c \in Calls, AskAgain(c) PROVE NewestInv'
  BY <1>0, <1>4, StartKeepsNewest DEF AskAgain
<1>5. ASSUME NEW c \in Calls, Meter(c) PROVE NewestInv'
  BY <1>0, <1>5, TakenKeepsNewest DEF Meter
<1>6. ASSUME NEW c \in Calls, Count(c) PROVE NewestInv'
  BY <1>6, NewestFrame DEF Count, licenseVars
<1>7. ASSUME NEW c \in Calls, InnerGate(c) PROVE NewestInv'
  BY <1>7, NewestFrame DEF InnerGate, licenseVars
<1>8. ASSUME NEW c \in Calls, NEW t \in Tools, Receive(c, t) PROVE NewestInv'
  BY <1>8, NewestFrame DEF Receive, licenseVars
<1>9. ASSUME NEW c \in Calls, NEW body \in Bodies, Respond(c, body) PROVE NewestInv'
  BY <1>9, NewestFrame DEF Respond, licenseVars
<1>10. CASE TokenResolved \/ ConsentAnswered \/ ConsentFails
  BY <1>10, NewestFrame DEF TokenResolved, ConsentAnswered, ConsentFails, ConsentSettles, licenseVars
<1>11. CASE NewPeriod
  BY <1>11, NewestFrame DEF NewPeriod, licenseVars
<1>12. CASE PreferenceChanges
  BY <1>12, NewestFrame DEF PreferenceChanges, licenseVars
<1>13. CASE (Expire \/ AccountChanges) /\ UNCHANGED gateVars
  BY <1>0, <1>13, EnvironmentKeepsNewest
<1>14. CASE UNCHANGED vars
  BY <1>14, NewestFrame DEF vars, licenseVars
<1> QED
  BY <1>1, <1>2, <1>3, <1>4, <1>5, <1>6, <1>7, <1>8,
     <1>9, <1>10, <1>11, <1>12, <1>13, <1>14 DEF Next, Step

-----------------------------------------------------------------------------
(* The theorems *)

LEMMA InitEstablishes == Init => LicenseInv /\ TypeOK
<1> SUFFICES ASSUME Init PROVE LicenseInv /\ TypeOK
  OBVIOUS
<1>1. LicenseTypeOK
  <2>1. login \in BOOLEAN /\ account \in Tiers \cup {Unknown}
    BY LicenseAssumption DEF Init, LicenseInit
  <2> QED
    BY <2>1 DEF Init, LicenseInit, LicenseTypeOK, NoLookup, Empty, Slot, Lives, Stages
<1>2. LicenseInv
  BY <1>1 DEF Init, LicenseInit, LicenseInv, Known, Empty, Slot, NoLookup, At
<1>3. GateTypeOK
  BY DEF Init, GateTypeOK, Places, Preferences, Customers, NoCharge
<1> QED
  BY <1>1, <1>2, <1>3 DEF Init, LicenseInit, TypeOK, NoLookup, At

\* What holds in every state.
Inv == LicenseInv /\ TypeOK /\ ConsentInv /\ PaidRunWasTold /\ QuotaInv /\ NewestInv

LEMMA Invariant == Spec => []Inv
<1>1. Init => Inv
  <2> SUFFICES ASSUME Init PROVE Inv
    OBVIOUS
  <2>1. LicenseInv /\ TypeOK
    BY InitEstablishes
  <2>2. ConsentInv
    BY DEF Init, ConsentInv, Places, Preferences
  <2>3. PaidRunWasTold
    BY DEF Init, PaidRunWasTold
  <2>4. QuotaInv
    <3>1. \A k \in Customers : Cardinality(Counting(k)) = 0 /\ usage[k] = 0
      <4> SUFFICES ASSUME NEW k \in Customers
                   PROVE  Cardinality(Counting(k)) = 0 /\ usage[k] = 0
        OBVIOUS
      <4>1. Counting(k) = {} /\ usage[k] = 0
        BY DEF Init, Counting
      <4> QED
        BY <4>1, FS_EmptySet
    <3>2. \A k \in Customers : "community" \in Tiers /\ Quota["community"] \in Limits(k)
      BY DEF Limits, Tiers
    <3>3. Cardinality(Calls) \in Nat /\ Cardinality(Calls) # 0
      BY CallsAssumption, FS_CardinalityType, FS_EmptySet
    <3>4. Quota["community"] \in Nat
      BY GateAssumption
    <3>5. \A k \in Customers :
            usage[k] + Cardinality(Counting(k)) <= Quota["community"] + Cardinality(Calls) - 1
      BY <3>1, <3>3, <3>4
    <3> QED
      BY <2>1, <3>2, <3>5 DEF Init, QuotaInv, NoCharge
  <2>5. NewestInv
    BY DEF Init, LicenseInit, NewestInv, NoLookup, At, Pending
  <2> QED
    BY <2>1, <2>2, <2>3, <2>4, <2>5 DEF Inv
<1>2. Inv /\ [Next]_vars => Inv'
  BY LicenseNext, TypeNext, ConsentNext, PaidNext, QuotaNext, NewestNext DEF Inv
<1> QED
  BY <1>1, <1>2, PTL DEF Spec

\* Calls, caches and storage keep their types, and a lookup is under way only
\* where a call waits for its license.
THEOREM TypeCorrect == Spec => []TypeOK
BY Invariant, PTL DEF Inv

\* No failure, timeout or overlap of license lookups lets a call of a licensed
\* tool through: its license was established, and allows the tool.
THEOREM PaidRunsWereTold == Spec => []PaidRunWasTold
BY Invariant, PTL DEF Inv

\* A failed lookup never takes an established license away.
THEOREM TierIsRemembered == Spec => []TierRemembered
<1>1. LicenseInv => TierRemembered
  BY DEF LicenseInv, TierRemembered
<1> QED
  BY <1>1, Invariant, PTL DEF Inv

\* As long as lookups did not overlap, the cache holds the license established
\* last: what is in it is no older than any answer the process has had.
THEOREM CacheIsNewest == Spec => []NewestWithoutOverlap
<1>1. NewestInv => NewestWithoutOverlap
  BY DEF NewestInv, NewestWithoutOverlap
<1> QED
  BY <1>1, Invariant, PTL DEF Inv

\* However many calls are metered at once, an account gets at most one call
\* less than those beyond its limit.
THEOREM OverrunIsBounded == Spec => []OverrunBounded
<1>1. QuotaInv => OverrunBounded
  <2> SUFFICES ASSUME QuotaInv, enforced, NEW k \in Customers
               PROVE  \E limit \in Limits(k) : admitted[k] <= limit + Cardinality(Calls) - 1
    BY DEF OverrunBounded
  <2>1. PICK limit \in Limits(k) :
          usage[k] + Cardinality(Counting(k)) <= limit + Cardinality(Calls) - 1
    BY DEF QuotaInv
  <2>2. /\ usage[k] \in Nat /\ limit \in Int /\ Cardinality(Counting(k)) \in Nat
        /\ Cardinality(Calls) \in Nat /\ admitted[k] = usage[k]
    BY LimitsAreIntegers, CountingFinite, CallsAssumption DEF QuotaInv, TypeOK, GateTypeOK
  <2> QED
    BY <2>1, <2>2
<1> QED
  BY <1>1, Invariant, PTL DEF Inv

\* The two emission gates of a call are opened with one and the same answer,
\* and the prompt is shown once.
THEOREM ConsentTheorem == Spec => []ConsentIsConsistent
<1>1. ConsentInv => ConsentIsConsistent
  BY DEF ConsentInv, ConsentIsConsistent, GatesAgree, PromptShownOnce
<1> QED
  BY <1>1, Invariant, PTL DEF Inv

\* The flags a resolved tier comes with are those whose tier check it passes:
\* a customer is not let in by the one and refused by the other
\* (license.tier.ts:81-86).
THEOREM LiveTierPassesBothChecks ==
  ASSUME mode # "key", NEW a \in Tiers, NEW f \in Features
  PROVE  Allows(LicenseOf(a), f) <=> Rank[FeatureTier[f]] <= Rank[a]
<1>1. FeatureTier[f] \in {"individual", "team", "enterprise"} /\ a \in Tiers /\ a # Unknown
  BY LicenseAssumption DEF Tiers, Unknown
<1>2. LicenseOf(a) # NoLicense /\ LicenseOf(a).tier = a
  BY <1>1 DEF LicenseOf, NoLicense
<1>3. f \in FeaturesOf(LicenseOf(a)) <=> Rank[FeatureTier[f]] <= Rank[a]
  BY <1>2 DEF FeaturesOf, FeaturesForTier
<1>4. Rank[FeatureTier[f]] <= Rank[a] => TierReaches(a, f)
  BY <1>1 DEF Rank, TierReaches, Tiers
<1> QED
  BY <1>2, <1>3, <1>4 DEF Allows
=============================================================================
