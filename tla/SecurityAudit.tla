--------------------------- MODULE SecurityAudit ---------------------------
(***************************************************************************)
(* The local security audit: it reads the acceptance store and the         *)
(* baseline of the previous audit, scans the installed skills, gives each  *)
(* a verdict, and saves what it saw as the next baseline.                  *)
(*                                                                         *)
(* Audits run beside the calls of AcceptanceStore and beside one another;  *)
(* the baseline has no lock.  Processes may run different versions of the  *)
(* scanner, and a caller chooses the threshold a content fails at.         *)
(***************************************************************************)
EXTENDS AcceptanceStore

CONSTANTS
  Audits,      \* audits in flight
  Skills, Contents, Findings,
  Absent,      \* no such skill, or its content could not be read
  NoEntry,     \* no baseline of a skill
  Bars,        \* what an audit may be run with: [ruleset, threshold]
  Report,      \* what each scanner version finds in a content
  Failing      \* <<bar, content>>: those that fail the scan

ASSUME AuditAssumption ==
  /\ Keys = Contents \X Findings \X Rulesets
  /\ RulesetOf = [k \in Keys |-> k[3]]
  /\ Absent \notin Contents /\ Bars # {}
  /\ \A b \in Bars : b.ruleset \in Rulesets
  /\ Report \in [Rulesets \X Contents -> SUBSET Findings]
  /\ Failing \subseteq Bars \X Contents

Entries == [content : Contents, bar : Bars]

ASSUME NoEntryAssumption == NoEntry \notin Entries

VARIABLES
  content,   \* what is installed as each skill
  baseline,  \* the baseline on disk
  stage,     \* where each audit stands
  bar,       \* the version of its scanner, and its threshold (SomeBar when idle)
  snapshot,  \* the keys in the acceptance store when it started
  prior,     \* the baseline it loaded
  next,      \* the baseline it builds
  inventory, \* the skills it found
  todo,      \* those that are left
  seen,      \* what it read
  verdict,   \* what it reports
  alone,     \* history: no other audit has run beside it
  backed,    \* history: what was standing when it loaded the acceptances
  missed,    \* history: the skills that were there and that it did not find
  known,     \* history: what the last audit that ran alone has read of a skill
  blind      \* history: the skills an audit has missed since they were read

auditVars == <<content, baseline, stage, bar, snapshot, prior, next, inventory, todo,
               seen, verdict, alone, backed, missed, known, blind>>
vars == <<storeVars, auditVars>>

NoBaseline == [s \in Skills |-> NoEntry]

SomeBar == CHOOSE b \in Bars : TRUE

AuditInit ==
  /\ content \in [Skills -> Contents]
  /\ baseline = NoBaseline /\ known = NoBaseline /\ blind = {}
  /\ stage = [a \in Audits |-> "idle"]
  /\ bar = [a \in Audits |-> SomeBar]
  /\ snapshot = [a \in Audits |-> {}] /\ backed = snapshot
  /\ prior = [a \in Audits |-> NoBaseline] /\ next = prior
  /\ todo = [a \in Audits |-> {}] /\ inventory = todo /\ missed = todo
  /\ seen = [a \in Audits |-> [s \in Skills |-> Absent]]
  /\ verdict = [a \in Audits |-> [s \in Skills |-> "none"]]
  /\ alone = [a \in Audits |-> FALSE]

Init == StoreInit /\ AuditInit

-----------------------------------------------------------------------------

\* Verdicts

Passes(b, c) == <<b, c>> \notin Failing

\* compareScanReports: a content that passed now fails, or has got worse.
Compare(b, old, new) ==
  CASE Passes(b, old) /\ ~Passes(b, new) -> "hostile"
    [] ~Passes(b, old) \/ Passes(b, new) ->
         IF Report[b.ruleset, new] \subseteq Report[b.ruleset, old] THEN "none" ELSE "suspicious"

\* computeAcceptKey: the content, the finding and the version, and nothing else.
AcceptKey(c, f, r) == <<c, f, r>>

(* Faulty: an acceptance holds for the finding in whatever content. *)
AllAcceptedAnywhere(a, c) ==
  /\ Report[bar[a].ruleset, c] # {}
  /\ \A f \in Report[bar[a].ruleset, c] : \E d \in Contents :
       AcceptKey(d, f, bar[a].ruleset) \in snapshot[a]

\* deriveCandidatesForEntry: every finding has an acceptance in the snapshot.
AllAccepted(a, c) ==
  /\ Report[bar[a].ruleset, c] # {}
  /\ \A f \in Report[bar[a].ruleset, c] : AcceptKey(c, f, bar[a].ruleset) \in snapshot[a]

\* A stored report counts only if this version of the scanner made it, for this threshold.
Comparable(a, s) == prior[a][s] # NoEntry /\ prior[a][s].bar = bar[a]

Transition(a, s, c) ==
  IF Comparable(a, s) /\ prior[a][s].content # c
  THEN Compare(bar[a], prior[a][s].content, c)
  ELSE "none"

(* Faulty: a failing content is labelled before the transition is looked at. *)
VerdictFailingFirst(a, s, c) ==
  CASE ~Passes(bar[a], c) -> IF AllAccepted(a, c) THEN "accepted" ELSE "malicious"
    [] Passes(bar[a], c) -> Transition(a, s, c)

\* One finding for each skill, the strongest label; only a standing failure can
\* be annotated as accepted.
Verdict(a, s, c) ==
  CASE Transition(a, s, c) = "hostile" -> "hostile"
    [] Transition(a, s, c) # "hostile" /\ ~Passes(bar[a], c) ->
         IF AllAccepted(a, c) THEN "accepted" ELSE "malicious"
    [] Transition(a, s, c) # "hostile" /\ Passes(bar[a], c) -> Transition(a, s, c)

-----------------------------------------------------------------------------

\* The audit

Running(a) == stage[a] # "idle"

\* scanLocalInventory has found the skills, without those of a directory that it could not
\* list, of which it says nothing; the acceptance store is loaded once.
LoadAcceptances(a, b, lost) ==
  /\ stage[a] = "idle" /\ CanStart /\ started' = started + 1
  /\ stage' = [stage EXCEPT ![a] = "loaded"]
  /\ bar' = [bar EXCEPT ![a] = b]
  /\ snapshot' = [snapshot EXCEPT ![a] = {x.key : x \in Load(file)}]
  /\ backed' = [backed EXCEPT ![a] = standing]
  /\ inventory' = [inventory EXCEPT ![a] = {s \in Skills \ lost : content[s] # Absent}]
  /\ missed' = [missed EXCEPT ![a] = {s \in lost : content[s] # Absent}]
  /\ todo' = [todo EXCEPT ![a] = inventory'[a]]
  /\ seen' = [seen EXCEPT ![a] = [s \in Skills |-> Absent]]
  /\ verdict' = [verdict EXCEPT ![a] = [s \in Skills |-> "none"]]
  /\ alone' = [d \in Audits |-> IF d = a THEN \A e \in Audits : ~Running(e)
                                ELSE alone[d] /\ ~Running(d)]
  /\ UNCHANGED <<file, lock, pc, request, loaded, outcome, crossed, standing, clock, outside>>
  /\ UNCHANGED <<content, baseline, prior, next, known, blind>>

LoadBaseline(a) ==
  /\ stage[a] = "loaded"
  /\ stage' = [stage EXCEPT ![a] = "scanning"]
  /\ prior' = [prior EXCEPT ![a] = baseline]
  /\ next' = [next EXCEPT ![a] = NoBaseline]
  /\ UNCHANGED <<storeVars, content, baseline, bar, snapshot, inventory, todo, seen,
                 verdict, alone, backed, missed, known, blind>>

\* A skill that can be read and scanned.
Scan(a, s) ==
  /\ stage[a] = "scanning" /\ s \in todo[a] /\ content[s] # Absent
  /\ todo' = [todo EXCEPT ![a] = @ \ {s}]
  /\ seen' = [seen EXCEPT ![a][s] = content[s]]
  /\ verdict' = [verdict EXCEPT ![a][s] = Verdict(a, s, content[s])]
  /\ next' = [next EXCEPT ![a][s] = [content |-> content[s], bar |-> bar[a]]]
  /\ UNCHANGED <<storeVars, content, baseline, stage, bar, snapshot, prior, inventory,
                 alone, backed, missed, known, blind>>

\* A skill that cannot be read, or that the scanner throws on, keeps its entry.
Preserve(a, s) ==
  /\ stage[a] = "scanning" /\ s \in todo[a]
  /\ todo' = [todo EXCEPT ![a] = @ \ {s}]
  /\ next' = [next EXCEPT ![a][s] = prior[a][s]]
  /\ UNCHANGED <<storeVars, content, baseline, stage, bar, snapshot, prior, inventory, seen,
                 verdict, alone, backed, missed, known, blind>>

\* What this audit adds to what is known: a skill it has read, or, when it was
\* not alone, no longer anything for sure; a skill that is not there is forgotten.
Learned(a) ==
  [s \in Skills |->
     CASE ~alone[a] -> NoEntry
       [] alone[a] /\ seen[a][s] # Absent -> [content |-> seen[a][s], bar |-> bar[a]]
       [] alone[a] /\ seen[a][s] = Absent -> IF s \in inventory[a] \cup missed[a] THEN known[s] ELSE NoEntry]

\* The run ends, and with it what it kept in memory.
End(a) ==
  /\ stage' = [stage EXCEPT ![a] = "idle"]
  /\ snapshot' = [snapshot EXCEPT ![a] = {}] /\ backed' = [backed EXCEPT ![a] = {}]
  /\ prior' = [prior EXCEPT ![a] = NoBaseline] /\ next' = [next EXCEPT ![a] = NoBaseline]
  /\ inventory' = [inventory EXCEPT ![a] = {}] /\ todo' = [todo EXCEPT ![a] = {}]
  /\ seen' = [seen EXCEPT ![a] = [s \in Skills |-> Absent]]
  /\ verdict' = [verdict EXCEPT ![a] = [s \in Skills |-> "none"]]
  /\ alone' = [alone EXCEPT ![a] = FALSE] /\ missed' = [missed EXCEPT ![a] = {}]
  /\ bar' = [bar EXCEPT ![a] = SomeBar]
  /\ UNCHANGED <<storeVars, content>>

SaveBaseline(a) ==
  /\ stage[a] = "scanning" /\ todo[a] = {}
  /\ baseline' = next[a] /\ known' = Learned(a)
  /\ blind' = {s \in blind \cup missed[a] : seen[a][s] = Absent}
  /\ End(a)

\* A failed save is swallowed; a process that dies does not save either.
EndWithoutSave(a) == Running(a) /\ End(a) /\ UNCHANGED <<baseline, known, blind>>

\* A skill is installed, updated or removed.
SkillChanges(s) ==
  /\ CanStart /\ outside' = outside + 1
  /\ \E c \in (Contents \cup {Absent}) \ {content[s]} : content' = [content EXCEPT ![s] = c]
  /\ UNCHANGED <<file, lock, pc, request, loaded, outcome, crossed, standing, clock, started>>
  /\ UNCHANGED <<baseline, stage, bar, snapshot, prior, next, inventory, todo,
                 seen, verdict, alone, backed, missed, known, blind>>

\* A baseline that is absent or unreadable loads as empty.
BaselineLost ==
  /\ CanStart /\ outside' = outside + 1
  /\ baseline' = NoBaseline /\ known' = NoBaseline
  /\ UNCHANGED <<file, lock, pc, request, loaded, outcome, crossed, standing, clock, started>>
  /\ UNCHANGED <<content, stage, bar, snapshot, prior, next, inventory, todo,
                 seen, verdict, alone, backed, missed, blind>>

\* A finding that an audit with this version of the scanner reports.
Candidate(k) == k[2] \in Report[k[3], k[1]]

StoreNext ==
  /\ \/ \E p \in Procs : \/ StoreStep(p)
                         \/ \E k \in Keys, r \in Rulesets, action \in {"accept", "revoke"} :
                              Candidate(k) /\ Ask(p, action, k, r)
     \/ Tamper
  /\ UNCHANGED auditVars

Next ==
  \/ StoreNext
  \/ \E a \in Audits : \/ \E b \in Bars, lost \in SUBSET Skills : LoadAcceptances(a, b, lost)
                       \/ LoadBaseline(a)
                       \/ \E s \in Skills : Scan(a, s) \/ Preserve(a, s)
                       \/ SaveBaseline(a) \/ EndWithoutSave(a)
  \/ \E s \in Skills : SkillChanges(s)
  \/ BaselineLost

Spec == Init /\ [][Next]_vars
-----------------------------------------------------------------------------

\* Properties

StoreTypeOK ==
  /\ file \in [form : {"ok", "absent", "damaged"}, records : SUBSET Records]
  /\ lock \in Procs \cup {Free, Orphan}
  /\ pc \in [Procs -> {"idle", "waiting", "loaded", "leaving"}]
  /\ request \in [Procs -> Requests \cup {NoRequest}]
  /\ loaded \in [Procs -> SUBSET Records]
  /\ outcome \in [Procs -> {"none", "applied", "refused"}]
  /\ crossed \in [Procs -> BOOLEAN]
  /\ standing \subseteq Keys
  /\ clock \in Nat /\ started \in Nat /\ outside \in Nat

Baselines == [Skills -> Entries \cup {NoEntry}]

AuditTypeOK ==
  /\ content \in [Skills -> Contents \cup {Absent}]
  /\ baseline \in Baselines /\ known \in Baselines
  /\ stage \in [Audits -> {"idle", "loaded", "scanning"}]
  /\ bar \in [Audits -> Bars]
  /\ snapshot \in [Audits -> SUBSET Keys] /\ backed \in [Audits -> SUBSET Keys]
  /\ prior \in [Audits -> Baselines] /\ next \in [Audits -> Baselines]
  /\ inventory \in [Audits -> SUBSET Skills] /\ todo \in [Audits -> SUBSET Skills]
  /\ missed \in [Audits -> SUBSET Skills] /\ blind \subseteq Skills
  /\ seen \in [Audits -> [Skills -> Contents \cup {Absent}]]
  /\ verdict \in [Audits -> [Skills -> {"none", "hostile", "malicious", "suspicious",
                                        "accepted"}]]
  /\ alone \in [Audits -> BOOLEAN]

\* Every variable keeps its type; the waiting and the loaded calls are those with
\* a request, and a loaded call has the lock (security-acceptance.mutate.ts:76-80).
TypeOK ==
  /\ StoreTypeOK /\ AuditTypeOK
  /\ \A p \in Procs : /\ request[p] # NoRequest <=> pc[p] \in {"waiting", "loaded"}
                      /\ pc[p] \in {"loaded", "leaving"} <=> lock = p

\* The store is a register: each call takes effect at one instant and on what
\* is in force at that instant, or not at all, and is answered accordingly
\* ("the read-modify-write here is one atomic critical section, cross-process",
\* security-acceptance.mutate.ts:9), through timeouts, failed writes and deaths.
StoreIsRegister == Register!Spec

\* A failing skill is reported as accepted only if each of its findings was
\* accepted in exactly the content that was scanned and not revoked before the
\* audit began (security-acceptance.types.ts:5-12): an update of the skill, a
\* second scanner version or a damaged store never makes an acceptance cover more.
SuppressedWasAccepted ==
  \A a \in Audits, s \in Skills :
    verdict[a][s] = "accepted" =>
      \A f \in Report[bar[a].ruleset, seen[a][s]] :
        AcceptKey(seen[a][s], f, bar[a].ruleset) \in backed[a]

\* Whether a content that passed when it was last read, by an audit that ran alone, fails
\* now by the same bar.
TurnsHostile(a, s) ==
  /\ alone[a] /\ seen[a][s] # Absent
  /\ known[s] # NoEntry /\ known[s].bar = bar[a]
  /\ Passes(bar[a], known[s].content) /\ ~Passes(bar[a], seen[a][s])

\* A skill that passed the last audit that read it and fails now is reported as
\* hostile, also when audits in between could not read it or failed to save
\* (security-audit.ts:11-26), unless audits overlapped or one of them did not list it.
RugPullReported ==
  \A a \in Audits, s \in Skills \ blind : TurnsHostile(a, s) => verdict[a][s] = "hostile"

\* Not so in the code: so it is if an audit in between could not list the skill, which is
\* "carried forward", "never" to be taken for "an uninstall" (security-audit.ts:189-193);
\* the audit drops it from the baseline, and the next sees it for the first time.
HiccupIsNoUninstall ==
  \A a \in Audits, s \in Skills : TurnsHostile(a, s) => verdict[a][s] = "hostile"
=============================================================================
