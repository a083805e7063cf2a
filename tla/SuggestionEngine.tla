--------------------------- MODULE SuggestionEngine ---------------------------
(***************************************************************************)
(* The pacing of unasked suggestions: a cooldown, a number per day, an opt *)
(* out, and a list of dismissed skills, kept in one file that every engine *)
(* reads when it starts and overwrites when it changes something.          *)
(***************************************************************************)
EXTENDS Naturals, Sequences, FiniteSets

CONSTANTS
  Engine,                              \* processes with an engine
  Rule,                                \* SUGGESTION_RULES, by their priority 1 .. n
  cooldownMs, maxSuggestionsPerDay,    \* the configuration, in ticks
  DayLength, MaxTime, MaxTurns         \* bounds: also on starts and decisions of the user

ASSUME PacingAssumption ==
  /\ Rule \subseteq Nat \ {0} /\ DayLength \in Nat \ {0}
  /\ cooldownMs \in Nat /\ maxSuggestionsPerDay \in Nat

VARIABLES
  stateFile,   \* suggestions-state.json: {} when absent, {"damaged"}, or the state in it
  engine,      \* engine[p]: the state in memory, and the skill on offer
  time,
  turns,
  shown,       \* history: the times of the suggestions that were shown, in order
  refused,     \* history: opted out, and the skills dismissed, as the user said it last
  disturbed    \* history: a state was reset, lost, or overwritten by an engine that had not read it

suggestionVars == <<stateFile, engine, time, turns, shown, refused, disturbed>>

getDefaultState == [lastSuggestionTime |-> 0, suggestionsToday |-> 0, optedOut |-> FALSE,
                    dismissedSkills |-> {}]
Stopped == [running |-> FALSE, state |-> getDefaultState, read |-> {}, offer |-> 0]
Damaged == {[damaged |-> TRUE]}
dayOf(t) == t \div DayLength

SuggestionInit ==
  /\ stateFile = {} /\ engine = [p \in Engine |-> Stopped] /\ time = DayLength
  /\ turns = 0 /\ shown = <<>> /\ refused = [optedOut |-> FALSE, skills |-> {}] /\ disturbed = FALSE
-----------------------------------------------------------------------------
\* Faulty: every start begins a new day.
loadAfresh == IF stateFile = {} \/ stateFile = Damaged THEN getDefaultState
              ELSE [(CHOOSE s \in stateFile : TRUE) EXCEPT !.suggestionsToday = 0]

\* The day's count is reset here, and only here.
loadState ==
  IF stateFile = {} \/ stateFile = Damaged THEN getDefaultState
  ELSE LET data == CHOOSE s \in stateFile : TRUE IN
       IF dayOf(data.lastSuggestionTime) = dayOf(time) THEN data
       ELSE [data EXCEPT !.suggestionsToday = 0]

Turn == turns < MaxTurns /\ turns' = turns + 1

StartEngine(p) ==
  /\ ~engine[p].running /\ Turn
  /\ engine' = [engine EXCEPT ![p] = [running |-> TRUE, state |-> loadState, read |-> stateFile,
                                      offer |-> 0]]
  /\ disturbed' = (disturbed \/ stateFile = Damaged)
  /\ UNCHANGED <<stateFile, time, shown, refused>>

\* saveState writes what is in memory over what is in the file; a crash in the
\* middle of it leaves a file that does not parse.
Save(p, state) ==
  /\ \/ /\ stateFile' = {state}
        /\ engine' = [engine EXCEPT ![p].state = state, ![p].read = {state}, ![p].offer = 0]
     \/ stateFile' = Damaged /\ engine' = [engine EXCEPT ![p] = Stopped]
  /\ UNCHANGED time

Overwrites(p) == stateFile # engine[p].read

canSuggest(state) ==
  /\ ~state.optedOut
  /\ state.suggestionsToday < maxSuggestionsPerDay
  /\ time - state.lastSuggestionTime >= cooldownMs

\* The first rule by priority that matches the project, of those whose skill is
\* neither installed nor dismissed.
getSuggestions(p) ==
  /\ engine[p].running /\ engine[p].offer = 0 /\ canSuggest(engine[p].state)
  /\ \E matching \in SUBSET Rule :
       LET left == matching \ engine[p].state.dismissedSkills IN
       /\ left # {}
       /\ engine' = [engine EXCEPT ![p].offer = CHOOSE r \in left : \A q \in left : r <= q]
  /\ UNCHANGED <<stateFile, time, turns, shown, refused, disturbed>>

\* The caller has shown what it was offered.
recordSuggestionShown(p) ==
  /\ engine[p].running /\ engine[p].offer # 0
  /\ Save(p, [engine[p].state EXCEPT !.lastSuggestionTime = time, !.suggestionsToday = @ + 1])
  /\ shown' = Append(shown, time)
  /\ disturbed' = (disturbed \/ Overwrites(p))
  /\ UNCHANGED <<refused, turns>>

dismissSkill(p) ==
  /\ engine[p].running /\ engine[p].offer = 0 /\ Turn
  /\ \E r \in Rule \ engine[p].state.dismissedSkills :
       /\ Save(p, [engine[p].state EXCEPT !.dismissedSkills = @ \cup {r}])
       /\ refused' = [refused EXCEPT !.skills = @ \cup {r}]
  /\ disturbed' = (disturbed \/ Overwrites(p))
  /\ UNCHANGED shown

\* optOut and optIn.
Opt(p, out) ==
  /\ engine[p].running /\ engine[p].offer = 0 /\ engine[p].state.optedOut # out /\ Turn
  /\ Save(p, [engine[p].state EXCEPT !.optedOut = out])
  /\ refused' = [refused EXCEPT !.optedOut = out]
  /\ disturbed' = (disturbed \/ Overwrites(p))
  /\ UNCHANGED shown

resetState(p) ==
  /\ engine[p].running /\ engine[p].offer = 0 /\ Turn
  /\ Save(p, getDefaultState)
  /\ refused' = [optedOut |-> FALSE, skills |-> {}]
  /\ disturbed' = TRUE
  /\ UNCHANGED shown

StopEngine(p) ==
  /\ engine[p].running
  /\ engine' = [engine EXCEPT ![p] = Stopped]
  /\ UNCHANGED <<stateFile, time, turns, shown, refused, disturbed>>

TimeGoesOn ==
  /\ time < MaxTime /\ time' = time + 1
  /\ UNCHANGED <<stateFile, engine, turns, shown, refused, disturbed>>

SuggestionNext ==
  \/ \E p \in Engine :
       \/ StartEngine(p) \/ getSuggestions(p) \/ recordSuggestionShown(p) \/ dismissSkill(p)
       \/ \E out \in BOOLEAN : Opt(p, out)
       \/ resetState(p) \/ StopEngine(p)
  \/ TimeGoesOn
-----------------------------------------------------------------------------
\* Engines start and stop, across midnight and in any order: as long as no
\* state was lost, reset or overwritten, no calendar day has more suggestions
\* than the configuration allows, two of them are a cooldown apart, and nothing
\* is on offer that the user refused.
SuggestionsPaced == ~disturbed =>
  /\ \A i \in DOMAIN shown :
       /\ Cardinality({j \in DOMAIN shown : dayOf(shown[j]) = dayOf(shown[i])}) <= maxSuggestionsPerDay
       /\ i > 1 => shown[i - 1] + cooldownMs <= shown[i]
  /\ \A p \in Engine : engine[p].offer # 0 /\ ~Overwrites(p) =>
       ~refused.optedOut /\ engine[p].offer \notin refused.skills
=============================================================================
