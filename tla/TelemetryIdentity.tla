------------------------- MODULE TelemetryIdentity -------------------------
(***************************************************************************)
(* The cached identity that tool_call events are sent with.  Refreshes are *)
(* fired and not awaited (context creation, a five-minute timer, a 401     *)
(* answer), so several can be in flight and settle in any order; a         *)
(* generation counter decides whose answer is kept.                        *)
(*                                                                         *)
(* An identity is named by the refresh that fetched it: its generation.    *)
(***************************************************************************)
EXTENDS Naturals

CONSTANT
  MaxGeneration  \* bound: refreshes and invalidations of one process

VARIABLES
  generation,    \* telemetryIdentityGeneration
  cached,        \* cachedTelemetryIdentity: 0 for null
  refreshing,    \* the refreshes awaiting resolveFreshAccessToken
  inFlight,      \* identities of events sent and not yet answered
  rejectedAt     \* history: the generation at the last 401

vars == <<generation, cached, refreshing, inFlight, rejectedAt>>

Generations == 1..MaxGeneration

Init ==
  /\ generation = 0 /\ cached = 0 /\ refreshing = {}
  /\ inFlight = {} /\ rejectedAt = 0

\* refreshTelemetryIdentity up to its await, called when the counter is at n.
StartRefresh(n) ==
  /\ n < MaxGeneration
  /\ generation' = n + 1
  /\ refreshing' = refreshing \cup {n + 1}

\* createToolContextAsync installs the provider and fires the first refresh.
Install ==
  /\ StartRefresh(generation)
  /\ UNCHANGED <<cached, inFlight, rejectedAt>>

\* The five-minute timer.
TimerRefresh ==
  /\ generation > 0
  /\ StartRefresh(generation)
  /\ UNCHANGED <<cached, inFlight, rejectedAt>>

(* Faulty: applies whatever answer arrives. *)
SettleAnyway(g) ==
  /\ g \in refreshing
  /\ refreshing' = refreshing \ {g}
  /\ cached' \in {0, g}
  /\ UNCHANGED <<generation, inFlight, rejectedAt>>

\* A refresh answers, with a token or (no token, or an error) with null; a
\* newer one having started meanwhile, the answer is dropped.
Settle(g) ==
  /\ g \in refreshing
  /\ refreshing' = refreshing \ {g}
  /\ IF g = generation THEN cached' \in {0, g} ELSE UNCHANGED cached
  /\ UNCHANGED <<generation, inFlight, rejectedAt>>

\* A tool call emits an event with the identity in the cache, if there is one.
Emit ==
  /\ cached # 0
  /\ inFlight' = inFlight \cup {cached}
  /\ UNCHANGED <<generation, cached, refreshing, rejectedAt>>

\* The server takes the event.
Accepted(g) ==
  /\ g \in inFlight
  /\ inFlight' = inFlight \ {g}
  /\ UNCHANGED <<generation, cached, refreshing, rejectedAt>>

(* Faulty: the refresh alone, the rejected identity stays cached meanwhile. *)
RejectedKeepingCache(g) ==
  /\ g \in inFlight
  /\ inFlight' = inFlight \ {g}
  /\ generation < MaxGeneration
  /\ rejectedAt' = generation
  /\ StartRefresh(generation)
  /\ UNCHANGED cached

\* The server answers 401 invalid_jwt: the invalidation handler clears the
\* cache at once, bumps the generation and starts a refresh, which bumps it
\* again.
Rejected(g) ==
  /\ g \in inFlight
  /\ inFlight' = inFlight \ {g}
  /\ rejectedAt' = generation
  /\ cached' = 0
  /\ StartRefresh(generation + 1)

Next ==
  \/ TimerRefresh
  \/ \E g \in Generations : Settle(g) \/ Accepted(g) \/ Rejected(g)
  \/ Emit
=============================================================================
