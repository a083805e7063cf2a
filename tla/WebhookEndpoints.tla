-------------------------- MODULE WebhookEndpoints --------------------------
(***************************************************************************)
(* The two standalone webhook servers, GitHub and Stripe: who a request is *)
(* counted for, the sliding window of the rate limiter and the timer that  *)
(* sweeps it, the order of the handler's refusals, and the shutdown.       *)
(***************************************************************************)
EXTENDS Naturals, FiniteSetsExt

CONSTANTS
  Conn,             \* requests that may be in the handler together
  Address,          \* addresses of sockets, and those a proxy may forward
  trustProxy, trustedProxies,
  Limit, Window,    \* rateLimit and rateLimitWindow, in ticks
  MaxTicks          \* bound

ASSUME WindowAssumption == Limit \in Nat /\ Window \in Nat /\ MaxTicks \in Nat

VARIABLES
  endpoint,   \* "github" or "stripe", and "up", "closing", "exited" or "crashed"
  tick,
  limiter,    \* limiter[ip][t]: how many timestamps t the limiter holds for ip
  swept,      \* the tick of the last sweep
  handling,   \* handling[c]: what the request of c waits for
  queued,     \* GitHub: the handler put items into the queue
  admitted    \* history: like limiter, of all requests it let pass

webhookVars == <<endpoint, tick, limiter, swept, handling, queued, admitted>>

Ticks == 0 .. MaxTicks
NoTimes == [t \in Ticks |-> 0]

WebhookInit ==
  /\ endpoint \in [kind : {"github", "stripe"}, state : {"up"}]
  /\ tick = 0 /\ swept = 0 /\ queued = FALSE
  /\ limiter = [ip \in Address |-> NoTimes] /\ admitted = [ip \in Address |-> NoTimes]
  /\ handling = [c \in Conn |-> "none"]
-----------------------------------------------------------------------------
\* The timestamps of the window that ends at "now".
InWindow(times, now) == [t \in Ticks |-> IF t + Window > now THEN times[t] ELSE 0]

\* A header that was forwarded counts only from a proxy that is trusted.
getClientIp(remote, forwarded) ==
  IF trustProxy /\ forwarded # {} /\ (trustedProxies = {} \/ remote \in trustedProxies)
  THEN CHOOSE ip \in forwarded : TRUE ELSE remote

Total(times) == FoldSet(LAMBDA t, sum : sum + times[t], 0, Ticks)

isRateLimited(ip) == Total(InWindow(limiter[ip], tick)) >= Limit

\* Only a request that passes is remembered, and the old ones go.
Admit(ip) ==
  LET kept == InWindow(limiter[ip], tick) IN
  /\ limiter' = [limiter EXCEPT ![ip] = [kept EXCEPT ![tick] = @ + 1]]
  /\ admitted' = [admitted EXCEPT ![ip][tick] = @ + 1]
-----------------------------------------------------------------------------
\* After the server stopped listening a connection that is busy may still send.
Accepting(c) == /\ handling[c] = "none"
                /\ \/ endpoint.state = "up"
                   \/ endpoint.state = "closing" /\ \E d \in Conn : handling[d] # "none"

\* The limiter is asked before any header: what is refused for its headers counts too.
Arrive(c) ==
  /\ Accepting(c)
  /\ \E remote \in Address, forwarded \in {{}} \cup {{ip} : ip \in Address}, headers \in BOOLEAN :
       LET ip == getClientIp(remote, forwarded) IN
       IF isRateLimited(ip) THEN UNCHANGED <<limiter, admitted, handling>>
       ELSE /\ Admit(ip)
            /\ handling' = IF headers THEN [handling EXCEPT ![c] = "body"] ELSE handling
  /\ UNCHANGED <<endpoint, tick, swept, queued>>

\* readBody: 413 beyond the limit, or when the client goes.
ReadBody(c) ==
  /\ handling[c] = "body"
  /\ \E ok \in BOOLEAN : handling' = [handling EXCEPT ![c] = IF ok THEN "webhook" ELSE "none"]
  /\ UNCHANGED <<endpoint, tick, limiter, swept, queued, admitted>>

\* handleWebhook answers 200 and may have queued something, or 400, 401 or 500.
HandleWebhook(c) ==
  /\ handling[c] = "webhook"
  /\ handling' = [handling EXCEPT ![c] = "none"]
  /\ queued' \in IF endpoint.kind = "github" THEN {queued, TRUE} ELSE {queued}
  /\ UNCHANGED <<endpoint, tick, limiter, swept, admitted>>

\* The queue's timer: onIndexUpdate gets the items.
ProcessQueue ==
  /\ queued /\ endpoint.state \in {"up", "closing"}
  /\ queued' = FALSE
  /\ UNCHANGED <<endpoint, tick, limiter, swept, handling, admitted>>

\* Faulty: the sweep forgets every timestamp.
SweepAll ==
  /\ tick >= swept + Window
  /\ endpoint.state = "up" \/ endpoint = [kind |-> "github", state |-> "closing"]
  /\ swept' = tick
  /\ limiter' = [ip \in Address |-> NoTimes]
  /\ UNCHANGED <<endpoint, tick, handling, queued, admitted>>

\* The interval of createRateLimiter; only Stripe's stop() clears it.
Sweep ==
  /\ tick >= swept + Window
  /\ endpoint.state = "up" \/ endpoint = [kind |-> "github", state |-> "closing"]
  /\ swept' = tick
  /\ limiter' = [ip \in Address |-> InWindow(limiter[ip], tick)]
  /\ UNCHANGED <<endpoint, tick, handling, queued, admitted>>

\* GitHub: the queue is dropped.  Stripe: the limiter is dropped.
Stop ==
  /\ endpoint.state = "up"
  /\ endpoint' = [endpoint EXCEPT !.state = "closing"]
  /\ IF endpoint.kind = "github" THEN queued' = FALSE /\ UNCHANGED limiter
     ELSE limiter' = [ip \in Address |-> NoTimes] /\ UNCHANGED queued
  /\ UNCHANGED <<tick, swept, handling, admitted>>

\* A second signal closes a server that is not listening: the rejection ends the process.
StopAgain ==
  /\ endpoint.state = "closing"
  /\ endpoint' = [endpoint EXCEPT !.state = "crashed"]
  /\ handling' = [c \in Conn |-> "none"]
  /\ UNCHANGED <<tick, limiter, swept, queued, admitted>>

\* close() has called back: exit(0), with whatever the queue got meanwhile.
WebhookExit ==
  /\ endpoint.state = "closing" /\ \A c \in Conn : handling[c] = "none"
  /\ endpoint' = [endpoint EXCEPT !.state = "exited"]
  /\ UNCHANGED <<tick, limiter, swept, handling, queued, admitted>>

TickPasses ==
  /\ tick < MaxTicks /\ tick' = tick + 1
  /\ UNCHANGED <<endpoint, limiter, swept, handling, queued, admitted>>

WebhookNext ==
  \/ \E c \in Conn : Arrive(c) \/ ReadBody(c) \/ HandleWebhook(c)
  \/ ProcessQueue \/ Sweep \/ Stop \/ StopAgain \/ WebhookExit \/ TickPasses
-----------------------------------------------------------------------------
\* However requests, refusals, sweeps and the shutdown interleave: no address
\* gets more than the limit through in any window.  (Stripe's stop() empties
\* the limiter while connections that are still open may send.)
WindowBounded == endpoint.state = "up" \/ endpoint.kind = "github" =>
  \A ip \in Address, now \in Ticks :
    now <= tick => Total([t \in Ticks |-> IF t <= now THEN InWindow(admitted[ip], now)[t] ELSE 0]) <= Limit

\* Does not hold.  What the handler answered as queued is processed before exit(0).
NothingQueuedAtExit == endpoint.state = "exited" => ~queued
=============================================================================
