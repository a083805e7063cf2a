----------------------------- MODULE LlmFailover -----------------------------
(***************************************************************************)
(* LLMFailoverChain as its callers see it: requests that wait for the      *)
(* initialisation, the health report that awaits one provider after the    *)
(* other, and close(), which may come between any two awaits.  The server's *)
(* own start and shutdown of the chain are in ServerLifecycle.             *)
(***************************************************************************)
EXTENDS Naturals

CONSTANTS
  Request,     \* calls that may be under way together
  Llm,         \* the providers behind the chain
  MaxRequests  \* bound

VARIABLES
  chain,       \* the fields of the chain; provider is "none" or "open"
  request,     \* request[r]: where the call r stands
  requests

llmChainVars == <<chain, request, requests>>

NoCall == [at |-> "idle", kind |-> "none", todo |-> {}, healthy |-> {}]

LlmInit ==
  /\ chain \in [enabled : BOOLEAN, initialized : {FALSE}, promise : {"none"}, provider : {"none"},
                closed : {FALSE}]
  /\ request = [r \in Request |-> NoCall] /\ requests = 0

Serving == chain.enabled /\ chain.provider = "open"
-----------------------------------------------------------------------------
\* The promise is kept for good: a chain that was closed, or whose
\* initialisation failed, is never initialised again.
initialize ==
  /\ ~chain.initialized /\ chain.promise = "none"
  /\ chain' = IF chain.enabled THEN [chain EXCEPT !.promise = "pending"]
              ELSE [chain EXCEPT !.promise = "done", !.initialized = TRUE]
  /\ UNCHANGED <<request, requests>>

\* createMultiLLMProvider answers, also after close().
doInitialize ==
  /\ chain.promise = "pending"
  /\ \/ chain' = [chain EXCEPT !.promise = "done", !.initialized = TRUE, !.provider = "open"]
     \/ chain' = [chain EXCEPT !.promise = "failed"]
  /\ UNCHANGED <<request, requests>>

close ==
  /\ ~chain.closed
  /\ chain' = [chain EXCEPT !.provider = "none", !.initialized = FALSE, !.closed = TRUE]
  /\ UNCHANGED <<request, requests>>
-----------------------------------------------------------------------------
Kinds == {"complete", "testSkillCompatibility", "healthCheck"}

\* ensureInitialized: without a promise it throws, else the promise is awaited.
Call(r) ==
  /\ request[r].at = "idle" /\ requests < MaxRequests /\ requests' = requests + 1
  /\ \E kind \in Kinds :
       request' = [request EXCEPT ![r] = [NoCall EXCEPT !.kind = kind,
         !.at = IF chain.initialized \/ chain.promise # "none" THEN "await" ELSE "thrown"]]
  /\ UNCHANGED chain

\* The provider is looked at after the await.
Resume(r) ==
  /\ request[r].at = "await"
  /\ chain.initialized \/ chain.promise # "pending"
  /\ request' = [request EXCEPT ![r].at =
       IF ~chain.initialized /\ chain.promise = "failed" THEN "thrown"
       ELSE IF Serving THEN "provider"
       ELSE IF request[r].kind = "healthCheck" THEN "unhealthy" ELSE "thrown"]
  /\ UNCHANGED <<chain, requests>>

\* The provider answers: its own failover and circuit breakers are the core package's.
Answered(r) ==
  /\ request[r].at = "provider"
  /\ \E outcome \in {"answered", "thrown"} : request' = [request EXCEPT ![r].at = outcome]
  /\ UNCHANGED <<chain, requests>>

\* getHealthStatus does not wait for the initialisation; with no provider it
\* reports at once.
getHealthStatus(r) ==
  /\ request[r].at = "idle" /\ requests < MaxRequests /\ requests' = requests + 1
  /\ \E enabledLlm \in SUBSET Llm :
       request' = [request EXCEPT ![r] = [NoCall EXCEPT !.kind = "status", !.todo = enabledLlm,
         !.at = IF chain.initialized /\ Serving /\ enabledLlm # {} THEN "checking" ELSE "unhealthy"]]
  /\ UNCHANGED chain

\* What the report says once p was checked: the last check also ends it.
Checked(r, p, ok) ==
  LET healthy == IF ok THEN request[r].healthy \cup {p} ELSE request[r].healthy IN
  request' = [request EXCEPT ![r].todo = @ \ {p}, ![r].healthy = healthy,
    ![r].at = IF request[r].todo # {p} THEN "checking"
              ELSE IF healthy # {} THEN "healthy" ELSE "unhealthy"]

\* Faulty: the provider was kept in a local variable.
CheckCaptured(r) ==
  /\ request[r].at = "checking"
  /\ \E p \in request[r].todo, ok \in BOOLEAN : Checked(r, p, ok)
  /\ UNCHANGED <<chain, requests>>

\* One awaited check: when close() came meanwhile, reading the status throws.
Check(r) ==
  /\ request[r].at = "checking"
  /\ IF chain.provider = "none" THEN request' = [request EXCEPT ![r].at = "thrown"]
     ELSE \E p \in request[r].todo, ok \in BOOLEAN : Checked(r, p, ok)
  /\ UNCHANGED <<chain, requests>>

Return(r) ==
  /\ request[r].at \in {"answered", "thrown", "healthy", "unhealthy"}
  /\ request' = [request EXCEPT ![r] = NoCall]
  /\ UNCHANGED <<chain, requests>>

LlmNext ==
  \/ initialize \/ doInitialize \/ close
  \/ \E r \in Request : \/ Call(r) \/ Resume(r) \/ Answered(r)
                       \/ getHealthStatus(r) \/ Check(r) \/ Return(r)
-----------------------------------------------------------------------------
\* close() may come between any two checks of a report: a chain that was closed
\* meanwhile never answers "healthy".
HealthAnswerIsTrue == [][\A r \in Request :
  request[r].at # "healthy" /\ request'[r].at = "healthy" => chain.provider = "open"]_llmChainVars

\* Does not hold.  A chain that was closed stays closed.
ClosedStaysClosed == [](chain.closed => chain.provider = "none")
=============================================================================
