----------------------------- MODULE RpcFailover -----------------------------
(* The failover transport over several RPC endpoints                         *)
(* (packages/hardening/src/rpcFailover.ts): one health record per endpoint,  *)
(* shared by all requests in flight; every request goes through the endpoints*)
(* in order and skips one that is cooling down if a healthier one follows.   *)
EXTENDS Integers, FiniteSets

CONSTANTS
    Endpoints,         \* how many urls there are
    RpcRequests,       \* logical requests, each with its own AttemptTrail
    FailureThreshold, BaseCooldown, MaxBackoff,
    ChainRetries,      \* retryCount: how often viem walks the chain again
    MaxClock           \* bound on the clock

ASSUME FailoverAssumption ==
    /\ Endpoints \in Nat \ {0} /\ FailureThreshold \in Nat \ {0}
    /\ BaseCooldown \in Nat \ {0} /\ MaxBackoff \in Nat \ {0}
    /\ ChainRetries \in Nat /\ MaxClock \in Nat
    /\ IsFiniteSet(RpcRequests)

Urls == 1..Endpoints

VARIABLES
    clock,
    consecutiveFailures,   \* per endpoint
    cooldownUntil,         \* per endpoint; 0 is undefined
    place,                 \* per request: the endpoint it is at; 0 before and after
    sent,                  \* per request: whether that endpoint is being asked
    countedFailures,       \* per request: the endpoints it has counted against
    walks,                 \* per request: walks of the chain begun
    verdict,               \* per request: how it ended
    asked                  \* per request: the endpoints it really asked (history)

failoverVars == <<clock, consecutiveFailures, cooldownUntil, place, sent, countedFailures,
                  walks, verdict, asked>>
requestVars == <<place, sent, countedFailures, walks, verdict, asked>>

FailoverInit ==
    /\ clock = 1
    /\ consecutiveFailures = [e \in Urls |-> 0]
    /\ cooldownUntil = [e \in Urls |-> 0]
    /\ place = [q \in RpcRequests |-> 0]
    /\ sent = [q \in RpcRequests |-> FALSE]
    /\ countedFailures = [q \in RpcRequests |-> {}]
    /\ walks = [q \in RpcRequests |-> 0]
    /\ verdict = [q \in RpcRequests |-> "none"]
    /\ asked = [q \in RpcRequests |-> {}]

-----------------------------------------------------------------------------
IsCoolingDown(e) == cooldownUntil[e] > clock

HealthierEndpointFollows(e) == \E f \in Urls : f > e /\ ~IsCoolingDown(f)

PassedOver(e) == IsCoolingDown(e) /\ HealthierEndpointFollows(e)

Capped(wait) == IF wait < MaxBackoff THEN wait ELSE MaxBackoff

RecordSuccess(q, e) ==
    /\ consecutiveFailures' = [consecutiveFailures EXCEPT ![e] = 0]
    /\ cooldownUntil' = [cooldownUntil EXCEPT ![e] = 0]
    /\ countedFailures' = [countedFailures EXCEPT ![q] = @ \ {e}]

Counted(q, e) == e \in countedFailures[q]

(* A failing request is one strike against an endpoint, however often the
   chain is walked for it.                                                   *)
RecordFailure(q, e) ==
    LET failures == consecutiveFailures[e] + 1
    IN  IF Counted(q, e)
        THEN UNCHANGED <<consecutiveFailures, cooldownUntil, countedFailures>>
        ELSE /\ countedFailures' = [countedFailures EXCEPT ![q] = @ \cup {e}]
             /\ consecutiveFailures' = [consecutiveFailures EXCEPT ![e] = failures]
             /\ cooldownUntil' =
                    IF failures < FailureThreshold
                    THEN cooldownUntil
                    ELSE [cooldownUntil EXCEPT
                            ![e] = clock + Capped(BaseCooldown * 2 ^ (failures - FailureThreshold))]

(* viem's fallback after an error: the next endpoint, another walk, or the
   error goes to the caller.                                                 *)
MoveOn(q) ==
    \/ /\ place[q] < Endpoints
       /\ place' = [place EXCEPT ![q] = @ + 1]
       /\ UNCHANGED <<walks, verdict>>
    \/ /\ place[q] = Endpoints
       /\ IF walks[q] <= ChainRetries
          THEN /\ place' = [place EXCEPT ![q] = 1]
               /\ walks' = [walks EXCEPT ![q] = @ + 1]
               /\ UNCHANGED verdict
          ELSE /\ place' = [place EXCEPT ![q] = 0]
               /\ verdict' = [verdict EXCEPT ![q] = "error"]
               /\ UNCHANGED walks

Stop(q, how) ==
    /\ place' = [place EXCEPT ![q] = 0]
    /\ verdict' = [verdict EXCEPT ![q] = how]
    /\ UNCHANGED walks

Begin(q) ==
    /\ walks[q] = 0
    /\ place' = [place EXCEPT ![q] = 1]
    /\ walks' = [walks EXCEPT ![q] = 1]
    /\ UNCHANGED <<clock, consecutiveFailures, cooldownUntil, sent, countedFailures, verdict, asked>>

(* RpcEndpointCooldownError: counts against nobody.                          *)
PassOver(q) ==
    /\ place[q] > 0 /\ ~sent[q]
    /\ PassedOver(place[q])
    /\ MoveOn(q)
    /\ UNCHANGED <<clock, consecutiveFailures, cooldownUntil, sent, countedFailures, asked>>

Ask(q) ==
    /\ place[q] > 0 /\ ~sent[q]
    /\ ~PassedOver(place[q])
    /\ sent' = [sent EXCEPT ![q] = TRUE]
    /\ asked' = [asked EXCEPT ![q] = @ \cup {place[q]}]
    /\ UNCHANGED <<clock, consecutiveFailures, cooldownUntil, place, countedFailures, walks, verdict>>

Answered(q) ==
    /\ sent[q]
    /\ sent' = [sent EXCEPT ![q] = FALSE]
    /\ UNCHANGED <<clock, asked>>

Succeeds(q) ==
    /\ Answered(q)
    /\ RecordSuccess(q, place[q])
    /\ Stop(q, "ok")

EndpointFails(q) ==
    /\ Answered(q)
    /\ RecordFailure(q, place[q])
    /\ MoveOn(q)

(* The request's own fault: no strike; viem throws or tries the next.        *)
RequestFails(q) ==
    /\ Answered(q)
    /\ Stop(q, "error") \/ MoveOn(q)
    /\ UNCHANGED <<consecutiveFailures, cooldownUntil, countedFailures>>

Passes ==
    /\ clock < MaxClock
    /\ clock' = clock + 1
    /\ UNCHANGED <<consecutiveFailures, cooldownUntil, requestVars>>

FailoverStep(q) == Begin(q) \/ PassOver(q) \/ Ask(q) \/ Succeeds(q) \/ EndpointFails(q) \/ RequestFails(q)

FailoverNext == Passes \/ \E q \in RpcRequests : FailoverStep(q)

FailoverSpec == FailoverInit /\ [][FailoverNext]_failoverVars

-----------------------------------------------------------------------------
(* A request is never refused by cooldowns alone: it fails only after it has
   really asked an endpoint, also when all of them are cooling down or start
   to while it walks the chain.                                              *)
NeverRefusedUnasked == \A q \in RpcRequests : verdict[q] = "error" => asked[q] # {}

(* An endpoint's streak is made of different requests: one request that fails
   on every walk of the chain is one strike, so retries alone do not put an
   endpoint to rest for the maximal time.                                    *)
OneStrikePerRequest ==
    \A e \in Urls :
        consecutiveFailures[e] <= Cardinality({q \in RpcRequests : e \in countedFailures[q]})

(* An endpoint rests only on a streak of failures that no success ended,
   whatever calls were in flight when the success arrived.                   *)
CoolingHasReason ==
    \A e \in Urls : (cooldownUntil[e] # 0) = (consecutiveFailures[e] >= FailureThreshold)

(* Cooldowns are earned by failures of several requests, ended by a success,
   and never the reason a request fails (rpcFailover.ts).                    *)
CooldownsAreEarned == NeverRefusedUnasked /\ OneStrikePerRequest /\ CoolingHasReason
=============================================================================
