------------------------------- MODULE Alerting -------------------------------
(* The alerting loop of the keeper and the indexer (packages/observability/  *)
(* src/alerts.ts): every tick evaluates the rules against a snapshot and then*)
(* delivers what they raised, in order, until the webhook fails.  The timer  *)
(* does not wait for the last tick, so two may overlap.                      *)
EXTENDS Integers, Sequences

CONSTANTS
    AlertRules,
    AlertTicks,  \* calls of evaluate() that may be under way at once
    HoldFor,     \* forSeconds
    AlertMaxTime, MaxTurns, MaxOutages

ASSUME AlertAssumption == {HoldFor, AlertMaxTime, MaxTurns, MaxOutages} \subseteq Nat

VARIABLES
    alertTime,
    breached,                  \* rules whose condition the snapshot shows
    alertTurns, alertOutages,  \* what the bounds count
    ruleState,                 \* rule -> firing, since when, its outbox, the alerts it raised
    alerting,                  \* the reentrancy lock
    alertTick,                 \* tick -> the rules it has still to flush, and the alert it sends
    opsHeard                   \* rule -> what arrived at the webhook

alertVars == <<alertTime, breached, alertTurns, alertOutages, ruleState, alerting, alertTick, opsHeard>>

Never == -1
NoAlert == [rule |-> "none"]
NoTick == [at |-> "idle", left |-> {}, sends |-> NoAlert]

AlertInit ==
    /\ alertTime = 0 /\ breached = {} /\ alertTurns = 0 /\ alertOutages = 0
    /\ ruleState = [r \in AlertRules |-> [firing |-> FALSE, since |-> Never, outbox |-> <<>>, raised |-> 0]]
    /\ alerting = FALSE
    /\ alertTick = [e \in AlertTicks |-> NoTick]
    /\ opsHeard = [r \in AlertRules |-> <<>>]

(* The world the snapshots show. *)
AlertClock ==
    /\ alertTime < AlertMaxTime /\ alertTime' = alertTime + 1
    /\ UNCHANGED <<breached, alertTurns, alertOutages, ruleState, alerting, alertTick, opsHeard>>

ConditionTurns(r) ==
    /\ alertTurns < MaxTurns /\ alertTurns' = alertTurns + 1
    /\ breached' = IF r \in breached THEN breached \ {r} ELSE breached \cup {r}
    /\ UNCHANGED <<alertTime, alertOutages, ruleState, alerting, alertTick, opsHeard>>

-----------------------------------------------------------------------------
Raise(st, kind, since) ==
    [st EXCEPT !.outbox = Append(@, [n |-> st.raised + 1, kind |-> kind, held |-> alertTime - since]),
             !.raised = @ + 1]

Cleared(st) ==
    [(IF st.firing THEN Raise(st, "resolved", st.since) ELSE st) EXCEPT !.firing = FALSE, !.since = Never]

Breached(st) ==
    LET since == IF st.since = Never THEN alertTime ELSE st.since
        seen  == [st EXCEPT !.since = since]
    IN  IF ~st.firing /\ alertTime - since >= HoldFor
        THEN [Raise(seen, "firing", since) EXCEPT !.firing = TRUE]
        ELSE seen

(* Faulty: a tick does not look whether another is still delivering. *)
MayRunAnyhow(e) == TRUE
MayRun(e) == ~alerting

(* evaluate(): one pass over the rules, those that throw left as they were.  *)
Evaluate(e, throws) ==
    /\ alertTick[e].at = "idle"
    /\ IF MayRun(e)
       THEN /\ ruleState' = [r \in AlertRules |-> IF r \in throws THEN ruleState[r]
                                             ELSE IF r \in breached THEN Breached(ruleState[r])
                                             ELSE Cleared(ruleState[r])]
            /\ alerting' = TRUE
            /\ alertTick' = [alertTick EXCEPT ![e] = [at |-> "flush", left |-> AlertRules, sends |-> NoAlert]]
       ELSE UNCHANGED <<ruleState, alerting, alertTick>>
    /\ alertOutages + (IF throws = {} THEN 0 ELSE 1) <= MaxOutages
    /\ alertOutages' = alertOutages + (IF throws = {} THEN 0 ELSE 1)
    /\ UNCHANGED <<alertTime, breached, alertTurns, opsHeard>>

(* flush(): the head of the rule's outbox is sent, and taken off when heard. *)
Notify(e, r) ==
    /\ alertTick[e].at = "flush" /\ r \in alertTick[e].left /\ ruleState[r].outbox # <<>>
    /\ alertTick' = [alertTick EXCEPT ![e] = [@ EXCEPT !.at = "sending",
                                              !.sends = [rule |-> r, alert |-> Head(ruleState[r].outbox)]]]
    /\ UNCHANGED <<alertTime, breached, alertTurns, alertOutages, ruleState, alerting, opsHeard>>

RuleFlushed(e, r) ==
    /\ alertTick[e].at = "flush" /\ r \in alertTick[e].left /\ ruleState[r].outbox = <<>>
    /\ alertTick' = [alertTick EXCEPT ![e].left = @ \ {r}]
    /\ UNCHANGED <<alertTime, breached, alertTurns, alertOutages, ruleState, alerting, opsHeard>>

Delivered(e) ==
    /\ alertTick[e].at = "sending"
    /\ LET r == alertTick[e].sends.rule
       IN  /\ opsHeard' = [opsHeard EXCEPT ![r] = Append(@, alertTick[e].sends.alert)]
           /\ ruleState' = [ruleState EXCEPT ![r].outbox = IF @ = <<>> THEN @ ELSE Tail(@)]
    /\ alertTick' = [alertTick EXCEPT ![e].at = "flush"]
    /\ UNCHANGED <<alertTime, breached, alertTurns, alertOutages, alerting>>

(* The webhook answers with an error or too late; it may have heard.         *)
DeliveryFails(e) ==
    /\ alertTick[e].at = "sending" /\ alertOutages < MaxOutages /\ alertOutages' = alertOutages + 1
    /\ LET r == alertTick[e].sends.rule
       IN  /\ \/ opsHeard' = [opsHeard EXCEPT ![r] = Append(@, alertTick[e].sends.alert)]
              \/ UNCHANGED opsHeard
           /\ alertTick' = [alertTick EXCEPT ![e].at = "flush", ![e].left = @ \ {r}]
    /\ UNCHANGED <<alertTime, breached, alertTurns, ruleState, alerting>>

TickIsOver(e) ==
    /\ alertTick[e].at = "flush" /\ alertTick[e].left = {}
    /\ alertTick' = [alertTick EXCEPT ![e] = NoTick]
    /\ alerting' = FALSE
    /\ UNCHANGED <<alertTime, breached, alertTurns, alertOutages, ruleState, opsHeard>>

AlertTickStep(e) ==
    \/ Evaluate(e, {}) \/ Delivered(e) \/ TickIsOver(e)
    \/ \E r \in AlertRules : Notify(e, r) \/ RuleFlushed(e, r)

AlertNext ==
    \/ AlertClock
    \/ \E r \in AlertRules : ConditionTurns(r)
    \/ \E e \in AlertTicks :
          \/ AlertTickStep(e) \/ DeliveryFails(e)
          \/ \E throws \in SUBSET AlertRules \ {{}} : Evaluate(e, throws)

AlertSpec == AlertInit /\ [][AlertNext]_alertVars

-----------------------------------------------------------------------------
(* What the operator hears of a rule is its story: firing and resolved in
   turns, in the order they were raised, none left out, repeated only when the
   webhook failed after it had heard, no alert before its condition was seen
   to hold for forSeconds; what was not heard is still queued.               *)
AlertsTellTheStory ==
    \A r \in AlertRules :
        LET story == opsHeard[r] \o ruleState[r].outbox
        IN  /\ \A i \in DOMAIN story :
                  /\ story[i].kind = (IF story[i].n % 2 = 1 THEN "firing" ELSE "resolved")
                  /\ story[i].held >= HoldFor
                  /\ story[i].n - (IF i = 1 THEN 0 ELSE story[i - 1].n) \in IF i = 1 THEN {1} ELSE {0, 1}
            /\ ruleState[r].raised = (IF story = <<>> THEN 0 ELSE story[Len(story)].n)
            /\ ruleState[r].firing <=> ruleState[r].raised % 2 = 1

(* A rule that stays breached is heard firing, and one that stays clear is not
   left firing, also past an outage of the webhook.                          *)
EveryAlertArrives ==
    \A r \in AlertRules :
        (alertTurns = MaxTurns) ~>
            /\ ruleState[r].outbox = <<>>
            /\ (ruleState[r].firing <=> r \in breached) \/ ruleState[r].since + HoldFor > AlertMaxTime
=============================================================================
