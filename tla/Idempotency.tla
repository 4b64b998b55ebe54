----------------------------- MODULE Idempotency -----------------------------
(* Idempotent requests (packages/hardening/src/idempotency.ts over the table *)
(* of packages/data/src/repositories/idempotencyKeys.ts): requests carrying  *)
(* one scope and key, sent to several processes that share one store.  Each  *)
(* process keeps a map of the run in flight; a step is what happens between  *)
(* two awaits.                                                               *)
EXTENDS Integers, FiniteSets

CONSTANTS
    Calls,            \* the requests carrying the key
    Processes,        \* the service's processes
    Hashes,           \* fingerprints of method, path, body and actor
    ClaimAttempts,    \* CLAIM_ATTEMPTS
    MaxLifetimes,     \* bound: how often a stored record expires
    NoCall, NoRecord

ASSUME IdempotencyAssumption ==
    /\ NoCall \notin Calls
    /\ NoRecord \notin [by : Calls, hash : Hashes, live : BOOLEAN]
    /\ ClaimAttempts \in Nat \ {0}
    /\ MaxLifetimes \in Nat

VARIABLES
    record,       \* the row of the key: whose answer, under which hash, still live or not
    lifetime,     \* how many records of the key have expired (history)
    inFlight,     \* per process: the run other requests of the key wait for
    progress,     \* where each request is
    home, hash,   \* the process it reached and its fingerprint
    awaited,      \* the run it waits for
    tries,        \* claims it lost to a record that then expired
    outcome       \* what it was answered, from whose handler run, in which lifetime

idempotencyVars == <<record, lifetime, inFlight, progress, home, hash, awaited, tries, outcome>>

Active == {"reading", "handling", "claiming", "rereading"}
Ended == {"answered", "threw", "lost"}
NoOutcome == [source |-> "none", by |-> NoCall, life |-> 0]

IdempotencyInit ==
    /\ record = NoRecord
    /\ lifetime = 0
    /\ inFlight = [p \in Processes |-> NoCall]
    /\ progress = [r \in Calls |-> "new"]
    /\ home \in [Calls -> Processes]
    /\ hash \in [Calls -> Hashes]
    /\ awaited = [r \in Calls |-> NoCall]
    /\ tries = [r \in Calls |-> 0]
    /\ outcome = [r \in Calls |-> NoOutcome]

-----------------------------------------------------------------------------
Live == record # NoRecord /\ record.live

At(r, where) == progress' = [progress EXCEPT ![r] = where]


(* The run settles and its entry leaves the map, in the finally block.       *)
Finish(r, how) ==
    /\ At(r, how)
    /\ inFlight' = [inFlight EXCEPT ![home[r]] = NoCall]

Told(r, source, by) ==
    /\ outcome' = [outcome EXCEPT ![r] = [source |-> source, by |-> by, life |-> lifetime]]
    /\ Finish(r, "answered")


SameRequest(r) == record.hash = hash[r]

OutcomeFromStored(r) ==
    Told(r, IF SameRequest(r) THEN "replay" ELSE "conflict",
            IF SameRequest(r) THEN record.by ELSE NoCall)

(* execute: wait for the run in flight, or become it.                        *)
Execute(r) ==
    IF inFlight[home[r]] # NoCall
    THEN /\ awaited' = [awaited EXCEPT ![r] = inFlight[home[r]]]
         /\ At(r, "waiting")
         /\ UNCHANGED inFlight
    ELSE /\ inFlight' = [inFlight EXCEPT ![home[r]] = r]
         /\ At(r, "reading")
         /\ UNCHANGED awaited

Arrive(r) ==
    /\ progress[r] = "new"
    /\ Execute(r)
    /\ UNCHANGED <<record, lifetime, home, hash, tries, outcome>>


(* The awaited run settled, its error swallowed: execute from the start.     *)
Wake(r) ==
    /\ progress[r] = "waiting"
    /\ progress[awaited[r]] \in Ended
    /\ Execute(r)
    /\ UNCHANGED <<record, lifetime, home, hash, tries, outcome>>

Read(r) ==
    /\ progress[r] = "reading"
    /\ IF Live THEN OutcomeFromStored(r) ELSE At(r, "handling") /\ UNCHANGED <<inFlight, outcome>>
    /\ UNCHANGED <<record, lifetime, home, hash, awaited, tries>>

(* The handler answers.  A transient rejection, or a status shouldStore
   refuses, goes to the caller unstored.                                     *)
Handle(r) ==
    /\ progress[r] = "handling"
    /\ \/ Told(r, "unstored", r)
       \/ At(r, "claiming") /\ UNCHANGED <<inFlight, outcome>>
    /\ UNCHANGED <<record, lifetime, home, hash, awaited, tries>>

(* Faulty: the insert overwrites a live row.                                 *)
ClaimOverwriting(r) ==
    /\ progress[r] = "claiming"
    /\ record' = [by |-> r, hash |-> hash[r], live |-> TRUE]
    /\ Told(r, "handler", r)
    /\ UNCHANGED <<lifetime, home, hash, awaited, tries>>

(* The upsert: takes the key unless a live row holds it.                     *)
Claim(r) ==
    /\ progress[r] = "claiming"
    /\ IF Live
       THEN At(r, "rereading") /\ UNCHANGED <<record, inFlight, outcome>>
       ELSE /\ record' = [by |-> r, hash |-> hash[r], live |-> TRUE]
            /\ Told(r, "handler", r)
    /\ UNCHANGED <<lifetime, home, hash, awaited, tries>>

(* The loser's second query; a row that expired in between is claimed again,
   up to ClaimAttempts times.                                                *)
Reread(r) ==
    /\ progress[r] = "rereading"
    /\ IF Live
       THEN OutcomeFromStored(r) /\ UNCHANGED tries
       ELSE /\ tries' = [tries EXCEPT ![r] = @ + 1]
            /\ IF tries[r] + 1 < ClaimAttempts
               THEN At(r, "claiming") /\ UNCHANGED inFlight
               ELSE Finish(r, "threw")
            /\ UNCHANGED outcome
    /\ UNCHANGED <<record, lifetime, home, hash, awaited>>

(* The store or the handler throws.                                          *)
Throw(r) ==
    /\ progress[r] \in Active
    /\ Finish(r, "threw")
    /\ UNCHANGED <<record, lifetime, home, hash, awaited, tries, outcome>>

(* The row reaches its expires_at.                                           *)
Expire ==
    /\ Live
    /\ lifetime < MaxLifetimes
    /\ record' = [record EXCEPT !.live = FALSE]
    /\ lifetime' = lifetime + 1
    /\ UNCHANGED <<inFlight, progress, home, hash, awaited, tries, outcome>>

SweepExpired ==
    /\ record # NoRecord
    /\ ~record.live
    /\ record' = NoRecord
    /\ UNCHANGED <<lifetime, inFlight, progress, home, hash, awaited, tries, outcome>>

(* A process dies: its callers get nothing and its map is empty again.       *)
ProcessCrash(p) ==
    /\ inFlight[p] # NoCall
    /\ inFlight' = [inFlight EXCEPT ![p] = NoCall]
    /\ progress' = [r \in Calls |->
                      IF home[r] = p /\ progress[r] \in Active \cup {"waiting"} THEN "lost" ELSE progress[r]]
    /\ UNCHANGED <<record, lifetime, home, hash, awaited, tries, outcome>>

CallStep(r) == Wake(r) \/ Read(r) \/ Handle(r) \/ Claim(r) \/ Reread(r)

IdempotencyNext ==
    \/ \E r \in Calls : Arrive(r) \/ CallStep(r) \/ Throw(r)
    \/ \E p \in Processes : ProcessCrash(p)
    \/ Expire \/ SweepExpired

IdempotencySpec == IdempotencyInit /\ [][IdempotencyNext]_idempotencyVars

-----------------------------------------------------------------------------
Kept == {"handler", "replay"}

(* While one record lives, every request that is answered with a stored
   answer gets the same one, from the one handler run that won the key, also
   when both processes ran the handler.                                      *)
AnswersAgree ==
    \A r, s \in Calls :
        (outcome[r].source \in Kept /\ outcome[s].source \in Kept /\ outcome[r].life = outcome[s].life)
            => outcome[r].by = outcome[s].by

(* A replay is the answer to the same request: a key reused for another body
   is refused, also when the reuse raced the first request to the insert.    *)
ReplayIsOfTheSameRequest ==
    \A r \in Calls : outcome[r].source = "replay" => hash[outcome[r].by] = hash[r]

(* Within a process the handler of a key never runs twice at once, and the
   run others wait for is the one that is running.                           *)
OneRunPerProcess ==
    \A r \in Calls : progress[r] \in Active => inFlight[home[r]] = r

(* One key is one answer: idempotency.ts over two processes, their stores'
   races and their restarts.                                                 *)
OneAnswerPerKey == AnswersAgree /\ ReplayIsOfTheSameRequest /\ OneRunPerProcess

(* Every request that arrives is answered, fails or is lost with its process;
   nobody waits for a run that ended.                                        *)
EveryCallEnds == \A r \in Calls : (progress[r] # "new") ~> (progress[r] \in Ended)
=============================================================================
