----------------------------- MODULE ProofLimiter -----------------------------
(* The prover service's semaphore (services/prover/src/concurrency.js): a    *)
(* ceiling on the proofs at work, a bounded waiting room and one deadline per*)
(* request, counted from its arrival.  Timers and promise continuations run  *)
(* in turns of one event loop; an action is what runs between two awaits.    *)
EXTENDS Integers, Sequences, FiniteSets

CONSTANTS
    ProofRequests,    \* the requests that may arrive
    SlotLimit,        \* PROVER_MAX_CONCURRENCY
    QueueLimit        \* PROVER_MAX_QUEUE

ASSUME LimiterAssumption ==
    /\ IsFiniteSet(ProofRequests)
    /\ SlotLimit \in Nat \ {0}
    /\ QueueLimit \in Nat \ {0}

VARIABLES
    active,       \* slots taken, as the limiter counts them
    waiting,      \* the queued tickets, oldest first
    stage,        \* where each request's run() is
    answer        \* what its caller was told

limiterVars == <<active, waiting, stage, answer>>

(* "admitted": the ticket is granted, run() has not resumed yet.  "late": the
   deadline fired in the queue, run() has not resumed yet.  "handed": a slot
   was given to a ticket whose deadline had already fired.                   *)
Stages == {"new", "queued", "admitted", "late", "handed", "working", "done"}
Answers == {"none", "served", "failed", "timeout", "shed"}

LimiterInit ==
    /\ active = 0
    /\ waiting = <<>>
    /\ stage = [r \in ProofRequests |-> "new"]
    /\ answer = [r \in ProofRequests |-> "none"]

-----------------------------------------------------------------------------
PlaceOf(r) == CHOOSE i \in DOMAIN waiting : waiting[i] = r
Splice(s, i) == [k \in 1..Len(s) - 1 |-> IF k < i THEN s[k] ELSE s[k + 1]]

(* The slot of a request that leaves goes to the oldest ticket, if any.      *)
NextStage(st) == IF st = "late" THEN "handed" ELSE "admitted"

(* Faulty: A freed slot is not offered to the queue.                                 *)
FaultyRelease(r) ==
    /\ active' = active - 1
    /\ stage' = [stage EXCEPT ![r] = "done"]
    /\ UNCHANGED waiting

Release(r) ==
    IF waiting = <<>>
    THEN /\ active' = active - 1
         /\ stage' = [stage EXCEPT ![r] = "done"]
         /\ UNCHANGED waiting
    ELSE /\ waiting' = Tail(waiting)
         /\ stage' = [stage EXCEPT ![r] = "done", ![Head(waiting)] = NextStage(stage[Head(waiting)])]
         /\ UNCHANGED active

Answer(r, what) ==
    answer' = IF answer[r] = "none" THEN [answer EXCEPT ![r] = what] ELSE answer

Admit(r) ==
    /\ stage[r] = "new"
    /\ active < SlotLimit
    /\ active' = active + 1
    /\ stage' = [stage EXCEPT ![r] = "admitted"]
    /\ UNCHANGED <<waiting, answer>>

Shed(r) ==
    /\ stage[r] = "new"
    /\ active >= SlotLimit
    /\ Len(waiting) >= QueueLimit
    /\ stage' = [stage EXCEPT ![r] = "done"]
    /\ Answer(r, "shed")
    /\ UNCHANGED <<active, waiting>>


Enqueue(r) ==
    /\ stage[r] = "new"
    /\ active >= SlotLimit
    /\ Len(waiting) < QueueLimit
    /\ waiting' = Append(waiting, r)
    /\ stage' = [stage EXCEPT ![r] = "queued"]
    /\ UNCHANGED <<active, answer>>

(* run() resumes with a slot and starts the work.                            *)
Start(r) ==
    /\ stage[r] = "admitted"
    /\ stage' = [stage EXCEPT ![r] = "working"]
    /\ UNCHANGED <<active, waiting, answer>>


(* The deadline of a queued request fires: run() will resume in its catch.   *)
DeadlineInQueue(r) ==
    /\ stage[r] = "queued"
    /\ stage' = [stage EXCEPT ![r] = "late"]
    /\ UNCHANGED <<active, waiting, answer>>


(* The deadline of a request at work fires: its caller is answered and the
   proof, which nothing can abort, keeps the slot.                           *)
DeadlineAtWork(r) ==
    /\ stage[r] = "working"
    /\ answer[r] = "none"
    /\ Answer(r, "timeout")
    /\ UNCHANGED <<active, waiting, stage>>


(* run() resumes after its deadline: it leaves the queue, or hands back the
   slot it was given in between.                                             *)
Leave(r) ==
    /\ stage[r] \in {"late", "handed"}
    /\ Answer(r, "timeout")
    /\ IF stage[r] = "handed"
       THEN Release(r)
       ELSE /\ waiting' = Splice(waiting, PlaceOf(r))
            /\ stage' = [stage EXCEPT ![r] = "done"]
            /\ UNCHANGED active

(* The proof ends, one way or the other, and frees its slot.                 *)
WorkSettles(r) ==
    /\ stage[r] = "working"
    /\ \E what \in {"served", "failed"} : Answer(r, what)
    /\ Release(r)

LimiterStep(r) ==
    \/ Admit(r) \/ Shed(r) \/ Enqueue(r) \/ Start(r)
    \/ DeadlineInQueue(r) \/ DeadlineAtWork(r) \/ Leave(r) \/ WorkSettles(r)

LimiterNext == \E r \in ProofRequests : LimiterStep(r)

LimiterSpec == LimiterInit /\ [][LimiterNext]_limiterVars

(* Timers fire and continuations run; nothing is assumed of the proofs.      *)
LoopTurn(r) == Start(r) \/ DeadlineInQueue(r) \/ DeadlineAtWork(r) \/ Leave(r)

-----------------------------------------------------------------------------
Holding == {"admitted", "handed", "working"}
HoldersOf(st) == {r \in ProofRequests : st[r] \in Holding}

(* The limiter's variables keep their shape; the waiting room holds each
   queued request once and is never longer than its bound.                   *)
LimiterTypeOK ==
    /\ active \in 0..SlotLimit
    /\ waiting \in Seq(ProofRequests) /\ Len(waiting) <= QueueLimit
    /\ stage \in [ProofRequests -> Stages]
    /\ answer \in [ProofRequests -> Answers]

(* A slot is held by exactly one request: the counter equals the number of
   requests that were given one and have not returned it, whatever deadlines
   and admissions fall in one turn.                                          *)
SlotsHeld == active = Cardinality(HoldersOf(stage))

(* The memory bound of square#236: never more proofs at work than slots, the
   ones whose callers were already answered included.                        *)
ProofsWithinLimit == Cardinality({r \in ProofRequests : stage[r] = "working"}) <= SlotLimit

(* Nobody waits beside a free slot.                                          *)
NoIdleSlot == waiting # <<>> => active = SlotLimit

(* What concurrency.js promises at every turn: the counter is the truth, the
   bound on proofs holds, and no slot is idle while somebody waits.          *)
LimiterSafety == LimiterTypeOK /\ SlotsHeld /\ ProofsWithinLimit /\ NoIdleSlot

(* Every request is answered within its own deadline, also when the proofs
   that hold the slots never end: the bound of square#236's review.          *)
EveryProofAnswered == \A r \in ProofRequests : (stage[r] # "new") ~> (answer[r] # "none")
=============================================================================
