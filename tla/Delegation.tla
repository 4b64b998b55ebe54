------------------------------ MODULE Delegation ------------------------------
(* A hosted agent that hires others under its institution's policy           *)
(* (packages/hosted/src: host.ts, delegation.ts, allowance.ts; hire in       *)
(* packages/mcp/src/hire.ts).  Hires run one at a time through a queue; the  *)
(* allowance reads the registry's counter, then drops the jobs the chain     *)
(* shows settled from its reservation; releases are the keepers' and come    *)
(* when they come.  A hire's own job carries the hire's name.                *)
EXTENDS Integers, Sequences, FiniteSets, Sums

CONSTANTS
    Hires,                \* delegations asked for, each with a job of its own name
    HireBudgets,          \* budgets asked for
    DailyLimit,           \* the policy's ceiling; 0 is no policy
    MaxPerJob,            \* delegation.maxPerJob
    MaxMidnights,         \* bound on days that end
    ReleaseDuringView     \* whether a release may fall between the two reads of a view

ASSUME DelegationAssumption ==
    /\ HireBudgets \subseteq Nat /\ {DailyLimit, MaxPerJob, MaxMidnights} \subseteq Nat
    /\ ReleaseDuringView \in BOOLEAN /\ IsFiniteSet(Hires)

VARIABLES
    hire,        \* the hires: stage, job and budget
    turns,       \* the queue of serially(), its head at work
    counted,     \* spentToday as the head's view read it
    inFlightJobs,    \* the reservation: jobs the allowance was told of
    unheard,     \* jobs funded by a transaction whose answer never came
    owned,       \* the wallet's jobs on chain: status and budget
    spentToday,  \* the registry's counter
    midnights

delegationVars == <<hire, turns, counted, inFlightJobs, unheard, owned, spentToday, midnights>>
escrowSide == <<owned, spentToday, midnights>>

DelegationInit ==
    /\ hire = [h \in Hires |-> [stage |-> "none", job |-> h, budget |-> 0]]
    /\ turns = <<>>
    /\ counted = 0 /\ inFlightJobs = {} /\ unheard = {}
    /\ owned = [h \in Hires |-> [status |-> "none", budget |-> 0]]
    /\ spentToday = 0 /\ midnights = 0

InEscrowNow == {j \in Hires : owned[j].status \in {"funded", "submitted"}}
Budgets(js) == Total([j \in Hires |-> IF j \in js THEN owned[j].budget ELSE 0])

-----------------------------------------------------------------------------
(* The tool call: a new job, or an Open one to carry on with (hire's jobId). *)
AskToHire(h, b, j) ==
    /\ hire[h].stage = "none"
    /\ j = h \/ hire[j].stage = "refused"
    /\ hire' = [hire EXCEPT ![h] = [stage |-> "queued", job |-> j, budget |-> b]]
    /\ turns' = Append(turns, h)
    /\ UNCHANGED <<counted, inFlightJobs, unheard, escrowSide>>

AtWork(h, stage) == turns # <<>> /\ Head(turns) = h /\ hire[h].stage = stage
GoesOn(h, stage) == hire' = [hire EXCEPT ![h].stage = stage] /\ UNCHANGED turns
Ends(h, how) == hire' = [hire EXCEPT ![h].stage = how] /\ turns' = Tail(turns)

Resumes(h) == hire[h].job # h
HireBegins(h) ==
    /\ AtWork(h, "queued")
    /\ IF Resumes(h) /\ owned[hire[h].job].status # "open"
       THEN Ends(h, "refused")
       ELSE GoesOn(h, "admitting")
    /\ UNCHANGED <<counted, inFlightJobs, unheard, escrowSide>>

(* view: the policy and the counter ...                                      *)
ViewReadsCounter(h) ==
    /\ AtWork(h, "admitting")
    /\ GoesOn(h, "settling")
    /\ counted' = spentToday
    /\ UNCHANGED <<inFlightJobs, unheard, escrowSide>>

(* ... then the reservation, from which settled jobs are dropped.            *)
(* Faulty: a job handed in is taken for settled.                             *)
ReservedUntilSubmit == {j \in inFlightJobs : owned[j].status = "funded"}
Reserved == {j \in inFlightJobs : owned[j].status # "closed"}
Available(reserved) == DailyLimit - counted - Budgets(reserved)
ViewDecides(h) ==
    /\ AtWork(h, "settling")
    /\ inFlightJobs' = Reserved
    /\ IF hire[h].budget > MaxPerJob \/ hire[h].budget > Available(Reserved)
       THEN Ends(h, "refused")
       ELSE GoesOn(h, IF Resumes(h) THEN "budgeting" ELSE "creating")
    /\ UNCHANGED <<counted, unheard, escrowSide>>

(* A transaction lands and says so, lands unheard, or does not land; in the
   last two cases the hire comes back refused.                               *)
Sends(h, landed, next) ==
    \/ owned' = landed /\ GoesOn(h, next)
    \/ owned' \in {owned, landed} /\ Ends(h, "refused")
CreateJob(h) ==
    /\ AtWork(h, "creating")
    /\ Sends(h, [owned EXCEPT ![h].status = "open"], "budgeting")
    /\ UNCHANGED <<counted, inFlightJobs, unheard, spentToday, midnights>>
SetBudget(h) ==
    /\ AtWork(h, "budgeting")
    /\ Sends(h, [owned EXCEPT ![hire[h].job].budget = hire[h].budget], "funding")
    /\ UNCHANGED <<counted, inFlightJobs, unheard, spentToday, midnights>>

(* fund, and onFunded once its answer is there.                              *)
Fund(h) ==
    LET j == hire[h].job IN
    /\ AtWork(h, "funding")
    /\ Sends(h, [owned EXCEPT ![j].status = "funded"], "dispatching")
    /\ inFlightJobs' = IF hire'[h].stage = "dispatching" THEN inFlightJobs \cup {j} ELSE inFlightJobs
    /\ unheard' = IF owned' # owned /\ hire'[h].stage = "refused" THEN unheard \cup {j} ELSE unheard
    /\ UNCHANGED <<counted, spentToday, midnights>>

(* A2A answers what it answers: the escrow is on the job either way.         *)
DispatchEnds(h) ==
    /\ AtWork(h, "dispatching")
    /\ Ends(h, "hired")
    /\ UNCHANGED <<counted, inFlightJobs, unheard, escrowSide>>

-----------------------------------------------------------------------------
(* The chain: the agent submits, a release counts on its day, a refund does
   not count at all.                                                         *)
MayMove == ReleaseDuringView \/ \A h \in Hires : ~AtWork(h, "settling")
AgentSubmits(j) ==
    /\ owned[j].status = "funded"
    /\ owned' = [owned EXCEPT ![j].status = "submitted"]
    /\ UNCHANGED <<hire, turns, counted, inFlightJobs, unheard, spentToday, midnights>>
Released(j) ==
    /\ MayMove
    /\ owned[j].status = "submitted"
    /\ owned' = [owned EXCEPT ![j].status = "closed"]
    /\ spentToday' = spentToday + owned[j].budget
    /\ UNCHANGED <<hire, turns, counted, inFlightJobs, unheard, midnights>>
Refunded(j) ==
    /\ j \in InEscrowNow
    /\ owned' = [owned EXCEPT ![j].status = "closed"]
    /\ UNCHANGED <<hire, turns, counted, inFlightJobs, unheard, spentToday, midnights>>
DayEnds ==
    /\ midnights < MaxMidnights
    /\ midnights' = midnights + 1
    /\ spentToday' = 0
    /\ UNCHANGED <<hire, turns, counted, inFlightJobs, unheard, owned>>

HireStep ==
    \E h \in Hires :
        \/ HireBegins(h) \/ ViewReadsCounter(h) \/ ViewDecides(h)
        \/ CreateJob(h) \/ SetBudget(h) \/ Fund(h) \/ DispatchEnds(h)
DelegationNext ==
    \/ \E h, j \in Hires, b \in HireBudgets : AskToHire(h, b, j)
    \/ HireStep
    \/ \E j \in Hires : AgentSubmits(j) \/ Released(j) \/ Refunded(j)
    \/ DayEnds

DelegationSpec == DelegationInit /\ [][DelegationNext]_delegationVars

-----------------------------------------------------------------------------
(* "refuses to fund a job that would put the day past the ceiling"
   (docs/decisions/delegation-allowance.md:31): what the wallet has in escrow
   and what was released today stay within the ceiling together, unless a
   transaction the host never heard of put a job there.                      *)
FundedWithinCeiling ==
    unheard = {} => spentToday + Budgets(InEscrowNow) <= DailyLimit

(* Every job in escrow the host heard of is reserved until the chain shows it
   settled, through submissions, refunds, releases and views.                *)
EscrowIsReserved == InEscrowNow \ unheard \subseteq inFlightJobs

(* The allowance holds because what is in escrow stays reserved
   (allowance.ts).                                                           *)
AllowanceHolds == FundedWithinCeiling /\ EscrowIsReserved

(* The queue moves on whatever became of the hire before: every delegation
   asked for comes to an end.                                                *)
EveryHireEnds == \A h \in Hires : hire[h].stage = "queued" ~> hire[h].stage \in {"refused", "hired"}
=============================================================================
