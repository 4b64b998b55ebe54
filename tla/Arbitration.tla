---------------------------- MODULE Arbitration ----------------------------
(***************************************************************************)
(* Bonded disputes: contracts/src/Arbitration.sol.  A dispute holds its    *)
(* bond and the arbiter set of the moment it was opened; arbiters vote one *)
(* resolution each; a threshold of equal votes decides, and a dispute no   *)
(* vote decided in time lapses in the provider's favour.                   *)
(*                                                                         *)
(* vote calls back into KeeperEvaluator and from there into the kernel, so *)
(* this module extends theirs and an action spans all three contracts.     *)
(***************************************************************************)
EXTENDS KeeperEvaluator

CONSTANTS
    ArbiterSets,     \* [members, threshold] the owner may install
    BondParameters,  \* [bps, min] the owner may set
    MaxVersions      \* bound: arbiter sets ever installed

(* A provider share is at least 1 and at most the whole.                    *)
Resolutions ==
    {<<"Complete", bps>> : bps \in (Splits \cup {BPS}) \cap 1 .. BPS} \cup {<<"Reject", 0>>}

ASSUME ArbitrationAssumption ==
    /\ \A s \in ArbiterSets : /\ s.members \subseteq Accounts \ {KE} /\ IsFiniteSet(s.members)
                              /\ s.threshold \in 1 .. Cardinality(s.members)
    /\ \A p \in BondParameters : p.bps \in 0 .. BPS /\ p.min \in Nat
    /\ MaxVersions \in Nat

VARIABLES
    arbiterSets,                  \* _arbiters and _threshold; the version is an index
    bondParameters,
    disputes,                     \* _disputes of this contract
    approvals,                    \* of a job: the <<arbiter, resolution>> votes cast
    bondWithdrawable, bondBalance \* its ledger, and its own token balance

arbitrationVars == <<arbiterSets, bondParameters, disputes, approvals, bondWithdrawable, bondBalance>>

NoDispute ==
    [disputer |-> NoAccount, bond |-> 0, disputedAt |-> 0, resolveBy |-> 0, setVersion |-> 0,
     voted |-> {}, outcome |-> "None", providerBps |-> 0, bondSettled |-> FALSE]

ArbitrationInit ==
    /\ arbiterSets = <<>>
    /\ bondParameters \in BondParameters
    /\ disputes = [j \in Jobs |-> NoDispute]
    /\ approvals = [j \in Jobs |-> {}]
    /\ bondWithdrawable = [a \in Accounts |-> 0]
    /\ bondBalance = 0

BondFor(budget) ==
    LET proportional == Portion(budget, bondParameters.bps)
    IN  IF proportional > bondParameters.min THEN proportional ELSE bondParameters.min

Opened(j) == disputes[j].disputedAt # 0

(* Faulty: the arbiters of today instead of the dispute's.                  *)
SetOfToday(j) == arbiterSets[Len(arbiterSets)]

SetOf(j) == arbiterSets[disputes[j].setVersion]

(* Who is owed the bond: the disputer, unless the panel decided fully for
   the provider's side.                                                     *)
BondPayee(d, job) ==
    IF d.outcome # "Complete" \/ d.providerBps # BPS THEN d.disputer
    ELSE IF job.payee # NoAccount THEN job.payee
    ELSE IF job.provider = NoAccount THEN d.disputer ELSE job.provider

-----------------------------------------------------------------------------

SetArbiters(s) ==
    /\ Len(arbiterSets) < MaxVersions
    /\ arbiterSets' = Append(arbiterSets, s)
    /\ UNCHANGED <<bondParameters, disputes, approvals, bondWithdrawable, bondBalance>>

SetBondParameters(p) ==
    /\ bondParameters' = p
    /\ UNCHANGED <<arbiterSets, disputes, approvals, bondWithdrawable, bondBalance>>

(* open(), called by dispute(): the bond is pulled from the disputer.       *)
Open(j, disputer, budget, resolveBy) ==
    /\ arbiterSets # <<>>
    /\ ~Opened(j)
    /\ disputes' = [disputes EXCEPT ![j] =
                      [NoDispute EXCEPT !.disputer = disputer, !.bond = BondFor(budget),
                                        !.disputedAt = now, !.resolveBy = resolveBy,
                                        !.setVersion = Len(arbiterSets)]]
    /\ bondBalance' = bondBalance + BondFor(budget)
    /\ UNCHANGED <<arbiterSets, bondParameters, approvals, bondWithdrawable>>

DisputeJob(j, caller) ==
    /\ RaiseDispute(j, caller)
    /\ Open(j, caller, jobs[j].budget, ResolveBy(j))


(* The ballot a valid vote adds, and whether it carries the resolution.     *)
MayVote(j, arbiter, resolution) ==
    /\ Opened(j)
    /\ disputes[j].outcome = "None"
    /\ InEscrow(j)
    /\ resolution \in Resolutions
    /\ resolution[1] = "Complete" /\ resolution[2] # BPS => jobs[j].hookResolvesPayout
    /\ arbiter \in SetOf(j).members
    /\ arbiter \notin disputes[j].voted

ApprovalsAfter(j, arbiter, resolution) == approvals[j] \cup {<<arbiter, resolution>>}

Backers(ballots, resolution) == {b \in ballots : b[2] = resolution}

Carried(j, arbiter, resolution) ==
    Cardinality(Backers(ApprovalsAfter(j, arbiter, resolution), resolution)) >= SetOf(j).threshold

Voted(d, arbiter) == [d EXCEPT !.voted = @ \cup {arbiter}]

Decided(d, outcome, bps) == [d EXCEPT !.outcome = outcome, !.providerBps = bps]

VotePending(j, arbiter, resolution) ==
    /\ MayVote(j, arbiter, resolution)
    /\ ~Carried(j, arbiter, resolution)
    /\ disputes' = [disputes EXCEPT ![j] = Voted(@, arbiter)]
    /\ approvals' = [approvals EXCEPT ![j] = ApprovalsAfter(j, arbiter, resolution)]
    /\ UNCHANGED <<vars, keeperVars, arbiterSets, bondParameters, bondWithdrawable, bondBalance>>

VoteCompletes(j, arbiter, resolution) ==
    /\ MayVote(j, arbiter, resolution)
    /\ Carried(j, arbiter, resolution)
    /\ resolution[1] = "Complete"
    /\ disputes' = [disputes EXCEPT ![j] = Decided(Voted(@, arbiter), "Complete", resolution[2])]
    /\ approvals' = [approvals EXCEPT ![j] = ApprovalsAfter(j, arbiter, resolution)]
    /\ UNCHANGED <<vars, keeperVars, arbiterSets, bondParameters, bondWithdrawable, bondBalance>>

(* A rejection is applied to the job in the same transaction, or reported as
   not applied; the bond goes back to the disputer either way.              *)
VoteRejects(j, arbiter, resolution) ==
    /\ MayVote(j, arbiter, resolution)
    /\ Carried(j, arbiter, resolution)
    /\ resolution[1] = "Reject"
    /\ IF RejectionApplies(j) THEN ApplyRejection(j) ELSE UNCHANGED <<vars, keeperVars>>
    /\ ~disputes[j].bondSettled
    /\ disputes' = [disputes EXCEPT ![j] =
                      [Decided(Voted(@, arbiter), "Reject", 0) EXCEPT !.bondSettled = TRUE]]
    /\ approvals' = [approvals EXCEPT ![j] = ApprovalsAfter(j, arbiter, resolution)]
    /\ bondWithdrawable' = Credit(bondWithdrawable, disputes[j].disputer, disputes[j].bond)
    /\ UNCHANGED <<arbiterSets, bondParameters, bondBalance>>

Vote(j, arbiter, resolution) ==
    \/ VotePending(j, arbiter, resolution)
    \/ VoteCompletes(j, arbiter, resolution)
    \/ VoteRejects(j, arbiter, resolution)

Lapse(j) ==
    /\ Opened(j)
    /\ disputes[j].outcome = "None"
    /\ now >= disputes[j].resolveBy
    /\ disputes' = [disputes EXCEPT ![j] = Decided(@, "Lapsed", BPS)]
    /\ UNCHANGED <<vars, keeperVars, arbiterSets, bondParameters, approvals,
                   bondWithdrawable, bondBalance>>

(* Faulty: a settled bond can be settled again.                             *)
SettleBondAgain(j, payee) ==
    /\ disputes' = [disputes EXCEPT ![j].bondSettled = TRUE]
    /\ bondWithdrawable' = Credit(bondWithdrawable, payee, disputes[j].bond)
    /\ UNCHANGED <<arbiterSets, bondParameters, approvals, bondBalance>>

SettleBondOf(j, payee) ==
    /\ ~disputes[j].bondSettled
    /\ disputes' = [disputes EXCEPT ![j].bondSettled = TRUE]
    /\ bondWithdrawable' = Credit(bondWithdrawable, payee, disputes[j].bond)
    /\ UNCHANGED <<arbiterSets, bondParameters, approvals, bondBalance>>

(* Faulty: a lapsed dispute's bond is never due.                            *)
BondIsDueOnVote(j, job) ==
    /\ Opened(j)
    /\ \/ job.status = "Expired"
       \/ disputes[j].outcome = "Complete" /\ job.status = "Completed"

BondIsDue(j, job) ==
    /\ Opened(j)
    /\ \/ job.status = "Expired"
       \/ disputes[j].outcome \in {"Complete", "Lapsed"} /\ job.status = "Completed"

SettleBond(j) ==
    /\ BondIsDue(j, jobs[j])
    /\ SettleBondOf(j, BondPayee(disputes[j], jobs[j]))
    /\ UNCHANGED <<vars, keeperVars>>

(* finalizeDecided: complete as decided, settle the bond as the completed
   job now reads, forward the fee; all of it or none.                       *)
FinalizeDecided(j, caller, state, payee, bps) ==
    /\ CompleteDecided(j, caller, disputes[j].outcome, disputes[j].providerBps, state, payee, bps)
    /\ BondIsDue(j, jobs'[j])
    /\ SettleBondOf(j, BondPayee(disputes[j], jobs'[j]))

(* Faulty: the caller's own balance is not looked at.                       *)
BondWithdrawUnchecked(caller, leaves, amount) ==
    /\ bondWithdrawable' = [bondWithdrawable EXCEPT ![caller] = @ - amount]
    /\ bondBalance' = IF leaves THEN bondBalance - amount ELSE bondBalance
    /\ UNCHANGED <<vars, keeperVars, arbiterSets, bondParameters, disputes, approvals>>

BondWithdrawTo(caller, leaves, amount) ==
    /\ amount <= bondWithdrawable[caller]
    /\ bondWithdrawable' = [bondWithdrawable EXCEPT ![caller] = @ - amount]
    /\ bondBalance' = IF leaves THEN bondBalance - amount ELSE bondBalance
    /\ UNCHANGED <<vars, keeperVars, arbiterSets, bondParameters, disputes, approvals>>
=============================================================================
