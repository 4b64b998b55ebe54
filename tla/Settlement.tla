----------------------------- MODULE Settlement -----------------------------
(***************************************************************************)
(* The contracts of a stack together: kernel, optimistic evaluator,        *)
(* arbitration, claim market, and the hook (contracts/src/SquareHook.sol)  *)
(* that turns a sale, a compliance verdict and a screening record into the *)
(* payee and the split the kernel pays.  Every action is one transaction   *)
(* as its caller sends it, with all the calls it makes.                    *)
(*                                                                         *)
(* The verdict itself (the proof's bindings, the screening record) answers *)
(* freely here whenever the hook has a module or a registry to ask.        *)
(***************************************************************************)
EXTENDS Arbitration, ClaimMarket

CONSTANTS
    DecidableProofs,   \* the proofs whose pairing verifies
    CheckChoices       \* bound: what the owner may have installed on the hook

ASSUME SettlementAssumption ==
    /\ DecidableProofs \subseteq Proofs
    /\ CheckChoices \subseteq SUBSET {"compliance", "screening"}
    /\ 0 \in Splits    \* a refusal
    /\ \A v, w \in WindowChoices : v.challenge + v.dispute + w.grace \in Horizons

VARIABLE checks        \* the hook's installed compliance module and screening registry

settlementVars == <<vars, keeperVars, arbitrationVars, marketVars, checks>>

SettlementInit ==
    /\ Init /\ KeeperInit /\ ArbitrationInit /\ MarketInit
    /\ checks \in CheckChoices

-----------------------------------------------------------------------------
(* SquareHook's answers.  A resolving hook that is not a SquareHook does not
   implement proofState and pays whom it likes.                             *)

OnMarket(j) == jobs[j].hookResolvesPayout /\ jobs[j].hook \in MarketHooks

ProofState(j) ==
    IF ~OnMarket(j) \/ "compliance" \notin checks THEN "NotGated"
    ELSE IF complianceProofs[j] = NoProof THEN "Missing"
    ELSE IF complianceProofs[j] \in DecidableProofs THEN "Decidable" ELSE "Unverifiable"

(* resolvePayout: the market's payee with the split asked for, or with 0
   where a check refuses.  A gated job without a decidable proof is refused. *)
MayRefuse == checks # {}

MustRefuse(j) == ProofState(j) \in {"Missing", "Unverifiable"}

HookPays(j, asked, payee, bps) ==
    IF OnMarket(j)
    THEN /\ payee = PayeeOf(j)
         /\ \/ bps = asked /\ ~MustRefuse(j)
            \/ bps = 0 /\ MayRefuse
    ELSE ResolvesTo(j, payee, bps)

(* The refund probe: SquareHook always resolves, any other hook may be dead. *)
ProbeAnswers(j) == IF OnMarket(j) THEN {TRUE} ELSE BOOLEAN

SetChecks(new) ==
    /\ new \in CheckChoices
    /\ checks' = new
    /\ UNCHANGED <<vars, keeperVars, arbitrationVars, marketVars>>

SetComplianceModule(on) ==
    SetChecks(IF on THEN checks \cup {"compliance"} ELSE checks \ {"compliance"})

SetScreening(on) ==
    SetChecks(IF on THEN checks \cup {"screening"} ELSE checks \ {"screening"})

-----------------------------------------------------------------------------

OffKernel == <<keeperVars, arbitrationVars, marketVars, checks>>

People == Accounts \ {KE}

(* Calls on the kernel that reach no other contract but the hook.           *)
KernelCalls ==
    /\ \/ OwnerNext
       \/ \E client \in Clients, evaluator \in Evaluators, provider \in Providers \cup {NoAccount},
             expiredAt \in Deadlines, hook \in Hooks \cup {NoHook} :
             \E horizon \in (IF evaluator = KE THEN {KeeperHorizon} ELSE Horizons) :
                CreateJob(client, provider, evaluator, expiredAt, hook, horizon)
       \/ \E amount \in Donations : Donate(amount)
       \/ \E caller \in People, to \in Recipients, amount \in Withdrawals :
             WithdrawTo(caller, to, amount)
       \/ Tick
    /\ UNCHANGED OffKernel

JobCalls(j) ==
    /\ \/ \E caller \in People, provider \in Providers : SetProvider(j, caller, provider)
       \/ \E caller \in People, amount \in Budgets : SetBudget(j, caller, amount)
       \/ \E caller \in People, amount \in Budgets : Fund(j, caller, amount)
       \/ \E caller \in People, proof \in Proofs \cup {NoProof} : SetComplianceProof(j, caller, proof)
       \/ \E caller \in People : Submit(j, caller)
       \/ \E caller \in People, asked, bps \in Splits \cup {0, BPS}, payee \in Payees :
             HookPays(j, asked, payee, bps) /\ Complete(j, caller, payee, bps)
       \/ \E caller \in People : RejectOpen(j, caller)
       \/ \E caller \in People : Reject(j, caller)
       \/ \E answers \in ProbeAnswers(j) : ClaimRefund(j, answers)
    /\ UNCHANGED OffKernel

KeeperOwnerCalls ==
    /\ \/ \E w \in WindowChoices : ConfigureWindows(w.challenge, w.dispute)
       \/ \E w \in WindowChoices : SetFinalizeGrace(w.grace)
       \/ SetArbitration
    /\ UNCHANGED <<arbitrationVars, marketVars, checks>>

Settles(j, asked, action(_, _)) ==
    \E payee \in Payees, bps \in Splits \cup {0, BPS} :
        HookPays(j, asked, payee, bps) /\ action(payee, bps)

FinalizeCall(j) ==
    /\ \E caller \in People : Settles(j, BPS, LAMBDA payee, bps :
          Finalize(j, caller, ProofState(j), payee, bps))
    /\ UNCHANGED <<arbitrationVars, marketVars, checks>>


FinalizeDecidedCall(j) ==
    /\ \E caller \in People : Settles(j, disputes[j].providerBps, LAMBDA payee, bps :
          FinalizeDecided(j, caller, ProofState(j), payee, bps))
    /\ UNCHANGED <<marketVars, checks>>

DisputeCall(j) ==
    /\ \E caller \in People : DisputeJob(j, caller)
    /\ UNCHANGED <<marketVars, checks>>

VoteCall(j) ==
    /\ \E arbiter \in People, resolution \in Resolutions : Vote(j, arbiter, resolution)
    /\ UNCHANGED <<marketVars, checks>>

LapseCall(j) == Lapse(j) /\ UNCHANGED <<marketVars, checks>>

SettleBondCall(j) == SettleBond(j) /\ UNCHANGED <<marketVars, checks>>

ArbitrationOwnerCalls ==
    /\ (\E s \in ArbiterSets : SetArbiters(s)) \/ (\E p \in BondParameters : SetBondParameters(p))
    /\ UNCHANGED <<vars, keeperVars, marketVars, checks>>

BondWithdrawCalls ==
    /\ \E caller \in People, leaves \in BOOLEAN, amount \in Withdrawals :
          BondWithdrawTo(caller, leaves, amount)
    /\ UNCHANGED <<marketVars, checks>>

MarketCalls ==
    /\ \/ \E j \in Jobs, caller \in People, price \in Prices : List(j, caller, price) \/ Buy(j, caller, price)
       \/ \E j \in Jobs, caller \in People : Cancel(j, caller)
       \/ \E client \in Clients, approved \in BuyerLists : SetBuyerRoot(client, approved)
    /\ UNCHANGED <<arbitrationVars, checks>>

SettlementNext ==
    \/ KernelCalls
    \/ KeeperOwnerCalls
    \/ ArbitrationOwnerCalls
    \/ BondWithdrawCalls
    \/ MarketCalls
    \/ \E on \in BOOLEAN : SetComplianceModule(on) \/ SetScreening(on)
    \/ \E j \in Jobs :
         \/ JobCalls(j)
         \/ FinalizeCall(j) \/ DisputeCall(j) \/ FinalizeDecidedCall(j)
         \/ VoteCall(j) \/ LapseCall(j) \/ SettleBondCall(j)

SettlementSpec == SettlementInit /\ [][SettlementNext]_settlementVars

(* The cranks are permissionless and the keeper service sends them each tick
   (services/keeper); nobody has to bind a proof, vote, or withdraw.        *)
SettlementFairness ==
    /\ WF_settlementVars(Tick /\ UNCHANGED OffKernel)
    /\ \A j \in Jobs :
         /\ WF_settlementVars(FinalizeCall(j))
         /\ WF_settlementVars(LapseCall(j))
         /\ WF_settlementVars(FinalizeDecidedCall(j))
         /\ WF_settlementVars(SettleBondCall(j))
         /\ WF_settlementVars(\E b \in ProbeAnswers(j) : ClaimRefund(j, b) /\ UNCHANGED OffKernel)

FairSettlementSpec == SettlementSpec /\ SettlementFairness

-----------------------------------------------------------------------------
(* Properties.                                                              *)

DisputeRecord ==
    [disputer : Accounts \cup {NoAccount}, bond : Nat, disputedAt : Nat, resolveBy : Nat,
     setVersion : 0 .. MaxVersions, voted : SUBSET Accounts,
     outcome : {"None", "Complete", "Reject", "Lapsed"}, providerBps : 0 .. BPS,
     bondSettled : BOOLEAN]

ListingRecord ==
    [status : {"None", "Listed", "Sold", "Cancelled"}, seller : Accounts \cup {NoAccount},
     buyer : Accounts \cup {NoAccount}, price : Nat, faceValue : Nat]

(* The shape of every contract's storage.                                   *)
SettlementTypeOK ==
    /\ TypeOK
    /\ windows \in Seq(Window) /\ Len(windows) \in 1 .. MaxWindows
    /\ arbitrationSet \in BOOLEAN
    /\ disputeRefs \in [Jobs -> [disputedAt : Nat, resolved : BOOLEAN]]
    /\ arbiterSets \in Seq(ArbiterSets) /\ Len(arbiterSets) <= MaxVersions
    /\ bondParameters \in BondParameters
    /\ disputes \in [Jobs -> DisputeRecord]
    /\ \A j \in Jobs : approvals[j] \subseteq Accounts \X Resolutions
    /\ bondWithdrawable \in [Accounts -> Nat] /\ bondBalance \in Nat
    /\ listings \in [Jobs -> ListingRecord]
    /\ buyerRoots \in [Clients -> BuyerLists \cup {{}}]
    /\ checks \in CheckChoices

UnsettledBonds ==
    [j \in Jobs |-> IF Opened(j) /\ ~disputes[j].bondSettled THEN disputes[j].bond ELSE 0]

(* Every bond is held until it is credited, and credited once: the tokens
   the arbitration has cover the unsettled bonds and its ledger.            *)
BondsBacked == bondBalance >= Total(UnsettledBonds) + Total(bondWithdrawable)

(* A decision for a resolution was voted by a threshold of the arbiter set
   the dispute was opened under, whatever set is installed since, and no
   arbiter of that set backs two resolutions.                               *)
DecisionIsTheVote ==
    \A j \in Jobs : Opened(j) =>
        /\ disputes[j].outcome \in {"Complete", "Reject"} =>
             LET resolution == <<disputes[j].outcome, disputes[j].providerBps>>
                 set        == arbiterSets[disputes[j].setVersion]
             IN  Cardinality({a \in set.members : <<a, resolution>> \in approvals[j]}) >= set.threshold
        /\ \A v, w \in approvals[j] : v[1] = w[1] => v = w

(* The three contracts agree on a disputed job.  Both record the dispute or
   neither; a panel's rejection is the job's rejection; a job that completed
   or was rejected after a dispute did so by its decision, with the bond
   settled in the same transaction.                                         *)
DisputeAndJobAgree ==
    \A j \in Jobs :
        /\ Opened(j) <=> Disputed(j)
        /\ disputes[j].outcome = "Reject" => jobs[j].status = "Rejected"
        /\ Opened(j) /\ jobs[j].status \in {"Completed", "Rejected"} =>
             disputeRefs[j].resolved /\ disputes[j].bondSettled /\ disputes[j].outcome # "None"
        /\ disputeRefs[j].resolved => jobs[j].status \in {"Completed", "Rejected"}

(* A dispute is decided by its own panel's vote, in all three contracts.     *)
DisputesAreDecided == DecisionIsTheVote /\ DisputeAndJobAgree

(* A job under the keeper evaluator ends as its dispute says: undisputed,
   only after the challenge window; disputed, only by the panel's resolution
   or by a lapse at or after resolveBy; and an expiry takes a submission
   away only when its payout cannot be resolved.                            *)
OnlyTheDecisionSettles ==
    [][\A j \in Jobs : SubmittedToKeeper(j) =>
        /\ jobs'[j].status = "Completed" =>
             IF Disputed(j) THEN \/ disputes[j].outcome = "Complete"
                                 \/ disputes[j].outcome = "Lapsed" /\ now >= disputes[j].resolveBy
             ELSE now >= ChallengeEndsAt(j)
        /\ jobs'[j].status = "Rejected" => disputes'[j].outcome = "Reject"
        /\ jobs'[j].status = "Expired" => jobs[j].hookResolvesPayout /\ ~OnMarket(j)]_settlementVars

(* What the payee of a completed job is paid for was decided: the whole net,
   the panel's split, or nothing where the hook refused.                    *)
SplitIsDecided ==
    \A j \in Jobs : jobs[j].status = "Completed" /\ jobs[j].evaluator = KE /\ OnMarket(j) =>
        jobs[j].providerBps \in {0, IF Opened(j) THEN disputes[j].providerBps ELSE BPS}

(* A sold claim pays its buyer and an unsold one its provider, for every job
   that completed through the market's hook, whenever the sale happened.    *)
PayoutFollowsSale ==
    \A j \in Jobs : jobs[j].status = "Completed" /\ OnMarket(j) =>
        jobs[j].payee = IF listings[j].status = "Sold" THEN listings[j].buyer ELSE jobs[j].provider

(* The face value a buyer reads on a listing is the net the kernel will
   split, at whatever fees are in force by then, and is above the price.    *)
FaceValueHolds ==
    \A j \in Jobs : listings[j].status \in {"Listed", "Sold"} /\ InEscrow(j) =>
        listings[j].faceValue = NetPayout(j) /\ listings[j].price < listings[j].faceValue

(* Who is paid on completion is who holds the claim, for the part that was
   decided, at the value the market showed.                                  *)
PayeeGetsItsDue == SplitIsDecided /\ PayoutFollowsSale /\ FaceValueHolds

(* The challenge window of a submitted job does not move once its block has
   passed, whatever the owner configures afterwards.                        *)
WindowIsKept ==
    [][\A j \in Jobs : SubmittedToKeeper(j) /\ now > jobs[j].submittedAt =>
        ChallengeEndsAt(j)' = ChallengeEndsAt(j)]_settlementVars

(* As docs/design/storage-and-events.md states it: the owner never shortens
   the window of a job that is already in it.                               *)
WindowIsNotShortened ==
    [][\A j \in Jobs : SubmittedToKeeper(j) /\ SubmittedToKeeper(j)' =>
        ChallengeEndsAt(j)' >= ChallengeEndsAt(j)]_settlementVars

(* As docs/decisions/expiry-after-submission.md states it: every dispute's
   resolveBy + finalizeGrace sits inside the job's expiredAt.               *)
DisputeFitsExpiry ==
    \A j \in Jobs : Opened(j) =>
        disputes[j].resolveBy + WindowFor(jobs[j].submittedAt).grace <= jobs[j].expiredAt

Decidable(j) == DecidableProof(ProofState(j))

(* A job under the keeper evaluator leaves escrow, if its client keeps a
   decidable proof on it or needs none: nobody's silence holds it.          *)
KeeperJobSettles ==
    \A j \in Jobs : (InEscrow(j) /\ jobs[j].evaluator = KE /\ Decidable(j))
                        ~> (~InEscrow(j) \/ ~Decidable(j))

(* A bond does not stay in the arbitration: it is credited to somebody, on
   the same condition on the client's proof.                                *)
BondSettles ==
    \A j \in Jobs : (Opened(j) /\ Decidable(j)) ~> (disputes[j].bondSettled \/ ~Decidable(j))

=============================================================================
