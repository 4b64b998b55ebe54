------------------------------ MODULE SquareJob ------------------------------
(***************************************************************************)
(* The escrow kernel: contracts/src/SquareJob.sol.  A client escrows a     *)
(* job's budget, the job's evaluator decides where it goes, and whatever   *)
(* is paid out becomes a withdrawable balance in the kernel's own ledger.  *)
(*                                                                         *)
(* One action is one successful transaction; a call that reverts changes   *)
(* nothing and is the action not being enabled.  What lies outside the     *)
(* kernel answers freely: a hook's payout split, an evaluator's settlement *)
(* horizon, the token transfers other parties make into the contract.      *)
(* Settlement.tla replaces those answers by the contracts that give them.  *)
(***************************************************************************)
EXTENDS Integers, FiniteSets, Sums

CONSTANTS
    Accounts,            \* addresses that call the kernel or hold a balance
    Clients, Providers, Evaluators, Treasuries, Payees,
                         \* the accounts drawn for each role
    NoAccount,           \* address(0)
    Kernel,              \* address(this): a legal, if odd, withdrawal target
    Hooks, NoHook,       \* hook contracts; NoHook is address(0)
    ResolvingHooks,      \* the hooks that implement IPayoutResolver
    InitialHooks,        \* whitelisted by the deployment, before any job
    ToggledHooks,        \* bound: those the owner lists and delists later
    Proofs, NoProof,     \* compliance proofs a client may bind; none at first
    MaxJobs,             \* bound: jobs ever created
    Budgets,             \* budgets a party may set
    InitialFees,         \* [platform, evaluator] rates the contract may be built with
    FeeChoices,          \* and those the owner may schedule
    Splits,              \* payout splits a resolver may answer
    Horizons,            \* settlement horizons an evaluator may answer
    Deadlines,           \* expiry times a client may ask for
    Withdrawals,         \* amounts an account may withdraw at a time
    Donations,           \* amounts sent to the contract outside any job
    BPS, MaxTotalFeeBP, FeeNotice, MinSettlementWindow,
    MaxTime,             \* bound: the last block timestamp
    MaxBalance           \* bound: donations stop above it

Jobs == 1 .. MaxJobs

(* The two rates together are capped; both are parts of BPS.                *)
LegalFees ==
    {f \in [platform : 0 .. MaxTotalFeeBP, evaluator : 0 .. MaxTotalFeeBP] :
        f.platform + f.evaluator <= MaxTotalFeeBP}

ASSUME ConstantsAssumption ==
    /\ NoAccount \notin Accounts /\ Kernel \notin Accounts /\ NoAccount # Kernel
    /\ IsFiniteSet(Accounts)
    /\ Clients \subseteq Accounts /\ Providers \subseteq Accounts /\ Evaluators \subseteq Accounts
    /\ Treasuries \subseteq Accounts /\ Providers \subseteq Payees /\ Payees \subseteq Accounts
    /\ NoHook \notin Hooks /\ ResolvingHooks \subseteq Hooks
    /\ InitialHooks \subseteq Hooks /\ ToggledHooks \subseteq Hooks \cup {NoHook}
    /\ NoProof \notin Proofs
    /\ MaxJobs \in Nat /\ MaxTime \in Nat /\ MaxBalance \in Nat
    /\ BPS \in Nat \ {0} /\ MaxTotalFeeBP \in 0 .. BPS
    /\ FeeNotice \in Nat \ {0} /\ MinSettlementWindow \in Nat \ {0}
    /\ Budgets \subseteq Nat /\ Withdrawals \subseteq Nat /\ Donations \subseteq Nat
    /\ Horizons \subseteq Nat /\ Deadlines \subseteq Nat /\ Splits \subseteq Nat
    /\ InitialFees \cup FeeChoices \subseteq LegalFees

VARIABLES
    now,                 \* block.timestamp
    jobCounter,
    jobs,                \* _jobs, with status "None" for an id not yet created
    complianceProofs,
    withdrawable, totalWithdrawable, totalEscrowed,
    balance,             \* the kernel's own balance of the payment token
    fees, pendingFees, feesEffectiveFrom,
    platformTreasury,
    whitelistedHooks

bookVars == <<withdrawable, totalWithdrawable, totalEscrowed, balance>>
feeVars  == <<fees, pendingFees, feesEffectiveFrom, platformTreasury>>
vars     == <<now, jobCounter, jobs, complianceProofs, bookVars, feeVars, whitelistedHooks>>

Statuses == {"None", "Open", "Funded", "Submitted", "Completed", "Rejected", "Expired"}

JobRecord ==
    [status : Statuses,
     client : Accounts \cup {NoAccount}, provider : Accounts \cup {NoAccount},
     evaluator : Accounts \cup {NoAccount}, hook : Hooks \cup {NoHook},
     hookResolvesPayout : BOOLEAN, budget : Nat, expiredAt : Nat, submittedAt : Nat,
     platformFeeBP : 0 .. MaxTotalFeeBP, evaluatorFeeBP : 0 .. MaxTotalFeeBP,
     payee : Accounts \cup {NoAccount}, providerBps : 0 .. BPS, settlementHorizon : Nat]

BlankJob ==
    [status |-> "None", client |-> NoAccount, provider |-> NoAccount, evaluator |-> NoAccount,
     hook |-> NoHook, hookResolvesPayout |-> FALSE, budget |-> 0, expiredAt |-> 0,
     submittedAt |-> 0, platformFeeBP |-> 0, evaluatorFeeBP |-> 0, payee |-> NoAccount,
     providerBps |-> 0, settlementHorizon |-> 0]

-----------------------------------------------------------------------------
(* What the handlers read.                                                  *)

EffectiveFees ==
    IF feesEffectiveFrom # 0 /\ now >= feesEffectiveFrom THEN pendingFees ELSE fees

SettlementWindow(horizon) == IF horizon < MinSettlementWindow THEN MinSettlementWindow ELSE horizon

RoomToSettle(horizon, expiredAt) == expiredAt >= now + SettlementWindow(horizon)

InEscrow(j) == jobs[j].status \in {"Funded", "Submitted"}

Portion(amount, bp) == (amount * bp) \div BPS

NetOf(amount, f) == amount - Portion(amount, f.platform) - Portion(amount, f.evaluator)

SnapshotFees(job) == [platform |-> job.platformFeeBP, evaluator |-> job.evaluatorFeeBP]

(* Faulty: the fees in force now, for a job whose fees are fixed.           *)
NetPayoutAtCurrentFees(j) == NetOf(jobs[j].budget, EffectiveFees)

NetPayout(j) ==
    NetOf(jobs[j].budget, IF jobs[j].status = "Open" THEN EffectiveFees ELSE SnapshotFees(jobs[j]))

(* Faulty: the escrows are forgotten.                                       *)
UnaccountedWithEscrow == balance - totalWithdrawable

Unaccounted == balance - totalWithdrawable - totalEscrowed

(* An answer the kernel accepts from a resolver; without one, the provider. *)
ResolvesTo(j, payee, bps) ==
    IF jobs[j].hookResolvesPayout
    THEN payee # NoAccount /\ bps <= BPS
    ELSE payee = jobs[j].provider /\ bps = BPS

(* _payoutResolvable: `answers` is whether the resolver gave a usable one.  *)
PayoutResolvable(j, answers) == jobs[j].hookResolvesPayout => answers

Credit(ledger, account, amount) == [ledger EXCEPT ![account] = @ + amount]

(* What complete() makes of a job's budget.                                 *)
Shares(job, bps) ==
    LET platform  == Portion(job.budget, job.platformFeeBP)
        evaluator == Portion(job.budget, job.evaluatorFeeBP)
        net       == job.budget - platform - evaluator
        provider  == Portion(net, bps)
    IN  [platform |-> platform, evaluator |-> evaluator, provider |-> provider,
         client |-> net - provider]

(* Faulty: the client's part of a split is not counted.                     *)
SharesTotalWithoutClient(s) == s.platform + s.evaluator + s.provider

SharesTotal(s) == s.platform + s.evaluator + s.provider + s.client

LedgerAfterComplete(j, payee, bps) ==
    LET s == Shares(jobs[j], bps)
    IN  Credit(Credit(Credit(Credit(withdrawable,
            platformTreasury, s.platform), jobs[j].evaluator, s.evaluator),
            payee, s.provider), jobs[j].client, s.client)

-----------------------------------------------------------------------------
(* The transactions.                                                        *)

Init ==
    /\ now = 1
    /\ jobCounter = 0
    /\ jobs = [j \in Jobs |-> BlankJob]
    /\ complianceProofs = [j \in Jobs |-> NoProof]
    /\ withdrawable = [a \in Accounts |-> 0]
    /\ totalWithdrawable = 0 /\ totalEscrowed = 0 /\ balance = 0
    /\ fees \in InitialFees
    /\ pendingFees = [platform |-> 0, evaluator |-> 0]
    /\ feesEffectiveFrom = 0
    /\ platformTreasury \in Treasuries
    /\ whitelistedHooks = {NoHook} \cup InitialHooks

(* Faulty: a matured change is overwritten without being booked.            *)
SetFeesUnsettled(f, treasury) ==
    /\ pendingFees' = f
    /\ feesEffectiveFrom' = now + FeeNotice
    /\ platformTreasury' = treasury
    /\ UNCHANGED <<now, jobCounter, jobs, complianceProofs, bookVars, fees, whitelistedHooks>>

(* A pending change that has matured is booked before it is overwritten.    *)
SetFees(f, treasury) ==
    /\ fees' = EffectiveFees
    /\ pendingFees' = f
    /\ feesEffectiveFrom' = now + FeeNotice
    /\ platformTreasury' = treasury
    /\ UNCHANGED <<now, jobCounter, jobs, complianceProofs, bookVars, whitelistedHooks>>

Skim(to) ==
    /\ Unaccounted > 0
    /\ balance' = IF to = Kernel THEN balance ELSE balance - Unaccounted
    /\ UNCHANGED <<now, jobCounter, jobs, complianceProofs, withdrawable, totalWithdrawable,
                   totalEscrowed, feeVars, whitelistedHooks>>

SetComplianceProof(j, caller, proof) ==
    /\ InEscrow(j)
    /\ caller = jobs[j].client
    /\ complianceProofs' = [complianceProofs EXCEPT ![j] = proof]
    /\ UNCHANGED <<now, jobCounter, jobs, bookVars, feeVars, whitelistedHooks>>

SetHookWhitelist(hook, allowed) ==
    /\ whitelistedHooks' = IF allowed THEN whitelistedHooks \cup {hook} ELSE whitelistedHooks \ {hook}
    /\ UNCHANGED <<now, jobCounter, jobs, complianceProofs, bookVars, feeVars>>

(* The hook's payout interface and the evaluator's horizon are read here,   *)
(* once, and kept on the job.                                               *)
CreateJob(client, provider, evaluator, expiredAt, hook, horizon) ==
    /\ jobCounter < MaxJobs
    /\ provider # evaluator
    /\ expiredAt > now
    /\ hook \in whitelistedHooks
    /\ RoomToSettle(horizon, expiredAt)
    /\ jobCounter' = jobCounter + 1
    /\ jobs' = [jobs EXCEPT ![jobCounter + 1] =
                  [BlankJob EXCEPT !.status = "Open", !.client = client, !.provider = provider,
                                   !.evaluator = evaluator, !.expiredAt = expiredAt, !.hook = hook,
                                   !.hookResolvesPayout = hook \in ResolvingHooks,
                                   !.settlementHorizon = horizon]]
    /\ UNCHANGED <<now, complianceProofs, bookVars, feeVars, whitelistedHooks>>

SetProvider(j, caller, provider) ==
    /\ jobs[j].status = "Open"
    /\ caller = jobs[j].client
    /\ jobs[j].provider = NoAccount
    /\ provider # jobs[j].evaluator
    /\ jobs' = [jobs EXCEPT ![j].provider = provider]
    /\ UNCHANGED <<now, jobCounter, complianceProofs, bookVars, feeVars, whitelistedHooks>>

SetBudget(j, caller, amount) ==
    /\ jobs[j].status = "Open"
    /\ caller \in {jobs[j].client, jobs[j].provider}
    /\ jobs' = [jobs EXCEPT ![j].budget = amount]
    /\ UNCHANGED <<now, jobCounter, complianceProofs, bookVars, feeVars, whitelistedHooks>>

Fund(j, caller, expectedBudget) ==
    /\ jobs[j].status = "Open"
    /\ caller = jobs[j].client
    /\ jobs[j].provider # NoAccount
    /\ jobs[j].budget > 0 /\ jobs[j].budget = expectedBudget
    /\ now < jobs[j].expiredAt
    /\ RoomToSettle(jobs[j].settlementHorizon, jobs[j].expiredAt)
    /\ jobs' = [jobs EXCEPT ![j].status = "Funded",
                            ![j].platformFeeBP = EffectiveFees.platform,
                            ![j].evaluatorFeeBP = EffectiveFees.evaluator]
    /\ totalEscrowed' = totalEscrowed + jobs[j].budget
    /\ balance' = balance + jobs[j].budget
    /\ UNCHANGED <<now, jobCounter, complianceProofs, withdrawable, totalWithdrawable,
                   feeVars, whitelistedHooks>>

(* Faulty: a submission only has to beat the expiry.                        *)
SubmitLate(j, caller) ==
    /\ jobs[j].status = "Funded"
    /\ caller = jobs[j].provider
    /\ now < jobs[j].expiredAt
    /\ jobs' = [jobs EXCEPT ![j].status = "Submitted", ![j].submittedAt = now]
    /\ UNCHANGED <<now, jobCounter, complianceProofs, bookVars, feeVars, whitelistedHooks>>

Submit(j, caller) ==
    /\ jobs[j].status = "Funded"
    /\ caller = jobs[j].provider
    /\ now < jobs[j].expiredAt
    /\ RoomToSettle(jobs[j].settlementHorizon, jobs[j].expiredAt)
    /\ jobs' = [jobs EXCEPT ![j].status = "Submitted", ![j].submittedAt = now]
    /\ UNCHANGED <<now, jobCounter, complianceProofs, bookVars, feeVars, whitelistedHooks>>

(* What complete() requires and writes on the job, shared by the plain call *)
(* and by a call an evaluator contract makes inside a longer transaction.   *)
Settle(j, caller, payee, bps) ==
    /\ jobs[j].status = "Submitted"
    /\ caller = jobs[j].evaluator
    /\ ResolvesTo(j, payee, bps)
    /\ jobs' = [jobs EXCEPT ![j].status = "Completed", ![j].payee = payee, ![j].providerBps = bps]
    /\ totalEscrowed' = totalEscrowed - jobs[j].budget

Complete(j, caller, payee, bps) ==
    /\ Settle(j, caller, payee, bps)
    /\ withdrawable' = LedgerAfterComplete(j, payee, bps)
    /\ totalWithdrawable' = totalWithdrawable + SharesTotal(Shares(jobs[j], bps))
    /\ UNCHANGED <<now, jobCounter, complianceProofs, balance, feeVars, whitelistedHooks>>

(* complete() followed, in one transaction of an evaluator that is a        *)
(* contract, by withdrawTo(to, everything the ledger holds for it): what    *)
(* KeeperEvaluator.finalize and finalizeDecided do.                         *)
CompleteAndForward(j, caller, payee, bps, to) ==
    LET ledger == LedgerAfterComplete(j, payee, bps)
    IN  /\ Settle(j, caller, payee, bps)
        /\ withdrawable' = [ledger EXCEPT ![caller] = 0]
        /\ totalWithdrawable' =
             totalWithdrawable + SharesTotal(Shares(jobs[j], bps)) - ledger[caller]
        /\ balance' = balance - ledger[caller]
        /\ to \in Accounts
        /\ UNCHANGED <<now, jobCounter, complianceProofs, feeVars, whitelistedHooks>>

(* Faulty: the escrow total keeps the refunded budget.                      *)
RefundStillEscrowed(j, status) ==
    /\ jobs' = [jobs EXCEPT ![j].status = status]
    /\ withdrawable' = Credit(withdrawable, jobs[j].client, jobs[j].budget)
    /\ totalWithdrawable' = totalWithdrawable + jobs[j].budget
    /\ UNCHANGED <<now, jobCounter, complianceProofs, totalEscrowed, balance, feeVars, whitelistedHooks>>

(* Returning the whole budget to the client: reject() and claimRefund().    *)
Refund(j, status) ==
    /\ jobs' = [jobs EXCEPT ![j].status = status]
    /\ totalEscrowed' = totalEscrowed - jobs[j].budget
    /\ withdrawable' = Credit(withdrawable, jobs[j].client, jobs[j].budget)
    /\ totalWithdrawable' = totalWithdrawable + jobs[j].budget
    /\ UNCHANGED <<now, jobCounter, complianceProofs, balance, feeVars, whitelistedHooks>>

RejectOpen(j, caller) ==
    /\ jobs[j].status = "Open"
    /\ caller = jobs[j].client
    /\ jobs' = [jobs EXCEPT ![j].status = "Rejected"]
    /\ UNCHANGED <<now, jobCounter, complianceProofs, bookVars, feeVars, whitelistedHooks>>

Reject(j, caller) ==
    /\ InEscrow(j)
    /\ caller = jobs[j].evaluator
    /\ Refund(j, "Rejected")

(* Faulty: every resolvable submission is left to its evaluator.            *)
RefundOpenIgnoringHorizon(j, answers) ==
    /\ now >= jobs[j].expiredAt
    /\ jobs[j].status = "Funded" \/ ~PayoutResolvable(j, answers)

(* Open to anyone after the expiry, except on a submission whose evaluator  *)
(* has a settlement horizon and whose payout can still be resolved.         *)
RefundOpen(j, answers) ==
    /\ now >= jobs[j].expiredAt
    /\ \/ jobs[j].status = "Funded"
       \/ jobs[j].settlementHorizon = 0
       \/ ~PayoutResolvable(j, answers)

ClaimRefund(j, answers) ==
    /\ InEscrow(j)
    /\ RefundOpen(j, answers)
    /\ Refund(j, "Expired")

(* Faulty: the caller's own balance is not looked at.                       *)
WithdrawToUnchecked(caller, to, amount) ==
    /\ withdrawable' = [withdrawable EXCEPT ![caller] = @ - amount]
    /\ totalWithdrawable' = totalWithdrawable - amount
    /\ balance' = IF to = Kernel THEN balance ELSE balance - amount
    /\ UNCHANGED <<now, jobCounter, jobs, complianceProofs, totalEscrowed, feeVars, whitelistedHooks>>

WithdrawTo(caller, to, amount) ==
    /\ amount <= withdrawable[caller]
    /\ withdrawable' = [withdrawable EXCEPT ![caller] = @ - amount]
    /\ totalWithdrawable' = totalWithdrawable - amount
    /\ balance' = IF to = Kernel THEN balance ELSE balance - amount
    /\ UNCHANGED <<now, jobCounter, jobs, complianceProofs, totalEscrowed, feeVars, whitelistedHooks>>

(* The token's side: anyone may transfer to the contract.                   *)
Donate(amount) ==
    /\ balance + amount <= MaxBalance
    /\ balance' = balance + amount
    /\ UNCHANGED <<now, jobCounter, jobs, complianceProofs, withdrawable, totalWithdrawable,
                   totalEscrowed, feeVars, whitelistedHooks>>

Tick ==
    /\ now < MaxTime
    /\ now' = now + 1
    /\ UNCHANGED <<jobCounter, jobs, complianceProofs, bookVars, feeVars, whitelistedHooks>>

Recipients == Accounts \cup {Kernel}

OwnerNext ==
    \/ \E f \in FeeChoices, treasury \in Treasuries : SetFees(f, treasury)
    \/ \E to \in Recipients : Skim(to)
    \/ \E hook \in ToggledHooks, allowed \in BOOLEAN : SetHookWhitelist(hook, allowed)

CreateNext ==
    \E client \in Clients, evaluator \in Evaluators, provider \in Providers \cup {NoAccount},
       expiredAt \in Deadlines, hook \in Hooks \cup {NoHook}, horizon \in Horizons :
        CreateJob(client, provider, evaluator, expiredAt, hook, horizon)

JobNext(j) ==
    \/ \E caller \in Accounts, provider \in Providers : SetProvider(j, caller, provider)
    \/ \E caller \in Accounts, amount \in Budgets : SetBudget(j, caller, amount)
    \/ \E caller \in Accounts, amount \in Budgets : Fund(j, caller, amount)
    \/ \E caller \in Accounts, proof \in Proofs \cup {NoProof} : SetComplianceProof(j, caller, proof)
    \/ \E caller \in Accounts : Submit(j, caller)
    \/ \E caller \in Accounts, payee \in Payees, bps \in Splits \cup {BPS} : Complete(j, caller, payee, bps)
    \/ \E caller, to \in Accounts, payee \in Payees, bps \in Splits \cup {BPS} :
          CompleteAndForward(j, caller, payee, bps, to)
    \/ \E caller \in Accounts : RejectOpen(j, caller)
    \/ \E caller \in Accounts : Reject(j, caller)
    \/ \E answers \in BOOLEAN : ClaimRefund(j, answers)

WithdrawNext ==
    \E caller \in Accounts, to \in Recipients, amount \in Withdrawals :
        WithdrawTo(caller, to, amount)

Next ==
    \/ OwnerNext
    \/ CreateNext
    \/ \E j \in Jobs : JobNext(j)
    \/ WithdrawNext
    \/ \E amount \in Donations : Donate(amount)
    \/ Tick

Spec == Init /\ [][Next]_vars

-----------------------------------------------------------------------------
(* Properties.                                                              *)

(* Every variable keeps its shape: amounts and times are naturals, a job's
   parties are addresses, its fee snapshot is within the cap.               *)
TypeOK ==
    /\ now \in Nat
    /\ jobCounter \in 0 .. MaxJobs
    /\ jobs \in [Jobs -> JobRecord]
    /\ complianceProofs \in [Jobs -> Proofs \cup {NoProof}]
    /\ withdrawable \in [Accounts -> Nat]
    /\ totalWithdrawable \in Nat /\ totalEscrowed \in Nat /\ balance \in Nat
    /\ fees \in LegalFees /\ pendingFees \in LegalFees
    /\ feesEffectiveFrom \in Nat
    /\ platformTreasury \in Accounts
    /\ whitelistedHooks \in SUBSET (Hooks \cup {NoHook})

(* What a job has in escrow: its budget from funding to the one exit.       *)
Held(j) == IF InEscrow(j) THEN jobs[j].budget ELSE 0

HeldByJob == [j \in Jobs |-> Held(j)]

(* The two running totals are the sums they stand for: totalWithdrawable
   of the ledger, totalEscrowed of the budgets of the jobs in escrow.  They
   are kept by hand in fund, complete, reject, claimRefund and withdrawTo,
   and unaccounted(), hence skim(), trusts them.                            *)
Books ==
    /\ totalWithdrawable = Total(withdrawable)
    /\ totalEscrowed = Total(HeldByJob)

(* The kernel can always pay what it owes: the tokens it holds cover every
   escrow and every withdrawable balance, whatever the owner skims and
   whatever rounding the fee split does.                                    *)
Solvent == balance >= totalEscrowed + totalWithdrawable

(* A submission leaves its evaluator the whole settlement horizon the job
   was created with (and at least the kernel's minimum) before the expiry.  *)
HorizonFits ==
    \A j \in Jobs :
        jobs[j].status = "Submitted" =>
            jobs[j].submittedAt + SettlementWindow(jobs[j].settlementHorizon) <= jobs[j].expiredAt

(* The rates a job would be funded at change only by the passing of time,
   and only to a pair that was already announced: setFees never moves them
   in its own block, even when it overwrites a change that has matured.     *)
FeesAreAnnounced ==
    [][EffectiveFees' # EffectiveFees => now' > now /\ EffectiveFees' = pendingFees]_vars

(* From funding to settlement the net a job pays out is fixed: no fee change
   and no call on the job alters what the provider was promised.            *)
NetIsPromised ==
    [][\A j \in Jobs : InEscrow(j) /\ InEscrow(j)' => NetPayout(j)' = NetPayout(j)]_vars

(* While a submission's evaluator can still settle it, only the evaluator
   ends it: an expiry refunds such a job only when its payout does not
   resolve.                                                                 *)
EvaluatorBound(j) == jobs[j].status = "Submitted" /\ jobs[j].settlementHorizon # 0

(* A job in escrow that is not bound to its evaluator's decision leaves
   escrow, or becomes so bound, if somebody claims the refund that is open. *)
Fairness ==
    /\ WF_vars(Tick)
    /\ \A j \in Jobs : WF_vars(\E answers \in BOOLEAN : ClaimRefund(j, answers))

FairSpec == Spec /\ Fairness

EscrowIsNotForever ==
    \A j \in Jobs : (InEscrow(j) /\ ~EvaluatorBound(j)) ~> (~InEscrow(j) \/ EvaluatorBound(j))

(* Each job is a deal of the abstract escrow: funded once, released once and
   in full, to the ledger and nowhere else.                                 *)
Phase(j) ==
    CASE jobs[j].status \in {"None", "Open"} -> "new"
      [] InEscrow(j)                         -> "held"
      [] OTHER                               -> "closed"

E == INSTANCE Escrow WITH Deals <- Jobs, phase <- [j \in Jobs |-> Phase(j)], held <- HeldByJob,
                          owed <- totalWithdrawable, vault <- balance

EscrowSpec == E!Spec

=============================================================================
