-------------------------- MODULE SquareJob_proofs --------------------------
(***************************************************************************)
(* Theorems about the escrow kernel, for every number of jobs and accounts *)
(* and every rate, budget and deadline that ConstantsAssumption admits.    *)
(***************************************************************************)
EXTENDS SquareJob, SumsTheorems

-----------------------------------------------------------------------------
(* The arithmetic of a payout.                                              *)

(* A part of an amount is at most the amount.                               *)
LEMMA PortionBounds ==
    ASSUME NEW amount \in Nat, NEW bp \in 0 .. BPS
    PROVE  Portion(amount, bp) \in 0 .. amount
PROOF
<1>1. BPS \in Nat /\ BPS > 0 /\ bp \in Nat
  BY ConstantsAssumption
<1>2. amount * bp \in Nat /\ amount * bp <= amount * BPS
  BY <1>1
<1> DEFINE product == amount * bp
<1> HIDE DEF product
<1>3. \A p \in Nat : p <= amount * BPS => p \div BPS \in 0 .. amount
  BY <1>1
<1> QED BY <1>2, <1>3 DEF Portion

(* Two rates that are together at most the whole take together at most the
   whole amount: rounding down never takes more.                            *)
LEMMA TwoPortionsFit ==
    ASSUME NEW amount \in Nat, NEW p \in Nat, NEW e \in Nat, p + e <= BPS
    PROVE  Portion(amount, p) + Portion(amount, e) <= amount
PROOF
<1>1. BPS \in Nat /\ BPS > 0
  BY ConstantsAssumption
<1> DEFINE P == Portion(amount, p)
           Q == Portion(amount, e)
<1>2. P \in Nat /\ P * BPS <= amount * p
  BY <1>1 DEF Portion
<1>3. Q \in Nat /\ Q * BPS <= amount * e
  BY <1>1 DEF Portion
<1>4. amount * p + amount * e <= amount * BPS
  BY <1>1
<1> HIDE DEF P, Q
<1>5. (P + Q) * BPS <= amount * BPS
  BY <1>1, <1>2, <1>3, <1>4
<1>6. P + Q <= amount
  BY <1>1, <1>2, <1>3, <1>5
<1> QED BY <1>6 DEF P, Q

(* Whatever the split and whatever the rounding, the four shares complete()
   makes of a budget are amounts, and they add up to the budget.            *)
LEMMA SharesAddUp ==
    ASSUME NEW job \in JobRecord, job.platformFeeBP + job.evaluatorFeeBP <= MaxTotalFeeBP,
           NEW bps \in 0 .. BPS
    PROVE  LET s == Shares(job, bps)
           IN  /\ s.platform \in Nat /\ s.evaluator \in Nat
               /\ s.provider \in Nat /\ s.client \in Nat
               /\ SharesTotal(s) = job.budget
PROOF
<1> DEFINE p == Portion(job.budget, job.platformFeeBP)
           e == Portion(job.budget, job.evaluatorFeeBP)
           net == job.budget - p - e
           w == Portion(net, bps)
<1>1. /\ job.budget \in Nat
      /\ job.platformFeeBP \in 0 .. BPS /\ job.evaluatorFeeBP \in 0 .. BPS
      /\ job.platformFeeBP + job.evaluatorFeeBP <= BPS
  BY ConstantsAssumption DEF JobRecord
<1>2. p \in Nat /\ e \in Nat
  BY <1>1, PortionBounds
<1>3. p + e <= job.budget
  <2>1. job.platformFeeBP \in Nat /\ job.evaluatorFeeBP \in Nat
    BY <1>1, ConstantsAssumption
  <2> QED BY <1>1, <2>1, TwoPortionsFit
<1>4. net \in Nat
  <2> HIDE DEF p, e
  <2> QED BY <1>1, <1>2, <1>3
<1>5. w \in 0 .. net
  <2> HIDE DEF net
  <2> QED BY <1>4, PortionBounds
<1>6. Shares(job, bps) = [platform |-> p, evaluator |-> e, provider |-> w, client |-> net - w]
  BY DEF Shares
<1> HIDE DEF p, e, w
<1> QED BY <1>1, <1>2, <1>4, <1>5, <1>6 DEF SharesTotal

-----------------------------------------------------------------------------
(* The ledger.                                                              *)

(* A credit adds its amount to the ledger's total.                          *)
LEMMA CreditTotal ==
    ASSUME NEW ledger \in [Accounts -> Nat], NEW a \in Accounts, NEW n \in Nat
    PROVE  /\ Credit(ledger, a, n) \in [Accounts -> Nat]
           /\ Total(Credit(ledger, a, n)) = Total(ledger) + n
PROOF
<1> DEFINE g == Credit(ledger, a, n)
<1>1. /\ g \in [Accounts -> Nat] /\ g[a] = ledger[a] + n
      /\ \A b \in Accounts : b # a => g[b] = ledger[b]
  BY DEF Credit
<1>2. IsFiniteSet(Accounts)
  BY ConstantsAssumption
<1> HIDE DEF g
<1>3. Total(g) + ledger[a] = Total(ledger) + g[a]
  BY <1>1, <1>2, TotalUpdate
<1>4. Total(g) \in Nat /\ Total(ledger) \in Nat /\ ledger[a] \in Nat
  BY <1>1, <1>2, TotalType
<1>5. Total(g) = Total(ledger) + n
  BY <1>1, <1>3, <1>4
<1> QED BY <1>1, <1>5 DEF g

(* A debit within the account's balance takes its amount off the total.     *)
LEMMA DebitTotal ==
    ASSUME NEW ledger \in [Accounts -> Nat], NEW a \in Accounts,
           NEW n \in Nat, n <= ledger[a]
    PROVE  /\ [ledger EXCEPT ![a] = @ - n] \in [Accounts -> Nat]
           /\ Total([ledger EXCEPT ![a] = @ - n]) = Total(ledger) - n
           /\ n <= Total(ledger)
PROOF
<1> DEFINE g == [ledger EXCEPT ![a] = @ - n]
<1>1. /\ g \in [Accounts -> Nat] /\ g[a] = ledger[a] - n
      /\ \A b \in Accounts : b # a => g[b] = ledger[b]
  OBVIOUS
<1>2. IsFiniteSet(Accounts)
  BY ConstantsAssumption
<1> HIDE DEF g
<1>3. Total(g) + ledger[a] = Total(ledger) + g[a]
  BY <1>1, <1>2, TotalUpdate
<1>4. Total(g) \in Nat /\ Total(ledger) \in Nat /\ ledger[a] \in Nat
  BY <1>1, <1>2, TotalType
<1>5. ledger[a] <= Total(ledger)
  BY <1>2, TotalBounds
<1>6. Total(g) = Total(ledger) - n /\ n <= Total(ledger)
  BY <1>1, <1>3, <1>4, <1>5
<1> QED BY <1>1, <1>6 DEF g

(* Emptying an account takes its balance off the total.                     *)
LEMMA EmptiedTotal ==
    ASSUME NEW ledger \in [Accounts -> Nat], NEW a \in Accounts
    PROVE  /\ [ledger EXCEPT ![a] = 0] \in [Accounts -> Nat]
           /\ Total([ledger EXCEPT ![a] = 0]) = Total(ledger) - ledger[a]
           /\ ledger[a] \in 0 .. Total(ledger)
PROOF
<1> DEFINE g == [ledger EXCEPT ![a] = 0]
<1>1. /\ g \in [Accounts -> Nat] /\ g[a] = 0
      /\ \A b \in Accounts : b # a => g[b] = ledger[b]
  OBVIOUS
<1>2. IsFiniteSet(Accounts)
  BY ConstantsAssumption
<1> HIDE DEF g
<1>3. Total(g) + ledger[a] = Total(ledger) + g[a]
  BY <1>1, <1>2, TotalUpdate
<1>4. Total(g) \in Nat /\ Total(ledger) \in Nat /\ ledger[a] \in Nat
  BY <1>1, <1>2, TotalType
<1>5. Total(g) = Total(ledger) - ledger[a] /\ ledger[a] \in 0 .. Total(ledger)
  BY <1>1, <1>3, <1>4
<1> QED BY <1>1, <1>5 DEF g

(* What complete() adds to the ledger is the job's whole budget.            *)
LEMMA LedgerAfterCompleteTotal ==
    ASSUME NEW j \in Jobs, jobs[j] \in JobRecord, withdrawable \in [Accounts -> Nat],
           jobs[j].platformFeeBP + jobs[j].evaluatorFeeBP <= MaxTotalFeeBP,
           platformTreasury \in Accounts, jobs[j].evaluator \in Accounts,
           jobs[j].client \in Accounts, NEW payee \in Accounts, NEW bps \in 0 .. BPS
    PROVE  /\ LedgerAfterComplete(j, payee, bps) \in [Accounts -> Nat]
           /\ Total(LedgerAfterComplete(j, payee, bps)) = Total(withdrawable) + jobs[j].budget
PROOF
<1> DEFINE s == Shares(jobs[j], bps)
           l1 == Credit(withdrawable, platformTreasury, s.platform)
           l2 == Credit(l1, jobs[j].evaluator, s.evaluator)
           l3 == Credit(l2, payee, s.provider)
           l4 == Credit(l3, jobs[j].client, s.client)
<1>1. /\ s.platform \in Nat /\ s.evaluator \in Nat /\ s.provider \in Nat /\ s.client \in Nat
      /\ s.platform + s.evaluator + s.provider + s.client = jobs[j].budget
  BY SharesAddUp DEF SharesTotal
<1>2. LedgerAfterComplete(j, payee, bps) = l4
  BY DEF LedgerAfterComplete
<1> HIDE DEF s
<1>3. l1 \in [Accounts -> Nat] /\ Total(l1) = Total(withdrawable) + s.platform
  BY <1>1, CreditTotal
<1> HIDE DEF l1
<1>4. l2 \in [Accounts -> Nat] /\ Total(l2) = Total(l1) + s.evaluator
  BY <1>1, <1>3, CreditTotal
<1> HIDE DEF l2
<1>5. l3 \in [Accounts -> Nat] /\ Total(l3) = Total(l2) + s.provider
  BY <1>1, <1>4, CreditTotal
<1> HIDE DEF l3
<1>6. l4 \in [Accounts -> Nat] /\ Total(l4) = Total(l3) + s.client
  BY <1>1, <1>5, CreditTotal
<1> HIDE DEF l4
<1>7. Total(withdrawable) \in Nat
  BY TotalType, ConstantsAssumption
<1> QED BY <1>1, <1>2, <1>3, <1>4, <1>5, <1>6, <1>7

-----------------------------------------------------------------------------
(* The escrows.                                                             *)

(* A job that leaves escrow takes its budget off the escrows' total.        *)
LEMMA ExitTotal ==
    ASSUME jobs \in [Jobs -> JobRecord], jobs' \in [Jobs -> JobRecord], NEW j \in Jobs,
           InEscrow(j), ~InEscrow(j)', \A k \in Jobs : k # j => jobs'[k] = jobs[k]
    PROVE  /\ Total(HeldByJob)' = Total(HeldByJob) - jobs[j].budget
           /\ jobs[j].budget <= Total(HeldByJob)
PROOF
<1>1. HeldByJob \in [Jobs -> Nat] /\ HeldByJob' \in [Jobs -> Nat]
  BY DEF HeldByJob, Held, JobRecord
<1>2. /\ HeldByJob[j] = jobs[j].budget /\ HeldByJob'[j] = 0
      /\ \A k \in Jobs : k # j => HeldByJob'[k] = HeldByJob[k]
  BY DEF HeldByJob, Held, InEscrow
<1>3. IsFiniteSet(Jobs)
  BY FS_Interval, ConstantsAssumption DEF Jobs
<1>4. Total(HeldByJob') + HeldByJob[j] = Total(HeldByJob) + HeldByJob'[j]
  BY <1>1, <1>2, <1>3, TotalUpdate
<1>5. Total(HeldByJob') \in Nat /\ Total(HeldByJob) \in Nat
  BY <1>1, <1>3, TotalType
<1>6. HeldByJob[j] <= Total(HeldByJob)
  BY <1>1, <1>3, TotalBounds
<1>7. Total(HeldByJob)' = Total(HeldByJob')
  BY DEF Total, Coins
<1> QED BY <1>1, <1>2, <1>4, <1>5, <1>6, <1>7

(* A job that enters escrow adds its budget.                                *)
LEMMA EntryTotal ==
    ASSUME jobs \in [Jobs -> JobRecord], jobs' \in [Jobs -> JobRecord], NEW j \in Jobs,
           ~InEscrow(j), InEscrow(j)', jobs'[j].budget = jobs[j].budget,
           \A k \in Jobs : k # j => jobs'[k] = jobs[k]
    PROVE  Total(HeldByJob)' = Total(HeldByJob) + jobs[j].budget
PROOF
<1>1. HeldByJob \in [Jobs -> Nat] /\ HeldByJob' \in [Jobs -> Nat]
  BY DEF HeldByJob, Held, JobRecord
<1>2. /\ HeldByJob[j] = 0 /\ HeldByJob'[j] = jobs[j].budget
      /\ \A k \in Jobs : k # j => HeldByJob'[k] = HeldByJob[k]
  BY DEF HeldByJob, Held, InEscrow
<1>3. IsFiniteSet(Jobs)
  BY FS_Interval, ConstantsAssumption DEF Jobs
<1>4. Total(HeldByJob') + HeldByJob[j] = Total(HeldByJob) + HeldByJob'[j]
  BY <1>1, <1>2, <1>3, TotalUpdate
<1>5. Total(HeldByJob') \in Nat /\ Total(HeldByJob) \in Nat
  BY <1>1, <1>3, TotalType
<1>6. Total(HeldByJob)' = Total(HeldByJob')
  BY DEF Total, Coins
<1> QED BY <1>1, <1>2, <1>4, <1>5, <1>6

(* A step that moves no job in or out of escrow leaves the total.           *)
LEMMA SameTotal ==
    ASSUME \A k \in Jobs : Held(k)' = Held(k)
    PROVE  Total(HeldByJob)' = Total(HeldByJob)
PROOF
<1>1. HeldByJob' = HeldByJob
  BY DEF HeldByJob
<1> QED BY <1>1 DEF Total, Coins

-----------------------------------------------------------------------------
(* Type correctness, the books and solvency are one induction: a balance
   stays a natural number because the tokens cover what is owed, which needs
   the totals to be the sums they stand for.                                *)

(* A job that exists has a client to refund, and a fee snapshot within the
   cap, which is what makes its net a natural number; the next id is free.  *)
JobsWellFormed ==
    \A j \in Jobs :
        /\ jobs[j].status # "None" => jobs[j].client \in Accounts /\ j <= jobCounter
        /\ jobs[j].platformFeeBP + jobs[j].evaluatorFeeBP <= MaxTotalFeeBP

IInv == TypeOK /\ JobsWellFormed /\ Books /\ Solvent

(* The rates in force are always a legal pair.                              *)
LEMMA EffectiveFeesLegal ==
    ASSUME TypeOK
    PROVE  EffectiveFees \in LegalFees
BY DEF TypeOK, EffectiveFees

(* The record of an id not yet created is a job record.                     *)
LEMMA BlankJobType == BlankJob \in JobRecord
BY ConstantsAssumption DEF BlankJob, JobRecord, Statuses

(* The deployment satisfies the invariant: no money, no job, legal rates.    *)
LEMMA InitIInv == Init => IInv
PROOF
<1> SUFFICES ASSUME Init PROVE IInv
  OBVIOUS
<1>1. BlankJob \in JobRecord
  BY BlankJobType
<1>2. TypeOK
  <2>1. pendingFees \in LegalFees /\ fees \in LegalFees
    BY ConstantsAssumption DEF Init, LegalFees
  <2>2. platformTreasury \in Accounts /\ whitelistedHooks \in SUBSET (Hooks \cup {NoHook})
    BY ConstantsAssumption DEF Init
  <2> QED BY <1>1, <2>1, <2>2, ConstantsAssumption DEF Init, TypeOK
<1>3. JobsWellFormed
  BY ConstantsAssumption DEF Init, JobsWellFormed, BlankJob
<1>4. Books
  <2>1. HeldByJob = [j \in Jobs |-> 0]
    BY DEF Init, HeldByJob, Held, InEscrow, BlankJob
  <2> QED BY <2>1, TotalZero DEF Init, Books
<1>5. Solvent
  BY DEF Init, Solvent
<1> QED BY <1>2, <1>3, <1>4, <1>5 DEF IInv

(* What an exit from escrow does to the books: the budget leaves the escrows
   for the ledger.                                                          *)
LEMMA RefundKeepsIInv ==
    ASSUME IInv, NEW j \in Jobs, InEscrow(j), NEW status \in {"Rejected", "Expired"},
           Refund(j, status)
    PROVE  IInv'
PROOF
<1> USE DEF IInv
<1>1. /\ jobs' \in [Jobs -> JobRecord]
      /\ \A k \in Jobs : k # j => jobs'[k] = jobs[k]
      /\ jobs[j].budget \in Nat /\ jobs[j].client \in Accounts
      /\ jobs'[j].client = jobs[j].client
      /\ jobs'[j].platformFeeBP = jobs[j].platformFeeBP
      /\ jobs'[j].evaluatorFeeBP = jobs[j].evaluatorFeeBP
      /\ jobs'[j].status = status
  BY DEF Refund, TypeOK, JobRecord, Statuses, JobsWellFormed, InEscrow
<1>2. /\ Total(HeldByJob)' = Total(HeldByJob) - jobs[j].budget
      /\ jobs[j].budget <= Total(HeldByJob)
  BY <1>1, ExitTotal DEF TypeOK, InEscrow
<1>3. /\ withdrawable' \in [Accounts -> Nat]
      /\ Total(withdrawable') = Total(withdrawable) + jobs[j].budget
  <2>1. withdrawable \in [Accounts -> Nat]
    BY DEF TypeOK
  <2>2. withdrawable' = Credit(withdrawable, jobs[j].client, jobs[j].budget)
    BY DEF Refund
  <2> QED BY <1>1, <2>1, <2>2, CreditTotal
<1>4. Books'
  BY <1>2, <1>3 DEF Books, Refund, Total, Coins
<1>5. TypeOK'
  BY <1>1, <1>2, <1>3 DEF Books, Refund, TypeOK, feeVars, LegalFees
<1>6. Solvent'
  BY <1>1, <1>2 DEF Books, Refund, TypeOK, Solvent
<1>7. JobsWellFormed'
  BY <1>1 DEF JobsWellFormed, Refund, InEscrow
<1> QED BY <1>4, <1>5, <1>6, <1>7

(* A settlement: the budget leaves the escrows, and the ledger grows by it.
   `after` is the ledger complete() leaves.                                 *)
LEMMA SettleFacts ==
    ASSUME IInv, NEW j \in Jobs, NEW caller \in Accounts, NEW payee \in Payees,
           NEW bps \in Splits \cup {BPS}, Settle(j, caller, payee, bps),
           UNCHANGED <<now, jobCounter, complianceProofs, feeVars, whitelistedHooks>>
    PROVE  /\ jobs' \in [Jobs -> JobRecord]
           /\ JobsWellFormed'
           /\ Total(HeldByJob)' = Total(HeldByJob) - jobs[j].budget
           /\ jobs[j].budget \in Nat /\ jobs[j].budget <= totalEscrowed
           /\ SharesTotal(Shares(jobs[j], bps)) = jobs[j].budget
           /\ LedgerAfterComplete(j, payee, bps) \in [Accounts -> Nat]
           /\ Total(LedgerAfterComplete(j, payee, bps)) = totalWithdrawable + jobs[j].budget
PROOF
<1> USE DEF IInv
<1>1. /\ jobs \in [Jobs -> JobRecord] /\ jobs[j] \in JobRecord
      /\ jobs[j].client \in Accounts /\ jobs[j].evaluator \in Accounts /\ payee \in Accounts
      /\ jobs[j].platformFeeBP + jobs[j].evaluatorFeeBP <= MaxTotalFeeBP
      /\ withdrawable \in [Accounts -> Nat] /\ platformTreasury \in Accounts
  BY ConstantsAssumption DEF TypeOK, JobsWellFormed, Settle
<1>2. bps \in 0 .. BPS
  <2>1. BPS \in Nat /\ Splits \subseteq Nat
    BY ConstantsAssumption
  <2>2. bps = BPS \/ bps <= BPS
    BY DEF Settle, ResolvesTo
  <2> QED BY <2>1, <2>2
<1>3. /\ jobs' \in [Jobs -> JobRecord]
      /\ \A k \in Jobs : k # j => jobs'[k] = jobs[k]
      /\ jobs'[j].status = "Completed" /\ jobs'[j].client = jobs[j].client
      /\ jobs'[j].platformFeeBP = jobs[j].platformFeeBP
      /\ jobs'[j].evaluatorFeeBP = jobs[j].evaluatorFeeBP
      /\ jobs[j].budget \in Nat /\ InEscrow(j) /\ ~InEscrow(j)'
  BY <1>1, <1>2 DEF Settle, JobRecord, Statuses, InEscrow
<1>4. JobsWellFormed'
  BY <1>1, <1>3 DEF JobsWellFormed, InEscrow
<1>5. /\ Total(HeldByJob)' = Total(HeldByJob) - jobs[j].budget
      /\ jobs[j].budget <= Total(HeldByJob)
  BY <1>1, <1>3, ExitTotal
<1>6. SharesTotal(Shares(jobs[j], bps)) = jobs[j].budget
  BY <1>1, <1>2, SharesAddUp
<1>7. /\ LedgerAfterComplete(j, payee, bps) \in [Accounts -> Nat]
      /\ Total(LedgerAfterComplete(j, payee, bps)) = Total(withdrawable) + jobs[j].budget
  BY <1>1, <1>2, LedgerAfterCompleteTotal
<1> QED BY <1>3, <1>4, <1>5, <1>6, <1>7 DEF Books

(* complete(): the budget becomes four ledger credits, no token moves.       *)
LEMMA CompleteKeepsIInv ==
    ASSUME IInv, NEW j \in Jobs, NEW caller \in Accounts, NEW payee \in Payees,
           NEW bps \in Splits \cup {BPS}, Complete(j, caller, payee, bps)
    PROVE  IInv'
PROOF
<1> DEFINE after == LedgerAfterComplete(j, payee, bps)
<1> USE DEF IInv
<1>1. /\ jobs' \in [Jobs -> JobRecord]
      /\ JobsWellFormed'
      /\ Total(HeldByJob)' = Total(HeldByJob) - jobs[j].budget
      /\ jobs[j].budget \in Nat /\ jobs[j].budget <= totalEscrowed
      /\ SharesTotal(Shares(jobs[j], bps)) = jobs[j].budget
      /\ after \in [Accounts -> Nat]
      /\ Total(after) = totalWithdrawable + jobs[j].budget
  BY SettleFacts DEF Complete
<1>2. /\ withdrawable' = after
      /\ totalEscrowed' = totalEscrowed - jobs[j].budget
      /\ totalWithdrawable' = totalWithdrawable + jobs[j].budget
      /\ balance' = balance
      /\ UNCHANGED <<now, jobCounter, complianceProofs, feeVars, whitelistedHooks>>
  BY <1>1 DEF Complete, Settle
<1> HIDE DEF after
<1>3. TypeOK'
  BY <1>1, <1>2 DEF TypeOK, feeVars, LegalFees
<1>4. Books'
  BY <1>1, <1>2 DEF Books, Total, Coins
<1>5. Solvent'
  BY <1>1, <1>2 DEF Solvent, TypeOK
<1> QED BY <1>1, <1>3, <1>4, <1>5

(* complete() and the evaluator's withdrawal of its whole balance: what
   leaves the ledger leaves the tokens too.                                 *)
LEMMA CompleteAndForwardKeepsIInv ==
    ASSUME IInv, NEW j \in Jobs, NEW caller \in Accounts, NEW to \in Accounts,
           NEW payee \in Payees, NEW bps \in Splits \cup {BPS},
           CompleteAndForward(j, caller, payee, bps, to)
    PROVE  IInv'
PROOF
<1> DEFINE after == LedgerAfterComplete(j, payee, bps)
<1> USE DEF IInv
<1>1. /\ jobs' \in [Jobs -> JobRecord]
      /\ JobsWellFormed'
      /\ Total(HeldByJob)' = Total(HeldByJob) - jobs[j].budget
      /\ jobs[j].budget \in Nat /\ jobs[j].budget <= totalEscrowed
      /\ SharesTotal(Shares(jobs[j], bps)) = jobs[j].budget
      /\ after \in [Accounts -> Nat]
      /\ Total(after) = totalWithdrawable + jobs[j].budget
  BY SettleFacts DEF CompleteAndForward
<1>2. /\ withdrawable' = [after EXCEPT ![caller] = 0]
      /\ totalEscrowed' = totalEscrowed - jobs[j].budget
      /\ totalWithdrawable' = totalWithdrawable + jobs[j].budget - after[caller]
      /\ balance' = balance - after[caller]
      /\ UNCHANGED <<now, jobCounter, complianceProofs, feeVars, whitelistedHooks>>
  BY <1>1 DEF CompleteAndForward, Settle
<1> HIDE DEF after
<1>3. /\ withdrawable' \in [Accounts -> Nat]
      /\ Total(withdrawable') = Total(after) - after[caller]
      /\ after[caller] \in 0 .. Total(after)
  BY <1>1, <1>2, EmptiedTotal
<1>4. totalWithdrawable' = Total(withdrawable')
  BY <1>1, <1>2, <1>3 DEF TypeOK
<1>5. TypeOK'
  BY <1>1, <1>2, <1>3, <1>4 DEF TypeOK, Solvent, feeVars, LegalFees
<1>6. Books'
  BY <1>1, <1>2, <1>3, <1>4 DEF Books, Total, Coins
<1>7. Solvent'
  BY <1>1, <1>2, <1>3, <1>4 DEF Solvent, TypeOK
<1> QED BY <1>1, <1>5, <1>6, <1>7

(* A step that moves no money and no job in or out of escrow.               *)
LEMMA NoMoneyMoves ==
    ASSUME IInv, TypeOK', JobsWellFormed', \A k \in Jobs : Held(k)' = Held(k),
           UNCHANGED bookVars
    PROVE  IInv'
PROOF
<1>1. Total(HeldByJob)' = Total(HeldByJob)
  BY SameTotal
<1>2. Books'
  BY <1>1 DEF IInv, Books, bookVars, Total, Coins
<1>3. Solvent'
  BY DEF IInv, Solvent, bookVars
<1> QED BY <1>2, <1>3 DEF IInv

(* fund(): the budget enters the escrows and the tokens together, and the
   rates it snapshots are legal.                                            *)
LEMMA FundKeepsIInv ==
    ASSUME IInv, NEW j \in Jobs, NEW caller \in Accounts, NEW expectedBudget \in Budgets,
           Fund(j, caller, expectedBudget)
    PROVE  IInv'
PROOF
<1> USE DEF IInv
<1>1. EffectiveFees \in LegalFees
  BY EffectiveFeesLegal
<1>2. /\ EffectiveFees.platform \in 0 .. MaxTotalFeeBP
      /\ EffectiveFees.evaluator \in 0 .. MaxTotalFeeBP
      /\ EffectiveFees.platform + EffectiveFees.evaluator <= MaxTotalFeeBP
  BY <1>1 DEF LegalFees
<1> HIDE DEF EffectiveFees
<1>3. /\ jobs' \in [Jobs -> JobRecord]
      /\ \A k \in Jobs : k # j => jobs'[k] = jobs[k]
      /\ jobs'[j].status = "Funded" /\ jobs'[j].client = jobs[j].client
      /\ jobs'[j].platformFeeBP = EffectiveFees.platform
      /\ jobs'[j].evaluatorFeeBP = EffectiveFees.evaluator
      /\ jobs'[j].budget = jobs[j].budget /\ jobs[j].budget \in Nat
  <2> DEFINE p == EffectiveFees.platform
             e == EffectiveFees.evaluator
  <2>1. p \in 0 .. MaxTotalFeeBP /\ e \in 0 .. MaxTotalFeeBP
    BY <1>2
  <2>2. jobs' = [jobs EXCEPT ![j].status = "Funded", ![j].platformFeeBP = p, ![j].evaluatorFeeBP = e]
    BY DEF Fund
  <2> HIDE DEF p, e
  <2>3. jobs \in [Jobs -> JobRecord]
    BY DEF TypeOK
  <2>4. jobs'[j] = [jobs[j] EXCEPT !.status = "Funded", !.platformFeeBP = p, !.evaluatorFeeBP = e]
    BY <2>2, <2>3
  <2>5. jobs'[j] \in JobRecord
    <3> DEFINE r1 == [jobs[j] EXCEPT !.status = "Funded"]
               r2 == [r1 EXCEPT !.platformFeeBP = p]
    <3>1. r1 \in JobRecord
      BY <2>3 DEF JobRecord, Statuses
    <3>2. jobs'[j] = [r2 EXCEPT !.evaluatorFeeBP = e]
      BY <2>4
    <3> HIDE DEF r1
    <3>3. r2 \in JobRecord
      BY <2>1, <3>1 DEF JobRecord
    <3> HIDE DEF r2
    <3> QED BY <2>1, <3>2, <3>3 DEF JobRecord
  <2>6. /\ jobs'[j].status = "Funded" /\ jobs'[j].client = jobs[j].client
        /\ jobs'[j].platformFeeBP = p /\ jobs'[j].evaluatorFeeBP = e
        /\ jobs'[j].budget = jobs[j].budget /\ jobs[j].budget \in Nat
    BY <2>3, <2>4 DEF JobRecord
  <2>7. jobs' \in [Jobs -> JobRecord] /\ \A k \in Jobs : k # j => jobs'[k] = jobs[k]
    BY <2>2, <2>3, <2>5
  <2> QED BY <2>5, <2>6, <2>7 DEF p, e
<1>4. Total(HeldByJob)' = Total(HeldByJob) + jobs[j].budget
  BY <1>3, EntryTotal DEF TypeOK, Fund, InEscrow
<1>5. TypeOK'
  BY <1>3 DEF Fund, TypeOK, feeVars, LegalFees
<1>6. JobsWellFormed'
  BY <1>2, <1>3 DEF JobsWellFormed, Fund
<1>7. Books'
  BY <1>3, <1>4 DEF Books, Fund, Total, Coins
<1>8. Solvent'
  BY <1>3 DEF Solvent, Fund, TypeOK
<1> QED BY <1>5, <1>6, <1>7, <1>8

(* withdrawTo(): never more than the caller's balance.                      *)
LEMMA WithdrawKeepsIInv ==
    ASSUME IInv, NEW caller \in Accounts, NEW to, NEW amount \in Withdrawals,
           WithdrawTo(caller, to, amount)
    PROVE  IInv'
PROOF
<1> USE DEF IInv
<1>1. amount \in Nat /\ withdrawable \in [Accounts -> Nat] /\ amount <= withdrawable[caller]
  BY ConstantsAssumption DEF TypeOK, WithdrawTo
<1>2. withdrawable' = [withdrawable EXCEPT ![caller] = @ - amount]
  BY DEF WithdrawTo
<1>3. /\ withdrawable' \in [Accounts -> Nat]
      /\ Total(withdrawable') = Total(withdrawable) - amount
      /\ amount <= Total(withdrawable)
  BY <1>1, <1>2, DebitTotal
<1>4. Total(HeldByJob)' = Total(HeldByJob)
  BY SameTotal DEF WithdrawTo, Held, InEscrow
<1>5. /\ totalWithdrawable' = totalWithdrawable - amount /\ totalEscrowed' = totalEscrowed
      /\ balance' \in {balance, balance - amount}
  BY DEF WithdrawTo
<1>6. TypeOK'
  BY <1>1, <1>3, <1>5 DEF TypeOK, WithdrawTo, Books, Solvent, feeVars, LegalFees
<1>7. Books'
  BY <1>1, <1>3, <1>4, <1>5 DEF Books, Total, Coins
<1>8. Solvent'
  BY <1>1, <1>3, <1>5 DEF Solvent, TypeOK
<1>9. JobsWellFormed'
  BY DEF JobsWellFormed, WithdrawTo
<1> QED BY <1>6, <1>7, <1>8, <1>9

(* A new job: parties from the roles, the rest blank.                       *)
LEMMA CreateKeepsIInv ==
    ASSUME IInv, NEW client \in Clients, NEW evaluator \in Evaluators,
           NEW provider \in Providers \cup {NoAccount}, NEW expiredAt \in Deadlines,
           NEW hook \in Hooks \cup {NoHook}, NEW horizon \in Horizons,
           CreateJob(client, provider, evaluator, expiredAt, hook, horizon)
    PROVE  IInv'
PROOF
<1> USE DEF IInv
<1> DEFINE resolves == hook \in ResolvingHooks
           new == [BlankJob EXCEPT !.status = "Open", !.client = client, !.provider = provider,
                                   !.evaluator = evaluator, !.expiredAt = expiredAt, !.hook = hook,
                                   !.hookResolvesPayout = resolves,
                                   !.settlementHorizon = horizon]
<1>1. resolves \in BOOLEAN
  OBVIOUS
<1>2. /\ client \in Accounts /\ evaluator \in Accounts /\ provider \in Accounts \cup {NoAccount}
      /\ expiredAt \in Nat /\ horizon \in Nat
  BY ConstantsAssumption
<1> HIDE DEF resolves
<1>3. new \in JobRecord
  <2> DEFINE r1 == [BlankJob EXCEPT !.status = "Open", !.client = client, !.provider = provider]
             r2 == [r1 EXCEPT !.evaluator = evaluator, !.expiredAt = expiredAt]
             r3 == [r2 EXCEPT !.hook = hook, !.hookResolvesPayout = resolves]
  <2>1. BlankJob \in JobRecord
    BY BlankJobType
  <2>2. r1 \in JobRecord
    BY <1>2, <2>1 DEF JobRecord, Statuses
  <2> HIDE DEF r1
  <2>3. r2 \in JobRecord
    BY <1>2, <2>2 DEF JobRecord
  <2> HIDE DEF r2
  <2>4. r3 \in JobRecord
    BY <1>1, <2>3 DEF JobRecord
  <2>5. new = [r3 EXCEPT !.settlementHorizon = horizon]
    BY DEF r1, r2
  <2> HIDE DEF r3, new
  <2> QED BY <1>2, <2>4, <2>5 DEF JobRecord
<1>4. /\ new.status = "Open" /\ new.client = client
      /\ new.platformFeeBP = 0 /\ new.evaluatorFeeBP = 0
  BY DEF BlankJob
<1> HIDE DEF new
<1>6. jobCounter + 1 \in Jobs /\ jobCounter' = jobCounter + 1 /\ jobCounter' \in 0 .. MaxJobs
  <2>1. jobCounter < MaxJobs /\ jobCounter' = jobCounter + 1
    BY DEF CreateJob
  <2>2. jobCounter \in 0 .. MaxJobs
    BY DEF TypeOK
  <2> QED BY <2>1, <2>2, ConstantsAssumption DEF Jobs
<1>7. jobs' = [jobs EXCEPT ![jobCounter + 1] = new]
  BY DEF CreateJob, new, resolves
<1>8. /\ jobs' \in [Jobs -> JobRecord] /\ jobs'[jobCounter + 1] = new
      /\ \A k \in Jobs : k # jobCounter + 1 => jobs'[k] = jobs[k]
  BY <1>3, <1>6, <1>7 DEF TypeOK
<1>9. TypeOK'
  BY <1>6, <1>8 DEF TypeOK, CreateJob, bookVars, feeVars, LegalFees
<1>10. JobsWellFormed'
  <2>1. 0 + 0 <= MaxTotalFeeBP
    BY ConstantsAssumption
  <2>2. \A k \in Jobs : k # jobCounter + 1 /\ jobs[k].status # "None" => k <= jobCounter'
    BY <1>6 DEF JobsWellFormed, Jobs, TypeOK
  <2>3. jobCounter + 1 <= jobCounter'
    BY <1>6 DEF TypeOK
  <2> QED BY <1>2, <1>4, <1>6, <1>8, <2>1, <2>2, <2>3 DEF JobsWellFormed
<1>11. \A k \in Jobs : Held(k)' = Held(k)
  <2>1. jobs[jobCounter + 1].status = "None"
    BY <1>6 DEF JobsWellFormed, TypeOK
  <2> QED BY <1>4, <1>8, <2>1 DEF Held, InEscrow
<1> QED BY <1>9, <1>10, <1>11, NoMoneyMoves DEF CreateJob

(* An edit of a job that keeps its client, its rates and its escrow.        *)
LEMMA EditKeepsIInv ==
    ASSUME IInv, NEW j \in Jobs, jobs' \in [Jobs -> JobRecord],
           \A k \in Jobs : k # j => jobs'[k] = jobs[k],
           jobs[j].status # "None", jobs'[j].client = jobs[j].client,
           jobs'[j].platformFeeBP = jobs[j].platformFeeBP,
           jobs'[j].evaluatorFeeBP = jobs[j].evaluatorFeeBP,
           Held(j)' = Held(j),
           UNCHANGED <<now, jobCounter, complianceProofs, bookVars, feeVars, whitelistedHooks>>
    PROVE  IInv'
PROOF
<1>1. TypeOK'
  BY DEF IInv, TypeOK, bookVars, feeVars, LegalFees
<1>2. JobsWellFormed'
  BY DEF IInv, JobsWellFormed
<1>3. \A k \in Jobs : Held(k)' = Held(k)
  BY DEF Held, InEscrow
<1> QED BY <1>1, <1>2, <1>3, NoMoneyMoves

(* setProvider() edits an open job.                                         *)
LEMMA SetProviderKeepsIInv ==
    ASSUME IInv, NEW j \in Jobs, NEW caller \in Accounts, NEW provider \in Providers,
           SetProvider(j, caller, provider)
    PROVE  IInv'
PROOF
<1>1. /\ jobs' \in [Jobs -> JobRecord]
      /\ \A k \in Jobs : k # j => jobs'[k] = jobs[k]
      /\ jobs'[j].client = jobs[j].client
      /\ jobs'[j].platformFeeBP = jobs[j].platformFeeBP
      /\ jobs'[j].evaluatorFeeBP = jobs[j].evaluatorFeeBP
      /\ jobs[j].status = "Open" /\ jobs'[j].status = "Open"
  BY ConstantsAssumption DEF SetProvider, IInv, TypeOK, JobRecord, Statuses
<1>2. Held(j)' = Held(j)
  BY <1>1 DEF Held, InEscrow
<1> QED BY <1>1, <1>2, EditKeepsIInv DEF SetProvider

(* setBudget() edits a budget that is not in escrow yet.                    *)
LEMMA SetBudgetKeepsIInv ==
    ASSUME IInv, NEW j \in Jobs, NEW caller \in Accounts, NEW amount \in Budgets,
           SetBudget(j, caller, amount)
    PROVE  IInv'
PROOF
<1>1. /\ jobs' \in [Jobs -> JobRecord]
      /\ \A k \in Jobs : k # j => jobs'[k] = jobs[k]
      /\ jobs'[j].client = jobs[j].client
      /\ jobs'[j].platformFeeBP = jobs[j].platformFeeBP
      /\ jobs'[j].evaluatorFeeBP = jobs[j].evaluatorFeeBP
      /\ jobs[j].status = "Open" /\ jobs'[j].status = "Open"
  BY ConstantsAssumption DEF SetBudget, IInv, TypeOK, JobRecord, Statuses
<1>2. Held(j)' = Held(j)
  BY <1>1 DEF Held, InEscrow
<1> QED BY <1>1, <1>2, EditKeepsIInv DEF SetBudget

(* submit() keeps the job in escrow with the same budget.                   *)
LEMMA SubmitKeepsIInv ==
    ASSUME IInv, NEW j \in Jobs, NEW caller \in Accounts, Submit(j, caller)
    PROVE  IInv'
PROOF
<1>1. /\ jobs' \in [Jobs -> JobRecord]
      /\ \A k \in Jobs : k # j => jobs'[k] = jobs[k]
      /\ jobs'[j].client = jobs[j].client /\ jobs'[j].budget = jobs[j].budget
      /\ jobs'[j].platformFeeBP = jobs[j].platformFeeBP
      /\ jobs'[j].evaluatorFeeBP = jobs[j].evaluatorFeeBP
      /\ jobs[j].status = "Funded" /\ jobs'[j].status = "Submitted"
  <2>1. jobs \in [Jobs -> JobRecord] /\ now \in Nat
    BY DEF IInv, TypeOK
  <2>2. /\ jobs' = [jobs EXCEPT ![j].status = "Submitted", ![j].submittedAt = now]
        /\ jobs[j].status = "Funded"
    BY DEF Submit
  <2> DEFINE r1 == [jobs[j] EXCEPT !.status = "Submitted"]
  <2>3. r1 \in JobRecord
    BY <2>1 DEF JobRecord, Statuses
  <2>4. jobs'[j] = [r1 EXCEPT !.submittedAt = now]
    BY <2>1, <2>2
  <2>5. /\ r1.client = jobs[j].client /\ r1.budget = jobs[j].budget /\ r1.status = "Submitted"
        /\ r1.platformFeeBP = jobs[j].platformFeeBP /\ r1.evaluatorFeeBP = jobs[j].evaluatorFeeBP
    BY <2>1 DEF JobRecord
  <2> HIDE DEF r1
  <2>6. jobs'[j] \in JobRecord
    BY <2>1, <2>3, <2>4 DEF JobRecord
  <2>7. /\ jobs'[j].client = r1.client /\ jobs'[j].budget = r1.budget /\ jobs'[j].status = r1.status
        /\ jobs'[j].platformFeeBP = r1.platformFeeBP /\ jobs'[j].evaluatorFeeBP = r1.evaluatorFeeBP
    BY <2>3, <2>4 DEF JobRecord
  <2>8. jobs' \in [Jobs -> JobRecord] /\ \A k \in Jobs : k # j => jobs'[k] = jobs[k]
    BY <2>1, <2>2, <2>6
  <2> QED BY <2>2, <2>5, <2>7, <2>8
<1>2. Held(j)' = Held(j)
  BY <1>1 DEF Held, InEscrow
<1> QED BY <1>1, <1>2, EditKeepsIInv DEF Submit

(* A client's rejection of its own open job moves no money.                 *)
LEMMA RejectOpenKeepsIInv ==
    ASSUME IInv, NEW j \in Jobs, NEW caller \in Accounts, RejectOpen(j, caller)
    PROVE  IInv'
PROOF
<1>1. /\ jobs' \in [Jobs -> JobRecord]
      /\ \A k \in Jobs : k # j => jobs'[k] = jobs[k]
      /\ jobs'[j].client = jobs[j].client
      /\ jobs'[j].platformFeeBP = jobs[j].platformFeeBP
      /\ jobs'[j].evaluatorFeeBP = jobs[j].evaluatorFeeBP
      /\ jobs[j].status = "Open" /\ jobs'[j].status = "Rejected"
  BY DEF RejectOpen, IInv, TypeOK, JobRecord, Statuses
<1>2. Held(j)' = Held(j)
  BY <1>1 DEF Held, InEscrow
<1> QED BY <1>1, <1>2, EditKeepsIInv DEF RejectOpen

(* setFees() books the rates in force and schedules a legal pair.           *)
LEMMA SetFeesKeepsIInv ==
    ASSUME IInv, NEW f \in FeeChoices, NEW treasury \in Treasuries, SetFees(f, treasury)
    PROVE  IInv'
PROOF
<1>1. EffectiveFees \in LegalFees
  BY EffectiveFeesLegal DEF IInv
<1>2. f \in LegalFees /\ treasury \in Accounts /\ now + FeeNotice \in Nat
  BY ConstantsAssumption DEF IInv, TypeOK
<1> HIDE DEF EffectiveFees
<1>3. TypeOK'
  BY <1>1, <1>2 DEF SetFees, IInv, TypeOK, bookVars, LegalFees
<1>4. JobsWellFormed'
  BY DEF SetFees, IInv, JobsWellFormed
<1>5. \A k \in Jobs : Held(k)' = Held(k)
  BY DEF SetFees, Held, InEscrow
<1> QED BY <1>3, <1>4, <1>5, NoMoneyMoves DEF SetFees

(* setComplianceProof() touches neither jobs nor money.                     *)
LEMMA SetComplianceProofKeepsIInv ==
    ASSUME IInv, NEW j \in Jobs, NEW caller \in Accounts, NEW proof \in Proofs \cup {NoProof},
           SetComplianceProof(j, caller, proof)
    PROVE  IInv'
PROOF
<1>1. TypeOK'
  BY DEF SetComplianceProof, IInv, TypeOK, bookVars, feeVars, LegalFees
<1>2. JobsWellFormed'
  BY DEF SetComplianceProof, IInv, JobsWellFormed
<1>3. \A k \in Jobs : Held(k)' = Held(k)
  BY DEF SetComplianceProof, Held, InEscrow
<1> QED BY <1>1, <1>2, <1>3, NoMoneyMoves DEF SetComplianceProof

(* setHookWhitelist() touches neither jobs nor money.                       *)
LEMMA SetHookWhitelistKeepsIInv ==
    ASSUME IInv, NEW hook \in ToggledHooks, NEW allowed \in BOOLEAN,
           SetHookWhitelist(hook, allowed)
    PROVE  IInv'
PROOF
<1>1. hook \in Hooks \cup {NoHook}
  BY ConstantsAssumption
<1>2. whitelistedHooks' \in SUBSET (Hooks \cup {NoHook})
  BY <1>1 DEF SetHookWhitelist, IInv, TypeOK
<1>3. TypeOK'
  BY <1>2 DEF SetHookWhitelist, IInv, TypeOK, bookVars, feeVars, LegalFees
<1>4. JobsWellFormed'
  BY DEF SetHookWhitelist, IInv, JobsWellFormed
<1>5. \A k \in Jobs : Held(k)' = Held(k)
  BY DEF SetHookWhitelist, Held, InEscrow
<1> QED BY <1>3, <1>4, <1>5, NoMoneyMoves DEF SetHookWhitelist

(* Time passing changes only the clock.                                     *)
LEMMA TickKeepsIInv ==
    ASSUME IInv, Tick
    PROVE  IInv'
PROOF
<1>1. TypeOK'
  BY DEF Tick, IInv, TypeOK, bookVars, feeVars, LegalFees
<1>2. JobsWellFormed'
  BY DEF Tick, IInv, JobsWellFormed
<1>3. \A k \in Jobs : Held(k)' = Held(k)
  BY DEF Tick, Held, InEscrow
<1> QED BY <1>1, <1>2, <1>3, NoMoneyMoves DEF Tick

(* A step that only moves the kernel's own tokens, and keeps what is owed
   covered.                                                                 *)
LEMMA BalanceStepKeepsIInv ==
    ASSUME IInv, balance' \in Nat, balance' >= totalEscrowed + totalWithdrawable,
           UNCHANGED <<now, jobCounter, jobs, complianceProofs, withdrawable, totalWithdrawable,
                       totalEscrowed, feeVars, whitelistedHooks>>
    PROVE  IInv'
PROOF
<1>1. TypeOK'
  BY DEF IInv, TypeOK, feeVars, LegalFees
<1>2. JobsWellFormed'
  BY DEF IInv, JobsWellFormed
<1>3. Total(HeldByJob)' = Total(HeldByJob)
  BY SameTotal DEF Held, InEscrow
<1>4. Books'
  BY <1>3 DEF IInv, Books, Total, Coins
<1>5. Solvent'
  BY DEF Solvent
<1> QED BY <1>1, <1>2, <1>4, <1>5 DEF IInv

(* skim() takes what no escrow and no balance claims, and no more.          *)
LEMMA SkimKeepsIInv ==
    ASSUME IInv, NEW to, Skim(to)
    PROVE  IInv'
PROOF
<1>1. balance \in Nat /\ totalEscrowed \in Nat /\ totalWithdrawable \in Nat
  BY DEF IInv, TypeOK
<1>2. balance' \in {balance, totalWithdrawable + totalEscrowed}
  BY <1>1 DEF Skim, Unaccounted
<1>3. balance' \in Nat /\ balance' >= totalEscrowed + totalWithdrawable
  BY <1>1, <1>2 DEF IInv, Solvent
<1> QED BY <1>3, BalanceStepKeepsIInv DEF Skim

(* A transfer from outside only adds tokens.                                *)
LEMMA DonateKeepsIInv ==
    ASSUME IInv, NEW amount \in Donations, Donate(amount)
    PROVE  IInv'
PROOF
<1>1. /\ balance \in Nat /\ totalEscrowed \in Nat /\ totalWithdrawable \in Nat
      /\ amount \in Nat /\ balance' = balance + amount
  BY ConstantsAssumption DEF IInv, TypeOK, Donate
<1>2. balance' \in Nat /\ balance' >= totalEscrowed + totalWithdrawable
  BY <1>1 DEF IInv, Solvent
<1> QED BY <1>2, BalanceStepKeepsIInv DEF Donate

(* A step that changes nothing.                                             *)
LEMMA StutterKeepsIInv ==
    ASSUME IInv, UNCHANGED vars
    PROVE  IInv'
PROOF
<1>1. balance' \in Nat /\ balance' >= totalEscrowed + totalWithdrawable
  BY DEF IInv, TypeOK, Solvent, vars, bookVars
<1> QED BY <1>1, BalanceStepKeepsIInv DEF vars, bookVars, feeVars

-----------------------------------------------------------------------------

(* The calls on one job, together.                                          *)
LEMMA JobNextKeepsIInv ==
    ASSUME IInv, NEW j \in Jobs, JobNext(j)
    PROVE  IInv'
PROOF
<1>1. CASE \E caller \in Accounts, provider \in Providers : SetProvider(j, caller, provider)
  BY <1>1, SetProviderKeepsIInv
<1>2. CASE \E caller \in Accounts, amount \in Budgets : SetBudget(j, caller, amount)
  BY <1>2, SetBudgetKeepsIInv
<1>3. CASE \E caller \in Accounts, amount \in Budgets : Fund(j, caller, amount)
  BY <1>3, FundKeepsIInv
<1>4. CASE \E caller \in Accounts, proof \in Proofs \cup {NoProof} :
             SetComplianceProof(j, caller, proof)
  BY <1>4, SetComplianceProofKeepsIInv
<1>5. CASE \E caller \in Accounts : Submit(j, caller)
  BY <1>5, SubmitKeepsIInv
<1>6. CASE \E caller \in Accounts, payee \in Payees, bps \in Splits \cup {BPS} :
             Complete(j, caller, payee, bps)
  BY <1>6, CompleteKeepsIInv
<1>7. CASE \E caller, to \in Accounts, payee \in Payees, bps \in Splits \cup {BPS} :
             CompleteAndForward(j, caller, payee, bps, to)
  BY <1>7, CompleteAndForwardKeepsIInv
<1>8. CASE \E caller \in Accounts : RejectOpen(j, caller)
  BY <1>8, RejectOpenKeepsIInv
<1>9. CASE \E caller \in Accounts : Reject(j, caller)
  BY <1>9, RefundKeepsIInv DEF Reject
<1>10. CASE \E answers \in BOOLEAN : ClaimRefund(j, answers)
  BY <1>10, RefundKeepsIInv DEF ClaimRefund
<1> QED BY <1>1, <1>2, <1>3, <1>4, <1>5, <1>6, <1>7, <1>8, <1>9, <1>10 DEF JobNext

(* The invariant survives every transaction of the kernel.                  *)
LEMMA NextKeepsIInv == IInv /\ [Next]_vars => IInv'
PROOF
<1> SUFFICES ASSUME IInv, [Next]_vars PROVE IInv'
  OBVIOUS
<1>1. CASE OwnerNext
  BY <1>1, SetFeesKeepsIInv, SkimKeepsIInv, SetHookWhitelistKeepsIInv DEF OwnerNext
<1>2. CASE CreateNext
  BY <1>2, CreateKeepsIInv DEF CreateNext
<1>3. CASE \E j \in Jobs : JobNext(j)
  BY <1>3, JobNextKeepsIInv
<1>4. CASE WithdrawNext
  BY <1>4, WithdrawKeepsIInv DEF WithdrawNext
<1>5. CASE \E amount \in Donations : Donate(amount)
  BY <1>5, DonateKeepsIInv
<1>6. CASE Tick
  BY <1>6, TickKeepsIInv
<1>7. CASE UNCHANGED vars
  BY <1>7, StutterKeepsIInv
<1> QED BY <1>1, <1>2, <1>3, <1>4, <1>5, <1>6, <1>7 DEF Next

(* The inductive invariant of the kernel holds in every reachable state.    *)
THEOREM IInvHolds == Spec => []IInv
PROOF
<1> QED BY InitIInv, NextKeepsIInv, PTL DEF Spec

(* Every variable of the kernel keeps its shape; in particular no amount,
   total or balance ever goes below zero, which a uint256 could not show.   *)
THEOREM TypeCorrect == Spec => []TypeOK
PROOF
<1>1. IInv => TypeOK
  BY DEF IInv
<1> QED BY <1>1, IInvHolds, PTL

(* totalWithdrawable and totalEscrowed are always the sums they stand for.  *)
THEOREM BooksBalance == Spec => []Books
PROOF
<1>1. IInv => Books
  BY DEF IInv
<1> QED BY <1>1, IInvHolds, PTL

(* The kernel's tokens always cover every escrow and every withdrawable
   balance.                                                                 *)
THEOREM AlwaysSolvent == Spec => []Solvent
PROOF
<1>1. IInv => Solvent
  BY DEF IInv
<1> QED BY <1>1, IInvHolds, PTL

-----------------------------------------------------------------------------
(* What can happen to a job in escrow.                                      *)

(* After any step, a job that is in escrow was just funded, was just
   submitted, or is exactly what it was.                                    *)
LEMMA EscrowStep ==
    ASSUME TypeOK, [Next]_vars, NEW k \in Jobs, InEscrow(k)'
    PROVE  \/ jobs'[k] = jobs[k]
           \/ \E caller \in Accounts : Submit(k, caller)
           \/ \E caller \in Accounts, amount \in Budgets : Fund(k, caller, amount)
PROOF
<1> DEFINE Same == jobs'[k] = jobs[k]
           Goal == \/ Same
                   \/ \E caller \in Accounts : Submit(k, caller)
                   \/ \E caller \in Accounts, amount \in Budgets : Fund(k, caller, amount)
<1>0. jobs \in [Jobs -> JobRecord] /\ jobs'[k].status \in {"Funded", "Submitted"}
  BY DEF TypeOK, InEscrow
<1>1. CASE UNCHANGED jobs
  BY <1>1
<1>2. CASE CreateNext
  <2>1. PICK client \in Clients, evaluator \in Evaluators, provider \in Providers \cup {NoAccount},
             expiredAt \in Deadlines, hook \in Hooks \cup {NoHook}, horizon \in Horizons :
             CreateJob(client, provider, evaluator, expiredAt, hook, horizon)
    BY <1>2 DEF CreateNext
  <2>2. CASE k = jobCounter + 1
    <3>1. jobs'[k].status = "Open"
      BY <1>0, <2>1, <2>2 DEF CreateJob, BlankJob
    <3> QED BY <1>0, <3>1
  <2>3. CASE k # jobCounter + 1
    BY <1>0, <2>1, <2>3 DEF CreateJob
  <2> QED BY <2>2, <2>3
<1>3. ASSUME NEW j \in Jobs, JobNext(j) PROVE Goal
  <2>1. CASE \E caller \in Accounts, provider \in Providers : SetProvider(j, caller, provider)
    <3>1. /\ j # k => Same
          /\ j = k => jobs'[k].status = "Open"
      BY <1>0, <2>1 DEF SetProvider, JobRecord
    <3> QED BY <1>0, <3>1
  <2>2. CASE \E caller \in Accounts, amount \in Budgets : SetBudget(j, caller, amount)
    <3>1. /\ j # k => Same
          /\ j = k => jobs'[k].status = "Open"
      BY <1>0, <2>2 DEF SetBudget, JobRecord
    <3> QED BY <1>0, <3>1
  <2>3. CASE \E caller \in Accounts, amount \in Budgets : Fund(j, caller, amount)
    <3>1. j # k => Same
      BY <1>0, <2>3 DEF Fund
    <3> QED BY <2>3, <3>1
  <2>4. CASE \E caller \in Accounts, proof \in Proofs \cup {NoProof} :
               SetComplianceProof(j, caller, proof)
    BY <2>4 DEF SetComplianceProof
  <2>5. CASE \E caller \in Accounts : Submit(j, caller)
    <3>1. j # k => Same
      BY <1>0, <2>5 DEF Submit
    <3> QED BY <2>5, <3>1
  <2>6. CASE \E caller, payee, bps : Settle(j, caller, payee, bps)
    <3>1. /\ j # k => Same
          /\ j = k => jobs'[k].status = "Completed"
      BY <1>0, <2>6 DEF Settle, JobRecord
    <3> QED BY <1>0, <3>1
  <2>7. CASE \E caller \in Accounts : RejectOpen(j, caller)
    <3>1. /\ j # k => Same
          /\ j = k => jobs'[k].status = "Rejected"
      BY <1>0, <2>7 DEF RejectOpen, JobRecord
    <3> QED BY <1>0, <3>1
  <2>8. CASE \E status \in {"Rejected", "Expired"} : Refund(j, status)
    <3>1. /\ j # k => Same
          /\ j = k => jobs'[k].status \in {"Rejected", "Expired"}
      BY <1>0, <2>8 DEF Refund, JobRecord
    <3> QED BY <1>0, <3>1
  <2> QED
    BY <1>3, <2>1, <2>2, <2>3, <2>4, <2>5, <2>6, <2>7, <2>8
    DEF JobNext, Complete, CompleteAndForward, Reject, ClaimRefund
<1>4. CASE OwnerNext \/ WithdrawNext \/ (\E amount \in Donations : Donate(amount)) \/ Tick
  <2>1. UNCHANGED jobs
    BY <1>4 DEF OwnerNext, SetFees, Skim, SetHookWhitelist, WithdrawNext, WithdrawTo, Donate, Tick
  <2> QED BY <1>1, <2>1
<1>5. CASE UNCHANGED vars
  BY <1>1, <1>5 DEF vars
<1> QED BY <1>2, <1>3, <1>4, <1>5 DEF Next

-----------------------------------------------------------------------------

(* A submission always leaves its evaluator the settlement window before the
   expiry, from the block it is made in to the end.                         *)
THEOREM HorizonAlwaysFits == Spec => []HorizonFits
PROOF
<1>1. Init => HorizonFits
  BY DEF Init, HorizonFits, BlankJob
<1>2. TypeOK /\ HorizonFits /\ [Next]_vars => HorizonFits'
  <2> SUFFICES ASSUME TypeOK, HorizonFits, [Next]_vars, NEW k \in Jobs,
                      jobs'[k].status = "Submitted"
               PROVE  jobs'[k].submittedAt + SettlementWindow(jobs'[k].settlementHorizon)
                        <= jobs'[k].expiredAt
    BY DEF HorizonFits, SettlementWindow
  <2>0. InEscrow(k)' /\ jobs \in [Jobs -> JobRecord]
    BY DEF InEscrow, TypeOK
  <2>1. CASE jobs'[k] = jobs[k]
    BY <2>1 DEF HorizonFits
  <2>2. CASE \E caller \in Accounts : Submit(k, caller)
    <3>1. /\ jobs'[k].submittedAt = now
          /\ jobs'[k].settlementHorizon = jobs[k].settlementHorizon
          /\ jobs'[k].expiredAt = jobs[k].expiredAt
          /\ jobs[k].expiredAt >= now + SettlementWindow(jobs[k].settlementHorizon)
          /\ jobs[k].expiredAt \in Nat /\ jobs[k].settlementHorizon \in Nat /\ now \in Nat
      BY <2>0, <2>2 DEF Submit, RoomToSettle, JobRecord, TypeOK
    <3>2. SettlementWindow(jobs[k].settlementHorizon) \in Nat
      BY <3>1, ConstantsAssumption DEF SettlementWindow
    <3> HIDE DEF SettlementWindow
    <3> QED BY <3>1, <3>2
  <2>3. CASE \E caller \in Accounts, amount \in Budgets : Fund(k, caller, amount)
    <3>1. jobs'[k].status = "Funded"
      BY <2>0, <2>3 DEF Fund, JobRecord
    <3> QED BY <3>1
  <2> QED BY <2>0, <2>1, <2>2, <2>3, EscrowStep
<1> QED BY <1>1, <1>2, TypeCorrect, PTL DEF Spec

(* Between funding and settlement nothing changes the net a job pays out.   *)
THEOREM NetIsKept == Spec => NetIsPromised
PROOF
<1>1. TypeOK /\ [Next]_vars =>
        [\A j \in Jobs : InEscrow(j) /\ InEscrow(j)' => NetPayout(j)' = NetPayout(j)]_vars
  <2> SUFFICES ASSUME TypeOK, [Next]_vars, NEW k \in Jobs, InEscrow(k), InEscrow(k)'
               PROVE  NetPayout(k)' = NetPayout(k)
    OBVIOUS
  <2>0. jobs \in [Jobs -> JobRecord]
    BY DEF TypeOK
  <2>1. /\ jobs'[k].budget = jobs[k].budget
        /\ jobs'[k].platformFeeBP = jobs[k].platformFeeBP
        /\ jobs'[k].evaluatorFeeBP = jobs[k].evaluatorFeeBP
    <3>1. CASE jobs'[k] = jobs[k]
      BY <3>1
    <3>2. CASE \E caller \in Accounts : Submit(k, caller)
      BY <2>0, <3>2 DEF Submit, JobRecord
    <3>3. CASE \E caller \in Accounts, amount \in Budgets : Fund(k, caller, amount)
      BY <3>3 DEF Fund, InEscrow
    <3> QED BY <3>1, <3>2, <3>3, EscrowStep
  <2>2. jobs[k].status # "Open" /\ jobs'[k].status # "Open"
    BY DEF InEscrow
  <2> QED BY <2>1, <2>2 DEF NetPayout, NetOf, Portion, SnapshotFees
<1> QED BY <1>1, TypeCorrect, PTL DEF Spec, NetIsPromised

(* The rates in force move only with the clock, to the announced pair.      *)
THEOREM FeesMoveAsAnnounced == Spec => FeesAreAnnounced
PROOF
<1>1. TypeOK /\ [Next]_vars =>
        [EffectiveFees' # EffectiveFees => now' > now /\ EffectiveFees' = pendingFees]_vars
  <2> SUFFICES ASSUME TypeOK, [Next]_vars, EffectiveFees' # EffectiveFees
               PROVE  now' > now /\ EffectiveFees' = pendingFees
    OBVIOUS
  <2>1. CASE \E f \in FeeChoices, treasury \in Treasuries : SetFees(f, treasury)
    <3>1. /\ fees' = EffectiveFees /\ feesEffectiveFrom' = now + FeeNotice /\ now' = now
      BY <2>1 DEF SetFees
    <3>2. ~(now' >= feesEffectiveFrom')
      BY <3>1, ConstantsAssumption DEF TypeOK
    <3>3. EffectiveFees' = EffectiveFees
      BY <3>1, <3>2 DEF EffectiveFees
    <3> QED BY <3>3
  <2>2. CASE Tick
    <3>1. /\ now' > now /\ now' = now + 1
          /\ fees' = fees /\ pendingFees' = pendingFees /\ feesEffectiveFrom' = feesEffectiveFrom
      BY <2>2 DEF Tick, TypeOK, feeVars
    <3> DEFINE matured == feesEffectiveFrom # 0 /\ now >= feesEffectiveFrom
    <3>2. matured => matured'
      BY <3>1 DEF TypeOK
    <3>3. EffectiveFees = IF matured THEN pendingFees ELSE fees
      BY DEF EffectiveFees
    <3>4. EffectiveFees' = IF matured' THEN pendingFees' ELSE fees'
      BY DEF EffectiveFees
    <3> HIDE DEF matured
    <3> QED BY <3>1, <3>2, <3>3, <3>4
  <2>3. CASE UNCHANGED <<now, feeVars>>
    BY <2>3 DEF EffectiveFees, feeVars
  <2>4. \/ \E f \in FeeChoices, treasury \in Treasuries : SetFees(f, treasury)
        \/ Tick \/ UNCHANGED <<now, feeVars>>
    <3>1. CASE OwnerNext
      BY <3>1 DEF OwnerNext, Skim, SetHookWhitelist
    <3>2. CASE CreateNext
      BY <3>2 DEF CreateNext, CreateJob
    <3>3. ASSUME NEW j \in Jobs, JobNext(j) PROVE UNCHANGED <<now, feeVars>>
      BY <3>3 DEF JobNext, SetProvider, SetBudget, Fund, SetComplianceProof, Submit, Complete,
                  CompleteAndForward, RejectOpen, Reject, ClaimRefund, Refund
    <3>4. CASE WithdrawNext
      BY <3>4 DEF WithdrawNext, WithdrawTo
    <3>5. CASE \E amount \in Donations : Donate(amount)
      BY <3>5 DEF Donate
    <3>6. CASE UNCHANGED vars
      BY <3>6 DEF vars
    <3> QED BY <3>1, <3>2, <3>3, <3>4, <3>5, <3>6 DEF Next
  <2> QED BY <2>1, <2>2, <2>3, <2>4
<1> QED BY <1>1, TypeCorrect, PTL DEF Spec, FeesAreAnnounced

-----------------------------------------------------------------------------
(***************************************************************************)
(* The kernel implements the abstract escrow: a job is a deal that is held *)
(* once and released once, and no transaction of SquareJob.sol moves money *)
(* in any other way.                                                       *)
(***************************************************************************)

(* What a step that takes one job to another phase leaves of the others.    *)
OthersKept(j) == \A k \in Jobs \ {j} : Phase(k)' = Phase(k) /\ Held(k)' = Held(k)

(* A step that moves no job and no money the escrow knows of is a stutter.  *)
Unmoved == \A k \in Jobs : Phase(k)' = Phase(k) /\ Held(k)' = Held(k)

(* A job untouched by a step keeps its phase and what it holds.             *)
LEMMA SameJob ==
    ASSUME NEW k \in Jobs, jobs'[k] = jobs[k]
    PROVE  Phase(k)' = Phase(k) /\ Held(k)' = Held(k)
BY DEF Phase, Held, InEscrow

(* With the jobs unmoved, the abstract phases and holdings are the same.    *)
LEMMA UnmovedMaps ==
    ASSUME Unmoved
    PROVE  UNCHANGED <<[j \in Jobs |-> Phase(j)], HeldByJob>>
BY DEF Unmoved, HeldByJob

(* A funding is a deposit of the job's budget.                              *)
LEMMA DepositMaps ==
    ASSUME NEW j \in Jobs, OthersKept(j), Phase(j) = "new", Phase(j)' = "held",
           Held(j)' \in Nat \ {0}, balance \in Nat, balance' = balance + Held(j)',
           UNCHANGED totalWithdrawable
    PROVE  E!Deposit(j)
PROOF
<1> DEFINE P == [k \in Jobs |-> Phase(k)]
<1>1. P' = [P EXCEPT ![j] = "held"]
  BY DEF OthersKept
<1>2. HeldByJob' = [HeldByJob EXCEPT ![j] = Held(j)']
  BY DEF OthersKept, HeldByJob
<1>3. Held(j)' \in 1 .. balance'
  OBVIOUS
<1>4. P[j] = "new"
  OBVIOUS
<1> QED BY <1>1, <1>2, <1>3, <1>4 DEF E!Deposit

(* An open job that is rejected is a deal abandoned before it was held.     *)
LEMMA AbandonMaps ==
    ASSUME NEW j \in Jobs, OthersKept(j), Phase(j) = "new", Phase(j)' = "closed",
           Held(j)' = Held(j), UNCHANGED <<totalWithdrawable, balance>>
    PROVE  E!Abandon(j)
PROOF
<1> DEFINE P == [k \in Jobs |-> Phase(k)]
<1>1. P' = [P EXCEPT ![j] = "closed"] /\ P[j] = "new"
  BY DEF OthersKept
<1>2. HeldByJob' = HeldByJob
  BY DEF OthersKept, HeldByJob
<1> QED BY <1>1, <1>2 DEF E!Abandon

(* A settlement or a refund releases the budget; `paid` leaves at once.     *)
LEMMA ReleaseMaps ==
    ASSUME NEW j \in Jobs, OthersKept(j), Phase(j) = "held", Phase(j)' = "closed", Held(j)' = 0,
           Held(j) \in Nat, totalWithdrawable \in Nat,
           NEW paid \in 0 .. totalWithdrawable + Held(j),
           totalWithdrawable' = totalWithdrawable + Held(j) - paid, balance' = balance - paid
    PROVE  E!Release(j)
PROOF
<1> DEFINE P == [k \in Jobs |-> Phase(k)]
<1>1. P' = [P EXCEPT ![j] = "closed"] /\ P[j] = "held"
  BY DEF OthersKept
<1>2. HeldByJob' = [HeldByJob EXCEPT ![j] = 0] /\ HeldByJob[j] = Held(j)
  BY DEF OthersKept, HeldByJob
<1> QED BY <1>1, <1>2 DEF E!Release

(* The deployment is an empty escrow.                                       *)
LEMMA InitMaps == Init => E!Init
PROOF
<1> SUFFICES ASSUME Init PROVE E!Init
  OBVIOUS
<1>1. [j \in Jobs |-> Phase(j)] = [j \in Jobs |-> "new"]
  <2>1. \A j \in Jobs : jobs[j].status = "None"
    BY DEF Init, BlankJob
  <2>2. \A j \in Jobs : Phase(j) = "new"
    BY <2>1 DEF Phase, InEscrow
  <2> QED BY <2>2
<1>2. HeldByJob = [j \in Jobs |-> 0]
  BY DEF Init, BlankJob, HeldByJob, Held, InEscrow
<1> QED BY <1>1, <1>2 DEF Init, E!Init

(* createJob takes an id that had no job yet: the deal is as new as before. *)
LEMMA CreateMaps ==
    ASSUME IInv, CreateNext
    PROVE  Unmoved /\ UNCHANGED <<totalWithdrawable, balance>>
PROOF
<1>1. PICK client \in Clients, evaluator \in Evaluators, provider \in Providers \cup {NoAccount},
           expiredAt \in Deadlines, hook \in Hooks \cup {NoHook}, horizon \in Horizons :
           CreateJob(client, provider, evaluator, expiredAt, hook, horizon)
  BY DEF CreateNext
<1>2. jobs \in [Jobs -> JobRecord] /\ jobCounter \in 0 .. MaxJobs /\ jobCounter < MaxJobs
  BY <1>1 DEF IInv, TypeOK, CreateJob
<1>3. PICK fresh \in Jobs : fresh = jobCounter + 1
  BY <1>2, ConstantsAssumption DEF Jobs
<1>4. jobs[fresh].status = "None"
  BY <1>2, <1>3 DEF IInv, JobsWellFormed
<1>5. /\ jobs'[fresh].status = "Open"
      /\ \A k \in Jobs : k # fresh => jobs'[k] = jobs[k]
  BY <1>1, <1>2, <1>3 DEF CreateJob, BlankJob
<1>6. Phase(fresh)' = Phase(fresh) /\ Held(fresh)' = Held(fresh)
  BY <1>4, <1>5 DEF Phase, Held, InEscrow
<1>7. Unmoved
  BY <1>5, <1>6, SameJob DEF Unmoved
<1> QED BY <1>1, <1>7 DEF CreateJob, bookVars

(* A call that ends a job's time in escrow.                                 *)
LEMMA ExitMaps ==
    ASSUME IInv, NEW j \in Jobs, InEscrow(j), ~InEscrow(j)',
           jobs'[j].status \in {"Completed", "Rejected", "Expired"},
           \A k \in Jobs : k # j => jobs'[k] = jobs[k]
    PROVE  /\ OthersKept(j) /\ Phase(j) = "held" /\ Phase(j)' = "closed"
           /\ Held(j)' = 0 /\ Held(j) = jobs[j].budget /\ Held(j) \in Nat
           /\ totalWithdrawable \in Nat /\ balance \in Nat
PROOF
<1>1. jobs[j] \in JobRecord /\ totalWithdrawable \in Nat /\ balance \in Nat
  BY DEF IInv, TypeOK
<1>2. OthersKept(j)
  BY SameJob DEF OthersKept
<1>3. Phase(j) = "held" /\ Phase(j)' = "closed"
  BY DEF Phase, InEscrow
<1>4. Held(j)' = 0 /\ Held(j) = jobs[j].budget
  BY DEF Held
<1> QED BY <1>1, <1>2, <1>3, <1>4 DEF JobRecord

-----------------------------------------------------------------------------
(* What each call on a job is to the escrow.                                *)

(* Naming a provider, setting a budget, binding a proof and submitting move *)
(* nothing: a budget changes only while its job is open.                    *)
LEMMA QuietCallMaps ==
    ASSUME IInv, NEW j \in Jobs,
           \/ \E caller \in Accounts, provider \in Providers : SetProvider(j, caller, provider)
           \/ \E caller \in Accounts, amount \in Budgets : SetBudget(j, caller, amount)
           \/ \E caller \in Accounts, proof \in Proofs \cup {NoProof} :
                 SetComplianceProof(j, caller, proof)
           \/ \E caller \in Accounts : Submit(j, caller)
    PROVE  Unmoved /\ UNCHANGED <<totalWithdrawable, balance>>
PROOF
<1>1. jobs \in [Jobs -> JobRecord]
  BY DEF IInv, TypeOK
<1>2. UNCHANGED <<totalWithdrawable, balance>>
  BY DEF SetProvider, SetBudget, SetComplianceProof, Submit, bookVars
<1>3. \A k \in Jobs : k # j => jobs'[k] = jobs[k]
  BY <1>1 DEF SetProvider, SetBudget, SetComplianceProof, Submit
<1>4. \/ jobs'[j] = jobs[j]
      \/ jobs[j].status = "Open" /\ jobs'[j].status = "Open"
      \/ /\ jobs[j].status = "Funded" /\ jobs'[j].status = "Submitted"
         /\ jobs'[j].budget = jobs[j].budget
  BY <1>1 DEF SetProvider, SetBudget, SetComplianceProof, Submit, JobRecord
<1>5. Phase(j)' = Phase(j) /\ Held(j)' = Held(j)
  BY <1>4 DEF Phase, Held, InEscrow
<1> QED BY <1>2, <1>3, <1>5, SameJob DEF Unmoved

(* fund() holds the budget, which is positive, and takes the tokens for it. *)
LEMMA FundMaps ==
    ASSUME IInv, NEW j \in Jobs, NEW caller \in Accounts, NEW expectedBudget \in Budgets,
           Fund(j, caller, expectedBudget)
    PROVE  E!Deposit(j)
PROOF
<1>1. jobs \in [Jobs -> JobRecord] /\ jobs[j].budget \in Nat /\ balance \in Nat
  BY DEF IInv, TypeOK, JobRecord
<1>2. /\ \A k \in Jobs : k # j => jobs'[k] = jobs[k]
      /\ jobs[j].status = "Open" /\ jobs'[j].status = "Funded"
      /\ jobs'[j].budget = jobs[j].budget /\ jobs[j].budget > 0
      /\ balance' = balance + jobs[j].budget /\ UNCHANGED totalWithdrawable
  BY <1>1 DEF Fund, JobRecord
<1>3. OthersKept(j)
  BY <1>2, SameJob DEF OthersKept
<1>4. Phase(j) = "new" /\ Phase(j)' = "held" /\ Held(j)' = jobs[j].budget
  BY <1>2 DEF Phase, Held, InEscrow
<1> QED BY <1>1, <1>2, <1>3, <1>4, DepositMaps

(* reject() of an open job abandons it.                                     *)
LEMMA RejectOpenMaps ==
    ASSUME IInv, NEW j \in Jobs, NEW caller \in Accounts, RejectOpen(j, caller)
    PROVE  E!Abandon(j)
PROOF
<1>1. jobs \in [Jobs -> JobRecord]
  BY DEF IInv, TypeOK
<1>2. /\ \A k \in Jobs : k # j => jobs'[k] = jobs[k]
      /\ jobs[j].status = "Open" /\ jobs'[j].status = "Rejected"
      /\ UNCHANGED <<totalWithdrawable, balance>>
  BY <1>1 DEF RejectOpen, JobRecord, bookVars
<1>3. OthersKept(j)
  BY <1>2, SameJob DEF OthersKept
<1>4. Phase(j) = "new" /\ Phase(j)' = "closed" /\ Held(j)' = Held(j)
  BY <1>2 DEF Phase, Held, InEscrow
<1> QED BY <1>2, <1>3, <1>4, AbandonMaps

(* reject() and claimRefund() release the whole budget to the ledger.       *)
LEMMA RefundMaps ==
    ASSUME IInv, NEW j \in Jobs, InEscrow(j), NEW status \in {"Rejected", "Expired"},
           Refund(j, status)
    PROVE  E!Release(j)
PROOF
<1>1. jobs \in [Jobs -> JobRecord]
  BY DEF IInv, TypeOK
<1>2. /\ \A k \in Jobs : k # j => jobs'[k] = jobs[k]
      /\ jobs'[j].status = status
      /\ totalWithdrawable' = totalWithdrawable + jobs[j].budget /\ balance' = balance
  BY <1>1 DEF Refund, JobRecord
<1>3. ~InEscrow(j)'
  BY <1>2 DEF InEscrow
<1>4. /\ OthersKept(j) /\ Phase(j) = "held" /\ Phase(j)' = "closed"
      /\ Held(j)' = 0 /\ Held(j) = jobs[j].budget /\ Held(j) \in Nat
      /\ totalWithdrawable \in Nat /\ balance \in Nat
  BY <1>2, <1>3, ExitMaps
<1>5. /\ 0 \in 0 .. totalWithdrawable + Held(j)
      /\ totalWithdrawable' = totalWithdrawable + Held(j) - 0
      /\ balance' = balance - 0
  BY <1>2, <1>4
<1> QED BY <1>4, <1>5, ReleaseMaps

(* What a settlement does to the job and to the deal.                       *)
LEMMA SettleMaps ==
    ASSUME IInv, NEW j \in Jobs, NEW caller, NEW payee, NEW bps, Settle(j, caller, payee, bps)
    PROVE  /\ OthersKept(j) /\ Phase(j) = "held" /\ Phase(j)' = "closed"
           /\ Held(j)' = 0 /\ Held(j) = jobs[j].budget /\ Held(j) \in Nat
           /\ totalWithdrawable \in Nat /\ balance \in Nat
PROOF
<1>1. jobs \in [Jobs -> JobRecord]
  BY DEF IInv, TypeOK
<1>2. /\ \A k \in Jobs : k # j => jobs'[k] = jobs[k]
      /\ jobs[j].status = "Submitted" /\ jobs'[j].status = "Completed"
  BY <1>1 DEF Settle, JobRecord
<1>3. InEscrow(j) /\ ~InEscrow(j)'
  BY <1>2 DEF InEscrow
<1> QED BY <1>2, <1>3, ExitMaps

(* complete() releases the whole budget, however it is divided.             *)
LEMMA CompleteMaps ==
    ASSUME IInv, NEW j \in Jobs, NEW caller \in Accounts, NEW payee \in Payees,
           NEW bps \in Splits \cup {BPS}, Complete(j, caller, payee, bps)
    PROVE  E!Release(j)
PROOF
<1>1. /\ OthersKept(j) /\ Phase(j) = "held" /\ Phase(j)' = "closed"
      /\ Held(j)' = 0 /\ Held(j) = jobs[j].budget /\ Held(j) \in Nat
      /\ totalWithdrawable \in Nat /\ balance \in Nat
  BY SettleMaps DEF Complete
<1>2. SharesTotal(Shares(jobs[j], bps)) = jobs[j].budget
  BY SettleFacts DEF Complete
<1>3. /\ 0 \in 0 .. totalWithdrawable + Held(j)
      /\ totalWithdrawable' = totalWithdrawable + Held(j) - 0
      /\ balance' = balance - 0
  BY <1>1, <1>2 DEF Complete
<1> QED BY <1>1, <1>3, ReleaseMaps

(* The evaluator's complete-and-forward releases the budget and pays out at *)
(* once what the ledger then holds for it, which the ledger covers.         *)
LEMMA CompleteAndForwardMaps ==
    ASSUME IInv, NEW j \in Jobs, NEW caller \in Accounts, NEW to \in Accounts,
           NEW payee \in Payees, NEW bps \in Splits \cup {BPS},
           CompleteAndForward(j, caller, payee, bps, to)
    PROVE  E!Release(j)
PROOF
<1> DEFINE after == LedgerAfterComplete(j, payee, bps)
           paid  == after[caller]
<1>1. /\ OthersKept(j) /\ Phase(j) = "held" /\ Phase(j)' = "closed"
      /\ Held(j)' = 0 /\ Held(j) = jobs[j].budget /\ Held(j) \in Nat
      /\ totalWithdrawable \in Nat /\ balance \in Nat
  BY SettleMaps DEF CompleteAndForward
<1>2. /\ SharesTotal(Shares(jobs[j], bps)) = jobs[j].budget
      /\ after \in [Accounts -> Nat]
      /\ Total(after) = totalWithdrawable + jobs[j].budget
  BY SettleFacts DEF CompleteAndForward
<1>3. /\ totalWithdrawable' = totalWithdrawable + jobs[j].budget - paid
      /\ balance' = balance - paid
  BY <1>2 DEF CompleteAndForward
<1> HIDE DEF after
<1>4. paid \in 0 .. totalWithdrawable + Held(j)
  BY <1>1, <1>2, EmptiedTotal
<1> HIDE DEF paid
<1> QED BY <1>1, <1>3, <1>4, ReleaseMaps

-----------------------------------------------------------------------------
(* The calls that concern no job.                                           *)

(* withdrawTo pays what is owed; to the kernel itself, the tokens stay.     *)
LEMMA WithdrawMaps ==
    ASSUME IInv, WithdrawNext
    PROVE  E!Withdraw \/ (Unmoved /\ UNCHANGED <<totalWithdrawable, balance>>)
PROOF
<1>1. PICK caller \in Accounts, to \in Recipients, amount \in Withdrawals :
             WithdrawTo(caller, to, amount)
  BY DEF WithdrawNext
<1>2. /\ withdrawable \in [Accounts -> Nat] /\ amount \in Nat
      /\ totalWithdrawable = Total(withdrawable) /\ totalWithdrawable \in Nat /\ balance \in Nat
  BY ConstantsAssumption DEF IInv, TypeOK, Books
<1>3. amount <= totalWithdrawable
  BY <1>1, <1>2, DebitTotal DEF WithdrawTo
<1>4. Unmoved
  BY <1>1, SameJob DEF Unmoved, WithdrawTo
<1>5. /\ totalWithdrawable' = totalWithdrawable - amount
      /\ balance' \in {balance, balance - amount}
  BY <1>1 DEF WithdrawTo
<1>6. CASE amount = 0
  BY <1>2, <1>4, <1>5, <1>6
<1>7. CASE amount # 0
  <2>1. amount \in 1 .. totalWithdrawable
    BY <1>2, <1>3, <1>7
  <2> QED BY <1>4, <1>5, <2>1, UnmovedMaps DEF E!Withdraw
<1> QED BY <1>6, <1>7

(* skim() takes only the surplus over escrows and balances.                 *)
LEMMA SkimMaps ==
    ASSUME IInv, NEW to, Skim(to)
    PROVE  E!Skim \/ (Unmoved /\ UNCHANGED <<totalWithdrawable, balance>>)
PROOF
<1>1. /\ balance \in Nat /\ totalEscrowed \in Nat /\ totalWithdrawable \in Nat
      /\ totalEscrowed = Total(HeldByJob)
  BY DEF IInv, TypeOK, Books
<1>2. Unmoved /\ UNCHANGED totalWithdrawable
  BY SameJob DEF Unmoved, Skim
<1>3. \/ balance' = balance
      \/ balance' = totalWithdrawable + totalEscrowed /\ balance' < balance
  BY <1>1 DEF Skim, Unaccounted
<1>4. E!Total(HeldByJob) = Total(HeldByJob)
  BY DEF E!Total, E!Coins, E!Cardinality, Total, Coins, Cardinality
<1> QED BY <1>1, <1>2, <1>3, <1>4, UnmovedMaps DEF E!Skim

(* A transfer from outside is received.                                     *)
LEMMA DonateMaps ==
    ASSUME IInv, NEW amount \in Donations, Donate(amount)
    PROVE  E!Receive \/ (Unmoved /\ UNCHANGED <<totalWithdrawable, balance>>)
PROOF
<1>1. amount \in Nat /\ balance \in Nat /\ balance' = balance + amount
  BY ConstantsAssumption DEF IInv, TypeOK, Donate
<1>2. Unmoved /\ UNCHANGED totalWithdrawable
  BY SameJob DEF Unmoved, Donate
<1>3. balance' > balance \/ balance' = balance
  BY <1>1
<1> QED BY <1>2, <1>3, UnmovedMaps DEF E!Receive

-----------------------------------------------------------------------------

(* Any call on a job is one move of its deal, or none.                      *)
LEMMA JobNextMaps ==
    ASSUME IInv, NEW j \in Jobs, JobNext(j)
    PROVE  \/ E!Deposit(j) \/ E!Abandon(j) \/ E!Release(j)
           \/ Unmoved /\ UNCHANGED <<totalWithdrawable, balance>>
PROOF
<1>1. CASE \/ \E caller \in Accounts, provider \in Providers : SetProvider(j, caller, provider)
           \/ \E caller \in Accounts, amount \in Budgets : SetBudget(j, caller, amount)
           \/ \E caller \in Accounts, proof \in Proofs \cup {NoProof} :
                 SetComplianceProof(j, caller, proof)
           \/ \E caller \in Accounts : Submit(j, caller)
  BY <1>1, QuietCallMaps
<1>2. CASE \E caller \in Accounts, amount \in Budgets : Fund(j, caller, amount)
  BY <1>2, FundMaps
<1>3. CASE \E caller \in Accounts, payee \in Payees, bps \in Splits \cup {BPS} :
             Complete(j, caller, payee, bps)
  BY <1>3, CompleteMaps
<1>4. CASE \E caller, to \in Accounts, payee \in Payees, bps \in Splits \cup {BPS} :
             CompleteAndForward(j, caller, payee, bps, to)
  BY <1>4, CompleteAndForwardMaps
<1>5. CASE \E caller \in Accounts : RejectOpen(j, caller)
  BY <1>5, RejectOpenMaps
<1>6. CASE \E caller \in Accounts : Reject(j, caller)
  BY <1>6, RefundMaps DEF Reject
<1>7. CASE \E answers \in BOOLEAN : ClaimRefund(j, answers)
  BY <1>7, RefundMaps DEF ClaimRefund
<1> QED BY <1>1, <1>2, <1>3, <1>4, <1>5, <1>6, <1>7 DEF JobNext

(* Every transaction of the kernel is a step of the escrow or a stutter.    *)
LEMMA StepMaps ==
    ASSUME IInv, [Next]_vars
    PROVE  \/ E!Next
           \/ UNCHANGED <<[j \in Jobs |-> Phase(j)], HeldByJob, totalWithdrawable, balance>>
PROOF
<1> DEFINE Still == Unmoved /\ UNCHANGED <<totalWithdrawable, balance>>
<1>1. CASE OwnerNext
  <2>1. ASSUME NEW to \in Recipients, Skim(to) PROVE E!Skim \/ Still
    BY <2>1, SkimMaps
  <2>2. ASSUME NEW f \in FeeChoices, NEW treasury \in Treasuries, SetFees(f, treasury)
        PROVE  Still
    BY <2>2, SameJob DEF SetFees, Unmoved, bookVars
  <2>3. ASSUME NEW hook \in ToggledHooks, NEW allowed \in BOOLEAN, SetHookWhitelist(hook, allowed)
        PROVE  Still
    BY <2>3, SameJob DEF SetHookWhitelist, Unmoved, bookVars
  <2>4. E!Skim \/ Still
    BY <1>1, <2>1, <2>2, <2>3 DEF OwnerNext
  <2> QED BY <2>4, UnmovedMaps DEF E!Next
<1>2. CASE CreateNext
  BY <1>2, CreateMaps, UnmovedMaps
<1>3. ASSUME NEW j \in Jobs, JobNext(j)
      PROVE  E!Next \/ Still
  BY <1>3, JobNextMaps DEF E!Next
<1>4. CASE WithdrawNext
  BY <1>4, WithdrawMaps, UnmovedMaps DEF E!Next
<1>5. CASE \E amount \in Donations : Donate(amount)
  BY <1>5, DonateMaps, UnmovedMaps DEF E!Next
<1>6. CASE Tick \/ UNCHANGED vars
  <2>1. Still
    BY <1>6, SameJob DEF Tick, vars, bookVars, Unmoved
  <2> QED BY <2>1, UnmovedMaps
<1>7. CASE \E j \in Jobs : JobNext(j)
  BY <1>3, <1>7, UnmovedMaps
<1> QED BY <1>1, <1>2, <1>4, <1>5, <1>6, <1>7 DEF Next

(* The kernel implements the escrow: whoever evaluates, resolves, disputes  *)
(* or withdraws, and in whatever order, every job's budget is taken in once *)
(* and given up once and whole, only what is owed is withdrawn, and only    *)
(* the surplus can be skimmed.                                              *)
THEOREM ImplementsEscrow == Spec => EscrowSpec
PROOF
<1>1. IInv /\ [Next]_vars =>
        [E!Next]_<<[j \in Jobs |-> Phase(j)], HeldByJob, totalWithdrawable, balance>>
  BY StepMaps
<1> QED BY <1>1, InitMaps, IInvHolds, PTL DEF Spec, EscrowSpec, E!Spec
=============================================================================
