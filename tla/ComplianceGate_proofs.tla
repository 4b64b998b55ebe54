------------------------ MODULE ComplianceGate_proofs ------------------------
(***************************************************************************)
(* Theorems about the compliance gate, for every number of jobs, hooks,    *)
(* modules and proofs, every ceiling, split and fee rate, and every order  *)
(* in which the owners rotate hook, module and registry.                   *)
(***************************************************************************)
EXTENDS ComplianceGate, SquareJob_proofs

-----------------------------------------------------------------------------
(* The inductive invariant.                                                 *)

(* What the gate relies on in the kernel: a job that exists belongs to a
   client of the registry and to a hook, its fee snapshot is within the cap,
   and the next id is free.                                                 *)
KernelFacts ==
    /\ now \in Nat /\ jobCounter \in Nat
    /\ jobs \in [Jobs -> JobRecord]
    /\ complianceProofs \in [Jobs -> Proofs \cup {NoProof}]
    /\ fees \in LegalFees /\ pendingFees \in LegalFees
    /\ \A j \in Jobs :
         /\ jobs[j].status # "None" =>
              jobs[j].client \in Clients /\ jobs[j].hook \in Hooks /\ j <= jobCounter
         /\ jobs[j].platformFeeBP + jobs[j].evaluatorFeeBP <= MaxTotalFeeBP

(* What a gated release that paid leaves behind: a proof of what was paid,
   and its statement on the module's list.                                  *)
PaidByProof(j) ==
    released[j].module # NoModule /\ Paid(j) > 0 =>
        LET proof == complianceProofs[j]
            s     == proof.signals
        IN  /\ proof.verifies /\ s.compliant /\ s.here
            /\ s.recipient = jobs[j].payee /\ s.amount = Paid(j)
            /\ (pinned[j] # NoCommitment => s.policy = pinned[j])
            /\ s \in consumed[released[j].module]

(* No release and no counter belongs to a day that has not come.            *)
DaysPassed ==
    /\ \A j \in Jobs : released[j].day <= Today
    /\ \A c \in Clients : spend[c].day <= Today

GateInv ==
    /\ KernelFacts /\ GateTypeOK
    /\ \A j \in Jobs : PaidByProof(j)
    /\ StatementPaysOnce
    /\ DaysPassed
    /\ PaidIsBooked

(* A step that neither completes a job nor touches a completed one.         *)
CompletedRest ==
    \A k \in Jobs :
        jobs[k].status = "Completed" \/ jobs'[k].status = "Completed" =>
            jobs'[k] = jobs[k] /\ complianceProofs'[k] = complianceProofs[k]

-----------------------------------------------------------------------------
(* Amounts and days.                                                        *)

(* The net of a job out of its open state is an amount, and so is any part. *)
LEMMA AskedType ==
    ASSUME KernelFacts, NEW j \in Jobs, jobs[j].status # "Open", NEW bps \in Nat
    PROVE  NetPayout(j) \in Nat /\ Asked(j, bps) \in Nat
PROOF
<1> DEFINE job == jobs[j]
           P == Portion(job.budget, job.platformFeeBP)
           Q == Portion(job.budget, job.evaluatorFeeBP)
<1>1. job \in JobRecord /\ job.platformFeeBP + job.evaluatorFeeBP <= BPS
  <2>1. job \in JobRecord /\ job.platformFeeBP + job.evaluatorFeeBP <= MaxTotalFeeBP
    BY DEF KernelFacts
  <2> QED BY <2>1, ConstantsAssumption DEF JobRecord
<1>2. /\ job.budget \in Nat /\ job.platformFeeBP \in Nat /\ job.evaluatorFeeBP \in Nat
      /\ job.platformFeeBP \in 0 .. BPS /\ job.evaluatorFeeBP \in 0 .. BPS
  BY <1>1, ConstantsAssumption DEF JobRecord
<1>3. P \in Nat /\ Q \in Nat
  BY <1>2, PortionBounds
<1>4. P + Q <= job.budget
  BY <1>1, <1>2, TwoPortionsFit
<1>5. NetPayout(j) = job.budget - P - Q
  BY DEF NetPayout, NetOf, SnapshotFees
<1>6. NetPayout(j) \in Nat
  <2> HIDE DEF P, Q, job
  <2> QED BY <1>2, <1>3, <1>4, <1>5
<1>7. \A n \in Nat : Portion(n, bps) \in Nat
  <2>1. \A n \in Nat : n * bps \in Nat
    OBVIOUS
  <2>2. \A m \in Nat : m \div BPS \in Nat
    BY ConstantsAssumption
  <2> QED BY <2>1, <2>2 DEF Portion
<1> QED BY <1>6, <1>7 DEF Asked

(* A split of nothing asks nothing.                                         *)
LEMMA NothingAsked ==
    ASSUME KernelFacts, NEW j \in Jobs, jobs[j].status # "Open"
    PROVE  Asked(j, 0) = 0
PROOF
<1>1. NetPayout(j) \in Nat
  BY AskedType
<1>2. \A n \in Nat : Portion(n, 0) = 0
  BY ConstantsAssumption DEF Portion
<1> QED BY <1>1, <1>2 DEF Asked

(* What a job paid is an amount.                                            *)
LEMMA PaidType ==
    ASSUME KernelFacts, NEW j \in Jobs
    PROVE  Paid(j) \in Nat
PROOF
<1>1. CASE jobs[j].status = "Completed"
  <2>1. jobs[j].providerBps \in Nat
    BY ConstantsAssumption DEF KernelFacts, JobRecord
  <2> QED BY <1>1, <2>1, AskedType DEF Paid
<1>2. CASE jobs[j].status # "Completed"
  BY <1>2 DEF Paid
<1> QED BY <1>1, <1>2

(* A completed job whose record rests has paid what it had paid.            *)
LEMMA PaidRests ==
    ASSUME CompletedRest, NEW k \in Jobs
    PROVE  Paid(k)' = Paid(k)
PROOF
<1>1. CASE jobs[k].status = "Completed" \/ jobs'[k].status = "Completed"
  <2>1. jobs'[k] = jobs[k]
    BY <1>1 DEF CompletedRest
  <2>2. jobs[k].status = "Completed"
    BY <1>1, <2>1
  <2>3. NetPayout(k)' = NetPayout(k)
    BY <2>1, <2>2 DEF NetPayout, NetOf, SnapshotFees, Portion
  <2> QED BY <2>1, <2>2, <2>3 DEF Paid, Asked, Portion
<1>2. CASE ~(jobs[k].status = "Completed" \/ jobs'[k].status = "Completed")
  BY <1>2 DEF Paid
<1> QED BY <1>1, <1>2

(* The calendar does not run backwards.                                     *)
LEMMA DaysGrow ==
    ASSUME now \in Nat, now' = now \/ now' = now + 1
    PROVE  Today \in Nat /\ Today' \in Nat /\ Today <= Today'
PROOF
<1>1. \A n \in Nat : n \div DayLength \in Nat /\ n \div DayLength <= (n + 1) \div DayLength
  BY GateAssumption
<1>2. \A n \in Nat : n + 1 \in Nat
  OBVIOUS
<1> QED BY <1>1, <1>2 DEF Today

-----------------------------------------------------------------------------
(* The kernel's steps.                                                      *)

(* A call on a job that neither creates nor completes it.                   *)
LEMMA EditKeepsFacts ==
    ASSUME KernelFacts, NEW j \in Jobs, jobs[j].status \notin {"None", "Completed"},
           jobs' \in [Jobs -> JobRecord], \A k \in Jobs : k # j => jobs'[k] = jobs[k],
           jobs'[j].status # "Completed",
           jobs'[j].client = jobs[j].client, jobs'[j].hook = jobs[j].hook,
           jobs'[j].platformFeeBP + jobs'[j].evaluatorFeeBP <= MaxTotalFeeBP,
           complianceProofs' \in [Jobs -> Proofs \cup {NoProof}],
           \A k \in Jobs : k # j => complianceProofs'[k] = complianceProofs[k],
           UNCHANGED <<now, jobCounter, fees, pendingFees>>
    PROVE  KernelFacts' /\ CompletedRest
PROOF
<1>1. CompletedRest
  BY DEF CompletedRest
<1>2. \A k \in Jobs :
         /\ jobs'[k].status # "None" =>
              jobs'[k].client \in Clients /\ jobs'[k].hook \in Hooks /\ k <= jobCounter
         /\ jobs'[k].platformFeeBP + jobs'[k].evaluatorFeeBP <= MaxTotalFeeBP
  BY DEF KernelFacts
<1> QED BY <1>1, <1>2 DEF KernelFacts

(* createJob(), at the next id, which had no job.                           *)
LEMMA CreateKeepsFacts ==
    ASSUME KernelFacts, NEW client \in Clients, NEW evaluator \in Evaluators,
           NEW provider \in Providers, NEW expiredAt \in Deadlines, NEW hook \in Hooks,
           NEW horizon \in Horizons,
           CreateJob(client, provider, evaluator, expiredAt, hook, horizon)
    PROVE  KernelFacts' /\ CompletedRest
PROOF
<1> DEFINE id == jobCounter + 1
           resolves == hook \in ResolvingHooks
           new == [BlankJob EXCEPT !.status = "Open", !.client = client, !.provider = provider,
                                   !.evaluator = evaluator, !.expiredAt = expiredAt, !.hook = hook,
                                   !.hookResolvesPayout = resolves,
                                   !.settlementHorizon = horizon]
<1>1. id \in Jobs /\ id \in Nat /\ jobCounter \in Nat
  BY ConstantsAssumption DEF CreateJob, Jobs, KernelFacts
<1>2. /\ jobs' = [jobs EXCEPT ![id] = new] /\ jobCounter' = id
      /\ UNCHANGED <<now, complianceProofs, fees, pendingFees>>
  BY DEF CreateJob, feeVars
<1>3. jobs[id].status = "None"
  BY <1>1 DEF KernelFacts
<1>4. BlankJob \in JobRecord
  BY BlankJobType
<1>5. /\ new \in JobRecord
      /\ new.status = "Open" /\ new.client = client /\ new.hook = hook
      /\ new.platformFeeBP = 0 /\ new.evaluatorFeeBP = 0
  <2>1. /\ client \in Accounts /\ provider \in Accounts /\ evaluator \in Accounts
        /\ expiredAt \in Nat /\ horizon \in Nat /\ resolves \in BOOLEAN
    BY ConstantsAssumption
  <2> HIDE DEF resolves
  <2> QED BY <1>4, <2>1 DEF JobRecord, BlankJob, Statuses
<1> HIDE DEF new
<1>6. /\ jobs' \in [Jobs -> JobRecord] /\ jobs'[id] = new
      /\ \A k \in Jobs : k # id => jobs'[k] = jobs[k]
  BY <1>1, <1>2, <1>5 DEF KernelFacts
<1>7. CompletedRest
  BY <1>2, <1>3, <1>5, <1>6 DEF CompletedRest
<1>8. \A k \in Jobs :
         /\ jobs'[k].status # "None" =>
              jobs'[k].client \in Clients /\ jobs'[k].hook \in Hooks /\ k <= jobCounter'
         /\ jobs'[k].platformFeeBP + jobs'[k].evaluatorFeeBP <= MaxTotalFeeBP
  <2> SUFFICES ASSUME NEW k \in Jobs
               PROVE  /\ jobs'[k].status # "None" =>
                           jobs'[k].client \in Clients /\ jobs'[k].hook \in Hooks /\ k <= jobCounter'
                      /\ jobs'[k].platformFeeBP + jobs'[k].evaluatorFeeBP <= MaxTotalFeeBP
    OBVIOUS
  <2>1. CASE k = id
    BY <1>1, <1>2, <1>5, <1>6, <2>1, ConstantsAssumption
  <2>2. CASE k # id
    <3>1. k \in Nat
      BY DEF Jobs
    <3> QED BY <1>1, <1>2, <1>6, <2>2, <3>1 DEF KernelFacts
  <2> QED BY <2>1, <2>2
<1> QED BY <1>1, <1>2, <1>6, <1>7, <1>8 DEF KernelFacts

(* The clock.                                                               *)
LEMMA TickKeepsFacts ==
    ASSUME KernelFacts, Tick
    PROVE  KernelFacts' /\ CompletedRest
PROOF
<1>1. /\ now' = now + 1
      /\ UNCHANGED <<jobCounter, jobs, complianceProofs, fees, pendingFees>>
  BY DEF Tick, feeVars
<1> QED BY <1>1 DEF KernelFacts, CompletedRest

(* The edits and exits of one job; none of them completes it.               *)
LEMMA JobCallsKeepFacts ==
    ASSUME KernelFacts, NEW j \in Jobs, JobCalls(j)
    PROVE  KernelFacts' /\ CompletedRest /\ now' = now
PROOF
<1> USE DEF feeVars
<1>0. /\ jobs \in [Jobs -> JobRecord] /\ jobs[j] \in JobRecord
      /\ complianceProofs \in [Jobs -> Proofs \cup {NoProof}]
      /\ jobs[j].platformFeeBP + jobs[j].evaluatorFeeBP <= MaxTotalFeeBP
      /\ now \in Nat
  BY DEF KernelFacts
<1>1. CASE \E caller \in Accounts, amount \in Budgets : SetBudget(j, caller, amount)
  <2>1. PICK caller \in Accounts, amount \in Budgets : SetBudget(j, caller, amount)
    BY <1>1
  <2>2. /\ jobs[j].status = "Open" /\ jobs' = [jobs EXCEPT ![j].budget = amount]
        /\ UNCHANGED <<now, jobCounter, fees, pendingFees, complianceProofs>>
    BY <2>1 DEF SetBudget
  <2>3. amount \in Nat
    BY ConstantsAssumption
  <2>4. jobs' \in [Jobs -> JobRecord]
    BY <1>0, <2>2, <2>3 DEF JobRecord
  <2>5. /\ jobs'[j].status = "Open" /\ jobs'[j].client = jobs[j].client
        /\ jobs'[j].hook = jobs[j].hook /\ jobs'[j].platformFeeBP = jobs[j].platformFeeBP
        /\ jobs'[j].evaluatorFeeBP = jobs[j].evaluatorFeeBP
        /\ \A k \in Jobs : k # j => jobs'[k] = jobs[k]
    BY <1>0, <2>2 DEF JobRecord
  <2> QED BY <1>0, <2>2, <2>4, <2>5, EditKeepsFacts
<1>2. CASE \E caller \in Accounts, proof \in Proofs : SetComplianceProof(j, caller, proof)
  <2>1. PICK caller \in Accounts, proof \in Proofs : SetComplianceProof(j, caller, proof)
    BY <1>2
  <2>2. /\ jobs[j].status \in {"Funded", "Submitted"}
        /\ complianceProofs' = [complianceProofs EXCEPT ![j] = proof]
        /\ UNCHANGED <<now, jobCounter, fees, pendingFees, jobs>>
    BY <2>1 DEF SetComplianceProof, InEscrow
  <2>3. /\ complianceProofs' \in [Jobs -> Proofs \cup {NoProof}]
        /\ \A k \in Jobs : k # j => complianceProofs'[k] = complianceProofs[k]
    BY <1>0, <2>2
  <2> QED BY <1>0, <2>2, <2>3, EditKeepsFacts
<1>3. CASE \E caller \in Accounts : Submit(j, caller)
  <2>1. /\ jobs[j].status = "Funded"
        /\ jobs' = [jobs EXCEPT ![j].status = "Submitted", ![j].submittedAt = now]
        /\ UNCHANGED <<now, jobCounter, fees, pendingFees, complianceProofs>>
    BY <1>3 DEF Submit
  <2>2. jobs' \in [Jobs -> JobRecord]
    BY <1>0, <2>1 DEF JobRecord, Statuses
  <2>3. /\ jobs'[j].status = "Submitted" /\ jobs'[j].client = jobs[j].client
        /\ jobs'[j].hook = jobs[j].hook /\ jobs'[j].platformFeeBP = jobs[j].platformFeeBP
        /\ jobs'[j].evaluatorFeeBP = jobs[j].evaluatorFeeBP
        /\ \A k \in Jobs : k # j => jobs'[k] = jobs[k]
    BY <1>0, <2>1 DEF JobRecord
  <2> QED BY <1>0, <2>1, <2>2, <2>3, EditKeepsFacts
<1>4. CASE \/ \E caller \in Accounts : RejectOpen(j, caller)
           \/ \E caller \in Accounts : Reject(j, caller)
           \/ ClaimRefund(j, TRUE)
  <2>1. PICK status \in {"Rejected", "Expired"} :
           /\ jobs[j].status \in {"Open", "Funded", "Submitted"}
           /\ jobs' = [jobs EXCEPT ![j].status = status]
           /\ UNCHANGED <<now, jobCounter, fees, pendingFees, complianceProofs>>
    BY <1>4 DEF RejectOpen, Reject, ClaimRefund, Refund, InEscrow
  <2>2. jobs' \in [Jobs -> JobRecord]
    BY <1>0, <2>1 DEF JobRecord, Statuses
  <2>3. /\ jobs'[j].status = status /\ jobs'[j].client = jobs[j].client
        /\ jobs'[j].hook = jobs[j].hook /\ jobs'[j].platformFeeBP = jobs[j].platformFeeBP
        /\ jobs'[j].evaluatorFeeBP = jobs[j].evaluatorFeeBP
        /\ \A k \in Jobs : k # j => jobs'[k] = jobs[k]
    BY <1>0, <2>1 DEF JobRecord
  <2> QED BY <1>0, <2>1, <2>2, <2>3, EditKeepsFacts
<1> QED BY <1>1, <1>2, <1>3, <1>4 DEF JobCalls

(* fund() snapshots a legal pair of rates.                                  *)
LEMMA FundKeepsFacts ==
    ASSUME KernelFacts, NEW j \in Jobs, NEW caller, NEW amount, Fund(j, caller, amount)
    PROVE  KernelFacts' /\ CompletedRest /\ now' = now
PROOF
<1> USE DEF feeVars
<1>1. jobs \in [Jobs -> JobRecord] /\ jobs[j] \in JobRecord
  BY DEF KernelFacts
<1>2. PICK f \in LegalFees :
         /\ jobs[j].status = "Open"
         /\ jobs' = [jobs EXCEPT ![j].status = "Funded", ![j].platformFeeBP = f.platform,
                                 ![j].evaluatorFeeBP = f.evaluator]
         /\ UNCHANGED <<now, jobCounter, fees, pendingFees, complianceProofs>>
  <2>1. EffectiveFees \in LegalFees
    BY DEF KernelFacts, EffectiveFees
  <2> QED BY <2>1 DEF Fund
<1>3. /\ f.platform \in 0 .. MaxTotalFeeBP /\ f.evaluator \in 0 .. MaxTotalFeeBP
      /\ f.platform + f.evaluator <= MaxTotalFeeBP
  BY DEF LegalFees
<1>4. jobs' \in [Jobs -> JobRecord]
  BY <1>1, <1>2, <1>3 DEF JobRecord, Statuses
<1>5. /\ jobs'[j].status = "Funded" /\ jobs'[j].client = jobs[j].client
      /\ jobs'[j].hook = jobs[j].hook /\ jobs'[j].platformFeeBP = f.platform
      /\ jobs'[j].evaluatorFeeBP = f.evaluator
      /\ \A k \in Jobs : k # j => jobs'[k] = jobs[k]
  BY <1>1, <1>2 DEF JobRecord
<1>6. complianceProofs' \in [Jobs -> Proofs \cup {NoProof}]
  BY <1>2 DEF KernelFacts
<1> QED BY <1>2, <1>3, <1>4, <1>5, <1>6, EditKeepsFacts

-----------------------------------------------------------------------------
(* Steps that release nothing.                                              *)

(* What the gate paid for a client today, job by job.                       *)
PaidPart(c) ==
    [j \in Jobs |-> IF /\ released[j].module # NoModule /\ released[j].day = Today
                       /\ jobs[j].client = c
                    THEN Paid(j) ELSE 0]

(* The jobs are the ids up to MaxJobs.                                       *)
LEMMA JobsFinite == IsFiniteSet(Jobs)
BY FS_Interval, ConstantsAssumption DEF Jobs

(* A day's payments are an amount.                                          *)
LEMMA PaidPartType ==
    ASSUME KernelFacts, NEW c
    PROVE  PaidPart(c) \in [Jobs -> Nat] /\ PaidToday(c) \in Nat
PROOF
<1>1. \A j \in Jobs : Paid(j) \in Nat
  BY PaidType
<1>2. PaidPart(c) \in [Jobs -> Nat]
  BY <1>1 DEF PaidPart
<1>3. PaidToday(c) = Total(PaidPart(c))
  BY DEF PaidToday, PaidPart
<1> QED BY <1>2, <1>3, JobsFinite, TotalType

(* While no job completes, a day's payments stay, and midnight clears them. *)
LEMMA PaidTodayRests ==
    ASSUME KernelFacts, KernelFacts', CompletedRest, DaysPassed, GateTypeOK,
           released' = released, now' = now \/ now' = now + 1, NEW c
    PROVE  /\ Today' = Today => PaidToday(c)' = PaidToday(c)
           /\ Today' # Today => PaidToday(c)' = 0
PROOF
<1>1. Today \in Nat /\ Today' \in Nat /\ Today <= Today'
  BY DaysGrow DEF KernelFacts
<1>2. \A k \in Jobs : Paid(k)' = Paid(k)
  BY PaidRests
<1>3. \A k \in Jobs : jobs[k].status # "Completed" => Paid(k) = 0
  BY DEF Paid
<1>4. \A k \in Jobs : jobs[k].status = "Completed" => jobs'[k].client = jobs[k].client
  BY DEF CompletedRest
<1>5. PaidToday(c) = Total(PaidPart(c)) /\ PaidToday(c)' = Total(PaidPart(c)')
  BY DEF PaidToday, PaidPart
<1>6. CASE Today' = Today
  <2>1. PaidPart(c)' = PaidPart(c)
    BY <1>2, <1>3, <1>4, <1>6 DEF PaidPart
  <2> QED BY <1>5, <1>6, <2>1
<1>7. CASE Today' # Today
  <2>1. \A k \in Jobs : released'[k].day # Today'
    <3> SUFFICES ASSUME NEW k \in Jobs PROVE released[k].day # Today'
      OBVIOUS
    <3>1. released[k].day <= Today /\ released[k].day \in Nat
      BY DEF DaysPassed, GateTypeOK
    <3> QED BY <1>1, <1>7, <3>1
  <2>2. PaidPart(c)' = [k \in Jobs |-> 0]
    BY <2>1 DEF PaidPart
  <2> QED BY <1>5, <1>7, <2>2, TotalZero
<1> QED BY <1>6, <1>7

(* A step that releases nothing, writes no proof off and books nothing.     *)
LEMMA QuietStepKeeps ==
    ASSUME GateInv, KernelFacts', GateTypeOK', CompletedRest,
           UNCHANGED <<consumed, spend, released>>,
           \A k \in Jobs : jobs[k].status = "Completed" => pinned'[k] = pinned[k],
           now' = now \/ now' = now + 1
    PROVE  GateInv' /\ \A c \in Clients : ~(PaidToday(c)' > PaidToday(c))
PROOF
<1>1. Today \in Nat /\ Today' \in Nat /\ Today <= Today'
  BY DaysGrow DEF GateInv, KernelFacts
<1>2. \A k \in Jobs : Paid(k)' = Paid(k)
  BY PaidRests
<1>3. \A k \in Jobs : Paid(k) > 0 =>
         /\ jobs'[k] = jobs[k] /\ complianceProofs'[k] = complianceProofs[k]
         /\ pinned'[k] = pinned[k]
  BY DEF Paid, CompletedRest
<1>4. \A j \in Jobs : PaidByProof(j)'
  <2> SUFFICES ASSUME NEW j \in Jobs, released[j].module # NoModule, Paid(j)' > 0
               PROVE  PaidByProof(j)'
    BY DEF PaidByProof
  <2>1. Paid(j) > 0 /\ Paid(j)' = Paid(j)
    BY <1>2
  <2>2. PaidByProof(j)
    BY DEF GateInv
  <2> QED BY <1>3, <2>1, <2>2 DEF PaidByProof
<1>5. StatementPaysOnce'
  <2> SUFFICES ASSUME NEW j \in Jobs, NEW k \in Jobs, j # k,
                      released[j].module = released[k].module, released[j].module # NoModule,
                      Paid(j)' > 0, Paid(k)' > 0
               PROVE  complianceProofs'[j].signals # complianceProofs'[k].signals
    BY DEF StatementPaysOnce
  <2>1. Paid(j) > 0 /\ Paid(k) > 0
    BY <1>2
  <2>2. complianceProofs[j].signals # complianceProofs[k].signals
    BY <2>1 DEF GateInv, StatementPaysOnce
  <2> QED BY <1>3, <2>1, <2>2
<1>6. DaysPassed'
  <2>1. \A j \in Jobs : released[j].day \in Nat /\ released[j].day <= Today
    BY DEF GateInv, DaysPassed, GateTypeOK
  <2>2. \A c \in Clients : spend[c].day \in Nat /\ spend[c].day <= Today
    BY DEF GateInv, DaysPassed, GateTypeOK
  <2>3. \A d \in Nat : d <= Today => d <= Today'
    BY <1>1
  <2> QED BY <2>1, <2>2, <2>3 DEF DaysPassed
<1>7. \A c \in Clients :
         /\ PaidToday(c) \in Nat /\ PaidToday(c) <= SpentToday(c)
         /\ Today' = Today => PaidToday(c)' = PaidToday(c)
         /\ Today' # Today => PaidToday(c)' = 0
  BY PaidPartType, PaidTodayRests DEF GateInv, PaidIsBooked
<1>8. PaidIsBooked'
  <2> SUFFICES ASSUME NEW c \in Clients PROVE PaidToday(c)' <= SpentToday(c)'
    BY DEF PaidIsBooked
  <2>1. CASE Today' = Today
    <3>1. SpentToday(c)' = SpentToday(c)
      BY <2>1 DEF SpentToday
    <3> QED BY <1>7, <2>1, <3>1
  <2>2. CASE Today' # Today
    <3>1. SpentToday(c)' \in Nat
      BY DEF SpentToday, GateTypeOK
    <3> QED BY <1>7, <2>2, <3>1
  <2> QED BY <2>1, <2>2
<1>9. \A c \in Clients : ~(PaidToday(c)' > PaidToday(c))
  <2> SUFFICES ASSUME NEW c \in Clients PROVE ~(PaidToday(c)' > PaidToday(c))
    OBVIOUS
  <2>1. PaidToday(c) \in Nat
    BY <1>7
  <2> QED BY <1>7, <2>1
<1> QED BY <1>4, <1>5, <1>6, <1>8, <1>9 DEF GateInv

-----------------------------------------------------------------------------
(* The release.                                                             *)

(* The kernel's part of complete() on a gated job.                          *)
LEMMA CompleteFacts ==
    ASSUME KernelFacts, GateTypeOK, NEW j \in Jobs, NEW caller, NEW b \in Nat,
           Complete(j, caller, PayeeOf(j), b)
    PROVE  /\ jobs[j].status = "Submitted"
           /\ jobs' \in [Jobs -> JobRecord]
           /\ jobs'[j].status = "Completed" /\ jobs'[j].payee = PayeeOf(j)
           /\ jobs'[j].providerBps = b /\ jobs'[j].budget = jobs[j].budget
           /\ jobs'[j].client = jobs[j].client /\ jobs'[j].hook = jobs[j].hook
           /\ jobs'[j].platformFeeBP = jobs[j].platformFeeBP
           /\ jobs'[j].evaluatorFeeBP = jobs[j].evaluatorFeeBP
           /\ \A k \in Jobs : k # j => jobs'[k] = jobs[k]
           /\ UNCHANGED <<now, jobCounter, complianceProofs, fees, pendingFees>>
PROOF
<1>1. jobs \in [Jobs -> JobRecord] /\ jobs[j] \in JobRecord
  BY DEF KernelFacts
<1>2. /\ jobs[j].status = "Submitted" /\ ResolvesTo(j, PayeeOf(j), b)
      /\ jobs' = [jobs EXCEPT ![j].status = "Completed", ![j].payee = PayeeOf(j),
                              ![j].providerBps = b]
      /\ UNCHANGED <<now, jobCounter, complianceProofs, fees, pendingFees>>
  BY DEF Complete, Settle, feeVars
<1>3. b \in 0 .. BPS
  BY <1>2, ConstantsAssumption DEF ResolvesTo
<1>4. PayeeOf(j) \in Accounts \cup {NoAccount}
  BY <1>1 DEF PayeeOf, GateTypeOK, JobRecord
<1>5. jobs' \in [Jobs -> JobRecord]
  BY <1>1, <1>2, <1>3, <1>4 DEF JobRecord, Statuses
<1>6. /\ jobs'[j].status = "Completed" /\ jobs'[j].payee = PayeeOf(j)
      /\ jobs'[j].providerBps = b /\ jobs'[j].budget = jobs[j].budget
      /\ jobs'[j].client = jobs[j].client /\ jobs'[j].hook = jobs[j].hook
      /\ jobs'[j].platformFeeBP = jobs[j].platformFeeBP
      /\ jobs'[j].evaluatorFeeBP = jobs[j].evaluatorFeeBP
      /\ \A k \in Jobs : k # j => jobs'[k] = jobs[k]
  BY <1>1, <1>2 DEF JobRecord
<1> QED BY <1>2, <1>5, <1>6

(* complete() keeps what the gate relies on.                                *)
LEMMA CompleteKeepsFacts ==
    ASSUME KernelFacts, GateTypeOK, NEW j \in Jobs, NEW caller, NEW b \in Nat,
           Complete(j, caller, PayeeOf(j), b)
    PROVE  KernelFacts'
PROOF
<1>1. /\ jobs[j].status = "Submitted"
      /\ jobs' \in [Jobs -> JobRecord]
      /\ jobs'[j].client = jobs[j].client /\ jobs'[j].hook = jobs[j].hook
      /\ jobs'[j].platformFeeBP = jobs[j].platformFeeBP
      /\ jobs'[j].evaluatorFeeBP = jobs[j].evaluatorFeeBP
      /\ \A k \in Jobs : k # j => jobs'[k] = jobs[k]
      /\ UNCHANGED <<now, jobCounter, complianceProofs, fees, pendingFees>>
  BY CompleteFacts
<1>2. \A k \in Jobs :
         /\ jobs'[k].status # "None" =>
              jobs'[k].client \in Clients /\ jobs'[k].hook \in Hooks /\ k <= jobCounter
         /\ jobs'[k].platformFeeBP + jobs'[k].evaluatorFeeBP <= MaxTotalFeeBP
  BY <1>1 DEF KernelFacts
<1> QED BY <1>1, <1>2 DEF KernelFacts

(* What the completed job has paid: the split resolved for it, of its net.  *)
LEMMA CompletePays ==
    ASSUME KernelFacts, GateTypeOK, NEW j \in Jobs, NEW caller, NEW b \in Nat,
           Complete(j, caller, PayeeOf(j), b)
    PROVE  /\ Paid(j) = 0 /\ Paid(j)' = Asked(j, b)
           /\ \A k \in Jobs : k # j => Paid(k)' = Paid(k)
PROOF
<1>1. /\ jobs[j].status = "Submitted"
      /\ jobs'[j].status = "Completed" /\ jobs'[j].providerBps = b
      /\ jobs'[j].budget = jobs[j].budget
      /\ jobs'[j].platformFeeBP = jobs[j].platformFeeBP
      /\ jobs'[j].evaluatorFeeBP = jobs[j].evaluatorFeeBP
      /\ \A k \in Jobs : k # j => jobs'[k] = jobs[k]
  BY CompleteFacts
<1>4. NetPayout(j)' = NetPayout(j)
  BY <1>1 DEF NetPayout, NetOf, SnapshotFees, Portion
<1>5. Paid(j)' = Asked(j, b)
  BY <1>1, <1>4 DEF Paid, Asked, Portion
<1>6. \A k \in Jobs : k # j => Paid(k)' = Paid(k)
  <2> SUFFICES ASSUME NEW k \in Jobs, k # j PROVE Paid(k)' = Paid(k)
    OBVIOUS
  <2>1. jobs'[k] = jobs[k]
    BY <1>1
  <2>2. CASE jobs[k].status = "Completed"
    <3>1. NetPayout(k)' = NetPayout(k)
      BY <2>1, <2>2 DEF NetPayout, NetOf, SnapshotFees, Portion
    <3> QED BY <2>1, <2>2, <3>1 DEF Paid, Asked, Portion
  <2>3. CASE jobs[k].status # "Completed"
    BY <2>1, <2>3 DEF Paid
  <2> QED BY <2>2, <2>3
<1> QED BY <1>1, <1>5, <1>6 DEF Paid

(* A gated release that pays anything pays what was asked, on a proof that
   verified and was new to its module.                                      *)
LEMMA PaidIsVerified ==
    ASSUME KernelFacts, GateTypeOK, NEW j \in Jobs, NEW caller, NEW bps \in Nat,
           Complete(j, caller, PayeeOf(j), ResolvedSplit(j, bps)),
           Gate(j) # NoModule, Paid(j)' > 0
    PROVE  /\ Verified(Gate(j), j, PayeeOf(j), Asked(j, bps))
           /\ Paid(j)' = Asked(j, bps)
PROOF
<1>1. ResolvedSplit(j, bps) \in Nat
  BY DEF ResolvedSplit
<1>2. jobs[j].status = "Submitted"
  BY DEF Complete, Settle
<1>3. Paid(j)' = Asked(j, ResolvedSplit(j, bps))
  BY <1>1, CompletePays
<1>4. ResolvedSplit(j, bps) # 0
  BY <1>2, <1>3, NothingAsked
<1> QED BY <1>3, <1>4 DEF ResolvedSplit

(* What the check does with the proof: a list only grows, a counter too.    *)
LEMMA CheckReleaseBooks ==
    ASSUME GateTypeOK, NEW j \in Jobs, NEW m \in Modules, NEW payee, NEW amount \in Nat,
           jobs[j].client \in Clients, now \in Nat, now' = now,
           complianceProofs[j] \in Proofs \cup {NoProof},
           CheckRelease(m, j, payee, amount)
    PROVE  /\ consumed' \in [Modules -> SUBSET Statement]
           /\ spend' \in [Clients -> [day : Nat, spent : Nat]]
           /\ \A x \in Modules : consumed[x] \subseteq consumed'[x]
           /\ \A c \in Clients : spend'[c].day = spend[c].day \/ spend'[c].day = Today
           /\ \A c \in Clients : SpentToday(c)' >= SpentToday(c)
           /\ Verified(m, j, payee, amount) =>
                /\ complianceProofs[j].signals \in consumed'[m]
                /\ \A c \in Clients : c = jobs[j].client =>
                     SpentToday(c)' = SpentToday(c) + amount
PROOF
<1> DEFINE c0 == jobs[j].client
           mark == complianceProofs[j].signals
<1>1. /\ Today \in Nat /\ Today' = Today
      /\ \A c \in Clients : SpentToday(c) \in Nat
  <2>1. Today \in Nat /\ Today' = Today
    BY GateAssumption DEF Today
  <2> QED BY <2>1 DEF SpentToday, GateTypeOK
<1>2. /\ consumed \in [Modules -> SUBSET Statement]
      /\ spend \in [Clients -> [day : Nat, spent : Nat]]
  BY DEF GateTypeOK
<1>3. CASE Verified(m, j, payee, amount)
  <2>1. /\ jobs[j].hook = moduleHook[m] /\ m \in spenders
        /\ complianceProofs[j] \in Proofs
    BY <1>3 DEF Verified, Binds
  <2>2. mark \in Statement
    BY <2>1, GateAssumption DEF ProofForm
  <2>3. /\ consumed' = [consumed EXCEPT ![m] = @ \cup {mark}]
        /\ spend' = [spend EXCEPT ![c0] = [day |-> Today, spent |-> SpentToday(c0) + amount]]
    BY <1>3, <2>1 DEF CheckRelease, RecordSpend, MarkOf
  <2>4. /\ consumed' \in [Modules -> SUBSET Statement]
        /\ \A x \in Modules : consumed[x] \subseteq consumed'[x]
        /\ mark \in consumed'[m]
    BY <1>2, <2>2, <2>3
  <2> DEFINE entry == [day |-> Today, spent |-> SpentToday(c0) + amount]
  <2>5. /\ entry \in [day : Nat, spent : Nat]
        /\ entry.day = Today /\ entry.spent = SpentToday(c0) + amount
    BY <1>1
  <2> HIDE DEF entry
  <2>6. /\ spend' \in [Clients -> [day : Nat, spent : Nat]]
        /\ spend'[c0] = entry
        /\ \A c \in Clients : c # c0 => spend'[c] = spend[c]
    BY <1>2, <2>3, <2>5 DEF entry
  <2>7. \A c \in Clients : c = c0 => SpentToday(c)' = SpentToday(c) + amount
    BY <1>1, <2>5, <2>6 DEF SpentToday
  <2>8. \A c \in Clients : c # c0 => SpentToday(c)' = SpentToday(c)
    BY <1>1, <2>6 DEF SpentToday
  <2>9. \A c \in Clients : SpentToday(c)' >= SpentToday(c)
    <3> SUFFICES ASSUME NEW c \in Clients PROVE SpentToday(c)' >= SpentToday(c)
      OBVIOUS
    <3>1. CASE c = c0
      BY <1>1, <2>7, <3>1
    <3>2. CASE c # c0
      BY <1>1, <2>8, <3>2
    <3> QED BY <3>1, <3>2
  <2>10. \A c \in Clients : spend'[c].day = spend[c].day \/ spend'[c].day = Today
    BY <2>5, <2>6
  <2> QED BY <2>4, <2>6, <2>7, <2>9, <2>10
<1>4. CASE ~Verified(m, j, payee, amount)
  <2>1. consumed' = consumed /\ spend' = spend
    BY <1>4 DEF CheckRelease
  <2>2. \A c \in Clients : SpentToday(c)' = SpentToday(c)
    BY <1>1, <2>1 DEF SpentToday
  <2> QED BY <1>1, <1>2, <1>4, <2>1, <2>2
<1> QED BY <1>3, <1>4

(* complete() under the gate, as far as its module and registry go.         *)
LEMMA GatedCompleteBooks ==
    ASSUME KernelFacts, GateTypeOK, NEW j \in Jobs, NEW caller, NEW bps \in Nat,
           GatedComplete(j, caller, bps)
    PROVE  /\ KernelFacts' /\ GateTypeOK' /\ now' = now
           /\ \A x \in Modules : consumed[x] \subseteq consumed'[x]
           /\ \A c \in Clients : spend'[c].day = spend[c].day \/ spend'[c].day = Today
           /\ \A c \in Clients : SpentToday(c)' >= SpentToday(c)
           /\ Gate(j) \in Modules \cup {NoModule}
           /\ Gate(j) # NoModule /\ Verified(Gate(j), j, PayeeOf(j), Asked(j, bps)) =>
                /\ complianceProofs[j].signals \in consumed'[Gate(j)]
                /\ \A c \in Clients : c = jobs[j].client =>
                     SpentToday(c)' = SpentToday(c) + Asked(j, bps)
PROOF
<1>1. ResolvedSplit(j, bps) \in Nat
  BY DEF ResolvedSplit
<1>2. Complete(j, caller, PayeeOf(j), ResolvedSplit(j, bps))
  BY DEF GatedComplete
<1>3. KernelFacts' /\ now' = now /\ jobs[j].status = "Submitted"
  BY <1>1, <1>2, CompleteKeepsFacts, CompleteFacts
<1>4. /\ jobs[j].client \in Clients /\ jobs[j].hook \in Hooks
      /\ complianceProofs[j] \in Proofs \cup {NoProof} /\ now \in Nat
  BY <1>3 DEF KernelFacts
<1>5. Gate(j) \in Modules \cup {NoModule}
  BY <1>4 DEF Gate, GateTypeOK
<1>6. Asked(j, bps) \in Nat
  BY <1>3, AskedType
<1>7. /\ released' = [released EXCEPT ![j] = [module |-> Gate(j), day |-> Today]]
      /\ UNCHANGED <<policies, spenders, moduleHook, tolerance, installed, screens, pinned,
                     soldTo, cleared>>
  BY DEF GatedComplete, hookVars, outsideVars
<1>8. released' \in [Jobs -> [module : Modules \cup {NoModule}, day : Nat]]
  <2>1. Today \in Nat
    BY <1>4, GateAssumption DEF Today
  <2> QED BY <1>5, <1>7, <2>1 DEF GateTypeOK
<1>9. CASE Gate(j) = NoModule
  <2>1. consumed' = consumed /\ spend' = spend
    BY <1>9 DEF GatedComplete
  <2>2. Today' = Today
    BY <1>3 DEF Today
  <2>3. \A c \in Clients : SpentToday(c)' = SpentToday(c) /\ SpentToday(c) \in Nat
    BY <2>1, <2>2 DEF SpentToday, GateTypeOK
  <2>4. GateTypeOK'
    BY <1>7, <1>8, <2>1 DEF GateTypeOK
  <2> QED BY <1>3, <1>5, <1>9, <2>1, <2>3, <2>4
<1>10. CASE Gate(j) # NoModule
  <2>1. Gate(j) \in Modules /\ CheckRelease(Gate(j), j, PayeeOf(j), Asked(j, bps))
    BY <1>5, <1>10 DEF GatedComplete
  <2>2. /\ consumed' \in [Modules -> SUBSET Statement]
        /\ spend' \in [Clients -> [day : Nat, spent : Nat]]
        /\ \A x \in Modules : consumed[x] \subseteq consumed'[x]
        /\ \A c \in Clients : spend'[c].day = spend[c].day \/ spend'[c].day = Today
        /\ \A c \in Clients : SpentToday(c)' >= SpentToday(c)
        /\ Verified(Gate(j), j, PayeeOf(j), Asked(j, bps)) =>
             /\ complianceProofs[j].signals \in consumed'[Gate(j)]
             /\ \A c \in Clients : c = jobs[j].client =>
                  SpentToday(c)' = SpentToday(c) + Asked(j, bps)
    BY <1>3, <1>4, <1>6, <2>1, CheckReleaseBooks
  <2>3. GateTypeOK'
    BY <1>7, <1>8, <2>2 DEF GateTypeOK
  <2> QED BY <1>3, <1>5, <2>2, <2>3
<1> QED BY <1>9, <1>10

(* A release that pays is proved, and on its module's list; the others stay
   so.                                                                      *)
LEMMA GatedCompleteIsProved ==
    ASSUME GateInv, NEW j \in Jobs, NEW caller, NEW bps \in Nat, GatedComplete(j, caller, bps)
    PROVE  (\A k \in Jobs : PaidByProof(k)') /\ StatementPaysOnce'
PROOF
<1>1. KernelFacts /\ GateTypeOK
  BY DEF GateInv
<1>2. /\ \A x \in Modules : consumed[x] \subseteq consumed'[x]
      /\ Gate(j) \in Modules \cup {NoModule}
      /\ Gate(j) # NoModule /\ Verified(Gate(j), j, PayeeOf(j), Asked(j, bps)) =>
           complianceProofs[j].signals \in consumed'[Gate(j)]
  BY <1>1, GatedCompleteBooks
<1>3. /\ ResolvedSplit(j, bps) \in Nat
      /\ Complete(j, caller, PayeeOf(j), ResolvedSplit(j, bps))
  BY DEF GatedComplete, ResolvedSplit
<1>4. /\ \A k \in Jobs : k # j => Paid(k)' = Paid(k) /\ jobs'[k] = jobs[k]
      /\ complianceProofs' = complianceProofs /\ jobs'[j].payee = PayeeOf(j)
  BY <1>1, <1>3, CompletePays, CompleteFacts
<1>5. pinned' = pinned
  BY DEF GatedComplete, hookVars
<1>6. /\ released'[j].module = Gate(j)
      /\ \A k \in Jobs : k # j => released'[k] = released[k]
      /\ \A k \in Jobs : released[k].module \in Modules \cup {NoModule}
  BY <1>1 DEF GatedComplete, GateTypeOK
<1>7. Gate(j) # NoModule /\ Paid(j)' > 0 =>
         /\ Verified(Gate(j), j, PayeeOf(j), Asked(j, bps)) /\ Paid(j)' = Asked(j, bps)
  BY <1>1, <1>3, PaidIsVerified
<1>8. PaidByProof(j)'
  <2> SUFFICES ASSUME Gate(j) # NoModule, Paid(j)' > 0
               PROVE  PaidByProof(j)'
    BY <1>6 DEF PaidByProof
  <2>1. /\ Verified(Gate(j), j, PayeeOf(j), Paid(j)')
        /\ complianceProofs[j].signals \in consumed'[Gate(j)]
    BY <1>2, <1>7
  <2>2. /\ complianceProofs[j].verifies
        /\ Binds(Gate(j), j, PayeeOf(j), Paid(j)', complianceProofs[j].signals)
    BY <2>1 DEF Verified
  <2>3. /\ complianceProofs[j].signals.compliant /\ complianceProofs[j].signals.here
        /\ complianceProofs[j].signals.recipient = jobs'[j].payee
        /\ complianceProofs[j].signals.amount = Paid(j)'
        /\ pinned[j] # NoCommitment => complianceProofs[j].signals.policy = pinned[j]
    BY <1>4, <2>2 DEF Binds, CommitmentFor
  <2> QED BY <1>4, <1>5, <1>6, <2>1, <2>2, <2>3 DEF PaidByProof
<1>9. \A k \in Jobs : k # j => PaidByProof(k)'
  <2> SUFFICES ASSUME NEW k \in Jobs, k # j, released'[k].module # NoModule, Paid(k)' > 0
               PROVE  PaidByProof(k)'
    BY DEF PaidByProof
  <2>1. PaidByProof(k) /\ Paid(k)' = Paid(k) /\ released[k].module \in Modules
    BY <1>4, <1>6 DEF GateInv
  <2> QED BY <1>2, <1>4, <1>5, <1>6, <2>1 DEF PaidByProof
<1>10. \A k \in Jobs : k # j /\ released'[k].module = Gate(j) /\ Gate(j) # NoModule
                         /\ Paid(j)' > 0 /\ Paid(k)' > 0 =>
          complianceProofs[k].signals # complianceProofs[j].signals
  <2> SUFFICES ASSUME NEW k \in Jobs, k # j, released[k].module = Gate(j),
                      Gate(j) # NoModule, Paid(j)' > 0, Paid(k) > 0
               PROVE  complianceProofs[k].signals # complianceProofs[j].signals
    BY <1>4, <1>6
  <2>1. complianceProofs[k].signals \in consumed[Gate(j)]
    BY DEF GateInv, PaidByProof
  <2>2. complianceProofs[j].signals \notin consumed[Gate(j)]
    BY <1>7 DEF Verified, MarkOf
  <2> QED BY <2>1, <2>2
<1>11. StatementPaysOnce'
  <2> SUFFICES ASSUME NEW a \in Jobs, NEW b \in Jobs, a # b,
                      released'[a].module = released'[b].module, released'[a].module # NoModule,
                      Paid(a)' > 0, Paid(b)' > 0
               PROVE  complianceProofs'[a].signals # complianceProofs'[b].signals
    BY DEF StatementPaysOnce
  <2>1. CASE a = j
    BY <1>4, <1>6, <1>10, <2>1
  <2>2. CASE b = j
    BY <1>4, <1>6, <1>10, <2>2
  <2>3. CASE a # j /\ b # j
    BY <1>4, <1>6, <2>3 DEF GateInv, StatementPaysOnce
  <2> QED BY <2>1, <2>2, <2>3
<1> QED BY <1>8, <1>9, <1>11

(* A release books what it pays, and pays within the ceiling.               *)
LEMMA GatedCompleteIsBooked ==
    ASSUME GateInv, NEW j \in Jobs, NEW caller, NEW bps \in Nat, GatedComplete(j, caller, bps)
    PROVE  /\ DaysPassed' /\ PaidIsBooked'
           /\ \A c \in Clients :
                PaidToday(c)' > PaidToday(c) => PaidToday(c)' <= policies[c].dailyLimit
PROOF
<1>1. KernelFacts /\ GateTypeOK /\ PaidIsBooked
  BY DEF GateInv
<1>2. /\ KernelFacts' /\ GateTypeOK' /\ now' = now
      /\ \A c \in Clients : spend'[c].day = spend[c].day \/ spend'[c].day = Today
      /\ \A c \in Clients : SpentToday(c)' >= SpentToday(c)
      /\ Gate(j) # NoModule /\ Verified(Gate(j), j, PayeeOf(j), Asked(j, bps)) =>
           \A c \in Clients : c = jobs[j].client =>
              SpentToday(c)' = SpentToday(c) + Asked(j, bps)
  BY <1>1, GatedCompleteBooks
<1>3. /\ ResolvedSplit(j, bps) \in Nat
      /\ Complete(j, caller, PayeeOf(j), ResolvedSplit(j, bps))
  BY DEF GatedComplete, ResolvedSplit
<1>4. /\ \A k \in Jobs : k # j => Paid(k)' = Paid(k) /\ jobs'[k] = jobs[k]
      /\ Paid(j) = 0 /\ jobs'[j].client = jobs[j].client
  BY <1>1, <1>3, CompletePays, CompleteFacts
<1>5. /\ Gate(j) # NoModule /\ Paid(j)' > 0 =>
         /\ Verified(Gate(j), j, PayeeOf(j), Asked(j, bps)) /\ Paid(j)' = Asked(j, bps)
  BY <1>1, <1>3, PaidIsVerified
<1>6. Today \in Nat /\ Today' = Today
  <2>1. now \in Nat /\ now' = now
    BY <1>1, <1>2 DEF KernelFacts
  <2>2. Today \in Nat
    BY <2>1, GateAssumption DEF Today
  <2> QED BY <2>1, <2>2 DEF Today
<1>7. /\ released'[j].module = Gate(j) /\ released'[j].day = Today
      /\ \A k \in Jobs : k # j => released'[k] = released[k]
  BY <1>1 DEF GatedComplete, GateTypeOK
<1>8. DaysPassed'
  <2>1. \A k \in Jobs : released'[k].day <= Today
    BY <1>6, <1>7 DEF GateInv, DaysPassed
  <2>2. \A c \in Clients : spend'[c].day <= Today
    BY <1>2, <1>6 DEF GateInv, DaysPassed
  <2> QED BY <1>6, <2>1, <2>2 DEF DaysPassed
<1>9. ASSUME NEW c \in Clients
      PROVE  /\ PaidToday(c)' <= SpentToday(c)'
             /\ PaidToday(c)' > PaidToday(c) => PaidToday(c)' <= policies[c].dailyLimit
  <2> DEFINE f == PaidPart(c)
             g == PaidPart(c)'
  <2>1. f \in [Jobs -> Nat] /\ PaidToday(c) \in Nat
    BY <1>1, PaidPartType
  <2>2. f[j] = 0 /\ \A k \in Jobs : k # j => g[k] = f[k]
    BY <1>4, <1>6, <1>7 DEF PaidPart
  <2>3. g[j] = IF Gate(j) # NoModule /\ jobs[j].client = c THEN Paid(j)' ELSE 0
    BY <1>4, <1>6, <1>7 DEF PaidPart
  <2>4. g[j] \in Nat
    <3>1. Paid(j)' = Asked(j, ResolvedSplit(j, bps)) /\ jobs[j].status = "Submitted"
      BY <1>1, <1>3, CompletePays, CompleteFacts
    <3>2. Paid(j)' \in Nat
      BY <1>1, <1>3, <3>1, AskedType
    <3> QED BY <2>3, <3>2
  <2>5. g \in [Jobs -> Nat]
    <3>1. DOMAIN g = Jobs /\ g = [k \in Jobs |-> g[k]]
      BY DEF PaidPart
    <3>2. \A k \in Jobs : g[k] \in Nat
      <4> HIDE DEF f, g
      <4> QED BY <2>1, <2>2, <2>4
    <3> HIDE DEF g
    <3> QED BY <3>1, <3>2
  <2>6. PaidToday(c) = Total(f) /\ PaidToday(c)' = Total(g)
    BY DEF PaidToday, PaidPart
  <2>7. Total(g) + f[j] = Total(f) + g[j]
    <3> HIDE DEF f, g
    <3> QED BY <2>1, <2>2, <2>5, JobsFinite, TotalUpdate
  <2>8. PaidToday(c)' \in Nat
    <3> HIDE DEF f, g
    <3> QED BY <2>5, <2>6, JobsFinite, TotalType
  <2>9. SpentToday(c) \in Nat /\ SpentToday(c)' \in Nat
    BY <1>1, <1>2 DEF SpentToday, GateTypeOK
  <2> HIDE DEF f, g
  <2>10. PaidToday(c)' = PaidToday(c) + g[j] /\ PaidToday(c) <= SpentToday(c)
    BY <1>1, <2>1, <2>2, <2>4, <2>6, <2>7, <2>8 DEF PaidIsBooked
  <2>11. CASE g[j] = 0
    BY <1>2, <2>1, <2>8, <2>9, <2>10, <2>11
  <2>12. CASE g[j] > 0
    <3>1. Gate(j) # NoModule /\ jobs[j].client = c /\ g[j] = Paid(j)' /\ Paid(j)' > 0
      BY <2>3, <2>12
    <3>2. /\ Verified(Gate(j), j, PayeeOf(j), Asked(j, bps)) /\ g[j] = Asked(j, bps)
      BY <1>5, <3>1
    <3>3. SpentToday(c)' = SpentToday(c) + g[j]
      BY <1>2, <3>1, <3>2
    <3>4. SpentToday(c) + g[j] <= policies[c].dailyLimit
      BY <3>1, <3>2 DEF Verified, Binds
    <3>5. policies[c].dailyLimit \in Nat
      BY <1>1 DEF GateTypeOK
    <3> QED BY <2>1, <2>4, <2>9, <2>10, <3>3, <3>4, <3>5
  <2> QED BY <2>4, <2>11, <2>12
<1> QED BY <1>8, <1>9 DEF PaidIsBooked

-----------------------------------------------------------------------------
(* Every step.                                                              *)

(* A step outside the kernel.                                               *)
LEMMA OffKernelRests ==
    ASSUME KernelFacts, UNCHANGED vars
    PROVE  KernelFacts' /\ CompletedRest /\ now' = now
PROOF
<1>1. UNCHANGED <<now, jobCounter, jobs, complianceProofs, fees, pendingFees>>
  BY DEF vars, feeVars
<1> QED BY <1>1 DEF KernelFacts, CompletedRest

(* The deployment satisfies the invariant: nothing released, nothing spent. *)
LEMMA GateStarts == GateInit => GateInv
PROOF
<1> SUFFICES ASSUME GateInit PROVE GateInv
  OBVIOUS
<1>1. /\ now = 1 /\ jobCounter = 0 /\ jobs = [j \in Jobs |-> BlankJob]
      /\ complianceProofs = [j \in Jobs |-> NoProof]
      /\ fees \in LegalFees /\ pendingFees \in LegalFees
  BY ConstantsAssumption DEF GateInit, Init, LegalFees
<1>2. BlankJob \in JobRecord
  BY BlankJobType
<1>3. KernelFacts
  BY <1>1, <1>2, ConstantsAssumption DEF KernelFacts, BlankJob
<1>4. \A j \in Jobs : Paid(j) = 0
  BY <1>1 DEF Paid, BlankJob
<1>5. GateTypeOK
  <2>1. /\ spenders \subseteq Modules
        /\ moduleHook \in [Modules -> Hooks \cup {NoHook}]
        /\ installed \in [Hooks -> Modules \cup {NoModule}]
    BY GateAssumption DEF GateInit, WiredHook, WiredModule
  <2>2. tolerance \in [Modules -> Nat]
    BY GateAssumption DEF GateInit
  <2> QED BY <2>1, <2>2 DEF GateInit, GateTypeOK, NotReleased
<1>6. \A j \in Jobs : PaidByProof(j)
  BY <1>4 DEF PaidByProof
<1>7. StatementPaysOnce
  BY <1>4 DEF StatementPaysOnce
<1>8. Today \in Nat
  BY <1>1, GateAssumption DEF Today
<1>9. DaysPassed
  BY <1>8 DEF GateInit, DaysPassed, NotReleased
<1>10. PaidIsBooked
  <2> SUFFICES ASSUME NEW c \in Clients PROVE PaidToday(c) <= SpentToday(c)
    BY DEF PaidIsBooked
  <2>1. PaidPart(c) = [j \in Jobs |-> 0]
    BY <1>4 DEF PaidPart
  <2>2. PaidToday(c) = 0
    BY <2>1, TotalZero DEF PaidToday, PaidPart
  <2>3. SpentToday(c) \in Nat
    BY <1>5 DEF SpentToday, GateTypeOK
  <2> QED BY <2>2, <2>3
<1> QED BY <1>3, <1>5, <1>6, <1>7, <1>9, <1>10 DEF GateInv

(* What a step must leave behind besides the invariant: no day over its
   ceiling.                                                                 *)
CeilingStep ==
    \A c \in Clients :
        PaidToday(c)' > PaidToday(c) => PaidToday(c)' <= policies[c].dailyLimit

(* The owners and clients, and the contracts outside.                       *)
LEMMA OwnerStepKeeps ==
    ASSUME GateInv,
           \/ GateOwnerCalls
           \/ \E c \in Clients, commitment \in Commitments, limit \in DailyLimits :
                SetPolicy(c, commitment, limit)
           \/ \E a \in Payees : Rescreen(a)
           \/ \E j \in Jobs, buyer \in Resales : Sell(j, buyer)
    PROVE  GateInv' /\ CeilingStep
PROOF
<1>1. UNCHANGED vars /\ UNCHANGED <<consumed, spend, released, pinned>>
  BY DEF GateOwnerCalls, SetSpender, SetHook, SetTimestampTolerance, SetComplianceModule,
         SetScreening, SetPolicy, Rescreen, Sell, registryVars, moduleVars, hookVars, outsideVars
<1>2. KernelFacts' /\ CompletedRest /\ now' = now
  BY <1>1, OffKernelRests DEF GateInv
<1>3. GateTypeOK'
  <2> USE DEF GateTypeOK, GateInv, registryVars, moduleVars, hookVars, outsideVars
  <2>1. CASE \E m \in Rotated, allowed \in BOOLEAN : SetSpender(m, allowed)
    BY <2>1, GateAssumption DEF SetSpender
  <2>2. CASE \E m \in Rotated, hook \in Hooks : SetHook(m, hook)
    BY <2>2, GateAssumption DEF SetHook
  <2>3. CASE \E m \in Rotated, t \in Tolerances : SetTimestampTolerance(m, t)
    BY <2>3, GateAssumption DEF SetTimestampTolerance
  <2>4. CASE \E h \in Hooks, m \in Rotated :
               SetComplianceModule(h, m) \/ SetComplianceModule(h, NoModule)
    BY <2>4, GateAssumption DEF SetComplianceModule
  <2>5. CASE \E h \in Hooks, on \in Screenings : SetScreening(h, on)
    BY <2>5, GateAssumption DEF SetScreening
  <2>6. CASE \E c \in Clients, commitment \in Commitments, limit \in DailyLimits :
               SetPolicy(c, commitment, limit)
    BY <2>6, GateAssumption DEF SetPolicy
  <2>7. CASE \E a \in Payees : Rescreen(a)
    BY <2>7, ConstantsAssumption DEF Rescreen
  <2>8. CASE \E j \in Jobs, buyer \in Resales : Sell(j, buyer)
    BY <2>8, GateAssumption, ConstantsAssumption DEF Sell
  <2> QED BY <2>1, <2>2, <2>3, <2>4, <2>5, <2>6, <2>7, <2>8 DEF GateOwnerCalls
<1> QED BY <1>1, <1>2, <1>3, QuietStepKeeps DEF CeilingStep

(* The kernel's own calls leave the gate alone.                             *)
LEMMA KernelStepKeeps ==
    ASSUME GateInv, KernelCalls \/ \E j \in Jobs : JobCalls(j)
    PROVE  GateInv' /\ CeilingStep
PROOF
<1>1. UNCHANGED OffKernelVars
  BY DEF KernelCalls, JobCalls
<1>2. GateTypeOK' /\ UNCHANGED <<consumed, spend, released, pinned>>
  BY <1>1 DEF GateInv, GateTypeOK, OffKernelVars, registryVars, moduleVars, hookVars, outsideVars
<1>3. KernelFacts' /\ CompletedRest /\ (now' = now \/ now' = now + 1)
  <2>1. KernelFacts
    BY DEF GateInv
  <2>2. CASE \E client \in Clients, evaluator \in Evaluators, provider \in Providers,
               expiredAt \in Deadlines, hook \in Hooks, horizon \in Horizons :
               CreateJob(client, provider, evaluator, expiredAt, hook, horizon)
    <3>1. PICK client \in Clients, evaluator \in Evaluators, provider \in Providers,
               expiredAt \in Deadlines, hook \in Hooks, horizon \in Horizons :
               CreateJob(client, provider, evaluator, expiredAt, hook, horizon)
      BY <2>2
    <3>2. now' = now
      BY <3>1 DEF CreateJob
    <3> QED BY <2>1, <3>1, <3>2, CreateKeepsFacts
  <2>3. CASE Tick
    BY <2>1, <2>3, TickKeepsFacts DEF Tick
  <2>4. CASE \E j \in Jobs : JobCalls(j)
    BY <2>1, <2>4, JobCallsKeepFacts
  <2> QED BY <2>2, <2>3, <2>4 DEF KernelCalls
<1> QED BY <1>2, <1>3, QuietStepKeeps DEF CeilingStep

(* A gated funding pins the commitment of an open job only.                 *)
LEMMA GatedFundKeeps ==
    ASSUME GateInv, NEW j \in Jobs, NEW caller, NEW amount, GatedFund(j, caller, amount)
    PROVE  GateInv' /\ CeilingStep
PROOF
<1>1. KernelFacts /\ GateTypeOK
  BY DEF GateInv
<1>2. Fund(j, caller, amount)
  BY DEF GatedFund
<1>3. KernelFacts' /\ CompletedRest /\ now' = now
  BY <1>1, <1>2, FundKeepsFacts
<1>4. jobs[j].status = "Open" /\ jobs[j].client \in Clients
  BY <1>1, <1>2 DEF Fund, KernelFacts
<1>5. policies[jobs[j].client].commitment \in Commitments \cup {NoCommitment}
  BY <1>1, <1>4 DEF GateTypeOK
<1>6. /\ pinned' \in [Jobs -> Commitments \cup {NoCommitment}]
      /\ \A k \in Jobs : k # j => pinned'[k] = pinned[k]
  <2>1. \/ pinned' = [pinned EXCEPT ![j] = policies[jobs[j].client].commitment]
        \/ pinned' = pinned
    BY DEF GatedFund
  <2> QED BY <1>1, <1>5, <2>1 DEF GateTypeOK
<1>7. GateTypeOK' /\ UNCHANGED <<consumed, spend, released>>
  BY <1>1, <1>6 DEF GatedFund, GateTypeOK, registryVars, moduleVars, outsideVars
<1> QED BY <1>3, <1>4, <1>6, <1>7, QuietStepKeeps DEF CeilingStep

(* Every transaction keeps the invariant, and no release breaks a ceiling.  *)
LEMMA GateStepKeeps == GateInv /\ [GateNext]_gateVars => GateInv' /\ (GateNext => CeilingStep)
PROOF
<1>1. ASSUME GateInv, GateNext PROVE GateInv' /\ CeilingStep
  <2>1. CASE \E j \in Jobs, caller \in Accounts, bps \in Splits \cup {BPS} :
                GatedComplete(j, caller, bps)
    <3>1. PICK j \in Jobs, caller \in Accounts, bps \in Splits \cup {BPS} :
                  GatedComplete(j, caller, bps)
      BY <2>1
    <3>2. bps \in Nat
      BY ConstantsAssumption
    <3>3. KernelFacts' /\ GateTypeOK'
      BY <1>1, <3>1, <3>2, GatedCompleteBooks DEF GateInv
    <3>4. (\A k \in Jobs : PaidByProof(k)') /\ StatementPaysOnce'
      BY <1>1, <3>1, <3>2, GatedCompleteIsProved
    <3>5. DaysPassed' /\ PaidIsBooked' /\ CeilingStep
      BY <1>1, <3>1, <3>2, GatedCompleteIsBooked DEF CeilingStep
    <3> QED BY <3>3, <3>4, <3>5 DEF GateInv
  <2>2. CASE \E j \in Jobs, caller \in Accounts, amount \in Budgets : GatedFund(j, caller, amount)
    BY <1>1, <2>2, GatedFundKeeps
  <2>3. CASE KernelCalls \/ \E j \in Jobs : JobCalls(j)
    BY <1>1, <2>3, KernelStepKeeps
  <2>4. CASE \/ GateOwnerCalls
             \/ \E c \in Clients, commitment \in Commitments, limit \in DailyLimits :
                  SetPolicy(c, commitment, limit)
             \/ \E a \in Payees : Rescreen(a)
             \/ \E j \in Jobs, buyer \in Resales : Sell(j, buyer)
    BY <1>1, <2>4, OwnerStepKeeps
  <2> QED BY <1>1, <2>1, <2>2, <2>3, <2>4 DEF GateNext
<1>2. ASSUME GateInv, UNCHANGED gateVars PROVE GateInv'
  <2>1. UNCHANGED vars /\ UNCHANGED <<policies, spend, spenders, moduleHook, tolerance, consumed,
                                      installed, screens, pinned, soldTo, cleared, released>>
    BY <1>2 DEF gateVars, registryVars, moduleVars, hookVars, outsideVars
  <2>2. KernelFacts' /\ CompletedRest /\ now' = now
    BY <1>2, <2>1, OffKernelRests DEF GateInv
  <2>3. GateTypeOK'
    BY <1>2, <2>1 DEF GateInv, GateTypeOK
  <2> QED BY <1>2, <2>1, <2>2, <2>3, QuietStepKeeps
<1> QED BY <1>1, <1>2

-----------------------------------------------------------------------------
(* The theorems.                                                            *)

(* The inductive invariant of the gate holds in every reachable state.      *)
THEOREM GateInvHolds == GateSpec => []GateInv
PROOF
<1>1. GateInv /\ [GateNext]_gateVars => GateInv'
  BY GateStepKeeps
<1> QED BY <1>1, GateStarts, PTL DEF GateSpec

(* No module pays two jobs on one statement: a proof is used up by what it
   says, in whatever encoding and on whatever day it comes back.            *)
THEOREM StatementsPayOnce == GateSpec => []StatementPaysOnce
PROOF
<1>1. GateInv => StatementPaysOnce
  BY DEF GateInv
<1> QED BY <1>1, GateInvHolds, PTL

(* Whatever the owners rotate, a gated release that paid has a proof of
   exactly this payee, this amount and the policy pinned at funding.        *)
THEOREM PaidIsProved == GateSpec => []PaidAsProved
PROOF
<1>1. GateInv => PaidAsProved
  BY DEF GateInv, PaidByProof, PaidAsProved
<1> QED BY <1>1, GateInvHolds, PTL

(* Whatever the owners rotate, the client's day has every gated payment.    *)
THEOREM PaymentsAreBooked == GateSpec => []PaidIsBooked
PROOF
<1>1. GateInv => PaidIsBooked
  BY DEF GateInv
<1> QED BY <1>1, GateInvHolds, PTL

(* What a client's gated jobs pay on a calendar day never passes the ceiling
   in force at the last payment.                                            *)
THEOREM CeilingIsKept == GateSpec => CeilingHolds
PROOF
<1>1. GateInv /\ [GateNext]_gateVars => [CeilingStep]_gateVars
  BY GateStepKeeps
<1>2. GateSpec => [][CeilingStep]_gateVars
  BY <1>1, GateInvHolds, PTL DEF GateSpec
<1> QED BY <1>2 DEF CeilingHolds, CeilingStep

(* The gate's storage keeps its shape.                                      *)
THEOREM GateTypeCorrect == GateSpec => []GateTypeOK
PROOF
<1>1. GateInv => GateTypeOK
  BY DEF GateInv
<1> QED BY <1>1, GateInvHolds, PTL
-----------------------------------------------------------------------------
(* The gate and the kernel it runs on.                                      *)

(* Whom a release can pay: every job has a provider, and a claim is sold to
   an account that buys claims.                                             *)
PayeesFit ==
    /\ \A j \in Jobs : jobs[j].status # "None" => jobs[j].provider \in Providers
    /\ soldTo \in [Jobs -> Resales \cup {NoAccount}]

(* A call that leaves the providers alone leaves the payees alone, as far as
   the jobs go; an id that had no job keeps having none.                    *)
LEMMA SameProviders ==
    ASSUME PayeesFit, UNCHANGED soldTo,
           \A k \in Jobs : jobs'[k].provider = jobs[k].provider /\
                           (jobs[k].status = "None" => jobs'[k].status = "None")
    PROVE  PayeesFit'
BY DEF PayeesFit

(* The calls on one job, gated or not, keep its provider.                   *)
LEMMA CallsKeepPayees ==
    ASSUME KernelFacts, PayeesFit, NEW j \in Jobs,
           \/ JobCalls(j)
           \/ \E caller \in Accounts, amount \in Budgets : GatedFund(j, caller, amount)
           \/ \E caller \in Accounts, bps \in Splits \cup {BPS} : GatedComplete(j, caller, bps)
    PROVE  PayeesFit'
PROOF
<1>1. jobs \in [Jobs -> JobRecord] /\ jobs[j] \in JobRecord
  BY DEF KernelFacts
<1>2. UNCHANGED soldTo
  BY DEF JobCalls, OffKernelVars, outsideVars, GatedFund, GatedComplete
<1>3. SUFFICES \A k \in Jobs : jobs'[k].provider = jobs[k].provider /\
                               (jobs[k].status = "None" => jobs'[k].status = "None")
  BY <1>2, SameProviders
<1>4. CASE \E caller \in Accounts, amount \in Budgets : SetBudget(j, caller, amount)
  BY <1>1, <1>4 DEF SetBudget, JobRecord
<1>5. CASE \E caller \in Accounts, proof \in Proofs : SetComplianceProof(j, caller, proof)
  BY <1>5 DEF SetComplianceProof
<1>6. CASE \E caller \in Accounts : Submit(j, caller)
  BY <1>1, <1>6 DEF Submit, JobRecord
<1>7. CASE \/ \E caller \in Accounts : RejectOpen(j, caller)
           \/ \E caller \in Accounts : Reject(j, caller)
           \/ ClaimRefund(j, TRUE)
  <2>1. PICK status \in {"Rejected", "Expired"} :
           /\ jobs[j].status \in {"Open", "Funded", "Submitted"}
           /\ jobs' = [jobs EXCEPT ![j].status = status]
    BY <1>7 DEF RejectOpen, Reject, ClaimRefund, Refund, InEscrow
  <2> QED BY <1>1, <2>1 DEF JobRecord
<1>8. CASE \E caller \in Accounts, amount \in Budgets : GatedFund(j, caller, amount)
  <2>1. PICK f : /\ jobs[j].status = "Open"
                 /\ jobs' = [jobs EXCEPT ![j].status = "Funded", ![j].platformFeeBP = f.platform,
                                         ![j].evaluatorFeeBP = f.evaluator]
    BY <1>8 DEF GatedFund, Fund
  <2> QED BY <1>1, <2>1 DEF JobRecord
<1>9. CASE \E caller \in Accounts, bps \in Splits \cup {BPS} : GatedComplete(j, caller, bps)
  <2>1. PICK payee, bps : /\ jobs[j].status = "Submitted"
                          /\ jobs' = [jobs EXCEPT ![j].status = "Completed", ![j].payee = payee,
                                                  ![j].providerBps = bps]
    BY <1>9 DEF GatedComplete, Complete, Settle
  <2> QED BY <1>1, <2>1 DEF JobRecord
<1> QED BY <1>4, <1>5, <1>6, <1>7, <1>8, <1>9 DEF JobCalls

(* A new job comes with a provider.                                         *)
LEMMA CreateKeepsPayees ==
    ASSUME KernelFacts, PayeesFit, UNCHANGED soldTo,
           NEW client, NEW evaluator, NEW provider \in Providers, NEW expiredAt, NEW hook,
           NEW horizon, CreateJob(client, provider, evaluator, expiredAt, hook, horizon)
    PROVE  PayeesFit'
PROOF
<1>1. jobs \in [Jobs -> JobRecord]
  BY DEF KernelFacts
<1>2. /\ jobs'[jobCounter + 1].provider = provider \/ jobCounter + 1 \notin Jobs
      /\ \A k \in Jobs : k # jobCounter + 1 => jobs'[k] = jobs[k]
  BY <1>1 DEF CreateJob, BlankJob
<1> QED BY <1>2 DEF PayeesFit

(* Every step of the gate keeps the payees.                                 *)
LEMMA StepKeepsPayees ==
    ASSUME KernelFacts, PayeesFit, [GateNext]_gateVars
    PROVE  PayeesFit'
PROOF
<1>1. CASE KernelCalls
  <2>1. UNCHANGED soldTo
    BY <1>1 DEF KernelCalls, OffKernelVars, outsideVars
  <2>2. CASE Tick
    BY <2>1, <2>2 DEF Tick, PayeesFit
  <2> QED BY <1>1, <2>1, <2>2, CreateKeepsPayees DEF KernelCalls
<1>2. CASE \E j \in Jobs :
             \/ JobCalls(j)
             \/ \E caller \in Accounts, amount \in Budgets : GatedFund(j, caller, amount)
             \/ \E caller \in Accounts, bps \in Splits \cup {BPS} : GatedComplete(j, caller, bps)
  BY <1>2, CallsKeepPayees
<1>3. CASE \E j \in Jobs, buyer \in Resales : Sell(j, buyer)
  BY <1>3 DEF Sell, PayeesFit, vars
<1>4. CASE \/ GateOwnerCalls
           \/ \E c \in Clients, commitment \in Commitments, limit \in DailyLimits :
                SetPolicy(c, commitment, limit)
           \/ \E a \in Payees : Rescreen(a)
           \/ UNCHANGED gateVars
  <2>1. UNCHANGED <<jobs, soldTo>>
    BY <1>4 DEF GateOwnerCalls, SetSpender, SetHook, SetTimestampTolerance, SetComplianceModule,
                SetScreening, SetPolicy, Rescreen, gateVars, vars, outsideVars
  <2> QED BY <2>1 DEF PayeesFit
<1> QED BY <1>1, <1>2, <1>3, <1>4 DEF GateNext

(* Every step of the gate is a transaction of the kernel, or none: a release
   is a completion with a payee and a split a resolver may answer.          *)
LEMMA GateStepIsKernelStep ==
    ASSUME KernelFacts, PayeesFit, [GateNext]_gateVars
    PROVE  [Next]_vars
PROOF
<1>1. CASE KernelCalls
  <2>1. CASE Tick
    BY <2>1 DEF Next
  <2>2. CASE \E client \in Clients, evaluator \in Evaluators, provider \in Providers,
                expiredAt \in Deadlines, hook \in Hooks, horizon \in Horizons :
                CreateJob(client, provider, evaluator, expiredAt, hook, horizon)
    BY <2>2 DEF Next, CreateNext
  <2> QED BY <1>1, <2>1, <2>2 DEF KernelCalls
<1>2. ASSUME NEW j \in Jobs, JobCalls(j) PROVE Next
  <2>1. JobNext(j)
    BY <1>2 DEF JobCalls, JobNext
  <2> QED BY <2>1 DEF Next
<1>3. ASSUME NEW j \in Jobs, NEW caller \in Accounts, NEW amount \in Budgets,
             GatedFund(j, caller, amount)
      PROVE  Next
  <2>1. Fund(j, caller, amount)
    BY <1>3 DEF GatedFund
  <2>2. JobNext(j)
    BY <2>1 DEF JobNext
  <2> QED BY <2>2 DEF Next
<1>4. ASSUME NEW j \in Jobs, NEW caller \in Accounts, NEW bps \in Splits \cup {BPS},
             GatedComplete(j, caller, bps)
      PROVE  Next
  <2>1. Complete(j, caller, PayeeOf(j), ResolvedSplit(j, bps))
    BY <1>4 DEF GatedComplete
  <2>2. jobs[j].status # "None"
    BY <2>1 DEF Complete, Settle
  <2>3. PayeeOf(j) \in Payees
    BY <2>2, ConstantsAssumption, GateAssumption DEF PayeesFit, PayeeOf
  <2>4. ResolvedSplit(j, bps) \in Splits \cup {BPS}
    BY GateAssumption DEF ResolvedSplit
  <2>5. JobNext(j)
    BY <2>1, <2>3, <2>4 DEF JobNext
  <2> QED BY <2>5 DEF Next
<1>5. CASE \/ GateOwnerCalls
           \/ \E c \in Clients, commitment \in Commitments, limit \in DailyLimits :
                SetPolicy(c, commitment, limit)
           \/ \E a \in Payees : Rescreen(a)
           \/ \E j \in Jobs, buyer \in Resales : Sell(j, buyer)
           \/ UNCHANGED gateVars
  BY <1>5 DEF GateOwnerCalls, SetSpender, SetHook, SetTimestampTolerance, SetComplianceModule,
              SetScreening, SetPolicy, Rescreen, Sell, gateVars
<1> QED BY <1>1, <1>2, <1>3, <1>4, <1>5 DEF GateNext

(* The gate refines the kernel: whatever policies, proofs, screening and
   rotations do to a release, the kernel offers to any evaluator and hook.  *)
THEOREM GateRunsTheKernel == GateSpec => Spec
PROOF
<1>1. GateInit => Init /\ PayeesFit
  BY DEF GateInit, Init, PayeesFit, BlankJob
<1>2. GateInv => KernelFacts
  BY DEF GateInv
<1>3. KernelFacts /\ PayeesFit /\ [GateNext]_gateVars => PayeesFit'
  BY StepKeepsPayees
<1>4. KernelFacts /\ PayeesFit /\ [GateNext]_gateVars => [Next]_vars
  BY GateStepIsKernelStep
<1> QED BY <1>1, <1>2, <1>3, <1>4, GateInvHolds, PTL DEF GateSpec, Spec

(* Under the gate too every budget is taken in once and given up once and
   whole, and the kernel's tokens cover what it owes: a release that is
   refused, unbooked or sold moves money, and loses none.                   *)
THEOREM GateKeepsTheEscrow == GateSpec => EscrowSpec /\ [](Books /\ Solvent)
BY GateRunsTheKernel, ImplementsEscrow, BooksBalance, AlwaysSolvent, PTL
=============================================================================
