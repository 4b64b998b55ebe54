--------------------------- MODULE Requests_proofs ---------------------------
(* What the services promise whoever calls them, for any number of calls: the*)
(* prover's limiter, the idempotency store and the x402 payment ledger.      *)
EXTENDS ProofLimiter, Idempotency, X402,
        FiniteSetTheorems, TLAPS

-----------------------------------------------------------------------------
(* The prover's limiter (ProofLimiter).                                      *)
(* The queue and the stages tell the same story: what waits in the queue, or
   has run into its deadline there, is queued exactly once.                  *)
QueueIsTheWaiting ==
    /\ \A r \in ProofRequests :
          stage[r] \in {"queued", "late"} <=> \E i \in 1..Len(waiting) : waiting[i] = r
    /\ \A i, k \in 1..Len(waiting) : waiting[i] = waiting[k] => i = k

LimiterInv == LimiterTypeOK /\ SlotsHeld /\ NoIdleSlot /\ QueueIsTheWaiting

-----------------------------------------------------------------------------
(* Splice removes one position and keeps the order of the others.            *)
LEMMA SpliceRemoves ==
    ASSUME NEW S, NEW s \in Seq(S), NEW p \in 1..Len(s)
    PROVE  /\ Splice(s, p) \in Seq(S)
           /\ Len(Splice(s, p)) = Len(s) - 1
           /\ \A k \in 1..Len(s) - 1 : Splice(s, p)[k] = IF k < p THEN s[k] ELSE s[k + 1]
PROOF
<1>1. Len(s) - 1 \in Nat
  OBVIOUS
<1>2. \A k \in 1..Len(s) - 1 : (IF k < p THEN s[k] ELSE s[k + 1]) \in S
  OBVIOUS
<1> QED BY <1>1, <1>2 DEF Splice

(* The holders of a slot are finitely many.                                  *)
LEMMA HoldersFinite ==
    ASSUME LimiterAssumption, NEW st
    PROVE  IsFiniteSet(HoldersOf(st)) /\ Cardinality(HoldersOf(st)) \in Nat
BY FS_Subset, FS_CardinalityType DEF HoldersOf, LimiterAssumption

(* A change of stage that neither takes nor returns a slot.                  *)
LEMMA HoldersSame ==
    ASSUME NEW st, NEW new, NEW r \in ProofRequests, \A q \in ProofRequests \ {r} : new[q] = st[q],
           (st[r] \in Holding) <=> (new[r] \in Holding)
    PROVE  HoldersOf(new) = HoldersOf(st)
BY DEF HoldersOf

(* A request that returns its slot.                                          *)
LEMMA HoldersLess ==
    ASSUME LimiterAssumption, NEW st, NEW new, NEW r \in ProofRequests,
           \A q \in ProofRequests \ {r} : new[q] = st[q], st[r] \in Holding, new[r] \notin Holding
    PROVE  Cardinality(HoldersOf(new)) = Cardinality(HoldersOf(st)) - 1
PROOF
<1>1. HoldersOf(new) = HoldersOf(st) \ {r} /\ r \in HoldersOf(st)
  BY DEF HoldersOf
<1> QED BY <1>1, HoldersFinite, FS_RemoveElement

(* A request that is given one.                                              *)
LEMMA HoldersMore ==
    ASSUME LimiterAssumption, NEW st, NEW new, NEW r \in ProofRequests,
           \A q \in ProofRequests \ {r} : new[q] = st[q], st[r] \notin Holding, new[r] \in Holding
    PROVE  Cardinality(HoldersOf(new)) = Cardinality(HoldersOf(st)) + 1
PROOF
<1>1. HoldersOf(new) = HoldersOf(st) \cup {r} /\ r \notin HoldersOf(st)
  BY DEF HoldersOf
<1> QED BY <1>1, HoldersFinite, FS_AddElement

(* A released slot: the counter follows it, and the queue moves up by one.   *)
LEMMA ReleaseKeeps ==
    ASSUME LimiterAssumption, LimiterInv, NEW r \in ProofRequests, stage[r] \in {"handed", "working"},
           Release(r), answer' \in [ProofRequests -> Answers]
    PROVE  LimiterInv'
PROOF
<1>1. CASE waiting = <<>>
  <2>1. /\ active' = active - 1
        /\ stage' = [stage EXCEPT ![r] = "done"]
        /\ waiting' = waiting
    BY <1>1 DEF Release
  <2>2. stage' \in [ProofRequests -> Stages]
    BY <2>1 DEF LimiterInv, LimiterTypeOK, Stages
  <2>3. Cardinality(HoldersOf(stage')) = Cardinality(HoldersOf(stage)) - 1
    <3>1. /\ \A q \in ProofRequests \ {r} : stage'[q] = stage[q]
          /\ stage[r] \in Holding /\ stage'[r] \notin Holding
      BY <2>1 DEF LimiterInv, LimiterTypeOK, Holding
    <3> QED BY <3>1, HoldersLess
  <2>4. active' = Cardinality(HoldersOf(stage')) /\ Cardinality(HoldersOf(stage')) \in Nat
    BY <2>1, <2>2, <2>3, HoldersFinite DEF LimiterInv, SlotsHeld, LimiterTypeOK
  <2>5. active' \in 0..SlotLimit
    BY <2>1, <2>4 DEF LimiterInv, LimiterTypeOK, LimiterAssumption
  <2>6. LimiterTypeOK'
    BY <2>1, <2>2, <2>5 DEF LimiterInv, LimiterTypeOK
  <2>7. QueueIsTheWaiting'
    BY <2>1 DEF LimiterInv, QueueIsTheWaiting, LimiterTypeOK
  <2>8. SlotsHeld' /\ NoIdleSlot'
    BY <1>1, <2>1, <2>4 DEF SlotsHeld, NoIdleSlot
  <2> QED BY <2>6, <2>7, <2>8 DEF LimiterInv
<1>2. CASE waiting # <<>>
  <2> DEFINE next == Head(waiting)
  <2>1. /\ waiting' = Tail(waiting)
        /\ stage' = [stage EXCEPT ![r] = "done", ![next] = NextStage(stage[next])]
        /\ active' = active
    BY <1>2 DEF Release
  <2>2. /\ waiting \in Seq(ProofRequests) /\ Len(waiting) \in Nat /\ 1 \in 1..Len(waiting)
        /\ next = waiting[1] /\ next \in ProofRequests
        /\ Len(waiting') = Len(waiting) - 1
        /\ \A k \in 1..Len(waiting') : waiting'[k] = waiting[k + 1]
        /\ waiting' \in Seq(ProofRequests)
    BY <1>2, <2>1 DEF LimiterInv, LimiterTypeOK
  <2>3. stage[next] \in {"queued", "late"}
    BY <2>2 DEF LimiterInv, QueueIsTheWaiting
  <2>4. next # r /\ NextStage(stage[next]) \in Stages /\ NextStage(stage[next]) \in Holding
    BY <2>3 DEF NextStage, Holding, Stages
  <2>5. PICK mid \in [ProofRequests -> Stages] : mid = [stage EXCEPT ![r] = "done"]
    BY DEF LimiterInv, LimiterTypeOK, Stages
  <2>6. stage' = [mid EXCEPT ![next] = NextStage(stage[next])] /\ stage' \in [ProofRequests -> Stages]
    BY <2>1, <2>2, <2>4, <2>5 DEF LimiterInv, LimiterTypeOK, Stages
  <2>7. Cardinality(HoldersOf(mid)) = Cardinality(HoldersOf(stage)) - 1
    <3>1. /\ \A q \in ProofRequests \ {r} : mid[q] = stage[q]
          /\ stage[r] \in Holding /\ mid[r] \notin Holding
      BY <2>5 DEF LimiterInv, LimiterTypeOK, Holding
    <3> QED BY <3>1, HoldersLess
  <2>8. Cardinality(HoldersOf(stage')) = Cardinality(HoldersOf(mid)) + 1
    <3>1. /\ \A q \in ProofRequests \ {next} : stage'[q] = mid[q]
          /\ mid[next] \notin Holding /\ stage'[next] \in Holding
      BY <2>2, <2>3, <2>4, <2>5, <2>6 DEF Holding, LimiterInv, LimiterTypeOK
    <3> QED BY <2>2, <3>1, HoldersMore
  <2>9. SlotsHeld'
    <3>1. Cardinality(HoldersOf(stage)) \in Nat
      BY HoldersFinite
    <3> QED BY <2>1, <2>7, <2>8, <3>1 DEF LimiterInv, SlotsHeld
  <2>10. LimiterTypeOK'
    BY <2>1, <2>2, <2>6 DEF LimiterInv, LimiterTypeOK
  <2>11. NoIdleSlot'
    BY <1>2, <2>1 DEF LimiterInv, NoIdleSlot
  <2>12. QueueIsTheWaiting'
    <3>1. \A i, k \in 1..Len(waiting') : waiting'[i] = waiting'[k] => i = k
      <4> SUFFICES ASSUME NEW i \in 1..Len(waiting'), NEW k \in 1..Len(waiting'), waiting'[i] = waiting'[k]
                   PROVE  i = k
        OBVIOUS
      <4>1. i \in Nat /\ k \in Nat /\ i + 1 \in 1..Len(waiting) /\ k + 1 \in 1..Len(waiting)
        BY <2>2
      <4>2. waiting[i + 1] = waiting[k + 1]
        BY <2>2
      <4>3. i + 1 = k + 1
        BY <4>1, <4>2 DEF LimiterInv, QueueIsTheWaiting
      <4> QED BY <4>1, <4>3
    <3>2. ASSUME NEW q \in ProofRequests, NEW i \in 1..Len(waiting'), waiting'[i] = q
          PROVE  stage'[q] \in {"queued", "late"}
      <4>1. i + 1 \in 1..Len(waiting) /\ waiting[i + 1] = q /\ i + 1 # 1
        BY <2>2, <3>2
      <4>2. q # next /\ stage[q] \in {"queued", "late"}
        BY <2>2, <4>1 DEF LimiterInv, QueueIsTheWaiting
      <4> QED BY <4>2, <2>5, <2>6 DEF LimiterInv, LimiterTypeOK
    <3>3. ASSUME NEW q \in ProofRequests, stage'[q] \in {"queued", "late"}
          PROVE  \E i \in 1..Len(waiting') : waiting'[i] = q
      <4>1. q # next /\ stage[q] \in {"queued", "late"}
        BY <2>2, <2>4, <2>5, <2>6, <3>3 DEF Holding, LimiterInv, LimiterTypeOK
      <4>2. PICK k \in 1..Len(waiting) : waiting[k] = q
        BY <4>1 DEF LimiterInv, QueueIsTheWaiting
      <4>3. k # 1 /\ k - 1 \in 1..Len(waiting') /\ waiting'[k - 1] = q
        BY <2>2, <4>1, <4>2
      <4> QED BY <4>3
    <3> QED BY <3>1, <3>2, <3>3 DEF QueueIsTheWaiting
  <2> QED BY <2>9, <2>10, <2>11, <2>12 DEF LimiterInv
<1> QED BY <1>1, <1>2

-----------------------------------------------------------------------------
(* The initial state: no slot is taken and nobody waits.                     *)
LEMMA LimiterStarts ==
    ASSUME LimiterAssumption, LimiterInit
    PROVE  LimiterInv
PROOF
<1>1. HoldersOf(stage) = {}
  BY DEF LimiterInit, HoldersOf, Holding
<1>2. SlotsHeld
  BY <1>1, FS_EmptySet DEF LimiterInit, SlotsHeld
<1>3. LimiterTypeOK
  BY DEF LimiterInit, LimiterTypeOK, LimiterAssumption, Stages, Answers
<1>4. NoIdleSlot /\ QueueIsTheWaiting
  BY DEF LimiterInit, NoIdleSlot, QueueIsTheWaiting
<1> QED BY <1>2, <1>3, <1>4 DEF LimiterInv

(* What a step answers is an answer.                                         *)
LEMMA AnswerKeepsType ==
    ASSUME LimiterTypeOK, NEW r \in ProofRequests, NEW what \in Answers, Answer(r, what)
    PROVE  answer' \in [ProofRequests -> Answers]
BY DEF LimiterTypeOK, Answer

(* A request that moves between stages outside the queue and keeps what it
   holds disturbs nothing.                                                   *)
LEMMA StageMoveKeeps ==
    ASSUME LimiterInv, NEW r \in ProofRequests, NEW to \in Stages,
           stage' = [stage EXCEPT ![r] = to],
           (stage[r] \in Holding) <=> (to \in Holding),
           (stage[r] \in {"queued", "late"}) <=> (to \in {"queued", "late"}),
           answer' \in [ProofRequests -> Answers], UNCHANGED <<active, waiting>>
    PROVE  LimiterInv'
PROOF
<1>1. stage' \in [ProofRequests -> Stages] /\ stage'[r] = to
      /\ \A q \in ProofRequests \ {r} : stage'[q] = stage[q]
  BY DEF LimiterInv, LimiterTypeOK
<1>2. HoldersOf(stage') = HoldersOf(stage)
  BY <1>1, HoldersSame
<1>3. LimiterTypeOK' /\ SlotsHeld' /\ NoIdleSlot'
  BY <1>1, <1>2 DEF LimiterInv, LimiterTypeOK, SlotsHeld, NoIdleSlot
<1>4. QueueIsTheWaiting'
  BY <1>1 DEF LimiterInv, QueueIsTheWaiting
<1> QED BY <1>3, <1>4 DEF LimiterInv

(* A request that finds a slot takes it.                                     *)
LEMMA AdmitKeeps ==
    ASSUME LimiterAssumption, LimiterInv, NEW r \in ProofRequests, Admit(r)
    PROVE  LimiterInv'
PROOF
<1>1. /\ stage' \in [ProofRequests -> Stages] /\ stage'[r] = "admitted" /\ stage[r] = "new"
      /\ \A q \in ProofRequests \ {r} : stage'[q] = stage[q]
      /\ active' = active + 1 /\ active < SlotLimit /\ waiting' = waiting /\ answer' = answer
  BY DEF Admit, LimiterInv, LimiterTypeOK, Stages
<1>2. Cardinality(HoldersOf(stage')) = Cardinality(HoldersOf(stage)) + 1
  BY <1>1, HoldersMore DEF Holding
<1>3. LimiterTypeOK' /\ SlotsHeld'
  BY <1>1, <1>2 DEF LimiterInv, LimiterTypeOK, SlotsHeld, LimiterAssumption
<1>4. waiting = <<>>
  BY <1>1 DEF LimiterInv, NoIdleSlot
<1>5. NoIdleSlot' /\ QueueIsTheWaiting'
  BY <1>1, <1>4 DEF LimiterInv, NoIdleSlot, QueueIsTheWaiting
<1> QED BY <1>3, <1>5 DEF LimiterInv

(* One that finds none joins the queue, at its end.                          *)
LEMMA EnqueueKeeps ==
    ASSUME LimiterAssumption, LimiterInv, NEW r \in ProofRequests, Enqueue(r)
    PROVE  LimiterInv'
PROOF
<1>1. /\ stage' \in [ProofRequests -> Stages] /\ stage'[r] = "queued" /\ stage[r] = "new"
      /\ \A q \in ProofRequests \ {r} : stage'[q] = stage[q]
      /\ active' = active /\ active >= SlotLimit /\ answer' = answer
  BY DEF Enqueue, LimiterInv, LimiterTypeOK, Stages
<1>2. /\ waiting' \in Seq(ProofRequests) /\ Len(waiting) \in Nat /\ Len(waiting') = Len(waiting) + 1
      /\ Len(waiting) < QueueLimit /\ waiting'[Len(waiting')] = r
      /\ \A k \in 1..Len(waiting) : waiting'[k] = waiting[k]
  BY DEF Enqueue, LimiterInv, LimiterTypeOK
<1>3. HoldersOf(stage') = HoldersOf(stage)
  BY <1>1, HoldersSame DEF Holding
<1>4. LimiterTypeOK' /\ SlotsHeld' /\ NoIdleSlot'
  BY <1>1, <1>2, <1>3 DEF LimiterInv, LimiterTypeOK, SlotsHeld, NoIdleSlot, LimiterAssumption
<1>5. \A k \in 1..Len(waiting) : waiting[k] # r
  BY <1>1 DEF LimiterInv, QueueIsTheWaiting
<1>6. ASSUME NEW q \in ProofRequests
      PROVE  stage'[q] \in {"queued", "late"} <=> \E i \in 1..Len(waiting') : waiting'[i] = q
  <2>1. CASE q = r
    <3>1. Len(waiting') \in 1..Len(waiting')
      BY <1>2
    <3> QED BY <1>1, <1>2, <2>1, <3>1
  <2>2. CASE q # r
    <3>1. stage[q] \in {"queued", "late"} <=> \E i \in 1..Len(waiting) : waiting[i] = q
      BY DEF LimiterInv, QueueIsTheWaiting
    <3>2. (\E i \in 1..Len(waiting') : waiting'[i] = q) <=> (\E i \in 1..Len(waiting) : waiting[i] = q)
      BY <1>2, <2>2
    <3> QED BY <1>1, <2>2, <3>1, <3>2
  <2> QED BY <2>1, <2>2
<1>7. ASSUME NEW i \in 1..Len(waiting'), NEW k \in 1..Len(waiting'), waiting'[i] = waiting'[k]
      PROVE  i = k
  <2>1. CASE i \in 1..Len(waiting) /\ k \in 1..Len(waiting)
    BY <1>2, <1>7, <2>1 DEF LimiterInv, QueueIsTheWaiting
  <2>2. CASE i = Len(waiting') \/ k = Len(waiting')
    BY <1>2, <1>5, <1>7, <2>2
  <2> QED BY <1>2, <2>1, <2>2
<1>8. QueueIsTheWaiting'
  BY <1>6, <1>7 DEF QueueIsTheWaiting
<1> QED BY <1>4, <1>8 DEF LimiterInv

(* A late ticket leaves the middle of the queue.                             *)
LEMMA LateLeaveKeeps ==
    ASSUME LimiterAssumption, LimiterInv, NEW r \in ProofRequests, stage[r] = "late", Leave(r)
    PROVE  LimiterInv'
PROOF
<1> DEFINE place == PlaceOf(r)
<1>1. /\ stage' = [stage EXCEPT ![r] = "done"] /\ waiting' = Splice(waiting, place)
      /\ active' = active /\ Answer(r, "timeout")
  BY DEF Leave
<1>2. answer' \in [ProofRequests -> Answers]
  BY <1>1, AnswerKeepsType DEF LimiterInv, Answers
<1>3. /\ waiting \in Seq(ProofRequests) /\ Len(waiting) \in Nat
      /\ place \in 1..Len(waiting) /\ waiting[place] = r
  <2>1. waiting \in Seq(ProofRequests) /\ DOMAIN waiting = 1..Len(waiting) /\ Len(waiting) \in Nat
    BY DEF LimiterInv, LimiterTypeOK
  <2>2. \E i \in DOMAIN waiting : waiting[i] = r
    BY <2>1 DEF LimiterInv, QueueIsTheWaiting
  <2> QED BY <2>1, <2>2 DEF PlaceOf
<1> HIDE DEF place
<1>4. /\ waiting' \in Seq(ProofRequests) /\ Len(waiting') = Len(waiting) - 1
      /\ \A k \in 1..Len(waiting') : waiting'[k] = IF k < place THEN waiting[k] ELSE waiting[k + 1]
  BY <1>1, <1>3, SpliceRemoves
<1>5. /\ stage' \in [ProofRequests -> Stages] /\ stage'[r] = "done"
      /\ \A q \in ProofRequests \ {r} : stage'[q] = stage[q]
  BY <1>1 DEF LimiterInv, LimiterTypeOK, Stages
<1>6. HoldersOf(stage') = HoldersOf(stage)
  BY <1>5, HoldersSame DEF Holding
<1>7. Len(waiting) <= QueueLimit /\ waiting # <<>>
  BY <1>3 DEF LimiterInv, LimiterTypeOK
<1>8. LimiterTypeOK' /\ SlotsHeld' /\ NoIdleSlot'
  BY <1>1, <1>2, <1>3, <1>4, <1>5, <1>6, <1>7
     DEF LimiterInv, LimiterTypeOK, SlotsHeld, NoIdleSlot, LimiterAssumption
<1>9. ASSUME NEW i \in 1..Len(waiting'), NEW k \in 1..Len(waiting'), waiting'[i] = waiting'[k]
      PROVE  i = k
  <2> DEFINE before(n) == IF n < place THEN n ELSE n + 1
  <2>1. before(i) \in 1..Len(waiting) /\ before(k) \in 1..Len(waiting)
        /\ waiting[before(i)] = waiting[before(k)]
    BY <1>3, <1>4, <1>9
  <2>2. before(i) = before(k)
    BY <2>1 DEF LimiterInv, QueueIsTheWaiting
  <2> QED BY <2>2, <1>3
<1>10. ASSUME NEW q \in ProofRequests
       PROVE  stage'[q] \in {"queued", "late"} <=> \E i \in 1..Len(waiting') : waiting'[i] = q
  <2>1. stage[q] \in {"queued", "late"} <=> \E i \in 1..Len(waiting) : waiting[i] = q
    BY DEF LimiterInv, QueueIsTheWaiting
  <2>2. ASSUME NEW i \in 1..Len(waiting'), waiting'[i] = q
        PROVE  q # r /\ \E k \in 1..Len(waiting) : waiting[k] = q
    <3> DEFINE k == IF i < place THEN i ELSE i + 1
    <3>1. k \in 1..Len(waiting) /\ waiting[k] = q /\ k # place
      BY <1>3, <1>4, <2>2
    <3>2. q # r
      BY <1>3, <3>1 DEF LimiterInv, QueueIsTheWaiting
    <3> QED BY <3>1, <3>2
  <2>3. ASSUME NEW k \in 1..Len(waiting), waiting[k] = q, q # r
        PROVE  \E i \in 1..Len(waiting') : waiting'[i] = q
    <3> DEFINE i == IF k < place THEN k ELSE k - 1
    <3>1. k # place
      BY <1>3, <2>3
    <3>2. i \in 1..Len(waiting') /\ waiting'[i] = q
      BY <1>3, <1>4, <2>3, <3>1
    <3> QED BY <3>2
  <2> QED BY <1>5, <2>1, <2>2, <2>3
<1>11. QueueIsTheWaiting'
  BY <1>9, <1>10 DEF QueueIsTheWaiting
<1> QED BY <1>8, <1>11 DEF LimiterInv

(* Every turn of the event loop keeps the invariant.                         *)
LEMMA LimiterStepKeeps ==
    ASSUME LimiterAssumption, LimiterInv, NEW r \in ProofRequests, LimiterStep(r)
    PROVE  LimiterInv'
PROOF
<1>1. CASE Admit(r)
  BY <1>1, AdmitKeeps
<1>2. CASE Shed(r)
  <2>1. answer' \in [ProofRequests -> Answers]
    BY <1>2, AnswerKeepsType DEF LimiterInv, Answers, Shed
  <2> QED BY <1>2, <2>1, StageMoveKeeps DEF Shed, Stages, Holding
<1>3. CASE Enqueue(r)
  BY <1>3, EnqueueKeeps
<1>4. CASE Start(r)
  BY <1>4, StageMoveKeeps DEF Start, Stages, Holding, LimiterInv, LimiterTypeOK
<1>5. CASE DeadlineInQueue(r)
  BY <1>5, StageMoveKeeps DEF DeadlineInQueue, Stages, Holding, LimiterInv, LimiterTypeOK
<1>6. CASE DeadlineAtWork(r)
  <2>1. answer' \in [ProofRequests -> Answers]
    BY <1>6, AnswerKeepsType DEF LimiterInv, Answers, DeadlineAtWork
  <2> QED BY <1>6, <2>1 DEF DeadlineAtWork, LimiterInv, LimiterTypeOK, SlotsHeld, NoIdleSlot,
             QueueIsTheWaiting
<1>7. CASE Leave(r) /\ stage[r] = "handed"
  <2>1. answer' \in [ProofRequests -> Answers]
    BY <1>7, AnswerKeepsType DEF LimiterInv, Answers, Leave
  <2> QED BY <1>7, <2>1, ReleaseKeeps DEF Leave
<1>8. CASE Leave(r) /\ stage[r] = "late"
  BY <1>8, LateLeaveKeeps
<1>9. CASE WorkSettles(r)
  <2>1. answer' \in [ProofRequests -> Answers]
    BY <1>9, AnswerKeepsType DEF LimiterInv, Answers, WorkSettles
  <2> QED BY <1>9, <2>1, ReleaseKeeps DEF WorkSettles
<1> QED BY <1>1, <1>2, <1>3, <1>4, <1>5, <1>6, <1>7, <1>8, <1>9 DEF LimiterStep, Leave

(* Who works holds a slot, and there are SlotLimit of them.                  *)
LEMMA WorkersHoldSlots ==
    ASSUME LimiterAssumption, LimiterInv
    PROVE  LimiterSafety
PROOF
<1> DEFINE workers == {r \in ProofRequests : stage[r] = "working"}
<1>1. workers \subseteq HoldersOf(stage)
  BY DEF HoldersOf, Holding
<1>2. Cardinality(workers) <= Cardinality(HoldersOf(stage)) /\ Cardinality(workers) \in Nat
  BY <1>1, HoldersFinite, FS_Subset, FS_CardinalityType
<1>3. ProofsWithinLimit
  BY <1>2 DEF ProofsWithinLimit, LimiterInv, SlotsHeld, LimiterTypeOK, LimiterAssumption
<1> QED BY <1>3 DEF LimiterSafety, LimiterInv

(* concurrency.js keeps its promises for any number of requests and slots:
   the counter is the truth, the proofs at work stay within it, and nobody
   waits beside a free slot.                                                 *)
THEOREM LimiterIsSafe == LimiterSpec => []LimiterSafety
PROOF
<1>1. LimiterInit => LimiterInv
  BY LimiterAssumption, LimiterStarts
<1>2. LimiterInv /\ [LimiterNext]_limiterVars => LimiterInv'
  <2> SUFFICES ASSUME LimiterInv, [LimiterNext]_limiterVars PROVE LimiterInv'
    OBVIOUS
  <2>1. CASE LimiterNext
    BY <2>1, LimiterAssumption, LimiterStepKeeps DEF LimiterNext
  <2>2. CASE UNCHANGED limiterVars
    BY <2>2 DEF limiterVars, LimiterInv, LimiterTypeOK, SlotsHeld, NoIdleSlot, QueueIsTheWaiting
  <2> QED BY <2>1, <2>2
<1>3. LimiterInv => LimiterSafety
  BY LimiterAssumption, WorkersHoldSlots
<1> QED BY <1>1, <1>2, <1>3, PTL DEF LimiterSpec

-----------------------------------------------------------------------------
(* The idempotency store (Idempotency).                                      *)
Progresses == {"new", "waiting"} \cup Active \cup Ended
Outcomes == [source : {"none", "replay", "conflict", "unstored", "handler"},
             by : Calls \cup {NoCall}, life : Nat]
Records == [by : Calls, hash : Hashes, live : BOOLEAN]

(* The shape of the store, the maps and the requests. *)
IdempotencyTypeOK ==
    /\ record \in Records \cup {NoRecord}
    /\ lifetime \in Nat
    /\ inFlight \in [Processes -> Calls \cup {NoCall}]
    /\ progress \in [Calls -> Progresses]
    /\ home \in [Calls -> Processes]
    /\ hash \in [Calls -> Hashes]
    /\ awaited \in [Calls -> Calls \cup {NoCall}]
    /\ tries \in [Calls -> Nat]
    /\ outcome \in [Calls -> Outcomes]

(* The row is its winner's. *)
RecordIsItsCallers == record # NoRecord => record.hash = hash[record.by]

(* No stored answer comes from a lifetime to come, and those of the present
   one come from the live row: once it has expired there are none.           *)
LatestAnswersAreTheRows ==
    \A r \in Calls : outcome[r].source \in Kept =>
        /\ outcome[r].life <= lifetime
        /\ outcome[r].life = lifetime => Live /\ outcome[r].by = record.by

IdempotencyInv ==
    /\ IdempotencyTypeOK /\ RecordIsItsCallers /\ LatestAnswersAreTheRows
    /\ OneAnswerPerKey

-----------------------------------------------------------------------------
(* What a finished run leaves in the map is not another request's run.       *)
LEMMA FinishKeepsTheMap ==
    ASSUME IdempotencyTypeOK, OneRunPerProcess, NEW r \in Calls, progress[r] \in Active,
           NEW how \in Ended, Finish(r, how), home' = home
    PROVE  /\ inFlight' \in [Processes -> Calls \cup {NoCall}]
           /\ progress' \in [Calls -> Progresses]
           /\ OneRunPerProcess'
PROOF
<1>1. /\ inFlight' = [inFlight EXCEPT ![home[r]] = NoCall]
      /\ progress' = [progress EXCEPT ![r] = how]
      /\ home[r] \in Processes
  BY DEF Finish, At, IdempotencyTypeOK
<1>2. inFlight' \in [Processes -> Calls \cup {NoCall}] /\ progress' \in [Calls -> Progresses]
  BY <1>1 DEF IdempotencyTypeOK, Progresses
<1>3. ASSUME NEW q \in Calls, progress'[q] \in Active PROVE inFlight'[home[q]] = q
  <2>1. q # r /\ progress[q] \in Active
    BY <1>1, <1>3 DEF Ended, Active, IdempotencyTypeOK
  <2>2. home[q] # home[r] /\ inFlight[home[q]] = q
    BY <2>1 DEF OneRunPerProcess
  <2> QED BY <1>1, <2>2 DEF IdempotencyTypeOK
<1> QED BY <1>2, <1>3 DEF OneRunPerProcess

(* So is what a request finds or leaves when it enters execute.              *)
LEMMA ExecuteKeepsTheMap ==
    ASSUME IdempotencyAssumption, IdempotencyTypeOK, OneRunPerProcess, NEW r \in Calls, Execute(r), home' = home
    PROVE  /\ inFlight' \in [Processes -> Calls \cup {NoCall}]
           /\ progress' \in [Calls -> Progresses]
           /\ awaited' \in [Calls -> Calls \cup {NoCall}]
           /\ OneRunPerProcess'
PROOF
<1>0. home[r] \in Processes /\ inFlight[home[r]] \in Calls \cup {NoCall}
  BY DEF IdempotencyTypeOK
<1>1. CASE inFlight[home[r]] # NoCall
  BY <1>0, <1>1 DEF Execute, At, IdempotencyTypeOK, OneRunPerProcess, Progresses, Active
<1>2. CASE inFlight[home[r]] = NoCall
  <2>1. /\ inFlight' = [inFlight EXCEPT ![home[r]] = r]
        /\ progress' = [progress EXCEPT ![r] = "reading"] /\ awaited' = awaited
    BY <1>2 DEF Execute, At
  <2>2. /\ inFlight' \in [Processes -> Calls \cup {NoCall}]
        /\ progress' \in [Calls -> Progresses]
        /\ awaited' \in [Calls -> Calls \cup {NoCall}]
    BY <2>1 DEF IdempotencyTypeOK, Progresses, Active
  <2>3. ASSUME NEW q \in Calls, progress'[q] \in Active PROVE inFlight'[home[q]] = q
    <3>1. CASE q = r
      BY <1>0, <2>1, <3>1 DEF IdempotencyTypeOK
    <3>2. CASE q # r
      <4>1. inFlight[home[q]] = q
        BY <2>1, <2>3, <3>2 DEF OneRunPerProcess, IdempotencyTypeOK
      <4>2. home[q] # home[r]
        BY <1>2, <4>1 DEF IdempotencyAssumption
      <4> QED BY <2>1, <4>1, <4>2 DEF IdempotencyTypeOK
    <3> QED BY <3>1, <3>2
  <2> QED BY <2>2, <2>3 DEF OneRunPerProcess
<1> QED BY <1>1, <1>2

(* A request that is told an answer of the present lifetime, the row's when
   the answer is a stored one.                                               *)
LEMMA ToldKeeps ==
    ASSUME IdempotencyInv, NEW r \in Calls, progress[r] \in Active,
           NEW source \in {"replay", "conflict", "unstored", "handler"}, NEW by \in Calls \cup {NoCall},
           Told(r, source, by), UNCHANGED <<lifetime, home, hash, awaited>>,
           tries' \in [Calls -> Nat],
           record' \in Records \cup {NoRecord}, RecordIsItsCallers',
           record' # record => ~Live,
           source \in Kept => Live' /\ by = record'.by,
           source = "replay" => hash[by] = hash[r],
           Live => record' = record
    PROVE  IdempotencyInv'
PROOF
<1>1. /\ outcome' = [outcome EXCEPT ![r] = [source |-> source, by |-> by, life |-> lifetime]]
      /\ Finish(r, "answered")
  BY DEF Told
<1>2. outcome' \in [Calls -> Outcomes]
  BY <1>1 DEF IdempotencyInv, IdempotencyTypeOK, Outcomes
<1>3. /\ inFlight' \in [Processes -> Calls \cup {NoCall}]
      /\ progress' \in [Calls -> Progresses]
      /\ OneRunPerProcess'
  <2>1. "answered" \in Ended
    BY DEF Ended
  <2> QED BY <1>1, <2>1, FinishKeepsTheMap DEF IdempotencyInv, OneAnswerPerKey
<1>4. IdempotencyTypeOK'
  BY <1>2, <1>3 DEF IdempotencyInv, IdempotencyTypeOK
<1>5. /\ outcome'[r] = [source |-> source, by |-> by, life |-> lifetime]
      /\ \A q \in Calls \ {r} : outcome'[q] = outcome[q]
  BY <1>1 DEF IdempotencyInv, IdempotencyTypeOK
<1>6. \A q \in Calls : outcome[q].source \in Kept =>
         /\ outcome[q].life \in Nat /\ outcome[q].life <= lifetime
         /\ outcome[q].life = lifetime => Live /\ outcome[q].by = record.by
  BY DEF IdempotencyInv, IdempotencyTypeOK, LatestAnswersAreTheRows, Outcomes
<1>7. LatestAnswersAreTheRows'
  <2> SUFFICES ASSUME NEW q \in Calls, outcome'[q].source \in Kept
               PROVE  /\ outcome'[q].life <= lifetime
                      /\ outcome'[q].life = lifetime => Live' /\ outcome'[q].by = record'.by
    BY DEF LatestAnswersAreTheRows
  <2>1. CASE q = r
    BY <1>5, <2>1 DEF IdempotencyInv, IdempotencyTypeOK
  <2>2. CASE q # r
    BY <1>5, <1>6, <2>2 DEF Live
  <2> QED BY <2>1, <2>2
<1>8. AnswersAgree'
  <2> SUFFICES ASSUME NEW q \in Calls, NEW s \in Calls, outcome'[q].source \in Kept,
                      outcome'[s].source \in Kept, outcome'[q].life = outcome'[s].life
               PROVE  outcome'[q].by = outcome'[s].by
    BY DEF AnswersAgree
  <2>1. CASE q # r /\ s # r
    BY <1>5, <2>1 DEF IdempotencyInv, OneAnswerPerKey, AnswersAgree
  <2>2. CASE q = r \/ s = r
    <3>1. outcome'[q].life = lifetime /\ outcome'[s].life = lifetime
      BY <1>5, <2>2
    <3>2. outcome'[q].by = record'.by /\ outcome'[s].by = record'.by
      BY <1>7, <3>1 DEF LatestAnswersAreTheRows
    <3> QED BY <3>2
  <2> QED BY <2>1, <2>2
<1>9. ReplayIsOfTheSameRequest'
  BY <1>5 DEF IdempotencyInv, OneAnswerPerKey, ReplayIsOfTheSameRequest
<1> QED BY <1>3, <1>4, <1>7, <1>8, <1>9 DEF IdempotencyInv, OneAnswerPerKey

(* A step that tells nobody anything and leaves the row alone.               *)
LEMMA SilentStepKeeps ==
    ASSUME IdempotencyInv, UNCHANGED <<record, lifetime, home, hash, outcome>>,
           inFlight' \in [Processes -> Calls \cup {NoCall}], progress' \in [Calls -> Progresses],
           awaited' \in [Calls -> Calls \cup {NoCall}], tries' \in [Calls -> Nat],
           OneRunPerProcess'
    PROVE  IdempotencyInv'
BY DEF IdempotencyInv, IdempotencyTypeOK, RecordIsItsCallers, LatestAnswersAreTheRows, Live,
       OneAnswerPerKey, AnswersAgree, ReplayIsOfTheSameRequest

(* A running request that goes on to another of its own awaits.              *)
LEMMA MoveKeepsTheMap ==
    ASSUME IdempotencyTypeOK, OneRunPerProcess, NEW r \in Calls, progress[r] \in Active,
           NEW where \in Active, At(r, where), UNCHANGED <<inFlight, home>>
    PROVE  progress' \in [Calls -> Progresses] /\ OneRunPerProcess'
BY DEF IdempotencyTypeOK, OneRunPerProcess, At, Progresses

(* A stored answer is told to a request that finds a live row.               *)
LEMMA StoredKeeps ==
    ASSUME IdempotencyInv, NEW r \in Calls, progress[r] \in Active, Live, OutcomeFromStored(r),
           UNCHANGED <<record, lifetime, home, hash, awaited, tries>>
    PROVE  IdempotencyInv'
PROOF
<1>1. record \in Records /\ record.by \in Calls /\ record.hash = hash[record.by]
  BY DEF IdempotencyInv, IdempotencyTypeOK, Live, RecordIsItsCallers, Records
<1>2. RecordIsItsCallers' /\ Live' /\ record' \in Records \cup {NoRecord} /\ tries' \in [Calls -> Nat]
  BY DEF IdempotencyInv, IdempotencyTypeOK, RecordIsItsCallers, Live
<1>3. CASE SameRequest(r)
  <2>1. Told(r, "replay", record.by)
    BY <1>3 DEF OutcomeFromStored
  <2>2. hash[record.by] = hash[r]
    BY <1>1, <1>3 DEF SameRequest
  <2> QED BY <1>1, <1>2, <2>1, <2>2, ToldKeeps
<1>4. CASE ~SameRequest(r)
  <2>1. Told(r, "conflict", NoCall)
    BY <1>4 DEF OutcomeFromStored
  <2> QED BY <1>1, <1>2, <2>1, ToldKeeps DEF Kept
<1> QED BY <1>3, <1>4

-----------------------------------------------------------------------------
(* Nobody has called: no record, nothing in flight.                          *)
LEMMA IdempotencyStarts ==
    ASSUME IdempotencyAssumption, IdempotencyInit
    PROVE  IdempotencyInv
BY DEF IdempotencyInit, IdempotencyInv, IdempotencyTypeOK, RecordIsItsCallers, LatestAnswersAreTheRows,
       OneAnswerPerKey, AnswersAgree, ReplayIsOfTheSameRequest, OneRunPerProcess, Kept, NoOutcome,
       Progresses, Active, Outcomes

(* A call that arrives, or that waited and goes on, enters execute().        *)
LEMMA ArriveOrWakeKeeps ==
    ASSUME IdempotencyAssumption, IdempotencyInv, NEW r \in Calls, Arrive(r) \/ Wake(r)
    PROVE  IdempotencyInv'
PROOF
<1>1. Execute(r) /\ UNCHANGED <<record, lifetime, home, hash, tries, outcome>>
  BY DEF Arrive, Wake
<1>2. /\ inFlight' \in [Processes -> Calls \cup {NoCall}] /\ progress' \in [Calls -> Progresses]
      /\ awaited' \in [Calls -> Calls \cup {NoCall}] /\ OneRunPerProcess'
  BY <1>1, ExecuteKeepsTheMap DEF IdempotencyInv, OneAnswerPerKey
<1>3. tries' \in [Calls -> Nat]
  BY <1>1 DEF IdempotencyInv, IdempotencyTypeOK
<1> QED BY <1>1, <1>2, <1>3, SilentStepKeeps

(* A run that goes on, with nothing told. *)
LEMMA RunMovesKeeps ==
    ASSUME IdempotencyInv, NEW r \in Calls, progress[r] \in Active, NEW where \in Active, At(r, where),
           UNCHANGED <<record, lifetime, inFlight, home, hash, awaited, outcome>>, tries' \in [Calls -> Nat]
    PROVE  IdempotencyInv'
PROOF
<1>1. progress' \in [Calls -> Progresses] /\ OneRunPerProcess'
  BY MoveKeepsTheMap DEF IdempotencyInv, OneAnswerPerKey
<1>2. inFlight' \in [Processes -> Calls \cup {NoCall}] /\ awaited' \in [Calls -> Calls \cup {NoCall}]
  BY DEF IdempotencyInv, IdempotencyTypeOK
<1> QED BY <1>1, <1>2, SilentStepKeeps

(* A run that throws, with nothing told. *)
LEMMA RunThrowsKeeps ==
    ASSUME IdempotencyInv, NEW r \in Calls, progress[r] \in Active, Finish(r, "threw"),
           UNCHANGED <<record, lifetime, home, hash, awaited, outcome>>, tries' \in [Calls -> Nat]
    PROVE  IdempotencyInv'
PROOF
<1>1. "threw" \in Ended
  BY DEF Ended
<1>2. /\ inFlight' \in [Processes -> Calls \cup {NoCall}] /\ progress' \in [Calls -> Progresses]
      /\ OneRunPerProcess'
  BY <1>1, FinishKeepsTheMap DEF IdempotencyInv, OneAnswerPerKey
<1>3. awaited' \in [Calls -> Calls \cup {NoCall}]
  BY DEF IdempotencyInv, IdempotencyTypeOK
<1> QED BY <1>2, <1>3, SilentStepKeeps

(* The store's read finds a live record to answer by, or the handler is next.*)
LEMMA ReadKeeps ==
    ASSUME IdempotencyInv, NEW r \in Calls, Read(r)
    PROVE  IdempotencyInv'
PROOF
<1>1. progress[r] \in Active /\ "handling" \in Active
      /\ UNCHANGED <<record, lifetime, home, hash, awaited, tries>> /\ tries' \in [Calls -> Nat]
  BY DEF Read, Active, IdempotencyInv, IdempotencyTypeOK
<1>2. CASE Live
  BY <1>1, <1>2, StoredKeeps DEF Read
<1>3. CASE ~Live
  BY <1>1, <1>3, RunMovesKeeps DEF Read
<1> QED BY <1>2, <1>3

(* The handler has run; its answer is not yet stored.                        *)
LEMMA HandleKeeps ==
    ASSUME IdempotencyInv, NEW r \in Calls, Handle(r)
    PROVE  IdempotencyInv'
PROOF
<1>1. progress[r] \in Active /\ "claiming" \in Active
      /\ UNCHANGED <<record, lifetime, home, hash, awaited, tries>> /\ tries' \in [Calls -> Nat]
  BY DEF Handle, Active, IdempotencyInv, IdempotencyTypeOK
<1>2. CASE Told(r, "unstored", r)
  <2>1. RecordIsItsCallers' /\ record' \in Records \cup {NoRecord}
    BY <1>1 DEF IdempotencyInv, RecordIsItsCallers, IdempotencyTypeOK
  <2> QED BY <1>1, <1>2, <2>1, ToldKeeps DEF Kept
<1>3. CASE At(r, "claiming") /\ UNCHANGED <<inFlight, outcome>>
  BY <1>1, <1>3, RunMovesKeeps
<1> QED BY <1>2, <1>3 DEF Handle

(* The insert wins, and the record is this call's; or it finds another's.    *)
LEMMA ClaimKeeps ==
    ASSUME IdempotencyAssumption, IdempotencyInv, NEW r \in Calls, Claim(r)
    PROVE  IdempotencyInv'
PROOF
<1>1. progress[r] \in Active /\ "rereading" \in Active
      /\ UNCHANGED <<lifetime, home, hash, awaited, tries>> /\ tries' \in [Calls -> Nat]
  BY DEF Claim, Active, IdempotencyInv, IdempotencyTypeOK
<1>2. CASE Live
  BY <1>1, <1>2, RunMovesKeeps DEF Claim
<1>3. CASE ~Live
  <2>1. record' = [by |-> r, hash |-> hash[r], live |-> TRUE] /\ Told(r, "handler", r)
    BY <1>3 DEF Claim
  <2>2. record' \in Records /\ record' # NoRecord
    <3>1. hash[r] \in Hashes
      BY DEF IdempotencyInv, IdempotencyTypeOK
    <3>2. record' \in Records
      BY <2>1, <3>1 DEF Records
    <3>3. NoRecord \notin Records
      BY DEF Records, IdempotencyAssumption
    <3> QED BY <3>2, <3>3
  <2>3. Live' /\ record'.by = r /\ RecordIsItsCallers'
    BY <1>1, <2>1, <2>2 DEF Live, RecordIsItsCallers
  <2> QED BY <1>1, <1>3, <2>1, <2>2, <2>3, ToldKeeps
<1> QED BY <1>2, <1>3

(* The loser answers by the record that won.                                 *)
LEMMA RereadKeeps ==
    ASSUME IdempotencyInv, NEW r \in Calls, Reread(r)
    PROVE  IdempotencyInv'
PROOF
<1>1. progress[r] \in Active /\ "claiming" \in Active
      /\ UNCHANGED <<record, lifetime, home, hash, awaited>>
  BY DEF Reread, Active
<1>2. tries' \in [Calls -> Nat]
  BY DEF Reread, IdempotencyInv, IdempotencyTypeOK
<1>3. CASE Live
  BY <1>1, <1>3, StoredKeeps DEF Reread
<1>4. CASE ~Live
  BY <1>1, <1>2, <1>4, RunMovesKeeps, RunThrowsKeeps DEF Reread
<1> QED BY <1>3, <1>4

(* A record's lifetime ends: the answers given of it are no longer current.  *)
LEMMA ExpireKeeps ==
    ASSUME IdempotencyInv, Expire
    PROVE  IdempotencyInv'
PROOF
<1>1. /\ record \in Records /\ record' = [record EXCEPT !.live = FALSE]
      /\ lifetime' = lifetime + 1
      /\ UNCHANGED <<inFlight, progress, home, hash, awaited, tries, outcome>>
  BY DEF Expire, Live, IdempotencyInv, IdempotencyTypeOK
<1>2. record' \in Records /\ record'.hash = hash'[record'.by]
  BY <1>1 DEF Records, IdempotencyInv, RecordIsItsCallers, Expire, Live
<1>3. LatestAnswersAreTheRows'
  <2> SUFFICES ASSUME NEW q \in Calls, outcome[q].source \in Kept
               PROVE  outcome[q].life <= lifetime' /\ outcome[q].life # lifetime'
    BY <1>1 DEF LatestAnswersAreTheRows
  <2>1. outcome[q].life \in Nat /\ outcome[q].life <= lifetime /\ lifetime \in Nat
    BY DEF IdempotencyInv, LatestAnswersAreTheRows, IdempotencyTypeOK, Outcomes
  <2> QED BY <1>1, <2>1
<1> QED BY <1>1, <1>2, <1>3 DEF IdempotencyInv, IdempotencyTypeOK, RecordIsItsCallers, OneAnswerPerKey,
        AnswersAgree, ReplayIsOfTheSameRequest, OneRunPerProcess

(* A dead record is swept.                                                   *)
LEMMA SweepKeeps ==
    ASSUME IdempotencyInv, SweepExpired
    PROVE  IdempotencyInv'
BY DEF IdempotencyInv, SweepExpired, IdempotencyTypeOK, RecordIsItsCallers, LatestAnswersAreTheRows, Live,
       OneAnswerPerKey, AnswersAgree, ReplayIsOfTheSameRequest, OneRunPerProcess

(* A process dies with the calls it had: its map of runs is lost.            *)
LEMMA CrashKeeps ==
    ASSUME IdempotencyInv, NEW p \in Processes, ProcessCrash(p)
    PROVE  IdempotencyInv'
PROOF
<1>1. /\ inFlight' = [inFlight EXCEPT ![p] = NoCall]
      /\ progress' = [r \in Calls |->
             IF home[r] = p /\ progress[r] \in Active \cup {"waiting"} THEN "lost" ELSE progress[r]]
      /\ UNCHANGED <<record, lifetime, home, hash, awaited, tries, outcome>>
  BY DEF ProcessCrash
<1>2. /\ inFlight' \in [Processes -> Calls \cup {NoCall}] /\ progress' \in [Calls -> Progresses]
      /\ awaited' \in [Calls -> Calls \cup {NoCall}] /\ tries' \in [Calls -> Nat]
  BY <1>1 DEF IdempotencyInv, IdempotencyTypeOK, Progresses, Ended
<1>3. OneRunPerProcess'
  <2> SUFFICES ASSUME NEW q \in Calls, progress'[q] \in Active PROVE inFlight'[home[q]] = q
    BY <1>1 DEF OneRunPerProcess
  <2>1. home[q] # p /\ progress[q] \in Active
    BY <1>1 DEF Active
  <2>2. inFlight[home[q]] = q
    BY <2>1 DEF IdempotencyInv, OneAnswerPerKey, OneRunPerProcess
  <2> QED BY <1>1, <2>1, <2>2 DEF IdempotencyInv, IdempotencyTypeOK
<1> QED BY <1>1, <1>2, <1>3, SilentStepKeeps

(* Every step of every process keeps the invariant.                          *)
LEMMA IdempotencyStepKeeps ==
    ASSUME IdempotencyAssumption, IdempotencyInv, IdempotencyNext
    PROVE  IdempotencyInv'
PROOF
<1>1. ASSUME NEW r \in Calls, Arrive(r) \/ CallStep(r) \/ Throw(r) PROVE IdempotencyInv'
  <2>1. CASE Arrive(r) \/ Wake(r)
    BY <2>1, ArriveOrWakeKeeps
  <2>2. CASE Read(r)
    BY <2>2, ReadKeeps
  <2>3. CASE Handle(r)
    BY <2>3, HandleKeeps
  <2>4. CASE Claim(r)
    BY <2>4, ClaimKeeps
  <2>5. CASE Reread(r)
    BY <2>5, RereadKeeps
  <2>6. CASE Throw(r)
    BY <2>6, RunThrowsKeeps DEF Throw, IdempotencyInv, IdempotencyTypeOK
  <2> QED BY <1>1, <2>1, <2>2, <2>3, <2>4, <2>5, <2>6 DEF CallStep
<1>2. ASSUME NEW p \in Processes, ProcessCrash(p) PROVE IdempotencyInv'
  BY <1>2, CrashKeeps
<1> QED BY <1>1, <1>2, ExpireKeeps, SweepKeeps DEF IdempotencyNext

(* One key is one answer while its record lives, a replay answers the same
   request, and a process runs the handler of a key once at a time: for any
   number of processes that race, crash and see records expire.              *)
THEOREM KeysAreAnsweredOnce == IdempotencySpec => []OneAnswerPerKey
PROOF
<1>1. IdempotencyInit => IdempotencyInv
  BY IdempotencyAssumption, IdempotencyStarts
<1>2. IdempotencyInv /\ [IdempotencyNext]_idempotencyVars => IdempotencyInv'
  <2> SUFFICES ASSUME IdempotencyInv, [IdempotencyNext]_idempotencyVars PROVE IdempotencyInv'
    OBVIOUS
  <2>1. CASE IdempotencyNext
    BY <2>1, IdempotencyAssumption, IdempotencyStepKeeps
  <2>2. CASE UNCHANGED idempotencyVars
    <3>1. /\ inFlight' \in [Processes -> Calls \cup {NoCall}] /\ progress' \in [Calls -> Progresses]
          /\ awaited' \in [Calls -> Calls \cup {NoCall}] /\ tries' \in [Calls -> Nat]
          /\ OneRunPerProcess'
      BY <2>2 DEF idempotencyVars, IdempotencyInv, IdempotencyTypeOK, OneAnswerPerKey, OneRunPerProcess
    <3> QED BY <2>2, <3>1, SilentStepKeeps DEF idempotencyVars
  <2> QED BY <2>1, <2>2
<1>3. IdempotencyInv => OneAnswerPerKey
  BY DEF IdempotencyInv
<1> QED BY <1>1, <1>2, <1>3, PTL DEF IdempotencySpec

-----------------------------------------------------------------------------
(* The payment ledger (X402).                                                *)
TransferStates == {"none", "sent", "mined", "reverted", "dropped"}
Visits == {"new", "refused", "verifying", "served", "settling", "confirming", "reporting", "over"}
PastVerify == {"served", "settling", "confirming", "reporting", "over"}
Reports == {"none", "success", "reverted", "pending", "threw"}
Booked == {n \in Nonces : row[n] # NoRow}

(* The chain and the ledger: every listed row exists.                        *)
LedgerTypeOK ==
    /\ time \in Nat /\ transfer \in [Nonces -> TransferStates]
    /\ row \in [Nonces -> PaymentRows \cup {NoRow}]
    /\ unexamined \in Seq(Booked) /\ examined \in Seq(Booked)

VisitTypeOK ==
    /\ visit \in [PaidRequests -> Visits] /\ carries \in [PaidRequests -> Nonces]
    /\ report \in [PaidRequests -> Reports]

(* A row written off was: its transfer reverted, or can no longer be mined.  *)
WrittenOffForGood ==
    \A n \in Nonces : row[n] # NoRow =>
        /\ row[n].reason = "reverted" => transfer[n] = "reverted"
        /\ row[n].reason = "unconfirmed" => transfer[n] # "mined" /\ time >= ValidBefore[n]

LedgerInv == LedgerTypeOK /\ SettledIsPaid /\ WrittenOffForGood

(* Who got past verify has its row, alone; what settle() reports is what the
   chain did.                                                                *)
CarriedIsBooked == \A q \in PaidRequests : visit[q] \in PastVerify => row[carries[q]] # NoRow

ReportIsTrue ==
    \A q \in PaidRequests : visit[q] = "reporting" =>
        /\ report[q] = "success" => transfer[carries[q]] = "mined"
        /\ report[q] = "reverted" => transfer[carries[q]] = "reverted"

VisitInv == VisitTypeOK /\ CarriedIsBooked /\ ReportIsTrue /\ OneResponsePerAuthorization

(* The reconciler's page: nonces, and a clock that was read.                 *)
PassInv ==
    /\ pass \in [rows : Seq([nonce : Nonces, hash : BOOLEAN]), now : Nat]
    /\ pass.now <= time

X402Inv == LedgerInv /\ VisitInv /\ PassInv

-----------------------------------------------------------------------------
(* Taking a row off a list leaves a list of the same rows.                   *)
LEMMA WithoutType ==
    ASSUME NEW S, NEW s \in Seq(S), NEW n
    PROVE  Without(s, n) \in Seq(S)
PROOF
<1>1. CASE \E i \in DOMAIN s : s[i] = n
  <2> DEFINE place == CHOOSE i \in DOMAIN s : s[i] = n
  <2>1. place \in DOMAIN s
    BY <1>1
  <2>2. DOMAIN s = 1..Len(s) /\ Len(s) \in Nat
    OBVIOUS
  <2> HIDE DEF place
  <2>3. RemoveAt(s, place) \in Seq(S)
    <3>1. place \in 1..Len(s)
      BY <2>1, <2>2
    <3>2. SubSeq(s, 1, place - 1) \in Seq(S) /\ SubSeq(s, place + 1, Len(s)) \in Seq(S)
      BY <2>2, <3>1
    <3> QED BY <3>2 DEF RemoveAt
  <2> QED BY <1>1, <2>3 DEF Without, place
<1>2. CASE ~ \E i \in DOMAIN s : s[i] = n
  BY <1>2 DEF Without
<1> QED BY <1>1, <1>2

(* A list of rows stays one when more rows exist.                            *)
LEMMA ListsGrow ==
    ASSUME NEW S, NEW T, S \subseteq T, NEW s \in Seq(S)
    PROVE  s \in Seq(T)
OBVIOUS

(* Closing a row keeps the ledger's invariant when the closing is justified. *)
LEMMA RowCloseKeeps ==
    ASSUME X402Assumption, LedgerInv, NEW n \in Nonces, NEW status \in {"settled", "failed"},
           NEW reason \in {"none", "reverted", "unconfirmed", "expired", "threw"}, NEW txHash \in BOOLEAN,
           Close(n, status, reason, txHash), UNCHANGED chainSide,
           status = "settled" => transfer[n] = "mined",
           reason = "reverted" => transfer[n] = "reverted",
           reason = "unconfirmed" => transfer[n] # "mined" /\ time >= ValidBefore[n]
    PROVE  LedgerInv' /\ Booked \subseteq Booked'
PROOF
<1>0. UNCHANGED <<time, transfer>>
  BY DEF chainSide
<1>1. CASE ~Accepted(n)
  <2>1. UNCHANGED <<row, unexamined, examined>>
    BY <1>1 DEF Close, ledger
  <2> QED BY <1>0, <2>1 DEF LedgerInv, LedgerTypeOK, SettledIsPaid, WrittenOffForGood, Booked
<1>2. CASE Accepted(n)
  <2>1. /\ row' = [row EXCEPT ![n] = [status |-> status, reason |-> reason, hash |-> @.hash \/ txHash]]
        /\ unexamined' = Without(unexamined, n) /\ examined' = Without(examined, n)
    BY <1>2 DEF Close
  <2>2. row[n] \in PaymentRows /\ row[n] # NoRow
    BY <1>2 DEF Accepted, LedgerInv, LedgerTypeOK
  <2>3. PICK new : /\ new = [status |-> status, reason |-> reason, hash |-> row[n].hash \/ txHash]
                   /\ row' = [row EXCEPT ![n] = new]
    BY <2>1
  <2>4. new.status = status /\ new.reason = reason /\ new \in PaymentRows /\ new # NoRow
    <3>1. row[n].hash \in BOOLEAN
      BY <2>2 DEF PaymentRows
    <3>2. new \in PaymentRows
      BY <2>3, <3>1 DEF PaymentRows
    <3> QED BY <2>3, <3>2 DEF X402Assumption
  <2>5. /\ row' \in [Nonces -> PaymentRows \cup {NoRow}] /\ row'[n] = new
        /\ \A m \in Nonces \ {n} : row'[m] = row[m]
    BY <2>3, <2>4 DEF LedgerInv, LedgerTypeOK
  <2>6. Booked \subseteq Booked'
    BY <2>4, <2>5 DEF Booked
  <2>7. unexamined' \in Seq(Booked') /\ examined' \in Seq(Booked')
    BY <2>1, <2>6, WithoutType, ListsGrow DEF LedgerInv, LedgerTypeOK
  <2>8. LedgerTypeOK'
    BY <1>0, <2>5, <2>7 DEF LedgerInv, LedgerTypeOK
  <2>9. SettledIsPaid' /\ WrittenOffForGood'
    BY <1>0, <2>4, <2>5 DEF LedgerInv, SettledIsPaid, WrittenOffForGood
  <2> QED BY <2>6, <2>8, <2>9 DEF LedgerInv
<1> QED BY <1>1, <1>2

(* A row that is examined again, or gets its hash, is as before.             *)
LEMMA CheckedKeeps ==
    ASSUME X402Assumption, LedgerInv, NEW n \in Nonces, MarkChecked(n), UNCHANGED chainSide
    PROVE  LedgerInv' /\ Booked \subseteq Booked'
PROOF
<1>1. row' = row /\ time' = time /\ transfer' = transfer
  BY DEF MarkChecked, chainSide
<1>2. unexamined' \in Seq(Booked)
  BY WithoutType DEF MarkChecked, LedgerInv, LedgerTypeOK
<1>3. examined' \in Seq(Booked)
  <2>1. Without(examined, n) \in Seq(Booked)
    BY WithoutType DEF LedgerInv, LedgerTypeOK
  <2>2. Accepted(n) => n \in Booked
    BY DEF Accepted, Booked
  <2> QED BY <2>1, <2>2 DEF MarkChecked, LedgerInv, LedgerTypeOK
<1>4. Booked' = Booked
  BY <1>1 DEF Booked
<1> QED BY <1>1, <1>2, <1>3, <1>4 DEF LedgerInv, LedgerTypeOK, SettledIsPaid, WrittenOffForGood

(* markPending() writes the hash into an accepted row, or leaves the row.    *)
LEMMA PendingKeeps ==
    ASSUME X402Assumption, LedgerInv, NEW n \in Nonces, MarkPending(n), UNCHANGED chainSide
    PROVE  LedgerInv' /\ Booked \subseteq Booked'
PROOF
<1>0. UNCHANGED <<time, transfer, unexamined, examined>>
  BY DEF chainSide, MarkPending
<1>1. CASE ~Accepted(n)
  <2>1. row' = row
    BY <1>1 DEF MarkPending
  <2> QED BY <1>0, <2>1 DEF LedgerInv, LedgerTypeOK, SettledIsPaid, WrittenOffForGood, Booked
<1>2. CASE Accepted(n)
  <2>1. row[n] \in PaymentRows /\ row' = [row EXCEPT ![n].hash = TRUE]
    BY <1>2 DEF MarkPending, Accepted, LedgerInv, LedgerTypeOK
  <2>2. PICK new : new = [row[n] EXCEPT !.hash = TRUE] /\ row' = [row EXCEPT ![n] = new]
    BY <2>1
  <2>3. new \in PaymentRows /\ new.status = row[n].status /\ new.reason = row[n].reason
    BY <2>1, <2>2 DEF PaymentRows
  <2>4. new # NoRow
    BY <2>3 DEF X402Assumption
  <2>5. /\ row' \in [Nonces -> PaymentRows \cup {NoRow}] /\ row'[n] = new /\ row[n] # NoRow
        /\ \A m \in Nonces \ {n} : row'[m] = row[m]
    BY <1>2, <2>2, <2>3 DEF LedgerInv, LedgerTypeOK, Accepted
  <2>6. Booked' = Booked
    BY <2>4, <2>5 DEF Booked
  <2> QED BY <1>0, <2>3, <2>4, <2>5, <2>6 DEF LedgerInv, LedgerTypeOK, SettledIsPaid, WrittenOffForGood
<1> QED BY <1>1, <1>2

-----------------------------------------------------------------------------
(* The rows an earlier run left open are accepted, without a hash.           *)
LEMMA X402Starts ==
    ASSUME X402Assumption, X402Init
    PROVE  X402Inv
PROOF
<1>1. PICK left \in SUBSET LeftOpen :
         /\ \E sent \in SUBSET left : transfer = [n \in Nonces |-> IF n \in sent THEN "sent" ELSE "none"]
         /\ row = [n \in Nonces |-> IF n \in left THEN AcceptedRow ELSE NoRow]
         /\ unexamined \in SetToSeqs(left)
  BY DEF X402Init
<1>2. AcceptedRow \in PaymentRows /\ AcceptedRow.status = "accepted" /\ AcceptedRow.reason = "none"
      /\ AcceptedRow # NoRow
  <2>1. AcceptedRow \in PaymentRows
    BY DEF AcceptedRow, PaymentRows
  <2> QED BY <2>1 DEF AcceptedRow, X402Assumption
<1>3. left \subseteq Booked
  BY <1>1, <1>2 DEF Booked, X402Assumption
<1>4. unexamined \in Seq(Booked) /\ examined \in Seq(Booked)
  <2>1. IsFiniteSet(left) /\ Cardinality(left) \in Nat
    BY FS_Subset, FS_CardinalityType DEF X402Assumption
  <2>2. unexamined \in [1..Cardinality(left) -> left]
    BY <1>1 DEF SetToSeqs
  <2>3. unexamined \in Seq(left)
    BY <2>1, <2>2
  <2> QED BY <1>3, <2>3, ListsGrow DEF X402Init
<1>5. LedgerInv
  <2>1. time \in Nat /\ transfer \in [Nonces -> TransferStates] /\ row \in [Nonces -> PaymentRows \cup {NoRow}]
    BY <1>1, <1>2 DEF X402Init, TransferStates
  <2>2. SettledIsPaid /\ WrittenOffForGood
    BY <1>1, <1>2 DEF SettledIsPaid, WrittenOffForGood
  <2> QED BY <1>4, <2>1, <2>2 DEF LedgerInv, LedgerTypeOK
<1>6. VisitInv
  <2>1. VisitTypeOK
    BY DEF X402Init, VisitTypeOK, Visits, Reports, X402Assumption
  <2> QED BY <2>1 DEF X402Init, VisitInv, CarriedIsBooked, ReportIsTrue, OneResponsePerAuthorization, PastVerify
<1>7. PassInv
  BY DEF X402Init, PassInv, NoPass
<1> QED BY <1>5, <1>6, <1>7 DEF X402Inv

(* Rows that appear and transfers that end disturb no request.               *)
TransfersEndOnce == \A n \in Nonces : transfer[n] \in {"mined", "reverted"} => transfer'[n] = transfer[n]

(* A request keeps its row and its report when others are worked on.         *)
LEMMA RequestsUndisturbed ==
    ASSUME VisitInv, UNCHANGED visits, Booked \subseteq Booked', TransfersEndOnce
    PROVE  VisitInv'
PROOF
<1>1. UNCHANGED <<visit, carries, report>>
  BY DEF visits
<1>2. \A q \in PaidRequests : row[carries[q]] # NoRow => row'[carries[q]] # NoRow
  BY DEF VisitInv, VisitTypeOK, Booked
<1>3. CarriedIsBooked' /\ ReportIsTrue'
  BY <1>1, <1>2 DEF VisitInv, VisitTypeOK, CarriedIsBooked, ReportIsTrue, TransfersEndOnce
<1> QED BY <1>1, <1>3 DEF VisitInv, VisitTypeOK, OneResponsePerAuthorization

(* A request that moves on: it stays behind verify or was past it before, its
   row is there, and what it reports is true.                                *)
LEMMA RequestMoves ==
    ASSUME VisitInv, NEW q \in PaidRequests, NEW to \in Visits, NEW told \in Reports,
           visit' = [visit EXCEPT ![q] = to], report' = [report EXCEPT ![q] = told], carries' = carries,
           to \in PastVerify => visit[q] \in PastVerify,
           to = "reporting" => /\ told = "success" => transfer'[carries[q]] = "mined"
                               /\ told = "reverted" => transfer'[carries[q]] = "reverted",
           Booked \subseteq Booked', TransfersEndOnce
    PROVE  VisitInv'
PROOF
<1>1. VisitTypeOK'
  BY DEF VisitInv, VisitTypeOK
<1>2. /\ visit'[q] = to /\ report'[q] = told
      /\ \A s \in PaidRequests \ {q} : visit'[s] = visit[s] /\ report'[s] = report[s]
  BY DEF VisitInv, VisitTypeOK
<1>3. \A s \in PaidRequests : visit'[s] \in PastVerify => visit[s] \in PastVerify
  BY <1>2
<1>4. \A s \in PaidRequests : carries[s] \in Nonces /\ (row[carries[s]] # NoRow => row'[carries[s]] # NoRow)
  BY DEF VisitInv, VisitTypeOK, Booked
<1>5. CarriedIsBooked'
  BY <1>3, <1>4 DEF VisitInv, CarriedIsBooked
<1>6. ReportIsTrue'
  BY <1>2, <1>4 DEF VisitInv, ReportIsTrue, TransfersEndOnce
<1>7. OneResponsePerAuthorization'
  BY <1>3 DEF VisitInv, OneResponsePerAuthorization, PastVerify
<1> QED BY <1>1, <1>5, <1>6, <1>7 DEF VisitInv

(* The page knows only its own clock. *)
LEMMA PageUndisturbed ==
    ASSUME X402Inv, pass' = pass, time' \in Nat, time' >= time
    PROVE  PassInv'
BY DEF X402Inv, PassInv, LedgerInv, LedgerTypeOK

(* A request that presents a header has touched no row yet.                  *)
LEMMA PresentKeeps ==
    ASSUME X402Inv, NEW q \in PaidRequests, NEW n \in Nonces, Present(q, n)
    PROVE  X402Inv'
PROOF
<1>1. /\ UNCHANGED <<time, transfer, row, unexamined, examined, report, pass>>
      /\ carries' = [carries EXCEPT ![q] = n]
      /\ \E to \in {"refused", "verifying"} : visit' = [visit EXCEPT ![q] = to]
  BY DEF Present, GoesTo, chainSide, ledger
<1>2. LedgerInv' /\ PassInv'
  BY <1>1 DEF X402Inv, LedgerInv, LedgerTypeOK, SettledIsPaid, WrittenOffForGood, Booked, PassInv
<1>3. VisitTypeOK'
  BY <1>1 DEF X402Inv, VisitInv, VisitTypeOK, Visits
<1>4. /\ visit'[q] \notin PastVerify /\ visit'[q] # "reporting"
      /\ \A s \in PaidRequests \ {q} : visit'[s] = visit[s] /\ carries'[s] = carries[s]
  BY <1>1 DEF X402Inv, VisitInv, VisitTypeOK, PastVerify
<1>5. CarriedIsBooked' /\ ReportIsTrue'
  BY <1>1, <1>4 DEF X402Inv, VisitInv, CarriedIsBooked, ReportIsTrue
<1>6. OneResponsePerAuthorization'
  BY <1>4 DEF X402Inv, VisitInv, OneResponsePerAuthorization, PastVerify
<1> QED BY <1>2, <1>3, <1>5, <1>6 DEF X402Inv, VisitInv

(* The insert lets one request past verify for each authorization.           *)
LEMMA AfterVerifyKeeps ==
    ASSUME X402Assumption, X402Inv, NEW q \in PaidRequests, AfterVerify(q)
    PROVE  X402Inv'
PROOF
<1> DEFINE n == carries[q]
<1>0. /\ UNCHANGED <<time, transfer, examined, carries, report, pass>> /\ n \in Nonces
      /\ visit[q] = "verifying" /\ time \in Nat
  BY DEF AfterVerify, chainSide, X402Inv, VisitInv, VisitTypeOK, LedgerInv, LedgerTypeOK
<1>1. PassInv'
  BY <1>0, PageUndisturbed
<1>2. CASE ~Inserts(q)
  <2>1. UNCHANGED <<row, unexamined>> /\ visit' = [visit EXCEPT ![q] = "refused"]
    BY <1>2 DEF AfterVerify, GoesTo
  <2>2. Booked' = Booked
    BY <2>1 DEF Booked
  <2>3. LedgerInv'
    BY <1>0, <2>1, <2>2 DEF X402Inv, LedgerInv, LedgerTypeOK, SettledIsPaid, WrittenOffForGood
  <2>4. VisitInv'
    <3>1. report' = [report EXCEPT ![q] = report[q]] /\ report[q] \in Reports
      BY <1>0 DEF X402Inv, VisitInv, VisitTypeOK
    <3> QED BY <1>0, <2>1, <2>2, <3>1, RequestMoves DEF X402Inv, Visits, PastVerify, TransfersEndOnce
  <2> QED BY <1>1, <2>3, <2>4 DEF X402Inv
<1>3. CASE Inserts(q)
  <2>1. /\ row' = [row EXCEPT ![n] = AcceptedRow] /\ unexamined' = Append(unexamined, n)
        /\ visit' = [visit EXCEPT ![q] = "served"] /\ row[n] = NoRow
    BY <1>3 DEF AfterVerify, GoesTo, Inserts
  <2>2. AcceptedRow \in PaymentRows /\ AcceptedRow.status = "accepted" /\ AcceptedRow.reason = "none"
        /\ AcceptedRow # NoRow
    <3>1. AcceptedRow \in PaymentRows
      BY DEF AcceptedRow, PaymentRows
    <3> QED BY <3>1 DEF AcceptedRow, X402Assumption
  <2>3. /\ row' \in [Nonces -> PaymentRows \cup {NoRow}] /\ row'[n] = AcceptedRow
        /\ \A m \in Nonces \ {n} : row'[m] = row[m]
    BY <1>0, <2>1, <2>2 DEF X402Inv, LedgerInv, LedgerTypeOK
  <2>4. Booked \subseteq Booked' /\ n \in Booked'
    BY <1>0, <2>2, <2>3 DEF Booked
  <2>5. unexamined' \in Seq(Booked') /\ examined' \in Seq(Booked')
    <3>1. unexamined \in Seq(Booked') /\ examined \in Seq(Booked')
      BY <2>4, ListsGrow DEF X402Inv, LedgerInv, LedgerTypeOK
    <3> QED BY <1>0, <2>1, <2>4, <3>1
  <2>6. SettledIsPaid' /\ WrittenOffForGood'
    BY <1>0, <2>2, <2>3 DEF X402Inv, LedgerInv, SettledIsPaid, WrittenOffForGood
  <2>7. LedgerInv'
    BY <1>0, <2>3, <2>5, <2>6 DEF X402Inv, LedgerInv, LedgerTypeOK
  <2>8. VisitTypeOK' /\ visit'[q] = "served" /\ \A s \in PaidRequests \ {q} : visit'[s] = visit[s]
    BY <1>0, <2>1 DEF X402Inv, VisitInv, VisitTypeOK, Visits
  <2>9. CarriedIsBooked' /\ ReportIsTrue'
    BY <1>0, <2>2, <2>3, <2>8 DEF X402Inv, VisitInv, VisitTypeOK, CarriedIsBooked, ReportIsTrue
  <2>10. OneResponsePerAuthorization'
    <3>1. \A s \in PaidRequests \ {q} : visit[s] \in PastVerify => carries[s] # n
      BY <2>1 DEF X402Inv, VisitInv, CarriedIsBooked
    <3> QED BY <1>0, <2>8, <3>1 DEF X402Inv, VisitInv, OneResponsePerAuthorization, PastVerify
  <2> QED BY <1>1, <2>7, <2>8, <2>9, <2>10 DEF X402Inv, VisitInv
<1> QED BY <1>2, <1>3

(* A request that moves on while the ledger rests.                           *)
LEMMA RequestStepKeeps ==
    ASSUME X402Assumption, X402Inv, NEW q \in PaidRequests,
           AfterHandler(q) \/ Broadcast(q) \/ Confirm(q) \/ GatewayDies(q)
    PROVE  X402Inv'
PROOF
<1>1. UNCHANGED <<time, row, unexamined, examined, carries, pass>>
  BY DEF AfterHandler, Broadcast, Confirm, GatewayDies, chainSide, ledger
<1>2. Booked' = Booked
  BY <1>1 DEF Booked
<1>3. carries[q] \in Nonces /\ report[q] \in Reports /\ visit[q] \in Visits
      /\ report = [report EXCEPT ![q] = report[q]] /\ time \in Nat
  BY DEF X402Inv, VisitInv, VisitTypeOK, LedgerInv, LedgerTypeOK
<1>4. /\ transfer' \in [Nonces -> TransferStates] /\ TransfersEndOnce
      /\ \A n \in Nonces : transfer'[n] = "mined" => transfer[n] = "mined"
  <2>1. CASE transfer' = transfer
    BY <2>1 DEF X402Inv, LedgerInv, LedgerTypeOK, TransfersEndOnce
  <2>2. CASE transfer[carries[q]] = "none" /\ transfer' = [transfer EXCEPT ![carries[q]] = "sent"]
    <3>1. \A n \in Nonces \ {carries[q]} : transfer'[n] = transfer[n]
      BY <2>2 DEF X402Inv, LedgerInv, LedgerTypeOK
    <3>2. transfer'[carries[q]] = "sent" /\ transfer' \in [Nonces -> TransferStates]
      BY <1>3, <2>2 DEF X402Inv, LedgerInv, LedgerTypeOK, TransferStates
    <3> QED BY <2>2, <3>1, <3>2 DEF TransfersEndOnce
  <2> QED BY <2>1, <2>2 DEF AfterHandler, Broadcast, Confirm, GatewayDies, chainSide
<1>5. LedgerInv'
  BY <1>1, <1>2, <1>4 DEF X402Inv, LedgerInv, LedgerTypeOK, SettledIsPaid, WrittenOffForGood, TransfersEndOnce
<1>6. PassInv'
  BY <1>1, <1>3, PageUndisturbed
<1>7. CASE AfterHandler(q) \/ GatewayDies(q)
  <2>1. report' = [report EXCEPT ![q] = report[q]]
    BY <1>3, <1>7 DEF AfterHandler, GatewayDies
  <2>2. PICK to \in {"settling", "over", "refused"} :
           /\ visit' = [visit EXCEPT ![q] = to]
           /\ to \in PastVerify => visit[q] \in PastVerify
    BY <1>7 DEF AfterHandler, GatewayDies, GoesTo, PastVerify
  <2>3. VisitInv'
    <3>1. to \in Visits /\ to # "reporting"
      BY <2>2 DEF Visits
    <3> QED BY <1>1, <1>2, <1>3, <1>4, <2>1, <2>2, <3>1, RequestMoves DEF X402Inv
  <2> QED BY <1>5, <1>6, <2>3 DEF X402Inv
<1>8. CASE Broadcast(q)
  <2>1. /\ visit[q] = "settling"
        /\ \/ /\ visit' = [visit EXCEPT ![q] = "confirming"]
              /\ report' = [report EXCEPT ![q] = report[q]]
           \/ /\ visit' = [visit EXCEPT ![q] = "reporting"]
              /\ report' = [report EXCEPT ![q] = "threw"]
    BY <1>3, <1>8 DEF Broadcast, GoesTo
  <2>2. VisitInv'
    BY <1>1, <1>2, <1>3, <1>4, <2>1, RequestMoves DEF X402Inv, Visits, PastVerify, Reports
  <2> QED BY <1>5, <1>6, <2>2 DEF X402Inv
<1>9. CASE Confirm(q)
  <2>1. /\ visit[q] = "confirming" /\ visit' = [visit EXCEPT ![q] = "reporting"] /\ transfer' = transfer
        /\ \/ transfer[carries[q]] = "mined" /\ report' = [report EXCEPT ![q] = "success"]
           \/ transfer[carries[q]] = "reverted" /\ report' = [report EXCEPT ![q] = "reverted"]
           \/ report' = [report EXCEPT ![q] = "pending"]
    BY <1>9 DEF Confirm, GoesTo, chainSide
  <2>2. VisitInv'
    BY <1>1, <1>2, <1>3, <1>4, <2>1, RequestMoves DEF X402Inv, Visits, PastVerify, Reports
  <2> QED BY <1>5, <1>6, <2>2 DEF X402Inv
<1> QED BY <1>7, <1>8, <1>9

(* The facilitator's hook writes what settle() told it.                      *)
LEMMA AfterSettleKeeps ==
    ASSUME X402Assumption, X402Inv, NEW q \in PaidRequests, AfterSettle(q)
    PROVE  X402Inv'
PROOF
<1>1. /\ visit[q] = "reporting" /\ visit' = [visit EXCEPT ![q] = "over"]
      /\ UNCHANGED chainSide /\ UNCHANGED <<time, transfer, carries, report, pass>>
      /\ carries[q] \in Nonces /\ report[q] \in Reports /\ time \in Nat
      /\ report' = [report EXCEPT ![q] = report[q]]
  BY DEF AfterSettle, GoesTo, chainSide, X402Inv, VisitInv, VisitTypeOK, LedgerInv, LedgerTypeOK
<1>2. LedgerInv' /\ Booked \subseteq Booked'
  <2>1. CASE report[q] = "success" /\ MarkSettled(carries[q])
    BY <1>1, <2>1, RowCloseKeeps DEF MarkSettled, X402Inv, VisitInv, ReportIsTrue
  <2>2. CASE report[q] = "pending" /\ MarkPending(carries[q])
    BY <1>1, <2>2, PendingKeeps DEF X402Inv
  <2>3. CASE report[q] = "reverted" /\ MarkFailed(carries[q], "reverted", TRUE)
    BY <1>1, <2>3, RowCloseKeeps DEF MarkFailed, X402Inv, VisitInv, ReportIsTrue
  <2>4. CASE report[q] = "threw" /\ MarkFailed(carries[q], "threw", FALSE)
    BY <1>1, <2>4, RowCloseKeeps DEF MarkFailed, X402Inv
  <2> QED BY <2>1, <2>2, <2>3, <2>4 DEF AfterSettle
<1>3. VisitInv'
  BY <1>1, <1>2, RequestMoves DEF X402Inv, Visits, PastVerify, TransfersEndOnce
<1>4. PassInv'
  BY <1>1, PageUndisturbed
<1> QED BY <1>2, <1>3, <1>4 DEF X402Inv

(* A transfer that is mined was in time, so it was not written off.          *)
LEMMA MineKeeps ==
    ASSUME X402Assumption, X402Inv, NEW n \in Nonces, Mine(n)
    PROVE  X402Inv'
PROOF
<1>1. /\ UNCHANGED <<time, row, unexamined, examined, pass>> /\ UNCHANGED visits /\ transfer[n] = "sent"
      /\ time \in Nat
      /\ \/ time < ValidBefore[n] /\ transfer' = [transfer EXCEPT ![n] = "mined"]
         \/ \E end \in {"reverted", "dropped"} : transfer' = [transfer EXCEPT ![n] = end]
  BY DEF Mine, ledger, X402Inv, LedgerInv, LedgerTypeOK
<1>2. transfer' \in [Nonces -> TransferStates] /\ TransfersEndOnce
  BY <1>1 DEF X402Inv, LedgerInv, LedgerTypeOK, TransfersEndOnce, TransferStates
<1>3. Booked' = Booked
  BY <1>1 DEF Booked
<1>4. SettledIsPaid'
  BY <1>1, <1>2 DEF X402Inv, LedgerInv, SettledIsPaid, TransfersEndOnce
<1>5. WrittenOffForGood'
  <2> SUFFICES ASSUME NEW m \in Nonces, row[m] # NoRow
               PROVE  /\ row[m].reason = "reverted" => transfer'[m] = "reverted"
                      /\ row[m].reason = "unconfirmed" => transfer'[m] # "mined" /\ time >= ValidBefore[m]
    BY <1>1 DEF WrittenOffForGood
  <2>1. /\ row[m].reason = "reverted" => transfer[m] = "reverted"
        /\ row[m].reason = "unconfirmed" => transfer[m] # "mined" /\ time >= ValidBefore[m]
    BY DEF X402Inv, LedgerInv, WrittenOffForGood
  <2>2. CASE m = n
    <3>1. ValidBefore[n] \in Nat
      BY DEF X402Assumption
    <3> QED BY <1>1, <2>1, <2>2, <3>1 DEF X402Inv, LedgerInv, LedgerTypeOK
  <2>3. CASE m # n
    BY <1>1, <2>1, <2>3 DEF X402Inv, LedgerInv, LedgerTypeOK
  <2> QED BY <2>2, <2>3
<1>6. VisitInv' /\ PassInv'
  BY <1>1, <1>2, <1>3, RequestsUndisturbed, PageUndisturbed DEF X402Inv
<1> QED BY <1>1, <1>2, <1>3, <1>4, <1>5, <1>6 DEF X402Inv, LedgerInv, LedgerTypeOK

(* Time alone resolves nothing.                                              *)
LEMMA TimeKeeps ==
    ASSUME X402Assumption, X402Inv, TimePasses
    PROVE  X402Inv'
PROOF
<1>1. /\ time' = time + 1 /\ time \in Nat /\ UNCHANGED <<transfer, row, unexamined, examined, pass>>
      /\ UNCHANGED visits
  BY DEF TimePasses, ledger, X402Inv, LedgerInv, LedgerTypeOK
<1>2. Booked' = Booked
  BY <1>1 DEF Booked
<1>3. WrittenOffForGood'
  <2>1. ValidBefore \in [Nonces -> Nat]
    BY DEF X402Assumption
  <2> QED BY <1>1, <2>1 DEF X402Inv, LedgerInv, WrittenOffForGood
<1>4. LedgerInv'
  BY <1>1, <1>2, <1>3 DEF X402Inv, LedgerInv, LedgerTypeOK, SettledIsPaid
<1>5. VisitInv' /\ PassInv'
  BY <1>1, <1>2, RequestsUndisturbed, PageUndisturbed DEF X402Inv, TransfersEndOnce
<1> QED BY <1>4, <1>5 DEF X402Inv

(* A page lists rows that exist. *)
LEMMA StartPassKeeps ==
    ASSUME X402Assumption, X402Inv, StartPass
    PROVE  X402Inv'
PROOF
<1>1. /\ pass' = [rows |-> [i \in DOMAIN Page |-> [nonce |-> Page[i], hash |-> row[Page[i]].hash]],
                  now |-> time]
      /\ UNCHANGED chainSide /\ UNCHANGED ledger /\ UNCHANGED visits
      /\ UNCHANGED <<time, transfer, row, unexamined, examined>>
  BY DEF StartPass, chainSide, ledger
<1>2. Page \in Seq(Booked)
  <2> DEFINE open == unexamined \o examined
  <2>1. open \in Seq(Booked) /\ PageLimit \in Nat
    BY DEF X402Inv, LedgerInv, LedgerTypeOK, X402Assumption
  <2>2. Len(open) > PageLimit => SubSeq(open, 1, PageLimit) \in Seq(Booked)
    BY <2>1
  <2> QED BY <2>1, <2>2 DEF Page
<1>3. \A n \in Booked : n \in Nonces /\ row[n].hash \in BOOLEAN
  BY DEF Booked, X402Inv, LedgerInv, LedgerTypeOK, PaymentRows
<1>4. pass'.rows \in Seq([nonce : Nonces, hash : BOOLEAN])
  <2>1. DOMAIN Page = 1..Len(Page) /\ Len(Page) \in Nat /\ \A i \in 1..Len(Page) : Page[i] \in Booked
    BY <1>2
  <2>2. \A i \in 1..Len(Page) : [nonce |-> Page[i], hash |-> row[Page[i]].hash] \in [nonce : Nonces, hash : BOOLEAN]
    BY <1>3, <2>1
  <2>3. [i \in 1..Len(Page) |-> [nonce |-> Page[i], hash |-> row[Page[i]].hash]]
           \in Seq([nonce : Nonces, hash : BOOLEAN])
    BY <2>1, <2>2
  <2> QED BY <1>1, <2>1, <2>3
<1>5. PassInv'
  BY <1>1, <1>4 DEF PassInv, X402Inv, LedgerInv, LedgerTypeOK
<1>6. Booked' = Booked
  BY <1>1 DEF Booked
<1>7. LedgerInv'
  BY <1>1, <1>6 DEF X402Inv, LedgerInv, LedgerTypeOK, SettledIsPaid, WrittenOffForGood
<1>8. VisitInv'
  BY <1>1, <1>6, RequestsUndisturbed DEF X402Inv, TransfersEndOnce
<1> QED BY <1>5, <1>7, <1>8 DEF X402Inv

(* The first of a list is an element, the rest a list.                       *)
LEMMA HeadAndTail ==
    ASSUME NEW S, NEW s \in Seq(S), s # <<>>
    PROVE  Head(s) \in S /\ Tail(s) \in Seq(S)
OBVIOUS

(* The reconciler resolves a listed row by what the node answers now.        *)
LEMMA ReconcileKeeps ==
    ASSUME X402Assumption, X402Inv, ReconcileRow
    PROVE  X402Inv'
PROOF
<1>0. PICK listed : listed = Head(pass.rows)
  OBVIOUS
<1>1. /\ pass.rows \in Seq([nonce : Nonces, hash : BOOLEAN]) /\ pass.rows # <<>>
      /\ pass.now \in Nat /\ pass.now <= time /\ time \in Nat
  BY DEF ReconcileRow, X402Inv, PassInv, LedgerInv, LedgerTypeOK
<1>2. listed \in [nonce : Nonces, hash : BOOLEAN]
      /\ Tail(pass.rows) \in Seq([nonce : Nonces, hash : BOOLEAN])
  BY <1>0, <1>1, HeadAndTail
<1>3. PICK receipt \in Receipts(listed.nonce) : Resolve(listed.nonce, listed.hash, receipt)
  BY <1>0 DEF ReconcileRow
<1>4. /\ pass' = [pass EXCEPT !.rows = Tail(@)]
      /\ UNCHANGED chainSide /\ UNCHANGED visits /\ UNCHANGED <<time, transfer>>
  BY DEF ReconcileRow, chainSide
<1>5. PICK n \in Nonces : n = listed.nonce
  BY <1>2
<1>6. PICK txHash \in BOOLEAN : txHash = listed.hash
  BY <1>2
<1>7. receipt \in Receipts(n) /\ Resolve(n, txHash, receipt)
  BY <1>3, <1>5, <1>6
<1>8. transfer[n] \in TransferStates /\ ValidBefore[n] \in Nat /\ ReceiptGrace \in Nat
  BY DEF X402Inv, LedgerInv, LedgerTypeOK, X402Assumption
<1>9. /\ receipt \in {"success", "reverted", "unknown"}
      /\ receipt = "success" => transfer[n] = "mined"
      /\ receipt = "reverted" => transfer[n] = "reverted"
      /\ receipt = "unknown" => ~(transfer[n] = "mined" /\ time >= ValidBefore[n] + ReceiptGrace)
  BY <1>7, <1>8 DEF Receipts
<1>10. LedgerInv' /\ Booked \subseteq Booked'
  <2>1. CASE txHash /\ receipt = "success"
    <3>1. MarkSettled(n)
      BY <1>7, <2>1 DEF Resolve
    <3> QED BY <1>4, <1>9, <2>1, <3>1, RowCloseKeeps DEF MarkSettled, X402Inv
  <2>2. CASE txHash /\ receipt = "reverted"
    <3>1. MarkFailed(n, "reverted", FALSE)
      BY <1>7, <2>2 DEF Resolve
    <3> QED BY <1>4, <1>9, <2>2, <3>1, RowCloseKeeps DEF MarkFailed, X402Inv
  <2>3. CASE txHash /\ receipt = "unknown" /\ PatienceOver(n)
    <3>1. MarkFailed(n, "unconfirmed", FALSE)
      BY <1>7, <2>3 DEF Resolve
    <3>2. time >= ValidBefore[n] + ReceiptGrace /\ time >= ValidBefore[n]
      BY <1>1, <1>8, <2>3 DEF PatienceOver
    <3>3. transfer[n] # "mined"
      BY <1>9, <2>3, <3>2
    <3> QED BY <1>4, <3>1, <3>2, <3>3, RowCloseKeeps DEF MarkFailed, X402Inv
  <2>4. CASE ~txHash /\ ValidBefore[n] <= pass.now
    <3>1. MarkFailed(n, "expired", FALSE)
      BY <1>7, <2>4 DEF Resolve
    <3> QED BY <1>4, <3>1, RowCloseKeeps DEF MarkFailed, X402Inv
  <2>5. CASE (txHash /\ receipt = "unknown" /\ ~PatienceOver(n)) \/ (~txHash /\ ~(ValidBefore[n] <= pass.now))
    <3>1. MarkChecked(n)
      BY <1>7, <2>5 DEF Resolve
    <3> QED BY <1>4, <3>1, CheckedKeeps DEF X402Inv
  <2> QED BY <1>9, <2>1, <2>2, <2>3, <2>4, <2>5
<1>11. VisitInv'
  BY <1>4, <1>10, RequestsUndisturbed DEF X402Inv, TransfersEndOnce
<1>12. PassInv'
  <2>1. pass'.rows = Tail(pass.rows) /\ pass'.now = pass.now
        /\ pass' \in [rows : Seq([nonce : Nonces, hash : BOOLEAN]), now : Nat]
    <3>1. pass \in [rows : Seq([nonce : Nonces, hash : BOOLEAN]), now : Nat]
      BY DEF X402Inv, PassInv
    <3> QED BY <1>1, <1>2, <1>4, <3>1
  <2> QED BY <1>1, <1>4, <2>1 DEF PassInv
<1> QED BY <1>10, <1>11, <1>12 DEF X402Inv

(* Every step of the gateway, the chain and the reconciler keeps it all.     *)
LEMMA X402StepKeeps ==
    ASSUME X402Assumption, X402Inv, X402Next
    PROVE  X402Inv'
PROOF
<1>1. ASSUME NEW q \in PaidRequests, GatewayDies(q) \/ PaymentStep(q) \/ \E n \in Nonces : Present(q, n)
      PROVE  X402Inv'
  BY <1>1, PresentKeeps, AfterVerifyKeeps, RequestStepKeeps, AfterSettleKeeps DEF PaymentStep
<1> QED BY <1>1, MineKeeps, TimeKeeps, StartPassKeeps, ReconcileKeeps DEF X402Next

(* Nothing is lost when nothing moves.                                       *)
LEMMA X402Stutters == ASSUME X402Inv, UNCHANGED x402Vars PROVE X402Inv'
BY DEF x402Vars, X402Inv, LedgerInv, LedgerTypeOK, SettledIsPaid, WrittenOffForGood, Booked,
   VisitInv, VisitTypeOK, CarriedIsBooked, ReportIsTrue, OneResponsePerAuthorization, PassInv

(* The payment ledger never says settled of a transfer that did not pay, nor
   writes one off that did once its hash was known; and one signed header
   buys one response.                                                        *)
THEOREM LedgerTellsTheTruth == X402Spec => []LedgerIsTruthful
PROOF
<1>1. X402Init => X402Inv
  BY X402Assumption, X402Starts
<1>2. X402Inv /\ [X402Next]_x402Vars => X402Inv'
  BY X402Assumption, X402StepKeeps, X402Stutters
<1>3. X402Inv => LedgerIsTruthful
  BY DEF X402Inv, LedgerInv, VisitInv, LedgerIsTruthful, WrittenOffIsUnpaid, WrittenOffForGood
<1> QED BY <1>1, <1>2, <1>3, PTL DEF X402Spec

(* No mark of the repository touches a row that is closed.                   *)
ClosedStay == \A n \in Nonces : row[n] # NoRow /\ ~Accepted(n) => row'[n] = row[n]

(* Neither mark of the ledger takes a row out of settled or failed.          *)
LEMMA MarksLeaveTheClosed ==
    ASSUME X402Inv, NEW n \in Nonces,
           \/ MarkPending(n) \/ MarkChecked(n) \/ MarkSettled(n)
           \/ \E reason, txHash : MarkFailed(n, reason, txHash)
    PROVE  ClosedStay
PROOF
<1>1. row \in [Nonces -> PaymentRows \cup {NoRow}]
  BY DEF X402Inv, LedgerInv, LedgerTypeOK
<1>2. ASSUME NEW status, NEW reason, NEW txHash, Close(n, status, reason, txHash) PROVE ClosedStay
  <2>1. CASE Accepted(n)
    BY <1>1, <1>2, <2>1 DEF Close, ClosedStay
  <2>2. CASE ~Accepted(n)
    BY <1>2, <2>2 DEF Close, ledger, ClosedStay
  <2> QED BY <2>1, <2>2
<1>3. CASE MarkPending(n)
  BY <1>1, <1>3 DEF MarkPending, ClosedStay
<1>4. CASE MarkChecked(n)
  BY <1>4 DEF MarkChecked, ClosedStay
<1> QED BY <1>2, <1>3, <1>4 DEF MarkSettled, MarkFailed

(* A payment row that is settled or failed is so for good, whichever gateway
   or reconciler comes late.                                                 *)
THEOREM ClosedRowsStayClosed == X402Spec => AcceptedIsTheOnlyOpenState
PROOF
<1>1. X402Init => X402Inv
  BY X402Assumption, X402Starts
<1>2. X402Inv /\ [X402Next]_x402Vars => X402Inv'
  BY X402Assumption, X402StepKeeps, X402Stutters
<1>3. X402Inv /\ [X402Next]_x402Vars => [ClosedStay]_x402Vars
  <2> SUFFICES ASSUME X402Inv, X402Next PROVE ClosedStay
    OBVIOUS
  <2>1. CASE UNCHANGED row
    BY <2>1 DEF ClosedStay
  <2>2. ASSUME NEW q \in PaidRequests, AfterVerify(q) PROVE ClosedStay
    <3>1. row \in [Nonces -> PaymentRows \cup {NoRow}] /\ carries[q] \in Nonces
      BY DEF X402Inv, LedgerInv, LedgerTypeOK, VisitInv, VisitTypeOK
    <3> QED BY <2>2, <3>1 DEF AfterVerify, Inserts, ClosedStay
  <2>3. ASSUME NEW q \in PaidRequests, AfterSettle(q) PROVE ClosedStay
    <3>1. carries[q] \in Nonces
      BY DEF X402Inv, VisitInv, VisitTypeOK
    <3> QED BY <2>3, <3>1, MarksLeaveTheClosed DEF AfterSettle
  <2>4. CASE ReconcileRow
    <3>1. pass.rows \in Seq([nonce : Nonces, hash : BOOLEAN]) /\ pass.rows # <<>>
      BY <2>4 DEF ReconcileRow, X402Inv, PassInv
    <3>2. PICK listed \in [nonce : Nonces, hash : BOOLEAN] : listed = Head(pass.rows)
      BY <3>1, HeadAndTail
    <3>3. PICK receipt \in Receipts(listed.nonce) : Resolve(listed.nonce, listed.hash, receipt)
      BY <2>4, <3>2 DEF ReconcileRow
    <3>4. receipt \in {"success", "reverted", "unknown"}
      BY <3>3 DEF Receipts
    <3>5. \/ MarkChecked(listed.nonce) \/ MarkSettled(listed.nonce)
          \/ \E reason, txHash : MarkFailed(listed.nonce, reason, txHash)
      BY <3>3, <3>4 DEF Resolve
    <3>6. listed.nonce \in Nonces
      OBVIOUS
    <3> QED BY <3>5, <3>6, MarksLeaveTheClosed
  <2>5. ASSUME NEW q \in PaidRequests,
               GatewayDies(q) \/ AfterHandler(q) \/ Broadcast(q) \/ Confirm(q) \/ \E n \in Nonces : Present(q, n)
        PROVE  UNCHANGED row
    BY <2>5 DEF GatewayDies, AfterHandler, Broadcast, Confirm, Present, ledger
  <2>6. (\E n \in Nonces : Mine(n)) \/ TimePasses \/ StartPass => UNCHANGED row
    BY DEF Mine, TimePasses, StartPass, ledger
  <2> QED BY <2>1, <2>2, <2>3, <2>4, <2>5, <2>6 DEF X402Next, PaymentStep
<1>4. [ClosedStay]_x402Vars =>
        [\A n \in Nonces : (row[n] # NoRow /\ ~Accepted(n)) => row'[n] = row[n]]_x402Vars
  BY DEF ClosedStay
<1> QED BY <1>1, <1>2, <1>3, <1>4, PTL DEF X402Spec, AcceptedIsTheOnlyOpenState
=============================================================================
