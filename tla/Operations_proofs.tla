-------------------------- MODULE Operations_proofs --------------------------
(* What runs and is run beside the contracts, for any number of jobs, blocks,*)
(* alerts, requests, transfers, commands, contributions and runners: keeper, *)
(* indexer, alerting, RPC failover, CCTP bridge, CLI, ceremony, migrations.  *)
EXTENDS Keeper, Indexer, Alerting, RpcFailover, Bridge, Cli, Ceremony, Migrations,
        FiniteSetTheorems, SequenceTheorems, WellFoundedInduction, TLAPS

-----------------------------------------------------------------------------
(* The keeper (Keeper).                                                      *)
KeeperModes == {"down", "idle", "ticked", "read", "act", "bonds", "sweep"}
Quiet == {"down", "idle", "ticked"}
KeeperStatuses == {"submitted", "completed", "rejected", "expired"}
HoldReasons == {"none", "noProof", "proofStale"}
ChainJobs == [status : KeeperStatuses, disputed : BOOLEAN,
              outcome : {"none", "complete", "reject", "lapsed"},
              proof : {"fit", "missing", "refused"}, bondSettled : BOOLEAN, recorded : BOOLEAN]

ChainTypes ==
    /\ kTime \in 0 .. KeeperMaxTime /\ kMishaps \in 0 .. MaxMishaps
    /\ chainJob \in [KeeperJobs -> ChainJobs]
PassTypes ==
    /\ kMode \in KeeperModes /\ kNow \in Nat
    /\ DOMAIN kStep = KeeperJobs
    /\ kMode \in Quiet => \A j \in KeeperJobs : kStep[j] = "none"
TableTypes ==
    /\ kGaveUp \in [KeeperJobs -> BOOLEAN]
    /\ kHold \in [KeeperJobs -> [reason : HoldReasons, since : Nat]]
    /\ kRefusedSince \in [KeeperJobs -> Nat \cup {NotNoted}]
    /\ kSkips \in [KeeperJobs -> [marked : BOOLEAN, rows : Nat]]
    /\ DOMAIN kExpiry = KeeperJobs /\ DOMAIN kRetry = KeeperJobs
    /\ \A j \in KeeperJobs :
          /\ DOMAIN kExpiry[j] = {"marked", "attempts", "next", "gaveUp"} /\ kExpiry[j].attempts \in Nat
          /\ DOMAIN kRetry[j] = {"attempts", "next", "gaveUp"} /\ kRetry[j].attempts \in 0 .. GiveUpAfter
          /\ kRetry[j].gaveUp \in BOOLEAN

(* A job at one of these steps is being acted on, and was not given up.      *)
ActedOn == {"screen", "noProof", "stale", "send", "sent", "lapse", "lapsed", "bonded"}
GiveUpsAreKnown(j) ==
    /\ kRetry[j].gaveUp <=> kRetry[j].attempts >= GiveUpAfter
    /\ kStep[j] \in ActedOn => ~kRetry[j].gaveUp
    /\ kGaveUp[j] /\ kMode # "down" => kRetry[j].gaveUp

(* The table's hold is the run of refusals the keeper saw.                   *)
HoldIsTheRefusals(j) ==
    /\ kHold[j].reason = "proofStale" => kRefusedSince[j] = kHold[j].since
    /\ kHold[j].reason # "proofStale" => kRefusedSince[j] = NotNoted
    /\ kStep[j] = "send" /\ kRefusedSince[j] # NotNoted => kNow - kRefusedSince[j] >= ProofGrace

SkipIsMarkedFirst(j) ==
    /\ kSkips[j].rows <= 1
    /\ ~kSkips[j].marked => kSkips[j].rows = 0
    /\ kStep[j] = "appendSkip" => kSkips[j].marked /\ kSkips[j].rows = 0
ExpiryIsRecordedFirst(j) ==
    kExpiry[j].marked \/ kStep[j] = "recorded" => chainJob[j].recorded

JobInv(j) == GiveUpsAreKnown(j) /\ HoldIsTheRefusals(j) /\ SkipIsMarkedFirst(j) /\ ExpiryIsRecordedFirst(j)
KeeperInv == ChainTypes /\ PassTypes /\ TableTypes /\ \A j \in KeeperJobs : JobInv(j)

(* A keeper about to start satisfies the invariant.                          *)
LEMMA KeeperInvInit == KeeperInit => KeeperInv
PROOF
<1> SUFFICES ASSUME KeeperInit PROVE KeeperInv
  OBVIOUS
<1> USE KeeperAssumption
<1>1. ChainTypes
  BY DEF KeeperInit, ChainTypes, ChainJobs, KeeperStatuses
<1>2. PassTypes
  BY DEF KeeperInit, PassTypes, KeeperModes, Quiet, Idle
<1>3. TableTypes
  <2>1. kGaveUp \in [KeeperJobs -> BOOLEAN]
    BY DEF KeeperInit
  <2>2. kSkips \in [KeeperJobs -> [marked : BOOLEAN, rows : Nat]]
    <3>1. /\ [marked |-> FALSE, rows |-> 0] \in [marked : BOOLEAN, rows : Nat]
          /\ [marked |-> TRUE, rows |-> 1] \in [marked : BOOLEAN, rows : Nat]
      OBVIOUS
    <3>2. kSkips \in [KeeperJobs -> {[marked |-> FALSE, rows |-> 0], [marked |-> TRUE, rows |-> 1]}]
      BY DEF KeeperInit
    <3> QED BY <3>1, <3>2
  <2>3. /\ kHold \in [KeeperJobs -> [reason : HoldReasons, since : Nat]]
        /\ kRefusedSince \in [KeeperJobs -> Nat \cup {NotNoted}]
    BY DEF KeeperInit, NoHold, HoldReasons
  <2>4. /\ DOMAIN kExpiry = KeeperJobs /\ DOMAIN kRetry = KeeperJobs
        /\ \A j \in KeeperJobs :
             /\ DOMAIN kExpiry[j] = {"marked", "attempts", "next", "gaveUp"} /\ kExpiry[j].attempts \in Nat
             /\ DOMAIN kRetry[j] = {"attempts", "next", "gaveUp"} /\ kRetry[j].attempts \in 0 .. GiveUpAfter
             /\ kRetry[j].gaveUp \in BOOLEAN
    <3>1. /\ kExpiry = [j \in KeeperJobs |-> [marked |-> FALSE, attempts |-> 0, next |-> 0, gaveUp |-> FALSE]]
          /\ kRetry = [j \in KeeperJobs |-> NoRetry]
      BY DEF KeeperInit
    <3>2. /\ DOMAIN NoRetry = {"attempts", "next", "gaveUp"} /\ NoRetry.attempts = 0 /\ NoRetry.gaveUp = FALSE
      BY DEF NoRetry
    <3>3. DOMAIN kExpiry = KeeperJobs /\ DOMAIN kRetry = KeeperJobs
      BY <3>1
    <3>4. ASSUME NEW j \in KeeperJobs
          PROVE  DOMAIN kExpiry[j] = {"marked", "attempts", "next", "gaveUp"} /\ kExpiry[j].attempts = 0
      BY <3>1
    <3>5. ASSUME NEW j \in KeeperJobs
          PROVE  DOMAIN kRetry[j] = {"attempts", "next", "gaveUp"} /\ kRetry[j].attempts = 0 /\ kRetry[j].gaveUp = FALSE
      BY <3>1, <3>2
    <3>6. 0 \in 0 .. GiveUpAfter /\ 0 \in Nat
      OBVIOUS
    <3>7. ASSUME NEW j \in KeeperJobs PROVE kRetry[j].gaveUp \in BOOLEAN
      BY <3>5
    <3> QED BY <3>3, <3>4, <3>5, <3>6, <3>7
  <2> QED BY <2>1, <2>2, <2>3, <2>4 DEF TableTypes
<1>4. \A j \in KeeperJobs : JobInv(j)
  BY DEF KeeperInit, JobInv, GiveUpsAreKnown, HoldIsTheRefusals, SkipIsMarkedFirst, ExpiryIsRecordedFirst,
         NoHold, NoRetry, Idle, ActedOn, NotNoted
<1> QED BY <1>1, <1>2, <1>3, <1>4 DEF KeeperInv

(* What no step of another job touches.                                      *)
Untouched(k) ==
    /\ kRetry'[k] = kRetry[k] /\ kGaveUp'[k] = kGaveUp[k] /\ kHold'[k] = kHold[k]
    /\ kRefusedSince'[k] = kRefusedSince[k] /\ kSkips'[k] = kSkips[k] /\ kExpiry'[k] = kExpiry[k]
    /\ chainJob'[k] = chainJob[k]
    /\ (kStep'[k] = kStep[k] /\ kNow' = kNow) \/ kStep'[k] = "none"

(* What a step does not touch stays as it was.                               *)
LEMMA UntouchedKeeps ==
    ASSUME NEW k \in KeeperJobs, JobInv(k), Untouched(k), kMode' = "down" \/ kMode # "down"
    PROVE  JobInv(k)'
PROOF
<1>1. GiveUpsAreKnown(k)'
  BY DEF JobInv, GiveUpsAreKnown, Untouched, ActedOn
<1>2. HoldIsTheRefusals(k)'
  BY DEF JobInv, HoldIsTheRefusals, Untouched
<1>3. SkipIsMarkedFirst(k)'
  BY DEF JobInv, SkipIsMarkedFirst, Untouched
<1>4. ExpiryIsRecordedFirst(k)'
  BY DEF JobInv, ExpiryIsRecordedFirst, Untouched
<1> QED BY <1>1, <1>2, <1>3, <1>4 DEF JobInv

(* A step of one job: the others are untouched.                              *)
LEMMA OneJobMoves ==
    ASSUME KeeperInv, NEW j \in KeeperJobs, kMode' = "down" \/ kMode # "down",
           ChainTypes', PassTypes', TableTypes', JobInv(j)',
           \A k \in KeeperJobs : k # j => Untouched(k)
    PROVE  KeeperInv'
PROOF
<1>1. ASSUME NEW k \in KeeperJobs PROVE JobInv(k)'
  BY UntouchedKeeps DEF KeeperInv
<1> QED BY <1>1 DEF KeeperInv

(* The pass: the job's step changes inside it, or the pass ends.             *)
LEMMA StepInPass ==
    ASSUME PassTypes, NEW j \in KeeperJobs, NEW s, Step(j, s), kStep[j] # "none", UNCHANGED tickVars
    PROVE  /\ PassTypes' /\ kStep'[j] = s /\ kNow' = kNow /\ kMode' = kMode /\ kMode # "down"
           /\ \A k \in KeeperJobs : k # j => kStep'[k] = kStep[k]
BY DEF PassTypes, Step, tickVars, Quiet

(* A pass that ends leaves no job in hand.                                   *)
LEMMA PassIsOver ==
    ASSUME PassTypes, EndPass
    PROVE  PassTypes' /\ kMode' # "down" /\ \A k \in KeeperJobs : kStep'[k] = "none"
BY DEF PassTypes, EndPass, PassForgotten, AfterPass, Idle, KeeperModes

(* The chain moves at one job at most, and no recorded expiry is taken back. *)
ChainMovesAt(j) ==
    \A k \in KeeperJobs : chainJob'[k] = chainJob[k] \/ (k = j /\ (chainJob[j].recorded => chainJob'[j].recorded))

(* A settlement, a lapse, a bond and a record are moves of one job.          *)
LEMMA ChainUpdates ==
    ASSUME ChainTypes, NEW j \in KeeperJobs, kTime' = kTime, kMishaps' \in 0 .. MaxMishaps,
           \/ chainJob' = chainJob \/ Settled(j)
           \/ chainJob' = [chainJob EXCEPT ![j].outcome = "lapsed"]
           \/ chainJob' = [chainJob EXCEPT ![j].bondSettled = TRUE]
           \/ chainJob' = [chainJob EXCEPT ![j].recorded = TRUE]
    PROVE  ChainTypes' /\ ChainMovesAt(j)
PROOF
<1> DEFINE old == chainJob[j]
           Moves(c) == chainJob' = [chainJob EXCEPT ![j] = c] /\ c \in ChainJobs /\ (old.recorded => c.recorded)
<1>0. old \in ChainJobs
  BY DEF ChainTypes
<1>1. CASE chainJob' = chainJob
  BY <1>1 DEF ChainTypes, ChainMovesAt
<1>2. ASSUME NEW c, Moves(c) PROVE ChainTypes' /\ ChainMovesAt(j)
  <2>1. chainJob' \in [KeeperJobs -> ChainJobs] /\ chainJob'[j] = c /\ \A k \in KeeperJobs : k # j => chainJob'[k] = chainJob[k]
    BY <1>2 DEF ChainTypes
  <2> QED BY <1>2, <2>1 DEF ChainTypes, ChainMovesAt
<1>3. CASE Settled(j)
  <2>1. old.bondSettled \/ old.disputed \in BOOLEAN
    BY <1>0 DEF ChainJobs
  <2>2. Moves([old EXCEPT !.status = "completed", !.bondSettled = old.bondSettled \/ old.disputed])
    BY <1>0, <1>3, <2>1 DEF Settled, ChainJobs, KeeperStatuses, ChainTypes
  <2> QED BY <1>2, <2>2
<1>4. CASE chainJob' = [chainJob EXCEPT ![j].outcome = "lapsed"]
  <2>1. Moves([old EXCEPT !.outcome = "lapsed"])
    BY <1>0, <1>4 DEF ChainJobs
  <2> QED BY <1>2, <2>1
<1>5. CASE chainJob' = [chainJob EXCEPT ![j].bondSettled = TRUE]
  <2>1. Moves([old EXCEPT !.bondSettled = TRUE])
    BY <1>0, <1>5 DEF ChainJobs
  <2> QED BY <1>2, <2>1
<1>6. CASE chainJob' = [chainJob EXCEPT ![j].recorded = TRUE]
  <2>1. Moves([old EXCEPT !.recorded = TRUE])
    BY <1>0, <1>6 DEF ChainJobs
  <2> QED BY <1>2, <2>1
<1> QED BY <1>1, <1>3, <1>4, <1>5, <1>6

(* Noting a failure of a job that was not given up.                          *)
LEMMA FailureIsNoted ==
    ASSUME KeeperInv, NEW j \in KeeperJobs, kStep[j] # "none", ~kRetry[j].gaveUp,
           (NoteFailure(j) \/ NoteFailureUnwritten(j)), ChainTypes',
           ChainMovesAt(j), UNCHANGED <<kHold, kRefusedSince, kSkips, kExpiry>>
    PROVE  KeeperInv'
PROOF
<1>0. /\ PassTypes /\ TableTypes /\ kMode # "down" /\ kStep[j] # "none"
      /\ ~kRetry[j].gaveUp /\ ~kGaveUp[j] /\ kRetry[j].attempts \in 0 .. GiveUpAfter /\ kRetry[j].attempts < GiveUpAfter
  BY KeeperAssumption DEF KeeperInv, ActedOn, PassTypes, Quiet, JobInv, GiveUpsAreKnown, TableTypes
<1>1. PassTypes' /\ kMode' # "down" /\ kStep'[j] = "none"
      /\ \A k \in KeeperJobs : k # j => (kStep'[k] = kStep[k] /\ kNow' = kNow) \/ kStep'[k] = "none"
  <2>1. CASE NoteFailure(j)
    BY <1>0, <2>1, StepInPass DEF NoteFailure
  <2>2. CASE NoteFailureUnwritten(j)
    BY <1>0, <2>2, PassIsOver DEF NoteFailureUnwritten
  <2> QED BY <2>1, <2>2
<1>2. /\ kRetry' = [kRetry EXCEPT ![j] = Failed(kRetry[j])]
      /\ kGaveUp' = kGaveUp \/ kGaveUp' = [kGaveUp EXCEPT ![j] = Failed(kRetry[j]).gaveUp]
  BY <1>0 DEF NoteFailure, NoteFailureUnwritten, TableTypes, Failed
<1>3. /\ DOMAIN Failed(kRetry[j]) = {"attempts", "next", "gaveUp"}
      /\ Failed(kRetry[j]).attempts = kRetry[j].attempts + 1
      /\ Failed(kRetry[j]).gaveUp = (kRetry[j].attempts + 1 >= GiveUpAfter)
  BY DEF Failed
<1>4. TableTypes'
  <2>1. Failed(kRetry[j]).gaveUp \in BOOLEAN /\ Failed(kRetry[j]).attempts \in 0 .. GiveUpAfter
    BY <1>0, <1>3, KeeperAssumption
  <2>2. kGaveUp' \in [KeeperJobs -> BOOLEAN]
    BY <1>0, <1>2, <2>1 DEF TableTypes
  <2>3. /\ DOMAIN kRetry' = KeeperJobs
        /\ \A k \in KeeperJobs : kRetry'[k] = IF k = j THEN Failed(kRetry[j]) ELSE kRetry[k]
    BY <1>0, <1>2 DEF TableTypes
  <2>4. \A k \in KeeperJobs :
            /\ DOMAIN kRetry'[k] = {"attempts", "next", "gaveUp"} /\ kRetry'[k].attempts \in 0 .. GiveUpAfter
            /\ kRetry'[k].gaveUp \in BOOLEAN
    BY <1>0, <1>3, <2>1, <2>3 DEF TableTypes
  <2> QED BY <1>0, <2>2, <2>3, <2>4 DEF TableTypes
<1>5. JobInv(j)'
  BY <1>0, <1>1, <1>2, <1>3 DEF KeeperInv, JobInv, GiveUpsAreKnown, HoldIsTheRefusals,
                  SkipIsMarkedFirst, ExpiryIsRecordedFirst, ActedOn, TableTypes, ChainMovesAt
<1>6. ASSUME NEW k \in KeeperJobs, k # j PROVE Untouched(k)
  BY <1>0, <1>1, <1>2, <1>6 DEF Untouched, TableTypes, ChainMovesAt
<1> QED BY <1>0, <1>1, <1>4, <1>5, <1>6, OneJobMoves

-----------------------------------------------------------------------------
(* Time, the mirror, the other users and the operator.                       *)
LEMMA ClockKeeps ==
    ASSUME KeeperInv, KeeperClock
    PROVE  KeeperInv'
PROOF
<1> USE KeeperAssumption
<1>0. /\ ChainTypes /\ PassTypes /\ TableTypes
      /\ UNCHANGED <<chainJob, kGaveUp, kSkips, kMode, kStep, kMishaps>>
  BY DEF KeeperInv, KeeperClock
<1>1. CASE TimePassesBy
  <2>1. kTime' = kTime + 1 /\ kTime < KeeperMaxTime /\ UNCHANGED <<kNow, kHold, kRetry, kExpiry, kRefusedSince>>
    BY <1>1 DEF TimePassesBy
  <2>2. ChainTypes' /\ PassTypes' /\ TableTypes'
    BY <1>0, <2>1 DEF ChainTypes, PassTypes, TableTypes
  <2>3. \A j \in KeeperJobs : JobInv(j)'
    BY <1>0, <2>1 DEF KeeperInv, JobInv, GiveUpsAreKnown, HoldIsTheRefusals, SkipIsMarkedFirst,
       ExpiryIsRecordedFirst
  <2> QED BY <2>2, <2>3 DEF KeeperInv
<1>2. CASE StampsAge
  <2>1. /\ kNow' = Earlier(kNow) /\ kTime' = kTime
        /\ kMode \in Quiet \/ (kNow > ExpiredAt /\ kNow > ProofGrace)
        /\ kHold' = [j \in KeeperJobs |-> [kHold[j] EXCEPT !.since = Earlier(@)]]
        /\ kRetry' = [j \in KeeperJobs |-> [kRetry[j] EXCEPT !.next = Earlier(@)]]
        /\ kExpiry' = [j \in KeeperJobs |-> [kExpiry[j] EXCEPT !.next = Earlier(@)]]
        /\ kRefusedSince' = [j \in KeeperJobs |-> Earlier(kRefusedSince[j])]
    BY <1>2 DEF StampsAge, Quiet
  <2>2. kNow \in Nat /\ kNow' \in Nat
    BY <1>0, <2>1 DEF PassTypes, Earlier
  <2>3. ChainTypes' /\ PassTypes'
    BY <1>0, <2>1, <2>2 DEF ChainTypes, PassTypes
  <2>4. ASSUME NEW j \in KeeperJobs
        PROVE  /\ kHold'[j] = [kHold[j] EXCEPT !.since = Earlier(@)]
               /\ kHold'[j].reason = kHold[j].reason /\ kHold'[j].since = Earlier(kHold[j].since)
               /\ kHold[j].since \in Nat /\ kHold[j] \in [reason : HoldReasons, since : Nat]
               /\ kRefusedSince'[j] = Earlier(kRefusedSince[j]) /\ kRefusedSince[j] \in Nat \cup {NotNoted}
    BY <1>0, <2>1 DEF TableTypes
  <2>5. ASSUME NEW j \in KeeperJobs
        PROVE  /\ DOMAIN kRetry'[j] = DOMAIN kRetry[j]
               /\ kRetry'[j].attempts = kRetry[j].attempts /\ kRetry'[j].gaveUp = kRetry[j].gaveUp
               /\ DOMAIN kExpiry'[j] = DOMAIN kExpiry[j]
               /\ kExpiry'[j].attempts = kExpiry[j].attempts /\ kExpiry'[j].marked = kExpiry[j].marked
    <3>1. kRetry'[j] = [kRetry[j] EXCEPT !.next = Earlier(@)] /\ kExpiry'[j] = [kExpiry[j] EXCEPT !.next = Earlier(@)]
      BY <2>1
    <3> QED BY <1>0, <3>1 DEF TableTypes
  <2>6. \A t \in Nat : Earlier(t) \in Nat
    BY DEF Earlier
  <2>7. Earlier(NotNoted) = NotNoted
    BY DEF Earlier, NotNoted
  <2>8. TableTypes'
    <3>1. kHold' \in [KeeperJobs -> [reason : HoldReasons, since : Nat]]
      BY <2>1, <2>4, <2>6
    <3>2. kRefusedSince' \in [KeeperJobs -> Nat \cup {NotNoted}]
      BY <2>1, <2>4, <2>6, <2>7
    <3>3. DOMAIN kExpiry' = KeeperJobs /\ DOMAIN kRetry' = KeeperJobs
      BY <2>1
    <3> QED BY <1>0, <2>5, <3>1, <3>2, <3>3 DEF TableTypes
  <2>9. ASSUME NEW j \in KeeperJobs PROVE JobInv(j)'
    <3>1. GiveUpsAreKnown(j)' /\ SkipIsMarkedFirst(j)' /\ ExpiryIsRecordedFirst(j)'
      BY <1>0, <2>5 DEF KeeperInv, JobInv, GiveUpsAreKnown, SkipIsMarkedFirst, ExpiryIsRecordedFirst
    <3>2. \A t \in Nat : Earlier(t) # NotNoted
      BY <2>6 DEF NotNoted
    <3>3. /\ kHold'[j].reason = "proofStale" => kRefusedSince'[j] = kHold'[j].since
          /\ kHold'[j].reason # "proofStale" => kRefusedSince'[j] = NotNoted
      BY <2>4, <2>7 DEF KeeperInv, JobInv, HoldIsTheRefusals
    <3>4. ASSUME kStep'[j] = "send", kRefusedSince'[j] # NotNoted PROVE kNow' - kRefusedSince'[j] >= ProofGrace
      <4>1. kStep[j] = "send" /\ kRefusedSince[j] # NotNoted /\ kRefusedSince[j] \in Nat
        BY <1>0, <2>4, <2>7, <3>4
      <4>2. kNow - kRefusedSince[j] >= ProofGrace
        BY <4>1 DEF KeeperInv, JobInv, HoldIsTheRefusals
      <4>3. kNow > ProofGrace
        BY <1>0, <2>1, <4>1 DEF PassTypes
      <4> QED BY <2>1, <2>2, <2>4, <4>1, <4>2, <4>3 DEF Earlier
    <3> QED BY <3>1, <3>3, <3>4 DEF JobInv, HoldIsTheRefusals
  <2> QED BY <2>3, <2>8, <2>9 DEF KeeperInv
<1> QED BY <1>1, <1>2 DEF KeeperClock

(* The indexer's mirror may catch up at any time.                            *)
LEMMA MirrorKeeps ==
    ASSUME KeeperInv, UNCHANGED <<kTime, chainJob, tableVars, tickVars, kRetry, kSkipped, kStep, kRefusedSince, kMishaps>>
    PROVE  KeeperInv'
BY DEF KeeperInv, ChainTypes, PassTypes, TableTypes, JobInv, GiveUpsAreKnown, HoldIsTheRefusals,
   SkipIsMarkedFirst,
       ExpiryIsRecordedFirst, tableVars, tickVars

(* A mishap stays within its bound.                                          *)
LEMMA MishapCounted ==
    ASSUME ChainTypes, Mishap
    PROVE  kMishaps' \in 0 .. MaxMishaps
BY KeeperAssumption DEF ChainTypes, Mishap

(* Whatever others do to a job keeps the invariant.                          *)
LEMMA OthersKeep ==
    ASSUME KeeperInv, NEW j \in KeeperJobs, OthersMove(j)
    PROVE  KeeperInv'
PROOF
<1>0. /\ ChainTypes /\ PassTypes /\ TableTypes /\ kMishaps' \in 0 .. MaxMishaps
      /\ UNCHANGED <<kTime, tableVars, tickVars, kRetry, kStep, kRefusedSince>>
  BY MishapCounted DEF KeeperInv, OthersMove
<1>1. PICK c \in ChainJobs : chainJob' = [chainJob EXCEPT ![j] = c] /\ (chainJob[j].recorded => c.recorded)
  <2> DEFINE old == chainJob[j]
             Moves(c) == chainJob' = [chainJob EXCEPT ![j] = c] /\ c \in ChainJobs /\ (old.recorded => c.recorded)
  <2>1. old \in ChainJobs
    BY <1>0 DEF ChainTypes
  <2>2. CASE chainJob' = [chainJob EXCEPT ![j].disputed = TRUE]
    <3>1. Moves([old EXCEPT !.disputed = TRUE])
      BY <2>1, <2>2 DEF ChainJobs
    <3> QED BY <3>1
  <2>3. CASE chainJob' = [chainJob EXCEPT ![j].outcome = "complete"]
    <3>1. Moves([old EXCEPT !.outcome = "complete"])
      BY <2>1, <2>3 DEF ChainJobs
    <3> QED BY <3>1
  <2>4. CASE chainJob' = [chainJob EXCEPT ![j].outcome = "reject", ![j].status = "rejected", ![j].bondSettled = TRUE]
    <3>1. Moves([old EXCEPT !.outcome = "reject", !.status = "rejected", !.bondSettled = TRUE])
      BY <1>0, <2>1, <2>4 DEF ChainJobs, KeeperStatuses, ChainTypes
    <3> QED BY <3>1
  <2>5. ASSUME NEW p \in {"fit", "missing", "refused"}, chainJob' = [chainJob EXCEPT ![j].proof = p]
        PROVE  \E c \in ChainJobs : Moves(c)
    <3>1. Moves([old EXCEPT !.proof = p])
      BY <2>1, <2>5 DEF ChainJobs
    <3> QED BY <3>1
  <2>6. ASSUME NEW s \in {"expired", "completed"}, chainJob' = [chainJob EXCEPT ![j].status = s]
        PROVE  \E c \in ChainJobs : Moves(c)
    <3>1. Moves([old EXCEPT !.status = s])
      BY <2>1, <2>6 DEF ChainJobs, KeeperStatuses
    <3> QED BY <3>1
  <2>7. CASE chainJob' = [chainJob EXCEPT ![j].recorded = TRUE]
    <3>1. Moves([old EXCEPT !.recorded = TRUE])
      BY <2>1, <2>7 DEF ChainJobs
    <3> QED BY <3>1
  <2> QED BY <2>2, <2>3, <2>4, <2>5, <2>6, <2>7 DEF OthersMove
<1>2. chainJob' \in [KeeperJobs -> ChainJobs] /\ chainJob'[j] = c /\ \A k \in KeeperJobs : k # j => chainJob'[k] = chainJob[k]
  BY <1>0, <1>1 DEF ChainTypes
<1>3. ChainTypes' /\ PassTypes' /\ TableTypes'
  BY <1>0, <1>2 DEF ChainTypes, PassTypes, TableTypes, tableVars, tickVars
<1>4. \A k \in KeeperJobs : JobInv(k)'
  BY <1>0, <1>1, <1>2 DEF KeeperInv, JobInv, GiveUpsAreKnown, HoldIsTheRefusals, SkipIsMarkedFirst,
     ExpiryIsRecordedFirst, tableVars, tickVars
<1> QED BY <1>3, <1>4 DEF KeeperInv

(* Clearing a give-up reopens the job.                                       *)
LEMMA ReopenKeeps ==
    ASSUME KeeperInv, NEW j \in KeeperJobs, ClearGiveUp(j)
    PROVE  KeeperInv'
PROOF
<1>0. /\ ChainTypes /\ PassTypes /\ TableTypes /\ kMishaps' \in 0 .. MaxMishaps
      /\ kGaveUp' = [kGaveUp EXCEPT ![j] = FALSE]
      /\ UNCHANGED <<kTime, chainJob, kHold, kExpiry, kSkips, kMode, kNow, kRetry, kStep, kRefusedSince>>
  BY MishapCounted DEF KeeperInv, ClearGiveUp, chainVars, tickVars
<1>1. ChainTypes' /\ PassTypes' /\ TableTypes'
  BY <1>0 DEF ChainTypes, PassTypes, TableTypes
<1>2. \A k \in KeeperJobs : JobInv(k)'
  BY <1>0 DEF KeeperInv, JobInv, GiveUpsAreKnown, HoldIsTheRefusals, SkipIsMarkedFirst,
     ExpiryIsRecordedFirst, TableTypes
<1> QED BY <1>1, <1>2 DEF KeeperInv

-----------------------------------------------------------------------------
(* The loop: passes start, end and fail with nobody acted on.                *)
Fresh == {"none", "journalSkip", "readRecord", "bond", "sweep"}
(* A step that only takes jobs in hand, or drops them, keeps it.             *)
LEMMA PassMoves ==
    ASSUME KeeperInv, UNCHANGED <<chainVars, tableVars, kRetry, kRefusedSince>>,
           kMishaps' \in 0 .. MaxMishaps, PassTypes', kMode # "down",
           \A j \in KeeperJobs : kStep'[j] \in Fresh
    PROVE  KeeperInv'
PROOF
<1>0. /\ ChainTypes /\ TableTypes /\ UNCHANGED <<kTime, chainJob, kGaveUp, kHold, kExpiry, kSkips>>
  BY DEF KeeperInv, chainVars, tableVars
<1>1. ChainTypes' /\ TableTypes'
  BY <1>0 DEF ChainTypes, TableTypes
<1>2. \A j \in KeeperJobs : JobInv(j)'
  BY <1>0 DEF KeeperInv, JobInv, GiveUpsAreKnown, HoldIsTheRefusals, SkipIsMarkedFirst, ExpiryIsRecordedFirst,
              ActedOn, Fresh
<1> QED BY <1>1, <1>2 DEF KeeperInv

(* So does the loop around the passes.                                       *)
LEMMA LoopKeeps ==
    ASSUME KeeperInv, TickStarts \/ Rest \/ ListBonds \/ TickEnds \/ SweepEnds \/ PassFails \/ SweepStarts
    PROVE  KeeperInv'
PROOF
<1>0. ChainTypes /\ PassTypes /\ UNCHANGED <<chainVars, tableVars, kRetry, kRefusedSince>>
  BY DEF KeeperInv, TickStarts, Rest, ListBonds, TickEnds, SweepEnds, PassFails, SweepStarts, Mishap
<1>1. kMode # "down"
  BY DEF TickStarts, Rest, ListBonds, TickEnds, SweepEnds, PassFails, SweepStarts, AtMode
<1>2. kMishaps' \in 0 .. MaxMishaps
  BY <1>0, MishapCounted DEF TickStarts, Rest, ListBonds, TickEnds, SweepEnds, PassFails,
     SweepStarts, ChainTypes
<1>3. PassTypes' /\ \A j \in KeeperJobs : kStep'[j] \in Fresh
  <2>1. CASE TickStarts
    <3>1. kMode' = "read" /\ kNow' = kTime /\ kTime \in Nat
      BY <1>0, <2>1, KeeperAssumption DEF TickStarts, ChainTypes
    <3>2. DOMAIN kStep' = KeeperJobs /\ \A j \in KeeperJobs : kStep'[j] \in Fresh
      BY <2>1 DEF TickStarts, FirstStep, Fresh
    <3> QED BY <3>1, <3>2 DEF PassTypes, KeeperModes, Quiet
  <2>2. CASE Rest
    BY <1>0, <2>2 DEF Rest, AtMode, PassTypes, KeeperModes, Quiet, Fresh
  <2>3. CASE ListBonds
    <3>1. kMode' = "bonds" /\ kNow' = kNow
      BY <2>3 DEF ListBonds, GoTo
    <3>2. DOMAIN kStep' = KeeperJobs /\ \A j \in KeeperJobs : kStep'[j] \in Fresh
      BY <2>3 DEF ListBonds, Fresh
    <3> QED BY <1>0, <3>1, <3>2 DEF PassTypes, KeeperModes, Quiet
  <2>4. CASE TickEnds \/ SweepEnds \/ PassFails
    BY <1>0, <2>4, PassIsOver DEF TickEnds, SweepEnds, PassFails, Fresh
  <2>5. CASE SweepStarts
    <3>1. kMode' = "sweep" /\ kNow' = kTime /\ kTime \in Nat
      BY <1>0, <2>5, KeeperAssumption DEF SweepStarts, ChainTypes
    <3>2. DOMAIN kStep' = KeeperJobs /\ \A j \in KeeperJobs : kStep'[j] \in Fresh
      BY <2>5 DEF SweepStarts, Fresh
    <3> QED BY <3>1, <3>2 DEF PassTypes, KeeperModes, Quiet
  <2> QED BY <2>1, <2>2, <2>3, <2>4, <2>5
<1> QED BY <1>0, <1>1, <1>2, <1>3, PassMoves

(* A crash, and the restart that restores the give-ups, keep it.             *)
LEMMA RestartsKeep ==
    ASSUME KeeperInv, Crash \/ RestoreGiveUps
    PROVE  KeeperInv'
PROOF
<1>0. /\ ChainTypes /\ PassTypes /\ TableTypes
      /\ UNCHANGED <<kTime, chainJob, kGaveUp, kHold, kExpiry, kSkips, kRefusedSince>>
  BY DEF KeeperInv, Crash, RestoreGiveUps, chainVars, tableVars
<1>1. kMishaps' \in 0 .. MaxMishaps
  BY <1>0, MishapCounted DEF Crash, RestoreGiveUps, ChainTypes
<1>2. /\ DOMAIN kRetry' = KeeperJobs
      /\ \A j \in KeeperJobs : kRetry'[j] \in {NoRetry, Restored(j)} /\ (kMode' # "down" /\ kGaveUp[j] => kRetry'[j] = Restored(j))
  BY DEF Crash, RestoreGiveUps
<1>3. /\ DOMAIN NoRetry = {"attempts", "next", "gaveUp"} /\ NoRetry.attempts = 0 /\ NoRetry.gaveUp = FALSE
      /\ \A j \in KeeperJobs : /\ DOMAIN Restored(j) = {"attempts", "next", "gaveUp"}
                               /\ Restored(j).attempts = GiveUpAfter /\ Restored(j).gaveUp = TRUE
  BY DEF NoRetry, Restored
<1>4. PassTypes' /\ \A j \in KeeperJobs : kStep'[j] = "none"
  <2>1. CASE Crash
    BY <2>1 DEF Crash, PassForgotten, PassTypes, Idle, KeeperModes
  <2>2. CASE RestoreGiveUps
    BY <1>0, <2>2 DEF RestoreGiveUps, PassTypes, KeeperModes, Quiet
  <2> QED BY <2>1, <2>2
<1>5. ChainTypes' /\ TableTypes'
  <2>1. ASSUME NEW j \in KeeperJobs
        PROVE  /\ DOMAIN kRetry'[j] = {"attempts", "next", "gaveUp"} /\ kRetry'[j].attempts \in 0 .. GiveUpAfter
               /\ kRetry'[j].gaveUp \in BOOLEAN
    <3>1. 0 \in 0 .. GiveUpAfter /\ GiveUpAfter \in 0 .. GiveUpAfter
      BY KeeperAssumption
    <3>2. NoRetry.gaveUp \in BOOLEAN /\ Restored(j).gaveUp \in BOOLEAN
      BY <1>3
    <3> QED BY <1>2, <1>3, <3>1, <3>2, Zenon
  <2> QED BY <1>0, <1>1, <1>2, <2>1 DEF ChainTypes, TableTypes
<1>6. ASSUME NEW j \in KeeperJobs PROVE JobInv(j)'
  BY <1>0, <1>2, <1>3, <1>4, KeeperAssumption DEF KeeperInv, JobInv, GiveUpsAreKnown, HoldIsTheRefusals,
     SkipIsMarkedFirst, ExpiryIsRecordedFirst, ActedOn
<1> QED BY <1>4, <1>5, <1>6 DEF KeeperInv

(* So does forgetting jobs that are gone.                                    *)
LEMMA ForgetKeeps ==
    ASSUME KeeperInv, Forget
    PROVE  KeeperInv'
PROOF
<1>0. /\ ChainTypes /\ PassTypes /\ TableTypes
      /\ UNCHANGED <<kTime, chainJob, kGaveUp, kExpiry, kSkips, kRetry, kStep, kMishaps, kNow>>
      /\ kMode' = "act" /\ kMode = "read"
      /\ \A j \in KeeperJobs : kStep[j] \in {"none", "decide"}
      /\ kHold' = [j \in KeeperJobs |-> IF j \in kListed THEN kHold[j] ELSE NoHold]
      /\ kRefusedSince' = [j \in KeeperJobs |-> IF j \in kListed THEN kRefusedSince[j] ELSE NotNoted]
  BY DEF KeeperInv, Forget, GoTo, AtMode, AllAre, chainVars
<1>1. ChainTypes' /\ PassTypes'
  BY <1>0 DEF ChainTypes, PassTypes, KeeperModes, Quiet
<1>2. NoHold \in [reason : HoldReasons, since : Nat] /\ NoHold.reason = "none"
  BY DEF NoHold, HoldReasons
<1>3. TableTypes'
  BY <1>0, <1>2 DEF TableTypes
<1>4. ASSUME NEW j \in KeeperJobs PROVE JobInv(j)'
  BY <1>0, <1>2 DEF KeeperInv, JobInv, GiveUpsAreKnown, HoldIsTheRefusals, SkipIsMarkedFirst,
     ExpiryIsRecordedFirst
<1> QED BY <1>1, <1>3, <1>4 DEF KeeperInv

-----------------------------------------------------------------------------
(* A step of one job inside the pass that leaves the tables alone; it may    *)
(* move the chain, and end the job's retries where it ends.                  *)
LEMMA StepMoves ==
    ASSUME KeeperInv, NEW j \in KeeperJobs, NEW s, kStep[j] # "none", Step(j, s),
           ChainTypes', ChainMovesAt(j), UNCHANGED <<kMode, kNow, tableVars, kRefusedSince>>,
           kRetry' = kRetry \/ (kStep[j] \in ActedOn /\ s = "none" /\ kRetry' = [kRetry EXCEPT ![j] = NoRetry]),
           s \notin {"send", "appendSkip", "recorded"}, s \in ActedOn => ~kRetry[j].gaveUp
    PROVE  KeeperInv'
PROOF
<1>0. PassTypes /\ TableTypes /\ UNCHANGED <<kGaveUp, kHold, kExpiry, kSkips>>
  BY DEF KeeperInv, tableVars
<1>1. /\ PassTypes' /\ kStep'[j] = s /\ kMode # "down" /\ "none" \notin ActedOn
      /\ \A k \in KeeperJobs : k # j => kStep'[k] = kStep[k]
  BY <1>0 DEF PassTypes, Step, Quiet, ActedOn
<1>2. /\ DOMAIN NoRetry = {"attempts", "next", "gaveUp"} /\ NoRetry.attempts = 0 /\ ~NoRetry.gaveUp
      /\ NoRetry.gaveUp \in BOOLEAN /\ 0 \in 0 .. GiveUpAfter
  BY KeeperAssumption DEF NoRetry
<1>3. /\ DOMAIN kRetry' = KeeperJobs /\ kRetry'[j] \in {kRetry[j], NoRetry}
      /\ \A k \in KeeperJobs : k # j => kRetry'[k] = kRetry[k]
      /\ kRetry'[j] = kRetry[j] \/ (kStep[j] \in ActedOn /\ s = "none")
  BY <1>0 DEF TableTypes
<1>4. TableTypes'
  <2>1. ASSUME NEW k \in KeeperJobs
        PROVE  /\ DOMAIN kRetry'[k] = {"attempts", "next", "gaveUp"} /\ kRetry'[k].attempts \in 0 .. GiveUpAfter
               /\ kRetry'[k].gaveUp \in BOOLEAN
    BY <1>0, <1>2, <1>3, Zenon DEF TableTypes
  <2> QED BY <1>0, <1>3, <2>1 DEF TableTypes
<1>5. GiveUpsAreKnown(j)'
  <2>1. CASE kRetry'[j] = kRetry[j]
    BY <1>0, <1>1, <2>1 DEF KeeperInv, JobInv, GiveUpsAreKnown
  <2>2. CASE kRetry'[j] = NoRetry /\ kStep[j] \in ActedOn /\ s = "none"
    <3>1. ~kGaveUp[j]
      BY <1>1, <2>2 DEF KeeperInv, JobInv, GiveUpsAreKnown
    <3> QED BY <1>0, <1>1, <1>2, <2>2, <3>1, KeeperAssumption DEF GiveUpsAreKnown
  <2> QED BY <1>3, <2>1, <2>2
<1>6. HoldIsTheRefusals(j)' /\ SkipIsMarkedFirst(j)' /\ ExpiryIsRecordedFirst(j)'
  BY <1>0, <1>1 DEF KeeperInv, JobInv, HoldIsTheRefusals, SkipIsMarkedFirst, ExpiryIsRecordedFirst, ChainMovesAt
<1>7. ASSUME NEW k \in KeeperJobs, k # j PROVE Untouched(k)
  BY <1>0, <1>1, <1>3, <1>7 DEF Untouched, ChainMovesAt
<1> QED BY <1>1, <1>4, <1>5, <1>6, <1>7, OneJobMoves DEF JobInv

(* So do the reads a decision rests on.                                      *)
LEMMA ReadsKeep ==
    ASSUME KeeperInv, NEW j \in KeeperJobs, ReadRecord(j) \/ ReadDispute(j) \/ Decide(j)
    PROVE  KeeperInv'
PROOF
<1>0. /\ UNCHANGED <<kTime, chainJob, kMode, kNow, tableVars, kRetry, kRefusedSince, kMishaps>> /\ kStep[j] # "none"
      /\ ChainTypes
  BY DEF KeeperInv, ReadRecord, ReadDispute, Decide, chainVars, tickVars
<1>1. ChainTypes' /\ ChainMovesAt(j)
  BY <1>0, ChainUpdates DEF ChainTypes
<1>2. PICK s \in {"readDispute", "none", "decide", "lapse", "screen"} : Step(j, s) /\ (s \in {"lapse", "screen"} => ~Waiting(j))
  BY DEF ReadRecord, ReadDispute, Decide, Decision
<1>3. s \notin {"send", "appendSkip", "recorded"} /\ (s \in ActedOn => ~kRetry[j].gaveUp)
  BY <1>2 DEF Waiting, ActedOn
<1> QED BY <1>0, <1>1, <1>2, <1>3, StepMoves

(* The journal of the unprofitable: marked first, then written.              *)
LEMMA SkipsKeep ==
    ASSUME KeeperInv, NEW j \in KeeperJobs, MarkSkip(j) \/ AppendSkip(j)
    PROVE  KeeperInv'
PROOF
<1>0. /\ ChainTypes /\ PassTypes /\ TableTypes /\ kStep[j] # "none"
      /\ UNCHANGED <<kTime, chainJob, kGaveUp, kHold, kExpiry, tickVars, kRetry, kRefusedSince, kMishaps>>
  BY DEF KeeperInv, MarkSkip, AppendSkip, chainVars
<1>1. PICK s \in {"none", "appendSkip"}, r \in [marked : BOOLEAN, rows : Nat] :
        /\ Step(j, s) /\ kSkips' = [kSkips EXCEPT ![j] = r]
        /\ r.rows <= 1 /\ (~r.marked => r.rows = 0) /\ (s = "appendSkip" => r.marked /\ r.rows = 0)
  <2> DEFINE old == kSkips[j]
  <2>1. /\ old \in [marked : BOOLEAN, rows : Nat] /\ old.rows <= 1 /\ (~old.marked => old.rows = 0)
        /\ kStep[j] = "appendSkip" => old.marked /\ old.rows = 0
    BY <1>0 DEF TableTypes, KeeperInv, JobInv, SkipIsMarkedFirst
  <2>2. CASE AppendSkip(j)
    <3> DEFINE new == [old EXCEPT !.rows = old.rows + 1]
    <3>1. Step(j, "none") /\ kSkips' = [kSkips EXCEPT ![j] = new] /\ old.marked /\ old.rows = 0
      BY <2>1, <2>2 DEF AppendSkip
    <3>2. new \in [marked : BOOLEAN, rows : Nat] /\ new.rows = 1 /\ new.marked
      BY <2>1, <3>1
    <3> HIDE DEF new, old
    <3>3. new.rows <= 1 /\ "none" \in {"none", "appendSkip"} /\ "none" # "appendSkip"
      BY <3>2
    <3> QED BY <3>1, <3>2, <3>3, Zenon
  <2>3. CASE MarkSkip(j)
    <3> DEFINE s == IF j \in kSkipped \/ old.marked THEN "none" ELSE "appendSkip"
               new == [old EXCEPT !.marked = old.marked \/ j \notin kSkipped]
    <3>1. Step(j, s) /\ kSkips' = [kSkips EXCEPT ![j] = new]
      BY <2>3 DEF MarkSkip
    <3>2. new \in [marked : BOOLEAN, rows : Nat] /\ new.rows = old.rows
      BY <2>1
    <3>3. new.marked <=> old.marked \/ j \notin kSkipped
      BY <2>1
    <3>4. s \in {"none", "appendSkip"} /\ (s = "appendSkip" => ~old.marked /\ j \notin kSkipped)
      OBVIOUS
    <3> HIDE DEF new, old, s
    <3> QED BY <2>1, <3>1, <3>2, <3>3, <3>4
  <2> QED BY <2>2, <2>3
<1>2. /\ PassTypes' /\ kStep'[j] = s /\ kNow' = kNow /\ kMode' = kMode /\ kMode # "down"
      /\ \A k \in KeeperJobs : k # j => kStep'[k] = kStep[k]
  BY <1>0, <1>1, StepInPass
<1>3. /\ kSkips' \in [KeeperJobs -> [marked : BOOLEAN, rows : Nat]]
      /\ kSkips'[j] = r
      /\ \A k \in KeeperJobs : k # j => kSkips'[k] = kSkips[k]
  BY <1>0, <1>1 DEF TableTypes
<1>4. ChainTypes' /\ TableTypes'
  BY <1>0, <1>3 DEF ChainTypes, TableTypes
<1>5. JobInv(j)'
  BY <1>0, <1>1, <1>2, <1>3 DEF KeeperInv, JobInv, GiveUpsAreKnown, HoldIsTheRefusals, SkipIsMarkedFirst,
     ExpiryIsRecordedFirst, ActedOn
<1>6. ASSUME NEW k \in KeeperJobs, k # j PROVE Untouched(k)
  BY <1>0, <1>2, <1>3, <1>6 DEF Untouched
<1> QED BY <1>2, <1>4, <1>5, <1>6, OneJobMoves

(* A step that changes the job's hold, and the history of refusals with it.  *)
LEMMA HoldMoves ==
    ASSUME KeeperInv, NEW j \in KeeperJobs, kStep[j] \in ActedOn, NEW s \in {"none", "stale", "send"}, Step(j, s),
           NEW h \in [reason : HoldReasons, since : Nat], kHold' = [kHold EXCEPT ![j] = h],
           NEW f \in Nat \cup {NotNoted}, kRefusedSince' = [kRefusedSince EXCEPT ![j] = f],
           h.reason = "proofStale" => f = h.since, h.reason # "proofStale" => f = NotNoted,
           s = "send" /\ f # NotNoted => kNow - f >= ProofGrace,
           kRetry' = kRetry \/ (s = "none" /\ kRetry' = [kRetry EXCEPT ![j] = NoRetry]),
           UNCHANGED <<kTime, chainJob, kGaveUp, kExpiry, kSkips, tickVars>>, kMishaps' \in 0 .. MaxMishaps
    PROVE  KeeperInv'
PROOF
<1>0. ChainTypes /\ PassTypes /\ TableTypes /\ kStep[j] # "none" /\ ~kRetry[j].gaveUp
  BY DEF KeeperInv, ActedOn, JobInv, GiveUpsAreKnown
<1>1. /\ PassTypes' /\ kStep'[j] = s /\ kNow' = kNow /\ kMode' = kMode /\ kMode # "down"
      /\ \A k \in KeeperJobs : k # j => kStep'[k] = kStep[k]
  BY <1>0, StepInPass
<1>2. /\ DOMAIN NoRetry = {"attempts", "next", "gaveUp"} /\ NoRetry.attempts = 0 /\ ~NoRetry.gaveUp
      /\ NoRetry.gaveUp \in BOOLEAN /\ 0 \in 0 .. GiveUpAfter
  BY KeeperAssumption DEF NoRetry
<1>3. /\ DOMAIN kRetry' = KeeperJobs /\ kRetry'[j] \in {kRetry[j], NoRetry}
      /\ \A k \in KeeperJobs : k # j => kRetry'[k] = kRetry[k]
  BY <1>0 DEF TableTypes
<1>4. /\ kHold' \in [KeeperJobs -> [reason : HoldReasons, since : Nat]] /\ kHold'[j] = h
      /\ kRefusedSince' \in [KeeperJobs -> Nat \cup {NotNoted}] /\ kRefusedSince'[j] = f
      /\ \A k \in KeeperJobs : k # j => kHold'[k] = kHold[k] /\ kRefusedSince'[k] = kRefusedSince[k]
  BY <1>0 DEF TableTypes
<1>5. ChainTypes' /\ TableTypes'
  <2>1. ASSUME NEW k \in KeeperJobs
        PROVE  /\ DOMAIN kRetry'[k] = {"attempts", "next", "gaveUp"} /\ kRetry'[k].attempts \in 0 .. GiveUpAfter
               /\ kRetry'[k].gaveUp \in BOOLEAN
    BY <1>0, <1>2, <1>3, Zenon DEF TableTypes
  <2> QED BY <1>0, <1>3, <1>4, <2>1 DEF ChainTypes, TableTypes
<1>6. GiveUpsAreKnown(j)'
  <2>1. kRetry'[j].gaveUp <=> kRetry'[j].attempts >= GiveUpAfter
    BY <1>2, <1>3, KeeperAssumption DEF KeeperInv, JobInv, GiveUpsAreKnown
  <2>2. ~kRetry'[j].gaveUp /\ ~kGaveUp[j]
    BY <1>0, <1>1, <1>2, <1>3 DEF KeeperInv, JobInv, GiveUpsAreKnown
  <2> QED BY <2>1, <2>2 DEF GiveUpsAreKnown
<1>7. HoldIsTheRefusals(j)'
  BY <1>1, <1>4 DEF HoldIsTheRefusals
<1>8. SkipIsMarkedFirst(j)' /\ ExpiryIsRecordedFirst(j)'
  BY <1>1 DEF KeeperInv, JobInv, SkipIsMarkedFirst, ExpiryIsRecordedFirst
<1>9. ASSUME NEW k \in KeeperJobs, k # j PROVE Untouched(k)
  BY <1>1, <1>3, <1>4, <1>9 DEF Untouched
<1> QED BY <1>1, <1>5, <1>6, <1>7, <1>8, <1>9, OneJobMoves DEF JobInv

-----------------------------------------------------------------------------
(* The release of one job: screened, examined, sent and booked.              *)
LEMMA NotGivenUp ==
    ASSUME KeeperInv, NEW j \in KeeperJobs, kStep[j] \in ActedOn
    PROVE  kStep[j] # "none" /\ ~kRetry[j].gaveUp
BY DEF KeeperInv, JobInv, GiveUpsAreKnown, ActedOn

(* So does the screening of the payee.                                       *)
LEMMA ScreenKeeps ==
    ASSUME KeeperInv, NEW j \in KeeperJobs, Screen(j)
    PROVE  KeeperInv'
PROOF
<1>0. /\ kStep[j] = "screen" /\ kStep[j] \in ActedOn /\ ChainTypes
      /\ UNCHANGED <<kTime, chainJob, kHold, kExpiry, kSkips, kRefusedSince>>
      /\ kMishaps' \in 0 .. MaxMishaps
  BY MishapCounted DEF Screen, ActedOn, KeeperInv, ChainTypes, chainVars
<1>1. ChainTypes' /\ ChainMovesAt(j)
  BY <1>0, ChainUpdates
<1>2. CASE NoteFailure(j) \/ NoteFailureUnwritten(j)
  BY <1>0, <1>1, <1>2, NotGivenUp, FailureIsNoted
<1>3. ASSUME NEW s \in {"none", "noProof"}, Step(j, s), UNCHANGED <<tickVars, kRetry, kGaveUp>> PROVE KeeperInv'
  BY <1>0, <1>1, <1>3, NotGivenUp, StepMoves DEF tickVars, tableVars
<1> QED BY <1>2, <1>3 DEF Screen

(* A hold has a reason and the time it began.                                *)
LEMMA HoldsAreOK ==
    ASSUME TableTypes, PassTypes, NEW j \in KeeperJobs, NEW why \in {"noProof", "proofStale"}
    PROVE  /\ NoHold \in [reason : HoldReasons, since : Nat] /\ NoHold.reason = "none"
           /\ Held(kHold[j], why) \in [reason : HoldReasons, since : Nat]
           /\ Held(kHold[j], why).reason = why
           /\ Held(kHold[j], why).since = IF kHold[j].reason = why THEN kHold[j].since ELSE kNow
BY DEF TableTypes, PassTypes, NoHold, Held, HoldReasons

(* Examining the proof of a job keeps the invariant.                         *)
LEMMA ProofIsExamined ==
    ASSUME KeeperInv, NEW j \in KeeperJobs, ExamineProof(j)
    PROVE  KeeperInv'
PROOF
<1>0. /\ kStep[j] = "noProof" /\ kStep[j] \in ActedOn /\ ChainTypes /\ PassTypes /\ TableTypes
      /\ UNCHANGED <<kTime, chainJob, kGaveUp, kExpiry, kSkips, tickVars, kRetry>>
      /\ kMishaps' \in 0 .. MaxMishaps
  BY MishapCounted DEF ExamineProof, ActedOn, KeeperInv, ChainTypes, chainVars
<1>1. ChainTypes' /\ ChainMovesAt(j)
  BY <1>0, ChainUpdates
<1>2. CASE Hold(j, "noProof") /\ Step(j, "none") /\ Forgotten(j)
  <2> DEFINE h == Held(kHold[j], "noProof")
  <2>1. h \in [reason : HoldReasons, since : Nat] /\ h.reason = "noProof"
    BY <1>0, HoldsAreOK
  <2>2. kHold' = [kHold EXCEPT ![j] = h] /\ kRefusedSince' = [kRefusedSince EXCEPT ![j] = NotNoted]
    BY <1>2 DEF Hold, Forgotten
  <2> HIDE DEF h
  <2> QED BY <1>0, <1>2, <2>1, <2>2, HoldMoves
<1>3. CASE Step(j, "stale") /\ UNCHANGED <<kHold, kRefusedSince>>
  <2>1. "stale" \notin {"send", "appendSkip", "recorded"} /\ kStep[j] # "none" /\ ~kRetry[j].gaveUp
    BY <1>0, NotGivenUp
  <2> QED BY <1>0, <1>1, <1>3, <2>1, StepMoves DEF tickVars, tableVars
<1> QED BY <1>2, <1>3 DEF ExamineProof

(* So does examining its release.                                            *)
LEMMA ReleaseIsExamined ==
    ASSUME KeeperInv, NEW j \in KeeperJobs, ExamineRelease(j)
    PROVE  KeeperInv'
PROOF
<1>0. /\ kStep[j] = "stale" /\ kStep[j] \in ActedOn /\ ChainTypes /\ PassTypes /\ TableTypes
      /\ UNCHANGED <<kTime, chainJob, kGaveUp, kExpiry, kSkips, tickVars, kRetry>>
  BY DEF ExamineRelease, ActedOn, KeeperInv, chainVars
<1>1. kMishaps' \in 0 .. MaxMishaps
  BY <1>0, KeeperAssumption DEF ExamineRelease, ChainTypes
<1>2. ASSUME chainJob[j].proof # "fit", Hold(j, "proofStale"),
             Step(j, IF kNow - Held(kHold[j], "proofStale").since >= ProofGrace THEN "send" ELSE "none"),
             kRefusedSince' = [kRefusedSince EXCEPT ![j] = IF @ = NotNoted THEN kNow ELSE @]
      PROVE  KeeperInv'
  <2> DEFINE h == Held(kHold[j], "proofStale")
             f == IF kRefusedSince[j] = NotNoted THEN kNow ELSE kRefusedSince[j]
             s == IF kNow - h.since >= ProofGrace THEN "send" ELSE "none"
  <2>1. /\ h \in [reason : HoldReasons, since : Nat] /\ h.reason = "proofStale"
        /\ h.since = IF kHold[j].reason = "proofStale" THEN kHold[j].since ELSE kNow
    BY <1>0, HoldsAreOK
  <2>2. f \in Nat \cup {NotNoted} /\ f = h.since
    <3>1. kHold[j].reason = "proofStale" => kRefusedSince[j] = kHold[j].since /\ kHold[j].since \in Nat
      BY <1>0 DEF KeeperInv, JobInv, HoldIsTheRefusals, TableTypes
    <3>2. kHold[j].reason # "proofStale" => kRefusedSince[j] = NotNoted
      BY DEF KeeperInv, JobInv, HoldIsTheRefusals
    <3>3. kNow \in Nat /\ NotNoted \notin Nat
      BY <1>0 DEF PassTypes, NotNoted
    <3> QED BY <2>1, <3>1, <3>2, <3>3
  <2>3. /\ kHold' = [kHold EXCEPT ![j] = h] /\ kRefusedSince' = [kRefusedSince EXCEPT ![j] = f] /\ Step(j, s)
        /\ s \in {"none", "stale", "send"} /\ (s = "send" => kNow - h.since >= ProofGrace)
    BY <1>0, <1>2 DEF Hold, TableTypes
  <2> HIDE DEF h, f, s
  <2> QED BY <1>0, <1>1, <2>1, <2>2, <2>3, HoldMoves
<1>3. CASE kHold' = [kHold EXCEPT ![j] = NoHold] /\ Step(j, "send") /\ Forgotten(j)
  <2>1. NoHold \in [reason : HoldReasons, since : Nat] /\ NoHold.reason = "none"
    BY <1>0, HoldsAreOK
  <2> QED BY <1>0, <1>1, <1>3, <2>1, HoldMoves DEF Forgotten
<1> QED BY <1>2, <1>3 DEF ExamineRelease

(* So does sending the transaction.                                          *)
LEMMA SendKeeps ==
    ASSUME KeeperInv, NEW j \in KeeperJobs, Send(j)
    PROVE  KeeperInv'
PROOF
<1>0. /\ kStep[j] = "send" /\ kStep[j] \in ActedOn /\ ChainTypes /\ PassTypes /\ TableTypes
      /\ UNCHANGED <<kTime, kExpiry, kSkips>> /\ kMishaps' \in 0 .. MaxMishaps
      /\ chainJob' = chainJob \/ Settled(j)
  BY MishapCounted DEF Send, ActedOn, KeeperInv, ChainTypes
<1>1. ChainTypes' /\ ChainMovesAt(j)
  BY <1>0, ChainUpdates
<1>2. CASE (NoteFailure(j) \/ NoteFailureUnwritten(j)) /\ UNCHANGED <<kHold, kRefusedSince>>
  BY <1>0, <1>1, <1>2, NotGivenUp, FailureIsNoted
<1>3. ASSUME NEW s \in {"none", "sent"}, Step(j, s), UNCHANGED <<kGaveUp, kHold, tickVars, kRetry, kRefusedSince>>
      PROVE  KeeperInv'
  <2>1. s \notin {"send", "appendSkip", "recorded"} /\ kStep[j] # "none" /\ ~kRetry[j].gaveUp
    BY <1>0, NotGivenUp
  <2> QED BY <1>0, <1>1, <1>3, <2>1, StepMoves DEF tickVars, tableVars
<1>4. CASE /\ Hold(j, "noProof") /\ kRetry' = [kRetry EXCEPT ![j] = NoRetry]
           /\ Step(j, "none") /\ Forgotten(j) /\ UNCHANGED <<chainJob, kGaveUp, tickVars>>
  <2> DEFINE h == Held(kHold[j], "noProof")
  <2>1. h \in [reason : HoldReasons, since : Nat] /\ h.reason = "noProof"
    BY <1>0, HoldsAreOK
  <2>2. kHold' = [kHold EXCEPT ![j] = h] /\ kRefusedSince' = [kRefusedSince EXCEPT ![j] = NotNoted]
    BY <1>4 DEF Hold, Forgotten
  <2> HIDE DEF h
  <2> QED BY <1>0, <1>4, <2>1, <2>2, HoldMoves
<1> QED BY <1>2, <1>3, <1>4 DEF Send

(* So does booking what became of it.                                        *)
LEMMA BookSendKeeps ==
    ASSUME KeeperInv, NEW j \in KeeperJobs, BookSend(j)
    PROVE  KeeperInv'
PROOF
<1>0. /\ kStep[j] = "sent" /\ kStep[j] \in ActedOn /\ ChainTypes /\ PassTypes /\ TableTypes
      /\ UNCHANGED <<kTime, chainJob, kExpiry, kSkips>> /\ kMishaps' \in 0 .. MaxMishaps
  BY MishapCounted DEF BookSend, ActedOn, KeeperInv, ChainTypes, chainVars
<1>1. ChainTypes' /\ ChainMovesAt(j)
  BY <1>0, ChainUpdates
<1>2. CASE (NoteFailure(j) \/ NoteFailureUnwritten(j)) /\ UNCHANGED <<kHold, kRefusedSince>>
  BY <1>0, <1>1, <1>2, NotGivenUp, FailureIsNoted
<1>3. CASE /\ kHold' = [kHold EXCEPT ![j] = NoHold] /\ Forgotten(j)
           /\ kRetry' = [kRetry EXCEPT ![j] = NoRetry] /\ Step(j, "none") /\ UNCHANGED <<kGaveUp, tickVars>>
  <2>1. NoHold \in [reason : HoldReasons, since : Nat] /\ NoHold.reason = "none"
    BY <1>0, HoldsAreOK
  <2> QED BY <1>0, <1>3, <2>1, HoldMoves DEF Forgotten
<1> QED BY <1>2, <1>3 DEF BookSend

-----------------------------------------------------------------------------
(* A lapse and a bond.                                                       *)
LEMMA LapseKeeps ==
    ASSUME KeeperInv, NEW j \in KeeperJobs, Lapse(j)
    PROVE  KeeperInv'
PROOF
<1>0. /\ kStep[j] = "lapse" /\ kStep[j] \in ActedOn /\ ChainTypes
      /\ UNCHANGED <<kTime, kHold, kExpiry, kSkips, kRefusedSince>> /\ kMishaps' \in 0 .. MaxMishaps
      /\ chainJob' = chainJob \/ chainJob' = [chainJob EXCEPT ![j].outcome = "lapsed"]
  BY MishapCounted DEF Lapse, ActedOn, KeeperInv, ChainTypes
<1>1. ChainTypes' /\ ChainMovesAt(j)
  BY <1>0, ChainUpdates
<1>2. CASE NoteFailure(j) \/ NoteFailureUnwritten(j)
  BY <1>0, <1>1, <1>2, NotGivenUp, FailureIsNoted
<1>3. ASSUME NEW s \in {"none", "lapsed"}, Step(j, s), UNCHANGED <<kGaveUp, tickVars, kRetry>>
      PROVE  KeeperInv'
  <2>1. s \notin {"send", "appendSkip", "recorded"} /\ kStep[j] # "none" /\ ~kRetry[j].gaveUp
    BY <1>0, NotGivenUp
  <2> QED BY <1>0, <1>1, <1>3, <2>1, StepMoves DEF tickVars, tableVars
<1> QED BY <1>2, <1>3 DEF Lapse

(* So does booking a failure: the retry or the give-up.                      *)
LEMMA BookKeeps ==
    ASSUME KeeperInv, NEW j \in KeeperJobs, Book(j)
    PROVE  KeeperInv'
PROOF
<1>0. /\ kStep[j] \in {"lapsed", "bonded"} /\ kStep[j] \in ActedOn /\ ChainTypes
      /\ UNCHANGED <<kTime, chainJob, kHold, kExpiry, kSkips, kRefusedSince>> /\ kMishaps' \in 0 .. MaxMishaps
  BY MishapCounted DEF Book, ActedOn, KeeperInv, ChainTypes, chainVars
<1>1. ChainTypes' /\ ChainMovesAt(j)
  BY <1>0, ChainUpdates
<1>2. CASE NoteFailure(j) \/ NoteFailureUnwritten(j)
  BY <1>0, <1>1, <1>2, NotGivenUp, FailureIsNoted
<1>3. CASE Step(j, "none") /\ kRetry' = [kRetry EXCEPT ![j] = NoRetry] /\ UNCHANGED <<kGaveUp, tickVars>>
  <2>1. "none" \notin {"send", "appendSkip", "recorded"} /\ "none" \notin ActedOn /\ kStep[j] # "none"
    BY <1>0, NotGivenUp DEF ActedOn
  <2> QED BY <1>0, <1>1, <1>3, <2>1, StepMoves DEF tickVars, tableVars
<1> QED BY <1>2, <1>3 DEF Book

(* So does settling a bond.                                                  *)
LEMMA BondKeeps ==
    ASSUME KeeperInv, NEW j \in KeeperJobs, KeeperSettlesBond(j)
    PROVE  KeeperInv'
PROOF
<1>0. /\ kStep[j] = "bond" /\ ChainTypes
      /\ UNCHANGED <<kTime, kHold, kExpiry, kSkips, kRefusedSince>> /\ kMishaps' \in 0 .. MaxMishaps
      /\ chainJob' = chainJob \/ chainJob' = [chainJob EXCEPT ![j].bondSettled = TRUE]
  BY MishapCounted DEF KeeperSettlesBond, KeeperInv, ChainTypes
<1>1. ChainTypes' /\ ChainMovesAt(j)
  BY <1>0, ChainUpdates
<1>2. CASE ~Waiting(j) /\ (NoteFailure(j) \/ NoteFailureUnwritten(j))
  BY <1>0, <1>1, <1>2, FailureIsNoted DEF Waiting
<1>3. ASSUME NEW s \in {"none", "bonded"}, Step(j, s), s = "bonded" => ~Waiting(j), UNCHANGED <<kGaveUp, tickVars, kRetry>>
      PROVE  KeeperInv'
  <2>1. s \notin {"send", "appendSkip", "recorded"} /\ kStep[j] # "none" /\ (s \in ActedOn => ~kRetry[j].gaveUp)
    BY <1>0, <1>3 DEF Waiting, ActedOn
  <2> QED BY <1>0, <1>1, <1>3, <2>1, StepMoves DEF tickVars, tableVars
<1> QED BY <1>2, <1>3 DEF KeeperSettlesBond

-----------------------------------------------------------------------------
(* The sweep: an expiry is marked after the hook carries it.                 *)
ExpiryBecomes(j, e) ==
    /\ DOMAIN kExpiry' = KeeperJobs /\ kExpiry'[j] = e
    /\ \A k \in KeeperJobs : k # j => kExpiry'[k] = kExpiry[k]

(* What one step of the expiry sweep may change of a job.                    *)
LEMMA ExpiryMoves ==
    ASSUME KeeperInv, NEW j \in KeeperJobs, ChainTypes', ChainMovesAt(j), PassTypes', kMode # "down",
           UNCHANGED <<kGaveUp, kHold, kSkips, kRetry, kRefusedSince>>,
           \A k \in KeeperJobs : k # j => (kStep'[k] = kStep[k] /\ kNow' = kNow) \/ kStep'[k] = "none",
           kStep'[j] \in {"none", "recorded"},
           NEW e, ExpiryBecomes(j, e), DOMAIN e = {"marked", "attempts", "next", "gaveUp"}, e.attempts \in Nat,
           e.marked \/ kStep'[j] = "recorded" => chainJob'[j].recorded
    PROVE  KeeperInv'
PROOF
<1>0. TableTypes
  BY DEF KeeperInv
<1>1. DOMAIN kExpiry' = KeeperJobs /\ kExpiry'[j] = e /\ \A k \in KeeperJobs : k # j => kExpiry'[k] = kExpiry[k]
  BY DEF ExpiryBecomes
<1>2. TableTypes'
  <2>1. ASSUME NEW k \in KeeperJobs
        PROVE  DOMAIN kExpiry'[k] = {"marked", "attempts", "next", "gaveUp"} /\ kExpiry'[k].attempts \in Nat
    BY <1>0, <1>1 DEF TableTypes
  <2> QED BY <1>0, <1>1, <2>1 DEF TableTypes
<1>3. JobInv(j)'
  BY <1>1 DEF KeeperInv, JobInv, GiveUpsAreKnown, HoldIsTheRefusals, SkipIsMarkedFirst,
     ExpiryIsRecordedFirst, ActedOn
<1>4. ASSUME NEW k \in KeeperJobs, k # j PROVE Untouched(k)
  BY <1>1, <1>4 DEF Untouched, ChainMovesAt
<1> QED BY <1>2, <1>3, <1>4, OneJobMoves

(* The expiry sweep keeps the invariant.                                     *)
LEMMA KeeperSweepKeeps ==
    ASSUME KeeperInv, NEW j \in KeeperJobs, RecordExpiry(j) \/ MarkExpiry(j)
    PROVE  KeeperInv'
PROOF
<1> DEFINE old == kExpiry[j]
<1>0. /\ kStep[j] # "none" /\ ChainTypes /\ PassTypes /\ TableTypes /\ kMode # "down"
      /\ UNCHANGED <<kTime, kGaveUp, kHold, kSkips, kRetry, kRefusedSince>> /\ kMishaps' \in 0 .. MaxMishaps
      /\ chainJob' = chainJob \/ chainJob' = [chainJob EXCEPT ![j].recorded = TRUE]
  BY MishapCounted DEF RecordExpiry, MarkExpiry, KeeperInv, ChainTypes, PassTypes, Quiet, chainVars
<1>1. ChainTypes' /\ ChainMovesAt(j) /\ DOMAIN kExpiry = KeeperJobs
  BY <1>0, ChainUpdates DEF TableTypes
<1>2. /\ DOMAIN old = {"marked", "attempts", "next", "gaveUp"} /\ old.attempts \in Nat
      /\ old.marked => chainJob'[j].recorded
  BY <1>0, <1>1 DEF TableTypes, KeeperInv, JobInv, ExpiryIsRecordedFirst, ChainMovesAt
<1>3. ASSUME NEW s \in {"none", "recorded"}, Step(j, s), UNCHANGED tickVars
      PROVE  /\ PassTypes' /\ kStep'[j] = s
             /\ \A k \in KeeperJobs : k # j => (kStep'[k] = kStep[k] /\ kNow' = kNow) \/ kStep'[k] = "none"
  BY <1>0, <1>3, StepInPass
<1>4. CASE NoteExpiryFailure(j)
  <2>1. /\ PassTypes' /\ kStep'[j] = "none"
        /\ \A k \in KeeperJobs : k # j => (kStep'[k] = kStep[k] /\ kNow' = kNow) \/ kStep'[k] = "none"
    BY <1>0, <1>3, <1>4, PassIsOver DEF NoteExpiryFailure
  <2> DEFINE Fits(e) == /\ ExpiryBecomes(j, e) /\ e.marked = old.marked
                        /\ DOMAIN e = {"marked", "attempts", "next", "gaveUp"} /\ e.attempts \in Nat
  <2>2. \E e : Fits(e)
    <3>1. CASE kExpiry' = [kExpiry EXCEPT ![j] = ExpiryFailed(@)]
      <4>1. /\ DOMAIN ExpiryFailed(old) = DOMAIN old /\ ExpiryFailed(old).attempts = old.attempts + 1
            /\ ExpiryFailed(old).marked = old.marked
        BY <1>2 DEF ExpiryFailed
      <4>2. ExpiryBecomes(j, ExpiryFailed(old))
        BY <1>1, <3>1 DEF ExpiryBecomes
      <4>3. Fits(ExpiryFailed(old))
        BY <1>2, <4>1, <4>2
      <4> HIDE DEF Fits
      <4> QED BY <4>3
    <3>2. CASE kExpiry' = [kExpiry EXCEPT ![j].attempts = @ + 1]
      <4> DEFINE e == [old EXCEPT !.attempts = @ + 1]
      <4>1. DOMAIN e = DOMAIN old /\ e.attempts = old.attempts + 1 /\ e.marked = old.marked
        BY <1>2
      <4>2. ExpiryBecomes(j, e)
        BY <1>1, <3>2 DEF ExpiryBecomes
      <4> HIDE DEF e
      <4>3. Fits(e)
        BY <1>2, <4>1, <4>2
      <4> HIDE DEF Fits
      <4> QED BY <4>3
    <3>3. CASE UNCHANGED kExpiry
      <4>1. Fits(old)
        BY <1>1, <1>2, <3>3 DEF ExpiryBecomes
      <4> HIDE DEF Fits
      <4> QED BY <4>1
    <3> HIDE DEF Fits
    <3> QED BY <1>4, <3>1, <3>2, <3>3 DEF NoteExpiryFailure
  <2>3. PICK e : Fits(e)
    BY <2>2
  <2> HIDE DEF old
  <2> QED BY <1>0, <1>1, <1>2, <2>1, <2>3, ExpiryMoves
<1>5. CASE /\ chainJob' = [chainJob EXCEPT ![j].recorded = TRUE] /\ Step(j, "recorded")
           /\ UNCHANGED <<kExpiry, tickVars>>
  <2>1. chainJob'[j].recorded
    BY <1>0, <1>5 DEF ChainTypes, ChainJobs
  <2>2. ExpiryBecomes(j, old)
    BY <1>1, <1>5 DEF ExpiryBecomes
  <2> HIDE DEF old
  <2> QED BY <1>0, <1>1, <1>2, <1>3, <1>5, <2>1, <2>2, ExpiryMoves
<1>6. CASE kStep[j] = "recorded" /\ kExpiry' = [kExpiry EXCEPT ![j].marked = TRUE] /\ Step(j, "none") /\ UNCHANGED tickVars
  <2> DEFINE e == [old EXCEPT !.marked = TRUE]
  <2>1. DOMAIN e = DOMAIN old /\ e.attempts = old.attempts
    BY <1>2
  <2>2. ExpiryBecomes(j, e)
    BY <1>1, <1>6 DEF ExpiryBecomes
  <2>3. chainJob'[j].recorded
    BY <1>1, <1>6 DEF KeeperInv, JobInv, ExpiryIsRecordedFirst, ChainMovesAt
  <2> HIDE DEF old, e
  <2> QED BY <1>0, <1>1, <1>2, <1>3, <1>6, <2>1, <2>2, <2>3, ExpiryMoves
<1> QED BY <1>4, <1>5, <1>6 DEF RecordExpiry, MarkExpiry

-----------------------------------------------------------------------------
(* Every step of the keeper or the chain keeps it.                           *)
LEMMA KeeperInvStep == KeeperInv /\ [KeeperNext]_keeperVars => KeeperInv'
PROOF
<1> SUFFICES ASSUME KeeperInv, [KeeperNext]_keeperVars PROVE KeeperInv'
  OBVIOUS
<1>1. CASE KeeperClock
  BY <1>1, ClockKeeps
<1>2. CASE Crash \/ RestoreGiveUps
  BY <1>2, RestartsKeep
<1>3. CASE TickStarts \/ Rest \/ ListBonds \/ TickEnds \/ SweepEnds \/ PassFails \/ SweepStarts
  BY <1>3, LoopKeeps
<1>4. CASE Forget
  BY <1>4, ForgetKeeps
<1>5. ASSUME NEW j \in KeeperJobs, TickStep(j) PROVE KeeperInv'
  BY <1>5, SkipsKeep, ReadsKeep, ScreenKeeps, ProofIsExamined, ReleaseIsExamined, SendKeeps, BookSendKeeps,
     LapseKeeps, BookKeeps, BondKeeps DEF TickStep
<1>6. ASSUME NEW j \in KeeperJobs, SweepStep(j) PROVE KeeperInv'
  BY <1>6, KeeperSweepKeeps DEF SweepStep
<1>7. ASSUME NEW j \in KeeperJobs, MirrorCatchesUp(j) PROVE KeeperInv'
  BY <1>7, MirrorKeeps DEF MirrorCatchesUp
<1>8. ASSUME NEW j \in KeeperJobs, OthersMove(j) \/ ClearGiveUp(j) PROVE KeeperInv'
  BY <1>8, OthersKeep, ReopenKeeps
<1>9. CASE UNCHANGED keeperVars
  BY <1>9, MirrorKeeps DEF keeperVars, chainVars, tickVars
<1> QED BY <1>1, <1>2, <1>3, <1>4, <1>5, <1>6, <1>7, <1>8, <1>9 DEF KeeperNext, LoopStep

(* What the keeper remembers is what it acts on, over any number of lives,    *)
(* failures and moves of the chain.                                           *)
THEOREM KeeperIsSafe == KeeperSpec => []KeeperSafety
PROOF
<1>1. KeeperInv => KeeperSafety
  <2> SUFFICES ASSUME KeeperInv PROVE KeeperSafety
    OBVIOUS
  <2>1. KeeperTypeOK
    BY DEF KeeperInv, KeeperTypeOK, ChainTypes, PassTypes, TableTypes, ChainJobs, KeeperStatuses,
       HoldReasons, KeeperModes
  <2>2. GivenUpIsLeftAlone
    BY DEF KeeperInv, PassTypes, Quiet, JobInv, GiveUpsAreKnown, ActedOn, GivenUpIsLeftAlone
  <2>3. GraceIsKept /\ SkippedOnce /\ ExpiryMarkIsTrue
    BY DEF KeeperInv, JobInv, HoldIsTheRefusals, SkipIsMarkedFirst, ExpiryIsRecordedFirst,
       GraceIsKept, SkippedOnce, ExpiryMarkIsTrue
  <2> QED BY <2>1, <2>2, <2>3 DEF KeeperSafety
<1> QED BY <1>1, KeeperInvInit, KeeperInvStep, PTL DEF KeeperSpec

-----------------------------------------------------------------------------
(* The indexer (Indexer).                                                    *)
-----------------------------------------------------------------------------
(* Induction over the naturals, with a set in the place of a predicate.      *)
LEMMA LeastOf ==
    ASSUME NEW T \in SUBSET Nat, T # {}
    PROVE  \E x \in T : \A y \in T : x <= y
PROOF
<1>1. \E x \in T : \A y \in T : ~ (<<y, x>> \in OpToRel(<, Nat))
  BY NatLessThanWellFounded, WFMin, Zenon
<1>2. ASSUME NEW x \in T, NEW y \in T, ~ (<<y, x>> \in OpToRel(<, Nat))
      PROVE  ~(y < x)
  BY <1>2, Zenon DEF OpToRel
<1>3. \E x \in T : \A y \in T : ~(y < x)
  BY <1>1, <1>2, Zenon
<1>4. \A x \in T, y \in T : x \in Nat /\ y \in Nat
  OBVIOUS
<1>5. ASSUME NEW x \in T, NEW y \in T, ~(y < x) PROVE x <= y
  <2>1. x \in Nat /\ y \in Nat
    OBVIOUS
  <2>2. ~(y < x)
    BY <1>5
  <2> QED BY ONLY <2>1, <2>2
<1> QED BY <1>3, <1>5, Zenon

(* Induction over the naturals, with a set in place of a predicate.          *)
LEMMA SetInduction ==
    ASSUME NEW S, 0 \in S, \A n \in Nat : n \in S => n + 1 \in S
    PROVE  Nat \subseteq S
PROOF
<1> SUFFICES ASSUME Nat \ S # {} PROVE FALSE
  OBVIOUS
<1>1. PICK x \in Nat \ S : \A y \in Nat \ S : x <= y
  BY LeastOf
<1>2. x # 0 /\ x - 1 \in Nat /\ x - 1 \in S
  BY <1>1
<1> QED BY <1>1, <1>2

-----------------------------------------------------------------------------
(* The reducer's course is what it is defined as.                            *)
LEMMA CourseIs ==
    ASSUME NEW st, NEW blocks
    PROVE  /\ Course(st, blocks)[0] = st
           /\ \A b \in 1 .. LastBlock :
                Course(st, blocks)[b] = IF b \in blocks THEN Reduced(Course(st, blocks)[b - 1], b)
                                        ELSE Course(st, blocks)[b - 1]
PROOF
<1> DEFINE Next(s, b) == IF b \in blocks THEN Reduced(s, b) ELSE s
           Is(g, n) == g = [b \in 0 .. n |-> IF b = 0 THEN st ELSE Next(g[b - 1], b)]
           S == {n \in Nat : \E g : Is(g, n)}
<1> HIDE DEF Next
<1>1. 0 \in S
  <2> DEFINE g == [b \in 0 .. 0 |-> st]
  <2>1. Is(g, 0)
    OBVIOUS
  <2> QED BY <2>1
<1>2. ASSUME NEW n \in Nat, n \in S PROVE n + 1 \in S
  <2>1. PICK g : Is(g, n)
    BY <1>2
  <2> DEFINE h == [b \in 0 .. n + 1 |-> IF b = n + 1 THEN Next(g[n], n + 1) ELSE g[b]]
  <2>2. \A b \in 0 .. n : h[b] = g[b]
    OBVIOUS
  <2>3. ASSUME NEW b \in 0 .. n + 1 PROVE h[b] = IF b = 0 THEN st ELSE Next(h[b - 1], b)
    <3>1. CASE b = n + 1
      <4>1. h[b] = Next(g[n], n + 1) /\ h[n] = g[n] /\ b # 0 /\ b - 1 = n
        BY <3>1, <2>2
      <4> QED BY <3>1, <4>1
    <3>2. CASE b # n + 1
      <4>1. b \in 0 .. n /\ h[b] = g[b] /\ (b # 0 => b - 1 \in 0 .. n)
        BY <3>2
      <4>2. g[b] = IF b = 0 THEN st ELSE Next(g[b - 1], b)
        BY <2>1, <4>1
      <4> HIDE DEF h
      <4> QED BY <2>2, <4>1, <4>2
    <3> QED BY <3>1, <3>2
  <2>4. Is(h, n + 1)
    <3>1. h = [b \in 0 .. n + 1 |-> h[b]]
      OBVIOUS
    <3> HIDE DEF h
    <3>2. [b \in 0 .. n + 1 |-> h[b]] = [b \in 0 .. n + 1 |-> IF b = 0 THEN st ELSE Next(h[b - 1], b)]
      BY <2>3
    <3> QED BY <3>1, <3>2
  <2> HIDE DEF h, Is
  <2> QED BY <2>4
<1>3. LastBlock \in S
  <2>1. LastBlock \in Nat
    BY IndexerAssumption
  <2> HIDE DEF S
  <2> QED BY <1>1, <1>2, <2>1, SetInduction
<1>4. \E g : Is(g, LastBlock)
  BY <1>3
<1>5. Course(st, blocks) = CHOOSE g : Is(g, LastBlock)
  BY DEF Course, Next
<1>6. Is(Course(st, blocks), LastBlock)
  <2> HIDE DEF Is
  <2> QED BY <1>4, <1>5
<1> DEFINE C == Course(st, blocks)
<1>7. C = [b \in 0 .. LastBlock |-> IF b = 0 THEN st ELSE Next(C[b - 1], b)]
  BY <1>6
<1> HIDE DEF C
<1>8. LastBlock \in Nat
  BY IndexerAssumption
<1>9. C[0] = st
  BY <1>7, <1>8
<1>10. ASSUME NEW b \in 1 .. LastBlock PROVE C[b] = Next(C[b - 1], b)
  <2>1. b \in 0 .. LastBlock /\ b # 0
    BY <1>8
  <2> QED BY <1>7, <2>1
<1> QED BY <1>9, <1>10 DEF C, Next

(* The course of the journal, block by block.                                *)
LEMMA JournalCourseIs ==
    /\ Course(EmptyState, journal)[0] = EmptyState
    /\ \A b \in 1 .. LastBlock :
         Course(EmptyState, journal)[b] =
            IF b \in journal THEN Reduced(Course(EmptyState, journal)[b - 1], b)
            ELSE Course(EmptyState, journal)[b - 1]
BY CourseIs

(* The same of the journal after a step.                                     *)
LEMMA JournalCourseIsNext ==
    /\ Course(EmptyState, journal)'[0] = EmptyState
    /\ \A b \in 1 .. LastBlock :
         Course(EmptyState, journal)'[b] =
            IF b \in journal' THEN Reduced(Course(EmptyState, journal)[b - 1], b)'
            ELSE Course(EmptyState, journal)'[b - 1]
PROOF
<1>1. (/\ Course(EmptyState, journal)[0] = EmptyState
       /\ \A b \in 1 .. LastBlock :
            Course(EmptyState, journal)[b] =
               IF b \in journal THEN Reduced(Course(EmptyState, journal)[b - 1], b)
               ELSE Course(EmptyState, journal)[b - 1])'
  BY JournalCourseIs, PTL
<1> QED BY <1>1 DEF EmptyState

(* What is reduced is not reduced otherwise when the chain grows.            *)
LEMMA ReplayedKept ==
    ASSUME NEW blocks, journal' = blocks, \A b \in blocks : chainLog'[b] = chainLog[b]
    PROVE  Replayed' = Reduce(EmptyState, blocks)
PROOF
<1> DEFINE X == Course(EmptyState, blocks)
           Y == Course(EmptyState, journal)'
           S == {n \in Nat : n <= LastBlock => Y[n] = X[n]}
<1>0. LastBlock \in Nat
  BY IndexerAssumption
<1>1. 0 \in S
  BY CourseIs, JournalCourseIsNext
<1>2. ASSUME NEW n \in Nat, n \in S PROVE n + 1 \in S
  <2> SUFFICES ASSUME n + 1 <= LastBlock PROVE Y[n + 1] = X[n + 1]
    OBVIOUS
  <2>1. n + 1 \in 1 .. LastBlock /\ Y[n] = X[n] /\ n + 1 - 1 = n
    BY <1>0, <1>2
  <2> HIDE DEF S
  <2>2. X[n + 1] = IF n + 1 \in blocks THEN Reduced(X[n], n + 1) ELSE X[n]
    BY <2>1, CourseIs
  <2>3. Y[n + 1] = IF n + 1 \in journal' THEN Reduced(X[n], n + 1)' ELSE Y[n]
    BY <2>1, JournalCourseIsNext
  <2>4. ASSUME n + 1 \in blocks PROVE Reduced(X[n], n + 1)' = Reduced(X[n], n + 1)
    <3>1. chainLog'[n + 1] = chainLog[n + 1]
      BY <2>4
    <3> QED BY <2>1, <3>1 DEF Reduced, Applied, Rejects
  <2> QED BY <2>1, <2>2, <2>3, <2>4
<1>3. LastBlock \in S
  <2> HIDE DEF S
  <2> QED BY <1>0, <1>1, <1>2, SetInduction
<1> QED BY <1>3 DEF Replayed, Reduce

(* Reducing what comes later goes on from where the earlier left off.        *)
LEMMA CourseRests ==
    ASSUME NEW st, NEW blocks, NEW c \in 0 .. LastBlock, \A b \in blocks : b <= c
    PROVE  \A n \in c .. LastBlock : Course(st, blocks)[n] = Course(st, blocks)[c]
PROOF
<1> DEFINE C == Course(st, blocks)
           S == {n \in Nat : c <= n /\ n <= LastBlock => C[n] = C[c]}
<1>0. LastBlock \in Nat /\ c \in Nat
  BY IndexerAssumption
<1>1. 0 \in S
  BY <1>0
<1>2. ASSUME NEW n \in Nat, n \in S PROVE n + 1 \in S
  <2> SUFFICES ASSUME c <= n + 1, n + 1 <= LastBlock PROVE C[n + 1] = C[c]
    OBVIOUS
  <2>1. CASE c = n + 1
    BY <2>1
  <2>2. CASE c # n + 1
    <3>1. n + 1 \in 1 .. LastBlock /\ n + 1 - 1 = n /\ C[n] = C[c] /\ n + 1 \notin blocks
      BY <1>0, <1>2, <2>2
    <3>2. C[n + 1] = C[n]
      BY <3>1, CourseIs
    <3> QED BY <3>1, <3>2
  <2> QED BY <2>1, <2>2
<1>3. Nat \subseteq S
  <2> HIDE DEF S
  <2> QED BY <1>1, <1>2, SetInduction
<1> QED BY <1>0, <1>3

(* Reducing two stretches of blocks one after the other is reducing them     *)
(* at once.                                                                  *)
LEMMA CourseJoins ==
    ASSUME NEW st, NEW early, NEW late, NEW c \in 0 .. LastBlock,
           \A b \in early : b <= c, \A b \in late : b \in Nat /\ c < b
    PROVE  Reduce(st, early \cup late) = Reduce(Reduce(st, early), late)
PROOF
<1> DEFINE X == Course(st, early \cup late)
           Y == Course(st, early)
           Z == Course(Y[LastBlock], late)
           Joined(n) == /\ n <= c => X[n] = Y[n] /\ Z[n] = Y[LastBlock]
                        /\ c <= n => X[n] = Z[n]
           S == {n \in Nat : n <= LastBlock => Joined(n)}
<1>0. LastBlock \in Nat /\ c \in Nat /\ c \in c .. LastBlock /\ LastBlock \in c .. LastBlock
  BY IndexerAssumption
<1>1. Y[LastBlock] = Y[c]
  BY <1>0, CourseRests
<1>2. X[0] = st /\ Y[0] = st /\ Z[0] = Y[LastBlock]
  BY CourseIs
<1>3. \A b \in 1 .. LastBlock :
        /\ X[b] = IF b \in early \cup late THEN Reduced(X[b - 1], b) ELSE X[b - 1]
        /\ Y[b] = IF b \in early THEN Reduced(Y[b - 1], b) ELSE Y[b - 1]
        /\ Z[b] = IF b \in late THEN Reduced(Z[b - 1], b) ELSE Z[b - 1]
  BY CourseIs
<1> HIDE DEF X, Y, Z
<1>4. 0 \in S
  <2>1. c <= 0 => c = 0
    BY <1>0
  <2> QED BY <1>0, <1>1, <1>2, <2>1
<1>5. ASSUME NEW n \in Nat, n \in S PROVE n + 1 \in S
  <2> SUFFICES ASSUME n + 1 <= LastBlock
               PROVE  /\ n + 1 <= c => X[n + 1] = Y[n + 1] /\ Z[n + 1] = Y[LastBlock]
                      /\ c <= n + 1 => X[n + 1] = Z[n + 1]
    OBVIOUS
  <2>1. n + 1 \in 1 .. LastBlock /\ n + 1 - 1 = n /\ n <= LastBlock
    BY <1>0
  <2>2. Joined(n)
    <3> HIDE DEF Joined
    <3> QED BY <1>5, <2>1
  <2>3. /\ X[n + 1] = IF n + 1 \in early \cup late THEN Reduced(X[n], n + 1) ELSE X[n]
        /\ Y[n + 1] = IF n + 1 \in early THEN Reduced(Y[n], n + 1) ELSE Y[n]
        /\ Z[n + 1] = IF n + 1 \in late THEN Reduced(Z[n], n + 1) ELSE Z[n]
    BY <1>3, <2>1
  <2>4. CASE n + 1 <= c
    <3>1. n <= c /\ n + 1 \notin late
      BY <1>0, <2>4
    <3>2. X[n + 1] = Y[n + 1] /\ Z[n + 1] = Y[LastBlock]
      BY <2>2, <2>3, <3>1
    <3>3. c <= n + 1 => c = n + 1
      BY <1>0, <2>4
    <3> QED BY <1>1, <3>2, <3>3
  <2>5. CASE ~(n + 1 <= c)
    <3>1. c <= n /\ n + 1 \notin early
      BY <1>0, <2>5
    <3> QED BY <2>2, <2>3, <2>5, <3>1
  <2> QED BY <2>4, <2>5
<1>6. LastBlock \in S
  <2> HIDE DEF S
  <2> QED BY <1>0, <1>4, <1>5, SetInduction
<1>7. Joined(LastBlock)
  <2> HIDE DEF Joined
  <2> QED BY <1>0, <1>6
<1>8. X[LastBlock] = Z[LastBlock]
  BY <1>0, <1>7
<1> QED BY <1>8 DEF Reduce, X, Y, Z

-----------------------------------------------------------------------------
EventKinds == {"created", "submitted", "disputed", "paid"}
IsState(st) ==
    /\ DOMAIN st = {"status", "disputed", "at", "ledger"}
    /\ st.at \in Nat /\ st.ledger \in Nat

(* A reduced state is a state that has come as far as the block.             *)
LEMMA ReducedIs ==
    ASSUME NEW st, IsState(st), NEW b \in Nat, chainLog[b].kind \in EventKinds, st.at <= b
    PROVE  /\ IsState(Reduced(st, b)) /\ st.at <= Reduced(st, b).at /\ Reduced(st, b).at <= b
           /\ Reduced(st, b).ledger <= st.ledger + 1
           /\ Reduced(st, b).status = "absent" =>
                 st.status = "absent" /\ Reduced(st, b).disputed = st.disputed /\ Reduced(st, b).at = st.at
PROOF
<1>1. CASE Rejects(st, chainLog[b].kind)
  <2>1. Reduced(st, b) = st
    BY <1>1 DEF Reduced
  <2> QED BY <2>1 DEF IsState
<1>2. CASE ~Rejects(st, chainLog[b].kind)
  <2>0. Reduced(st, b) = Applied(st, b)
    BY <1>2 DEF Reduced
  <2>1. CASE chainLog[b].kind = "created"
    <3>1. Reduced(st, b) = [st EXCEPT !.status = "open", !.at = b]
      BY <2>0, <2>1 DEF Applied
    <3> QED BY <3>1 DEF IsState
  <2>2. CASE chainLog[b].kind = "submitted"
    <3>1. Reduced(st, b) = [st EXCEPT !.status = "submitted", !.at = b]
      BY <2>0, <2>2 DEF Applied
    <3> QED BY <3>1 DEF IsState
  <2>3. CASE chainLog[b].kind = "disputed"
    <3>1. Reduced(st, b) = [st EXCEPT !.disputed = TRUE, !.at = b]
      BY <2>0, <2>3 DEF Applied
    <3>2. st.status # "absent"
      BY <1>2, <2>3 DEF Rejects
    <3>3. /\ DOMAIN Reduced(st, b) = DOMAIN st /\ Reduced(st, b).status = st.status
          /\ Reduced(st, b).at = b /\ Reduced(st, b).ledger = st.ledger
      BY <3>1 DEF IsState
    <3> QED BY <3>2, <3>3 DEF IsState
  <2>4. CASE chainLog[b].kind = "paid"
    <3>1. Reduced(st, b) = [st EXCEPT !.ledger = st.ledger + 1]
      BY <2>0, <2>4 DEF Applied
    <3> QED BY <3>1 DEF IsState
  <2> QED BY <2>1, <2>2, <2>3, <2>4 DEF EventKinds
<1> QED BY <1>1, <1>2

(* How a course runs from a state that stands at c, through later blocks.    *)
LEMMA CourseRuns ==
    ASSUME NEW st, IsState(st), NEW c \in 0 .. LastBlock, st.at <= c,
           NEW blocks, \A b \in blocks : b \in Nat /\ c < b /\ chainLog[b].kind \in EventKinds
    PROVE  \A n \in 0 .. LastBlock :
              LET s == Course(st, blocks)[n] IN
              /\ IsState(s) /\ st.at <= s.at /\ (s.at <= c \/ s.at <= n) /\ s.ledger <= st.ledger + n
              /\ s.status = "absent" => st.status = "absent" /\ s.disputed = st.disputed /\ s.at = st.at
              /\ (\A b \in blocks : b \in RejectedFrom(st, blocks)) => s = st
PROOF
<1> DEFINE C == Course(st, blocks)
           Runs(s, n) ==
              /\ IsState(s) /\ st.at <= s.at /\ (s.at <= c \/ s.at <= n) /\ s.ledger <= st.ledger + n
              /\ s.status = "absent" => st.status = "absent" /\ s.disputed = st.disputed /\ s.at = st.at
              /\ (\A b \in blocks : b \in RejectedFrom(st, blocks)) => s = st
           S == {n \in Nat : n <= LastBlock => Runs(C[n], n)}
<1>0. LastBlock \in Nat /\ c \in Nat /\ st.at \in Nat /\ st.ledger \in Nat
  BY IndexerAssumption DEF IsState
<1>1. C[0] = st /\ \A b \in 1 .. LastBlock : C[b] = IF b \in blocks THEN Reduced(C[b - 1], b) ELSE C[b - 1]
  BY CourseIs
<1>2. \A b \in RejectedFrom(st, blocks) : Rejects(C[b - 1], chainLog[b].kind)
  BY DEF RejectedFrom
<1> HIDE DEF C
<1>3. 0 \in S
  BY <1>0, <1>1
<1>4. ASSUME NEW n \in Nat, n \in S PROVE n + 1 \in S
  <2> SUFFICES ASSUME n + 1 <= LastBlock PROVE Runs(C[n + 1], n + 1)
    OBVIOUS
  <2>1. n + 1 \in 1 .. LastBlock /\ n + 1 - 1 = n /\ n <= LastBlock
    BY <1>0
  <2>2. Runs(C[n], n)
    BY <1>4, <2>1
  <2>3. C[n + 1] = IF n + 1 \in blocks THEN Reduced(C[n], n + 1) ELSE C[n]
    BY <1>1, <2>1
  <2>4. C[n].at \in Nat /\ C[n].ledger \in Nat
    BY <2>2 DEF IsState
  <2>5. CASE n + 1 \in blocks
    <3>1. c < n + 1 /\ chainLog[n + 1].kind \in EventKinds /\ C[n + 1] = Reduced(C[n], n + 1)
      BY <2>3, <2>5
    <3>2. C[n].at <= n + 1 /\ IsState(C[n])
      BY <1>0, <2>2, <2>4, <3>1
    <3>3. /\ IsState(C[n + 1]) /\ C[n].at <= C[n + 1].at /\ C[n + 1].at <= n + 1
          /\ C[n + 1].ledger <= C[n].ledger + 1
          /\ C[n + 1].status = "absent" =>
                C[n].status = "absent" /\ C[n + 1].disputed = C[n].disputed /\ C[n + 1].at = C[n].at
      BY <3>1, <3>2, ReducedIs
    <3>4. C[n + 1].at \in Nat /\ C[n + 1].ledger \in Nat
      BY <3>3 DEF IsState
    <3>5. (\A b \in blocks : b \in RejectedFrom(st, blocks)) => C[n + 1] = st
      <4> SUFFICES ASSUME \A b \in blocks : b \in RejectedFrom(st, blocks) PROVE C[n + 1] = st
        OBVIOUS
      <4>1. Rejects(C[n], chainLog[n + 1].kind) /\ C[n] = st
        BY <1>2, <2>1, <2>2, <2>5
      <4> QED BY <3>1, <4>1 DEF Reduced
    <3>6. st.at <= C[n + 1].at /\ C[n + 1].ledger <= st.ledger + (n + 1)
      BY <1>0, <2>2, <2>4, <3>3, <3>4
    <3> QED BY <2>2, <3>3, <3>5, <3>6
  <2>6. CASE n + 1 \notin blocks
    <3>1. C[n + 1] = C[n]
      BY <2>3, <2>6
    <3>2. (C[n].at <= c \/ C[n].at <= n + 1) /\ C[n].ledger <= st.ledger + (n + 1)
      BY <1>0, <2>2, <2>4
    <3> QED BY <2>2, <3>1, <3>2
  <2> QED BY <2>5, <2>6
<1>5. Nat \subseteq S
  <2> HIDE DEF S
  <2> QED BY <1>3, <1>4, SetInduction
<1> QED BY <1>0, <1>5 DEF C

-----------------------------------------------------------------------------
BlockKinds == EventKinds \cup {"none"}
IndexerTypes ==
    /\ chainLog \in Seq([deployment : Deployments, kind : BlockKinds]) /\ Len(chainLog) <= LastBlock
    /\ checkpoint.deployment \in Nat /\ checkpoint.block \in 0 .. Len(chainLog)
    /\ deployed \in Nat \ {0}
    /\ phase \in {"down", "idle", "committed"} /\ cursor \in 0 .. Len(chainLog)
    /\ persistedLedger \in 0 .. LastBlock
    /\ quarantined \subseteq DOMAIN chainLog

(* The journal is of one deployment and ends at the checkpoint.              *)
JournalIsRead ==
    /\ journal \subseteq DOMAIN chainLog
    /\ \A b \in journal : /\ b <= checkpoint.block /\ chainLog[b].kind # "none"
                          /\ chainLog[b].deployment = checkpoint.deployment
    /\ checkpoint.deployment = 0 => checkpoint.block = 0
    /\ checkpoint.deployment <= deployed

(* Between batches the process knows the journal, within one its draft does. *)
ProcessStands ==
    /\ phase = "idle" =>
          /\ state = Replayed /\ persistedLedger = ledgerRow
          /\ \A b \in journal : b <= cursor /\ chainLog[b].deployment = deployed
          /\ EventsOf(1 .. cursor) \subseteq journal \cup quarantined
    /\ phase = "committed" => draft = Replayed /\ checkpoint.deployment = deployed

IndexerInv == IndexerTypes /\ JournalIsRead /\ ProcessStands /\ RowsAreTheJournal /\ NothingSkipped

(* The empty state is a state that has come nowhere.                         *)
LEMMA EmptyIs ==
    /\ IsState(EmptyState) /\ EmptyState.at = 0 /\ EmptyState.ledger = 0 /\ RowOf(EmptyState) = NoJobRow
BY DEF IsState, EmptyState, RowOf, NoJobRow

(* An empty journal replays to the empty state.                              *)
LEMMA NothingReplayed == journal = {} => Replayed = EmptyState
PROOF
<1> SUFFICES ASSUME journal = {} PROVE Replayed = EmptyState
  OBVIOUS
<1>1. LastBlock \in 0 .. LastBlock /\ 0 \in 0 .. LastBlock
  BY IndexerAssumption
<1>2. \A b \in journal : b <= 0
  OBVIOUS
<1>3. Course(EmptyState, journal)[LastBlock] = Course(EmptyState, journal)[0]
  BY <1>1, <1>2, CourseRests
<1>4. Course(EmptyState, journal)[0] = EmptyState
  BY CourseIs
<1> QED BY <1>3, <1>4 DEF Replayed, Reduce

(* The same after a step.                                                    *)
LEMMA NothingReplayedNext == journal' = {} => Replayed' = EmptyState
PROOF
<1>1. (journal = {} => Replayed = EmptyState)'
  BY NothingReplayed, PTL
<1> QED BY <1>1 DEF EmptyState

(* An empty database satisfies the invariant.                                *)
LEMMA IndexerInvInit == IndexerInit => IndexerInv
PROOF
<1> SUFFICES ASSUME IndexerInit PROVE IndexerInv
  OBVIOUS
<1>1. chainLog = <<>> /\ Len(chainLog) = 0 /\ DOMAIN chainLog = {}
      /\ chainLog \in Seq([deployment : Deployments, kind : BlockKinds])
  BY DEF IndexerInit
<1>2. checkpoint.deployment = 0 /\ checkpoint.block = 0 /\ journal = {} /\ quarantined = {}
      /\ deployed = 1 /\ phase = "down" /\ cursor = 0 /\ persistedLedger = 0
      /\ jobRow = NoJobRow /\ ledgerRow = 0
  BY DEF IndexerInit, NoCheckpoint
<1>3. Replayed = EmptyState
  BY <1>2, NothingReplayed
<1>4. IndexerTypes
  BY <1>1, <1>2, IndexerAssumption DEF IndexerTypes
<1>5. JournalIsRead /\ ProcessStands /\ NothingSkipped
  BY <1>2 DEF JournalIsRead, ProcessStands, NothingSkipped
<1>6. RowsAreTheJournal
  BY <1>2, <1>3, EmptyIs DEF RowsAreTheJournal
<1> QED BY <1>4, <1>5, <1>6 DEF IndexerInv

(* What the invariant says of the chain and the journal.                     *)
LEMMA ChainIs ==
    ASSUME IndexerInv
    PROVE  /\ Len(chainLog) \in Nat /\ DOMAIN chainLog = 1 .. Len(chainLog) /\ LastBlock \in Nat
           /\ Len(chainLog) <= LastBlock
           /\ \A b \in 1 .. Len(chainLog) : chainLog[b].kind \in BlockKinds /\ chainLog[b].deployment \in Nat
           /\ \A b \in journal : b \in 1 .. Len(chainLog) /\ chainLog[b].kind \in EventKinds
PROOF
<1>1. Len(chainLog) \in Nat /\ DOMAIN chainLog = 1 .. Len(chainLog)
  BY DEF IndexerInv, IndexerTypes
<1>2. \A b \in 1 .. Len(chainLog) : chainLog[b] \in [deployment : Deployments, kind : BlockKinds]
  <2> DEFINE R == [deployment : Deployments, kind : BlockKinds]
  <2>1. chainLog \in Seq(R)
    BY DEF IndexerInv, IndexerTypes
  <2> HIDE DEF R
  <2>2. \A b \in 1 .. Len(chainLog) : chainLog[b] \in R
    BY <2>1
  <2> QED BY <2>2 DEF R
<1>3. \A b \in 1 .. Len(chainLog) : chainLog[b].kind \in BlockKinds /\ chainLog[b].deployment \in Nat
  BY <1>2, IndexerAssumption
<1>4. \A b \in journal : b \in 1 .. Len(chainLog) /\ chainLog[b].kind \in EventKinds
  BY <1>1, <1>3 DEF IndexerInv, JournalIsRead, BlockKinds
<1> QED BY <1>1, <1>3, <1>4, IndexerAssumption DEF IndexerInv, IndexerTypes

(* What a replay is: a state no later than the journal.                      *)
LEMMA ReplayedIs ==
    ASSUME IndexerInv, NEW c \in 0 .. LastBlock, \A b \in journal : b <= c
    PROVE  IsState(Replayed) /\ Replayed.at <= c /\ Replayed.ledger <= LastBlock
PROOF
<1> DEFINE s(n) == Course(EmptyState, journal)[n]
<1>1. LastBlock \in Nat /\ 0 \in 0 .. LastBlock /\ c \in Nat /\ c \in c .. LastBlock /\ LastBlock \in c .. LastBlock
      /\ LastBlock \in 0 .. LastBlock
  BY IndexerAssumption
<1>2. \A b \in journal : b \in Nat /\ 0 < b /\ chainLog[b].kind \in EventKinds
  BY ChainIs
<1>3. IsState(EmptyState) /\ EmptyState.at <= 0 /\ EmptyState.ledger = 0
  BY EmptyIs
<1>4. \A n \in 0 .. LastBlock : IsState(s(n)) /\ (s(n).at <= 0 \/ s(n).at <= n) /\ s(n).ledger <= 0 + n
  BY <1>1, <1>2, <1>3, CourseRuns
<1>5. s(LastBlock) = s(c)
  BY <1>1, CourseRests
<1>6. Replayed = s(LastBlock)
  BY DEF Replayed, Reduce
<1> HIDE DEF s
<1>7. IsState(s(c)) /\ (s(c).at <= 0 \/ s(c).at <= c)
  BY <1>4
<1>8. IsState(s(LastBlock)) /\ s(LastBlock).ledger <= 0 + LastBlock
  BY <1>1, <1>4
<1>9. s(c).at \in Nat /\ s(LastBlock).ledger \in Nat
  BY <1>7, <1>8 DEF IsState
<1> QED BY <1>1, <1>5, <1>6, <1>7, <1>8, <1>9

(* The invariant is stronger than what is promised.                          *)
LEMMA IndexerInvHolds == IndexerInv => JournalIsTheTruth
PROOF
<1> SUFFICES ASSUME IndexerInv PROVE JournalIsTheTruth
  OBVIOUS
<1>1. checkpoint.block \in 0 .. LastBlock /\ LastBlock \in Nat
  BY ChainIs DEF IndexerInv, IndexerTypes
<1>2. \A b \in journal : b <= checkpoint.block
  BY DEF IndexerInv, JournalIsRead
<1>3. IsState(Replayed) /\ Replayed.ledger <= LastBlock
  BY <1>1, <1>2, ReplayedIs
<1>4. ledgerRow \in 0 .. LastBlock
  BY <1>1, <1>3 DEF IndexerInv, RowsAreTheJournal, IsState
<1>5. IndexerTypeOK
  BY <1>4 DEF IndexerInv, IndexerTypes, JournalIsRead, IndexerTypeOK
<1>6. MemoryIsTheJournal
  BY DEF IndexerInv, ProcessStands, MemoryIsTheJournal
<1>7. OneDeployment
  BY DEF IndexerInv, ProcessStands, JournalIsRead, IndexerTypes, OneDeployment
<1> QED BY <1>5, <1>6, <1>7 DEF IndexerInv, JournalIsTheTruth

-----------------------------------------------------------------------------
(* A block more on the chain keeps the invariant.                            *)
LEMMA BlockIsMinedKeeps == ASSUME IndexerInv, BlockIsMined PROVE IndexerInv'
PROOF
<1> DEFINE n == Len(chainLog)
<1>1. n \in Nat /\ DOMAIN chainLog = 1 .. n /\ LastBlock \in Nat /\ n < LastBlock
  BY ChainIs DEF BlockIsMined
<1>2. PICK e \in [deployment : Deployments, kind : BlockKinds] : chainLog' = Append(chainLog, e)
  <2>1. PICK d \in Deployments, kind \in {"created", "submitted", "disputed", "paid", "none"} :
             chainLog' = Append(chainLog, [deployment |-> d, kind |-> kind])
    BY DEF BlockIsMined
  <2>2. [deployment |-> d, kind |-> kind] \in [deployment : Deployments, kind : BlockKinds]
    BY DEF BlockKinds, EventKinds
  <2> QED BY <2>1, <2>2
<1>3. chainLog \in Seq([deployment : Deployments, kind : BlockKinds])
  BY DEF IndexerInv, IndexerTypes
<1>4. /\ chainLog' \in Seq([deployment : Deployments, kind : BlockKinds])
      /\ Len(chainLog') = n + 1 /\ DOMAIN chainLog' = 1 .. n + 1
      /\ \A b \in 1 .. n : chainLog'[b] = chainLog[b]
  BY <1>2, <1>3
<1>5. UNCHANGED <<journal, jobRow, ledgerRow, checkpoint, quarantined, deployed, phase, state,
                  persistedLedger, cursor, draft>>
  BY DEF BlockIsMined, databaseVars, memoryVars
<1>6. checkpoint.block \in 0 .. n /\ cursor \in 0 .. n /\ journal \subseteq 1 .. n /\ quarantined \subseteq 1 .. n
  BY <1>1 DEF IndexerInv, IndexerTypes, JournalIsRead
<1> HIDE DEF n
<1>7. Replayed' = Replayed
  <2>1. \A b \in journal : chainLog'[b] = chainLog[b]
    BY <1>4, <1>6
  <2>2. Replayed' = Reduce(EmptyState, journal)
    BY <1>5, <2>1, ReplayedKept
  <2> QED BY <2>2 DEF Replayed
<1>8. ASSUME NEW c \in 0 .. n PROVE EventsOf(1 .. c)' = EventsOf(1 .. c)
  <2>1. (1 .. c) \cap (1 .. n) = 1 .. c /\ (1 .. c) \cap (1 .. n + 1) = 1 .. c /\ \A b \in 1 .. c : b \in 1 .. n
    BY <1>1
  <2>2. EventsOf(1 .. c) = {b \in 1 .. c : chainLog[b].deployment = deployed /\ chainLog[b].kind # "none"}
    BY <1>1, <2>1 DEF EventsOf
  <2>3. EventsOf(1 .. c)' = {b \in 1 .. c : chainLog'[b].deployment = deployed /\ chainLog'[b].kind # "none"}
    BY <1>4, <1>5, <2>1 DEF EventsOf
  <2> QED BY <1>4, <2>1, <2>2, <2>3
<1>9. IndexerTypes'
  BY <1>1, <1>4, <1>5, <1>6 DEF IndexerInv, IndexerTypes
<1>10. JournalIsRead'
  BY <1>1, <1>4, <1>5, <1>6 DEF IndexerInv, JournalIsRead
<1>11. EventsOf(1 .. cursor)' = EventsOf(1 .. cursor) /\ EventsOf(1 .. checkpoint.block)' = EventsOf(1 .. checkpoint.block)
  BY <1>5, <1>6, <1>8 DEF EventsOf
<1>12. ProcessStands'
  BY <1>4, <1>5, <1>6, <1>7, <1>11 DEF IndexerInv, ProcessStands
<1>13. RowsAreTheJournal' /\ NothingSkipped'
  BY <1>5, <1>7, <1>11 DEF IndexerInv, RowsAreTheJournal, NothingSkipped, RowOf
<1> QED BY <1>9, <1>10, <1>12, <1>13 DEF IndexerInv

(* A step that leaves the chain and the journal leaves the replay.           *)
LEMMA ReplayStays ==
    ASSUME UNCHANGED <<chainLog, journal>>
    PROVE  Replayed' = Replayed
PROOF
<1>1. Replayed' = Reduce(EmptyState, journal)
  BY ReplayedKept
<1> QED BY <1>1 DEF Replayed

(* A start reads back what the journal replays to.                           *)
LEMMA IndexerStartsKeeps == ASSUME IndexerInv, IndexerStarts PROVE IndexerInv'
PROOF
<1>1. /\ phase' = "idle" /\ state' = Replayed /\ persistedLedger' = Replayed.ledger /\ cursor' = checkpoint.block
      /\ UNCHANGED <<chainLog, journal, jobRow, ledgerRow, checkpoint, deployed, draft>>
      /\ checkpoint.deployment \in {0, deployed}
      /\ quarantined' = quarantined \cup RejectedFrom(EmptyState, journal)
  BY DEF IndexerStarts, ReplayJournal, DeploymentChanged
<1>2. RejectedFrom(EmptyState, journal) \subseteq journal
  BY DEF RejectedFrom
<1>3. Replayed' = Replayed
  BY <1>1, ReplayStays
<1>4. ledgerRow = Replayed.ledger /\ ledgerRow \in 0 .. LastBlock
  BY IndexerInvHolds DEF IndexerInv, RowsAreTheJournal, JournalIsTheTruth, IndexerTypeOK
<1>5. IndexerTypes'
  BY <1>1, <1>2, <1>4 DEF IndexerInv, IndexerTypes, JournalIsRead
<1>6. JournalIsRead' /\ RowsAreTheJournal'
  BY <1>1, <1>3 DEF IndexerInv, JournalIsRead, RowsAreTheJournal, RowOf
<1>7. EventsOf(1 .. checkpoint.block)' = EventsOf(1 .. checkpoint.block)
  BY <1>1 DEF EventsOf
<1>8. NothingSkipped'
  BY <1>1, <1>7 DEF IndexerInv, NothingSkipped
<1>9. EventsOf(1 .. checkpoint.block) \subseteq journal \cup quarantined
  <2>1. CASE checkpoint.deployment = deployed
    BY <2>1 DEF IndexerInv, NothingSkipped
  <2>2. CASE checkpoint.deployment = 0
    <3>1. checkpoint.block = 0
      BY <2>2 DEF IndexerInv, JournalIsRead
    <3> QED BY <3>1 DEF EventsOf
  <2> QED BY <1>1, <2>1, <2>2
<1>10. \A b \in journal : chainLog[b].deployment = deployed /\ b <= checkpoint.block
  <2> SUFFICES ASSUME NEW b \in journal PROVE chainLog[b].deployment = deployed /\ b <= checkpoint.block
    OBVIOUS
  <2>1. b <= checkpoint.block /\ chainLog[b].deployment = checkpoint.deployment /\ b \in 1 .. Len(chainLog)
        /\ (checkpoint.deployment = 0 => checkpoint.block = 0)
    BY ChainIs DEF IndexerInv, JournalIsRead
  <2>2. checkpoint.deployment # 0
    BY <2>1
  <2> QED BY <1>1, <2>1, <2>2
<1>11. EventsOf(1 .. cursor)' = EventsOf(1 .. checkpoint.block)
  BY <1>1 DEF EventsOf
<1>12. ProcessStands'
  BY <1>1, <1>3, <1>4, <1>9, <1>10, <1>11 DEF ProcessStands
<1> QED BY <1>5, <1>6, <1>8, <1>12 DEF IndexerInv

(* Starting over on another deployment empties the journal with the rows.    *)
LEMMA StartsOverKeeps == ASSUME IndexerInv, StartsOver PROVE IndexerInv'
PROOF
<1>1. /\ phase' = "idle" /\ state' = EmptyState /\ persistedLedger' = 0 /\ cursor' = 0
      /\ UNCHANGED <<chainLog, checkpoint, deployed, draft>>
      /\ checkpoint.deployment # deployed
      /\ jobRow' = NoJobRow /\ ledgerRow' = 0 /\ quarantined' = {} /\ journal' = {}
  BY DEF StartsOver, ClearDerivedRows, DeploymentChanged
<1>2. Replayed' = EmptyState
  BY <1>1, NothingReplayedNext
<1>3. LastBlock \in Nat /\ Len(chainLog) \in Nat
  BY ChainIs
<1>4. IndexerTypes'
  BY <1>1, <1>3 DEF IndexerInv, IndexerTypes
<1>5. JournalIsRead' /\ NothingSkipped'
  BY <1>1 DEF IndexerInv, JournalIsRead, NothingSkipped
<1>6. RowsAreTheJournal'
  BY <1>1, <1>2, EmptyIs DEF RowsAreTheJournal, RowOf
<1>7. EventsOf(1 .. cursor)' = {}
  BY <1>1 DEF EventsOf
<1>8. ProcessStands'
  BY <1>1, <1>2, <1>7, EmptyIs DEF ProcessStands
<1> QED BY <1>4, <1>5, <1>6, <1>8 DEF IndexerInv

(* Steps that leave the database.                                            *)
LEMMA DatabaseStays ==
    ASSUME IndexerInv, UNCHANGED <<chainLog, journal, jobRow, ledgerRow, checkpoint, quarantined>>,
           deployed' \in Nat, deployed' >= deployed
    PROVE  JournalIsRead' /\ RowsAreTheJournal' /\ NothingSkipped' /\ Replayed' = Replayed
PROOF
<1>1. Replayed' = Replayed
  BY ReplayStays
<1>2. JournalIsRead' /\ RowsAreTheJournal'
  BY <1>1 DEF IndexerInv, IndexerTypes, JournalIsRead, RowsAreTheJournal, RowOf
<1>3. CASE deployed' = deployed
  <2>1. EventsOf(1 .. checkpoint.block)' = EventsOf(1 .. checkpoint.block)
    BY <1>3 DEF EventsOf
  <2> QED BY <1>1, <1>2, <1>3, <2>1 DEF IndexerInv, NothingSkipped
<1>4. CASE deployed' # deployed
  <2>1. checkpoint'.deployment # deployed'
    BY <1>4 DEF IndexerInv, IndexerTypes, JournalIsRead
  <2> QED BY <1>1, <1>2, <2>1 DEF NothingSkipped
<1> QED BY <1>3, <1>4

(* A crash, a redeployment and a roll-back touch no row.                     *)
LEMMA ProcessMoves ==
    ASSUME IndexerInv, IndexerCrashes \/ Redeployed \/ RollsBack
    PROVE  IndexerInv'
PROOF
<1>0. LastBlock \in Nat /\ Len(chainLog) \in Nat
  BY ChainIs
<1>1. CASE IndexerCrashes
  <2>1. /\ UNCHANGED <<chainLog, journal, jobRow, ledgerRow, checkpoint, quarantined, deployed>>
        /\ phase' = "down" /\ persistedLedger' = 0 /\ cursor' = 0
    BY <1>1 DEF IndexerCrashes, databaseVars
  <2>2. JournalIsRead' /\ RowsAreTheJournal' /\ NothingSkipped'
    BY <2>1, DatabaseStays DEF IndexerInv, IndexerTypes
  <2>3. IndexerTypes' /\ ProcessStands'
    BY <1>0, <2>1 DEF IndexerInv, IndexerTypes, ProcessStands
  <2> QED BY <2>2, <2>3 DEF IndexerInv
<1>2. CASE Redeployed
  <2>1. /\ UNCHANGED <<chainLog, journal, jobRow, ledgerRow, checkpoint, quarantined, phase, state,
                       persistedLedger, cursor, draft>>
        /\ phase = "down" /\ deployed' \in Nat /\ deployed' > deployed
    BY <1>2, IndexerAssumption DEF Redeployed, databaseVars, memoryVars
  <2>2. JournalIsRead' /\ RowsAreTheJournal' /\ NothingSkipped'
    BY <2>1, DatabaseStays DEF IndexerInv, IndexerTypes
  <2>3. IndexerTypes' /\ ProcessStands'
    BY <2>1 DEF IndexerInv, IndexerTypes, ProcessStands
  <2> QED BY <2>2, <2>3 DEF IndexerInv
<1>3. CASE RollsBack
  <2>1. UNCHANGED <<chainLog, journal, jobRow, ledgerRow, checkpoint, quarantined, phase, state,
                    persistedLedger, cursor, draft, deployed>>
    BY <1>3 DEF RollsBack, databaseVars, memoryVars
  <2>2. JournalIsRead' /\ RowsAreTheJournal' /\ NothingSkipped' /\ Replayed' = Replayed
    BY <2>1, DatabaseStays DEF IndexerInv, IndexerTypes
  <2>3. EventsOf(1 .. cursor)' = EventsOf(1 .. cursor)
    BY <2>1 DEF EventsOf
  <2>4. IndexerTypes' /\ ProcessStands'
    BY <2>1, <2>2, <2>3 DEF IndexerInv, IndexerTypes, ProcessStands
  <2> QED BY <2>2, <2>4 DEF IndexerInv
<1> QED BY <1>1, <1>2, <1>3

(* Adopting the draft moves journal, rows and memory together.               *)
LEMMA AdoptDraftKeeps == ASSUME IndexerInv, AdoptDraft PROVE IndexerInv'
PROOF
<1>1. /\ UNCHANGED <<chainLog, journal, jobRow, ledgerRow, checkpoint, quarantined, deployed>>
      /\ phase = "committed" /\ phase' = "idle" /\ state' = draft /\ persistedLedger' = draft.ledger
      /\ cursor' = checkpoint.block
  BY DEF AdoptDraft, databaseVars
<1>2. draft = Replayed /\ checkpoint.deployment = deployed
  BY <1>1 DEF IndexerInv, ProcessStands
<1>3. JournalIsRead' /\ RowsAreTheJournal' /\ NothingSkipped' /\ Replayed' = Replayed
  BY <1>1, DatabaseStays DEF IndexerInv, IndexerTypes
<1>4. ledgerRow = Replayed.ledger /\ ledgerRow \in 0 .. LastBlock
  BY IndexerInvHolds DEF IndexerInv, RowsAreTheJournal, JournalIsTheTruth, IndexerTypeOK
<1>5. IndexerTypes'
  BY <1>1, <1>2, <1>4 DEF IndexerInv, IndexerTypes
<1>6. EventsOf(1 .. cursor)' = EventsOf(1 .. checkpoint.block)
  BY <1>1 DEF EventsOf
<1>7. ProcessStands'
  BY <1>1, <1>2, <1>3, <1>4, <1>6 DEF IndexerInv, ProcessStands, JournalIsRead, NothingSkipped
<1> QED BY <1>3, <1>5, <1>7 DEF IndexerInv

(* A batch that commits: the journal, the rows and the checkpoint together.  *)
LEMMA SyncCommitsKeeps == ASSUME IndexerInv, SyncCommits PROVE IndexerInv'
PROOF
<1> DEFINE n == Len(chainLog)
           range == RangeToRead
           hi == LastOf(range)
<1>1. PICK refused \in SUBSET EventsOf(RangeToRead) :
         /\ BatchCommits(RangeToRead, refused)
         /\ draft' = Reduce(state, (EventsOf(RangeToRead) \ refused) \ journal)
  BY DEF SyncCommits
<1> DEFINE fresh == (EventsOf(range) \ refused) \ journal
           after == Reduce(state, fresh)
           rejected == RejectedFrom(state, fresh)
<1>2. /\ journal' = journal \cup fresh
      /\ jobRow' = Upserted(after, fresh \ rejected # {})
      /\ ledgerRow' = ledgerRow + (after.ledger - persistedLedger)
      /\ checkpoint' = [deployment |-> deployed, block |-> hi]
      /\ quarantined' = quarantined \cup refused \cup rejected
      /\ draft' = after
  BY <1>1 DEF BatchCommits
<1>3. /\ phase = "idle" /\ phase' = "committed" /\ range # {}
      /\ UNCHANGED <<chainLog, deployed, state, persistedLedger, cursor>>
  BY DEF SyncCommits, memoryVars
<1>4. /\ state = Replayed /\ persistedLedger = ledgerRow
      /\ \A b \in journal : b <= cursor /\ chainLog[b].deployment = deployed
      /\ EventsOf(1 .. cursor) \subseteq journal \cup quarantined
  BY <1>3 DEF IndexerInv, ProcessStands
<1>5. n \in Nat /\ LastBlock \in Nat /\ n <= LastBlock /\ DOMAIN chainLog = 1 .. n /\ cursor \in 0 .. n
      /\ deployed \in Nat \ {0} /\ cursor \in 0 .. LastBlock
  BY ChainIs DEF IndexerInv, IndexerTypes
<1>6. /\ hi \in Nat /\ cursor < hi /\ hi <= n /\ range = cursor + 1 .. hi
  <2>1. PICK top \in Nat : range = cursor + 1 .. top /\ top <= n
    <3>1. BatchBlocks \in Nat
      BY IndexerAssumption
    <3>2. CASE cursor + BatchBlocks < n
      <4>1. range = cursor + 1 .. cursor + BatchBlocks
        BY <3>2 DEF RangeToRead
      <4>2. cursor + BatchBlocks \in Nat /\ cursor + BatchBlocks <= n
        BY <1>5, <3>1, <3>2
      <4> HIDE DEF range, n
      <4> QED BY <4>1, <4>2
    <3>3. CASE ~(cursor + BatchBlocks < n)
      <4>1. range = cursor + 1 .. n
        BY <3>3 DEF RangeToRead
      <4>2. n \in Nat /\ n <= n
        BY <1>5
      <4> HIDE DEF range, n
      <4> QED BY <4>1, <4>2
    <3> QED BY <3>2, <3>3
  <2>2. cursor < top /\ top \in range
    BY <1>3, <1>5, <2>1
  <2>3. \A a \in range : a <= top
    BY <1>5, <2>1
  <2>4. hi \in range /\ \A a \in range : a <= hi
    BY <2>2, <2>3 DEF LastOf
  <2>5. hi = top
    BY <1>5, <2>1, <2>2, <2>3, <2>4
  <2> QED BY <2>1, <2>2, <2>5
<1>7. EventsOf(range) = {b \in cursor + 1 .. hi : chainLog[b].deployment = deployed /\ chainLog[b].kind # "none"}
  BY <1>5, <1>6 DEF EventsOf
<1>8. rejected \subseteq fresh /\ fresh \subseteq EventsOf(range) /\ refused \subseteq EventsOf(range)
  BY DEF RejectedFrom
<1>9. \A b \in fresh : /\ b \in Nat /\ cursor < b /\ b <= hi /\ b \in 1 .. n /\ chainLog[b].kind \in EventKinds
                       /\ chainLog[b].deployment = deployed
  <2>1. ASSUME NEW b \in fresh
        PROVE  b \in cursor + 1 .. hi /\ chainLog[b].deployment = deployed /\ chainLog[b].kind # "none"
    BY <1>7, <1>8
  <2>2. ASSUME NEW b \in fresh
        PROVE  b \in Nat /\ cursor < b /\ b <= hi /\ b \in 1 .. n
    BY <1>5, <1>6, <2>1
  <2>3. ASSUME NEW b \in fresh PROVE chainLog[b].kind \in EventKinds
    BY <2>1, <2>2, ChainIs DEF BlockKinds
  <2> QED BY <2>1, <2>2, <2>3
<1>10. IsState(state) /\ state.at <= cursor /\ jobRow = RowOf(state) /\ ledgerRow = state.ledger
  BY <1>4, <1>5, ReplayedIs DEF IndexerInv, RowsAreTheJournal
<1> HIDE DEF range, hi, fresh, rejected, n
<1>11. /\ IsState(after) /\ state.at <= after.at
       /\ after.status = "absent" => state.status = "absent" /\ after.disputed = state.disputed /\ after.at = state.at
       /\ (\A b \in fresh : b \in rejected) => after = state
  <2>1. \A m \in 0 .. LastBlock :
              LET s == Course(state, fresh)[m] IN
              /\ IsState(s) /\ state.at <= s.at /\ (s.at <= cursor \/ s.at <= m) /\ s.ledger <= state.ledger + m
              /\ s.status = "absent" => state.status = "absent" /\ s.disputed = state.disputed /\ s.at = state.at
              /\ (\A b \in fresh : b \in RejectedFrom(state, fresh)) => s = state
    BY <1>5, <1>9, <1>10, CourseRuns
  <2>2. LastBlock \in 0 .. LastBlock /\ after = Course(state, fresh)[LastBlock]
    BY <1>5 DEF Reduce
  <2> QED BY <2>1, <2>2 DEF rejected
<1>12. Replayed' = after
  <2>1. Replayed' = Reduce(EmptyState, journal \cup fresh)
    BY <1>2, <1>3, ReplayedKept
  <2>2. Reduce(EmptyState, journal \cup fresh) = Reduce(Reduce(EmptyState, journal), fresh)
    <3>1. (\A b \in journal : b <= cursor) /\ (\A b \in fresh : b \in Nat /\ cursor < b) /\ cursor \in 0 .. LastBlock
      BY <1>4, <1>5, <1>9
    <3> HIDE DEF after
    <3> QED BY <3>1, CourseJoins
  <2> QED BY <1>4, <2>1, <2>2 DEF Replayed
<1> HIDE DEF after
<1>13. jobRow' = RowOf(after)
  <2>1. CASE fresh \ rejected = {}
    <3>1. after = state
      BY <1>11, <2>1
    <3> QED BY <1>2, <1>10, <2>1, <3>1 DEF Upserted
  <2>2. CASE fresh \ rejected # {} /\ after.status = "absent"
    <3>1. RowOf(after) = RowOf(state)
      BY <1>11, <2>2 DEF RowOf
    <3> QED BY <1>2, <1>10, <2>2, <3>1 DEF Upserted
  <2>3. CASE fresh \ rejected # {} /\ after.status # "absent"
    <3>1. jobRow.at <= after.at
      BY <1>10, <1>11 DEF RowOf
    <3> QED BY <1>2, <2>3, <3>1 DEF Upserted
  <2> QED BY <2>1, <2>2, <2>3
<1>14. ledgerRow' = after.ledger
  <2>1. ledgerRow \in Nat /\ after.ledger \in Nat
    BY <1>10, <1>11 DEF IsState
  <2> QED BY <1>2, <1>4, <2>1
<1>15. RowsAreTheJournal'
  BY <1>12, <1>13, <1>14 DEF RowsAreTheJournal, RowOf
<1>16. checkpoint'.deployment = deployed /\ checkpoint'.block = hi
  BY <1>2
<1>17. IndexerTypes'
  <2>1. quarantined' \subseteq 1 .. n
    <3>1. refused \subseteq 1 .. n
      BY <1>5, <1>6, <1>7, <1>8
    <3>2. rejected \subseteq 1 .. n
      BY <1>8, <1>9
    <3>3. quarantined \subseteq 1 .. n
      BY <1>5 DEF IndexerInv, IndexerTypes
    <3> QED BY <1>2, <3>1, <3>2, <3>3
  <2> QED BY <1>3, <1>5, <1>6, <1>16, <2>1 DEF IndexerInv, IndexerTypes, n
<1>18. JournalIsRead'
  <2>1. ASSUME NEW b \in journal
        PROVE  b <= hi /\ chainLog[b].kind # "none" /\ chainLog[b].deployment = deployed /\ b \in 1 .. n
    <3>1. b \in 1 .. n /\ chainLog[b].kind # "none" /\ b <= cursor /\ chainLog[b].deployment = deployed
      BY <1>4, <1>5 DEF IndexerInv, JournalIsRead
    <3> QED BY <1>5, <1>6, <3>1
  <2>2. ASSUME NEW b \in fresh
        PROVE  b <= hi /\ chainLog[b].kind # "none" /\ chainLog[b].deployment = deployed /\ b \in 1 .. n
    BY <1>9 DEF EventKinds
  <2> QED BY <1>2, <1>3, <1>5, <1>16, <2>1, <2>2 DEF JournalIsRead
<1>19. NothingSkipped'
  <2>1. EventsOf(1 .. checkpoint.block)' = EventsOf(1 .. hi)
    BY <1>3, <1>16 DEF EventsOf
  <2>2. EventsOf(1 .. hi) \subseteq EventsOf(1 .. cursor) \cup EventsOf(range)
    <3>1. ASSUME NEW b \in 1 .. hi PROVE b \in 1 .. cursor \/ b \in cursor + 1 .. hi
      BY <1>5, <1>6
    <3> QED BY <1>6, <3>1 DEF EventsOf
  <2>3. EventsOf(range) \subseteq journal \cup fresh \cup refused
    BY DEF fresh
  <2> QED BY <1>2, <1>4, <2>1, <2>2, <2>3 DEF NothingSkipped
<1>20. ProcessStands'
  BY <1>2, <1>3, <1>12, <1>16 DEF ProcessStands
<1> QED BY <1>15, <1>17, <1>18, <1>19, <1>20 DEF IndexerInv

(* Every step of the indexer or the chain keeps the invariant.               *)
LEMMA IndexerInvStep == IndexerInv /\ [IndexerNext]_indexerVars => IndexerInv'
PROOF
<1> SUFFICES ASSUME IndexerInv, [IndexerNext]_indexerVars PROVE IndexerInv'
  OBVIOUS
<1>1. CASE BlockIsMined
  BY <1>1, BlockIsMinedKeeps
<1>2. CASE IndexerCrashes \/ Redeployed \/ RollsBack
  BY <1>2, ProcessMoves
<1>3. CASE IndexerStarts
  BY <1>3, IndexerStartsKeeps
<1>4. CASE StartsOver
  BY <1>4, StartsOverKeeps
<1>5. CASE SyncCommits
  BY <1>5, SyncCommitsKeeps
<1>6. CASE AdoptDraft
  BY <1>6, AdoptDraftKeeps
<1>7. CASE UNCHANGED indexerVars
  <2>1. UNCHANGED <<chainLog, journal, jobRow, ledgerRow, checkpoint, quarantined, phase, state,
                    persistedLedger, cursor, draft, deployed>>
    BY <1>7 DEF indexerVars, databaseVars, memoryVars
  <2>2. JournalIsRead' /\ RowsAreTheJournal' /\ NothingSkipped' /\ Replayed' = Replayed
    BY <2>1, DatabaseStays DEF IndexerInv, IndexerTypes
  <2>3. EventsOf(1 .. cursor)' = EventsOf(1 .. cursor)
    BY <2>1 DEF EventsOf
  <2>4. IndexerTypes' /\ ProcessStands'
    BY <2>1, <2>2, <2>3 DEF IndexerInv, IndexerTypes, ProcessStands
  <2> QED BY <2>2, <2>4 DEF IndexerInv
<1> QED BY <1>1, <1>2, <1>3, <1>4, <1>5, <1>6, <1>7 DEF IndexerNext, IndexerStep

(* Whatever the chain brings, a batch sets aside or rolls back, a crash cuts *)
(* off or a redeployment replaces: the rows and the process's memory are the *)
(* reduction of the journal, which holds every log of the one deployment up  *)
(* to the checkpoint but those set aside (sync.ts, reducer.ts).              *)
THEOREM IndexerTellsTheJournal == IndexerSpec => []JournalIsTheTruth
PROOF
<1>1. IndexerInit => IndexerInv
  BY IndexerInvInit
<1>2. IndexerInv /\ [IndexerNext]_indexerVars => IndexerInv'
  BY IndexerInvStep
<1>3. IndexerInv => JournalIsTheTruth
  BY IndexerInvHolds
<1> QED BY <1>1, <1>2, <1>3, PTL DEF IndexerSpec

-----------------------------------------------------------------------------
(* Alerting (Alerting).                                                      *)
Alerts == [n : Nat, kind : {"firing", "resolved"}, held : Int]

(* A story as AlertsTellTheStory has it, and where it stands.                *)
TellsOf(story) ==
      \A i \in DOMAIN story :
          /\ story[i].kind = (IF story[i].n % 2 = 1 THEN "firing" ELSE "resolved")
          /\ story[i].held >= HoldFor
          /\ story[i].n - (IF i = 1 THEN 0 ELSE story[i - 1].n) \in IF i = 1 THEN {1} ELSE {0, 1}
StandsAt(story) == IF story = <<>> THEN 0 ELSE story[Len(story)].n

(* The next alert of a story, late enough, continues it.                     *)
LEMMA StoryGoesOn ==
    ASSUME NEW s \in Seq(Alerts), TellsOf(s), NEW a \in Alerts, a.n = StandsAt(s) + 1, a.held >= HoldFor,
           a.kind = IF a.n % 2 = 1 THEN "firing" ELSE "resolved"
    PROVE  TellsOf(Append(s, a)) /\ StandsAt(Append(s, a)) = a.n
PROOF
<1> DEFINE t == Append(s, a)
<1>1. /\ t \in Seq(Alerts) /\ Len(s) \in Nat /\ Len(t) = Len(s) + 1 /\ DOMAIN t = 1 .. Len(s) + 1
      /\ DOMAIN s = 1 .. Len(s) /\ t[Len(s) + 1] = a /\ t # <<>>
      /\ \A i \in 1 .. Len(s) : t[i] = s[i]
  <2>1. t \in Seq(Alerts) /\ Len(s) \in Nat /\ Len(t) = Len(s) + 1 /\ DOMAIN s = 1 .. Len(s)
    OBVIOUS
  <2>2. t[Len(s) + 1] = a /\ \A i \in 1 .. Len(s) : t[i] = s[i]
    OBVIOUS
  <2>3. DOMAIN t = 1 .. Len(s) + 1
    BY <2>1, LenProperties
  <2>4. t # <<>>
    BY <2>1, EmptySeq
  <2> HIDE DEF t
  <2> QED BY <2>1, <2>2, <2>3, <2>4
<1> HIDE DEF t
<1>2. StandsAt(t) = a.n
  BY <1>1 DEF StandsAt
<1>3. ASSUME NEW i \in DOMAIN t
      PROVE  /\ t[i].kind = (IF t[i].n % 2 = 1 THEN "firing" ELSE "resolved")
             /\ t[i].held >= HoldFor
             /\ t[i].n - (IF i = 1 THEN 0 ELSE t[i - 1].n) \in IF i = 1 THEN {1} ELSE {0, 1}
  <2>1. CASE i \in 1 .. Len(s)
    <3>1. t[i] = s[i] /\ (i # 1 => t[i - 1] = s[i - 1])
      BY <1>1, <2>1
    <3> QED BY <1>1, <2>1, <3>1 DEF TellsOf
  <2>2. CASE i = Len(s) + 1
    <3>1. i = 1 => s = <<>>
      BY <1>1, <2>2
    <3>2. i # 1 => s # <<>> /\ t[i - 1] = s[Len(s)]
      BY <1>1, <2>2
    <3>3. t[i] = a /\ a.n \in Nat
      BY <1>1, <2>2 DEF Alerts
    <3>4. i = 1 => a.n = 1
      BY <3>1 DEF StandsAt
    <3>5. i # 1 => a.n = t[i - 1].n + 1 /\ t[i - 1] \in Alerts
      BY <1>1, <2>2, <3>2 DEF StandsAt
    <3>6. a.n - (IF i = 1 THEN 0 ELSE t[i - 1].n) \in IF i = 1 THEN {1} ELSE {0, 1}
      BY <3>3, <3>4, <3>5 DEF Alerts
    <3> QED BY <3>3, <3>6
  <2> QED BY <1>1, <2>1, <2>2
<1> QED BY <1>2, <1>3 DEF t, TellsOf

(* What was heard is taken off, or heard again.                              *)
LEMMA HeardIsTakenOff ==
    ASSUME NEW h \in Seq(Alerts), NEW o \in Seq(Alerts), o # <<>>
    PROVE  Append(h, Head(o)) \o Tail(o) = h \o o
OBVIOUS

(* An alert raised comes after all that waits.                               *)
LEMMA RaisedIsLast ==
    ASSUME NEW h \in Seq(Alerts), NEW o \in Seq(Alerts), NEW a \in Alerts
    PROVE  h \o Append(o, a) = Append(h \o o, a)
OBVIOUS

(* Delivering the first that waits, once more or not, leaves the story       *)
(* whole.                                                                    *)
LEMMA HeardAgain ==
    ASSUME NEW h \in Seq(Alerts), NEW o \in Seq(Alerts), o # <<>>, TellsOf(h \o o)
    PROVE  /\ TellsOf(Append(h, Head(o)) \o o)
           /\ StandsAt(Append(h, Head(o)) \o o) = StandsAt(h \o o)
PROOF
<1> DEFINE s == h \o o
           t == Append(h, Head(o)) \o o
           m == Len(h) + 1
<1>1. /\ s \in Seq(Alerts) /\ t \in Seq(Alerts) /\ m \in Nat \ {0} /\ Len(o) \in Nat \ {0}
      /\ Len(s) = Len(h) + Len(o) /\ Len(t) = Len(s) + 1
      /\ DOMAIN s = 1 .. Len(s) /\ DOMAIN t = 1 .. Len(s) + 1 /\ Len(s) \in Nat /\ m <= Len(s)
      /\ s # <<>> /\ t # <<>>
  OBVIOUS
<1>2. \A i \in 1 .. Len(s) : s[i] = IF i <= Len(h) THEN h[i] ELSE o[i - Len(h)]
  BY ConcatProperties
<1>3. \A i \in 1 .. m : t[i] = s[i]
  OBVIOUS
<1>4. \A i \in 1 .. Len(s) + 1 : i > m => t[i] = s[i - 1]
  OBVIOUS
<1>5. t[m + 1] = t[m]
  BY <1>1, <1>3, <1>4
<1> HIDE DEF s, t, m
<1>6. StandsAt(t) = StandsAt(s)
  <2>1. Len(s) + 1 \in 1 .. Len(s) + 1 /\ Len(s) + 1 > m /\ (Len(s) + 1) - 1 = Len(s)
    BY <1>1
  <2>2. t[Len(s) + 1] = s[Len(s)]
    BY <1>4, <2>1
  <2> QED BY <1>1, <2>2 DEF StandsAt
<1>7. ASSUME NEW i \in DOMAIN t
      PROVE  /\ t[i].kind = (IF t[i].n % 2 = 1 THEN "firing" ELSE "resolved")
             /\ t[i].held >= HoldFor
             /\ t[i].n - (IF i = 1 THEN 0 ELSE t[i - 1].n) \in IF i = 1 THEN {1} ELSE {0, 1}
  <2>1. CASE i <= m
    <3>1. i \in DOMAIN s /\ t[i] = s[i] /\ (i # 1 => t[i - 1] = s[i - 1])
      BY <1>1, <1>3, <2>1
    <3> QED BY <3>1 DEF TellsOf, s
  <2>2. CASE i = m + 1
    <3>1. i # 1 /\ t[i] = s[m] /\ t[i - 1] = s[m] /\ m \in DOMAIN s /\ s[m] \in Alerts
      BY <1>1, <1>3, <1>5, <2>2
    <3>2. s[m].n - s[m].n = 0
      BY <3>1 DEF Alerts
    <3> QED BY <3>1, <3>2 DEF TellsOf, s
  <2>3. CASE i > m + 1
    <3>1. i - 1 \in DOMAIN s /\ t[i] = s[i - 1] /\ t[i - 1] = s[i - 2] /\ i # 1 /\ i - 1 # 1
      BY <1>1, <1>4, <2>3
    <3>2. (i - 1) - 1 = i - 2
      BY <1>1
    <3> QED BY <3>1, <3>2 DEF TellsOf, s
  <2> QED BY <1>1, <2>1, <2>2, <2>3
<1> QED BY <1>6, <1>7 DEF TellsOf, s, t

-----------------------------------------------------------------------------
RuleStates == [firing : BOOLEAN, since : Nat \cup {Never}, outbox : Seq(Alerts), raised : Nat]
Ticks == [at : {"idle", "flush", "sending"}, left : SUBSET AlertRules,
          sends : {NoAlert} \cup [rule : AlertRules, alert : Alerts]]

AlertTypeOK ==
    /\ alertTime \in Nat /\ alerting \in BOOLEAN
    /\ ruleState \in [AlertRules -> RuleStates]
    /\ opsHeard \in [AlertRules -> Seq(Alerts)]
    /\ alertTick \in [AlertTicks -> Ticks]

(* One tick delivers at a time, and it holds the lock; what it sends is the  *)
(* head of the rule's outbox.                                                *)
OneTickDelivers ==
    /\ \A e \in AlertTicks : alertTick[e].at # "idle" => alerting
    /\ \A e, f \in AlertTicks : alertTick[e].at # "idle" /\ alertTick[f].at # "idle" => e = f
SendsTheHead(e) ==
    alertTick[e].at = "sending" =>
        /\ alertTick[e].sends \in [rule : AlertRules, alert : Alerts]
        /\ ruleState[alertTick[e].sends.rule].outbox # <<>>
        /\ alertTick[e].sends.alert = Head(ruleState[alertTick[e].sends.rule].outbox)

(* A rule that fires has held for long enough, and still does.               *)
FiresLate(st, now) ==
    /\ st.since # Never => st.since <= now
    /\ st.firing => st.since # Never /\ now - st.since >= HoldFor
    /\ st.firing <=> st.raised % 2 = 1

RuleInv(r) ==
    /\ FiresLate(ruleState[r], alertTime)
    /\ TellsOf(opsHeard[r] \o ruleState[r].outbox)
    /\ ruleState[r].raised = StandsAt(opsHeard[r] \o ruleState[r].outbox)

AlertInv ==
    /\ AlertTypeOK /\ OneTickDelivers
    /\ \A e \in AlertTicks : SendsTheHead(e)
    /\ \A r \in AlertRules : RuleInv(r)

(* A silent start satisfies the invariant.                                   *)
LEMMA AlertInvInit == AlertInit => AlertInv
PROOF
<1> SUFFICES ASSUME AlertInit PROVE AlertInv
  OBVIOUS
<1>1. AlertTypeOK
  <2>1. [firing |-> FALSE, since |-> Never, outbox |-> <<>>, raised |-> 0] \in RuleStates
    <3>1. <<>> \in Seq(Alerts)
      OBVIOUS
    <3> QED BY <3>1 DEF RuleStates
  <2>2. NoTick \in Ticks
    BY DEF NoTick, Ticks
  <2>3. <<>> \in Seq(Alerts)
    OBVIOUS
  <2>4. alertTime \in Nat /\ alerting \in BOOLEAN /\ alertTick \in [AlertTicks -> Ticks]
    BY <2>2 DEF AlertInit
  <2>5. ruleState \in [AlertRules -> RuleStates]
    BY <2>1 DEF AlertInit
  <2>6. opsHeard \in [AlertRules -> Seq(Alerts)]
    BY <2>3 DEF AlertInit
  <2> QED BY <2>4, <2>5, <2>6 DEF AlertTypeOK
<1>2. OneTickDelivers /\ \A e \in AlertTicks : SendsTheHead(e)
  BY DEF AlertInit, OneTickDelivers, SendsTheHead, NoTick
<1>3. ASSUME NEW r \in AlertRules PROVE RuleInv(r)
  <2>1. ruleState[r] = [firing |-> FALSE, since |-> Never, outbox |-> <<>>, raised |-> 0] /\ opsHeard[r] = <<>>
    BY DEF AlertInit
  <2>2. opsHeard[r] \o ruleState[r].outbox = <<>>
    BY <2>1
  <2> QED BY <2>1, <2>2 DEF RuleInv, FiresLate, TellsOf, StandsAt
<1> QED BY <1>1, <1>2, <1>3 DEF AlertInv

(* One rule evaluated: it fires after HoldFor, resolves after it fired.      *)
LEMMA AlertIsRaised ==
    ASSUME NEW st \in RuleStates, NEW h \in Seq(Alerts), alertTime \in Nat, FiresLate(st, alertTime),
           TellsOf(h \o st.outbox), st.raised = StandsAt(h \o st.outbox),
           NEW since \in Nat, alertTime - since >= HoldFor,
           NEW kind \in {"firing", "resolved"}, kind = "firing" <=> ~st.firing
    PROVE  LET a == [n |-> st.raised + 1, kind |-> kind, held |-> alertTime - since]
               o == Append(st.outbox, a)
           IN  o \in Seq(Alerts) /\ TellsOf(h \o o) /\ StandsAt(h \o o) = st.raised + 1
PROOF
<1> DEFINE a == [n |-> st.raised + 1, kind |-> kind, held |-> alertTime - since]
<1>1. st.outbox \in Seq(Alerts) /\ st.raised \in Nat /\ st.firing \in BOOLEAN
  BY DEF RuleStates
<1>2. a \in Alerts /\ a.n = st.raised + 1 /\ a.held >= HoldFor /\ a.kind = kind
  BY <1>1 DEF Alerts
<1>3. kind = IF (st.raised + 1) % 2 = 1 THEN "firing" ELSE "resolved"
  <2>1. (st.raised + 1) % 2 = 1 <=> ~(st.raised % 2 = 1)
    BY <1>1
  <2> QED BY <2>1 DEF FiresLate
<1> HIDE DEF a
<1>4. h \o st.outbox \in Seq(Alerts)
  BY <1>1, ConcatProperties
<1>5. TellsOf(Append(h \o st.outbox, a)) /\ StandsAt(Append(h \o st.outbox, a)) = a.n
  BY <1>2, <1>3, <1>4, StoryGoesOn
<1>6. h \o Append(st.outbox, a) = Append(h \o st.outbox, a) /\ Append(st.outbox, a) \in Seq(Alerts)
  BY <1>1, <1>2, RaisedIsLast
<1> QED BY <1>2, <1>5, <1>6 DEF a

StoryFits(st, h) == TellsOf(h \o st.outbox) /\ st.raised = StandsAt(h \o st.outbox)
(* A condition that clears keeps the rule's story.                           *)
LEMMA ClearedKeeps ==
    ASSUME NEW st \in RuleStates, NEW h \in Seq(Alerts), alertTime \in Nat, FiresLate(st, alertTime), StoryFits(st, h)
    PROVE  Cleared(st) \in RuleStates /\ FiresLate(Cleared(st), alertTime) /\ StoryFits(Cleared(st), h)
PROOF
<1>1. /\ st.outbox \in Seq(Alerts) /\ st.raised \in Nat /\ st.firing \in BOOLEAN
      /\ st.since \in Nat \cup {Never} /\ (st.firing <=> st.raised % 2 = 1)
  BY DEF RuleStates, FiresLate
<1>2. CASE ~st.firing
  <2>1. /\ Cleared(st) = [st EXCEPT !.firing = FALSE, !.since = Never]
    BY <1>2 DEF Cleared
  <2>2. /\ Cleared(st) \in RuleStates /\ ~Cleared(st).firing /\ Cleared(st).since = Never
        /\ Cleared(st).outbox = st.outbox /\ Cleared(st).raised = st.raised
    BY <2>1 DEF RuleStates
  <2> QED BY <1>1, <1>2, <2>2 DEF FiresLate, StoryFits
<1>3. CASE st.firing
  <2> DEFINE a == [n |-> st.raised + 1, kind |-> "resolved", held |-> alertTime - st.since]
             o == Append(st.outbox, a)
             new == [st EXCEPT !.outbox = o, !.raised = st.raised + 1]
  <2>1. st.since \in Nat /\ alertTime - st.since >= HoldFor
    BY <1>1, <1>3 DEF FiresLate
  <2>2. o \in Seq(Alerts) /\ TellsOf(h \o o) /\ StandsAt(h \o o) = st.raised + 1
    BY <1>3, <2>1, AlertIsRaised DEF StoryFits
  <2>3. Cleared(st) = [new EXCEPT !.firing = FALSE, !.since = Never]
    BY <1>3 DEF Cleared, Raise
  <2> HIDE DEF o
  <2>6. /\ new \in RuleStates /\ new.outbox = o /\ new.raised = st.raised + 1
    <3>1. o \in Seq(Alerts) /\ st.raised + 1 \in Nat
      BY <1>1, <2>2
    <3> QED BY <3>1 DEF RuleStates
  <2> HIDE DEF new
  <2>4. /\ Cleared(st) \in RuleStates /\ ~Cleared(st).firing /\ Cleared(st).since = Never
        /\ Cleared(st).outbox = o /\ Cleared(st).raised = st.raised + 1
    BY <2>3, <2>6 DEF RuleStates
  <2>5. ~((st.raised + 1) % 2 = 1)
    BY <1>1, <1>3
  <2> QED BY <2>2, <2>4, <2>5 DEF FiresLate, StoryFits
<1> QED BY <1>1, <1>2, <1>3

(* So does one that is breached.                                             *)
LEMMA BreachedKeeps ==
    ASSUME NEW st \in RuleStates, NEW h \in Seq(Alerts), alertTime \in Nat, FiresLate(st, alertTime), StoryFits(st, h)
    PROVE  Breached(st) \in RuleStates /\ FiresLate(Breached(st), alertTime) /\ StoryFits(Breached(st), h)
PROOF
<1> DEFINE since == IF st.since = Never THEN alertTime ELSE st.since
           seen == [st EXCEPT !.since = since]
<1>1. /\ st.outbox \in Seq(Alerts) /\ st.raised \in Nat /\ st.firing \in BOOLEAN
      /\ st.since \in Nat \cup {Never} /\ (st.firing <=> st.raised % 2 = 1)
  BY DEF RuleStates, FiresLate
<1>2. since \in Nat /\ since <= alertTime /\ since # Never
  BY <1>1 DEF FiresLate, Never
<1>3. /\ seen \in RuleStates /\ seen.since = since /\ seen.firing = st.firing
      /\ seen.outbox = st.outbox /\ seen.raised = st.raised
  BY <1>1, <1>2 DEF RuleStates
<1>4. CASE st.firing \/ ~(alertTime - since >= HoldFor)
  <2>1. Breached(st) = seen
    BY <1>4 DEF Breached
  <2>2. st.firing => alertTime - since >= HoldFor
    BY DEF FiresLate
  <2> HIDE DEF seen, since
  <2> QED BY <1>1, <1>2, <1>3, <2>1, <2>2 DEF FiresLate, StoryFits
<1>5. CASE ~st.firing /\ alertTime - since >= HoldFor
  <2> DEFINE a == [n |-> st.raised + 1, kind |-> "firing", held |-> alertTime - since]
             o == Append(st.outbox, a)
             new == [seen EXCEPT !.outbox = o, !.raised = seen.raised + 1]
  <2>1. o \in Seq(Alerts) /\ TellsOf(h \o o) /\ StandsAt(h \o o) = st.raised + 1
    BY <1>2, <1>5, AlertIsRaised DEF StoryFits
  <2>2. Breached(st) = [new EXCEPT !.firing = TRUE]
    BY <1>5 DEF Breached, Raise
  <2> HIDE DEF o, seen, since
  <2>5. /\ new \in RuleStates /\ new.outbox = o /\ new.raised = st.raised + 1 /\ new.since = since
    <3>1. o \in Seq(Alerts) /\ seen.raised + 1 \in Nat
      BY <1>1, <1>3, <2>1
    <3> QED BY <1>3, <3>1 DEF RuleStates
  <2> HIDE DEF new
  <2>3. /\ Breached(st) \in RuleStates /\ Breached(st).firing /\ Breached(st).since = since
        /\ Breached(st).outbox = o /\ Breached(st).raised = st.raised + 1
    BY <2>2, <2>5 DEF RuleStates
  <2>4. (st.raised + 1) % 2 = 1
    BY <1>1, <1>5
  <2> QED BY <1>2, <1>5, <2>1, <2>3, <2>4 DEF FiresLate, StoryFits
<1> QED BY <1>1, <1>4, <1>5

-----------------------------------------------------------------------------
(* The invariant of a rule is about its state and what operators heard.      *)
LEMMA RuleInvIs ==
    ASSUME NEW r \in AlertRules
    PROVE  RuleInv(r) <=> FiresLate(ruleState[r], alertTime) /\ StoryFits(ruleState[r], opsHeard[r])
BY DEF RuleInv, StoryFits

(* Time passes and conditions change without harm.                           *)
LEMMA WorldKeeps ==
    ASSUME AlertInv, UNCHANGED <<ruleState, alerting, alertTick, opsHeard>>, alertTime' \in Nat, alertTime <= alertTime'
    PROVE  AlertInv'
PROOF
<1>1. AlertTypeOK' /\ OneTickDelivers' /\ \A e \in AlertTicks : SendsTheHead(e)'
  BY DEF AlertInv, AlertTypeOK, OneTickDelivers, SendsTheHead
<1>2. ASSUME NEW r \in AlertRules PROVE RuleInv(r)'
  <2>1. RuleInv(r) /\ ruleState[r].since \in Nat \cup {Never} /\ alertTime \in Nat
    BY DEF AlertInv, AlertTypeOK, RuleStates
  <2>2. FiresLate(ruleState[r], alertTime')
    BY <2>1, AlertAssumption DEF RuleInv, FiresLate, Never
  <2> QED BY <2>1, <2>2 DEF RuleInv
<1> QED BY <1>1, <1>2 DEF AlertInv

(* An evaluation of all the rules keeps the invariant.                       *)
LEMMA EvaluateKeeps ==
    ASSUME AlertInv, NEW e \in AlertTicks, NEW throws \in SUBSET AlertRules, Evaluate(e, throws)
    PROVE  AlertInv'
PROOF
<1>0. AlertTypeOK /\ UNCHANGED <<alertTime, opsHeard>>
  BY DEF AlertInv, Evaluate
<1>1. CASE ~MayRun(e)
  BY <1>0, <1>1, WorldKeeps DEF Evaluate, AlertTypeOK
<1>2. CASE MayRun(e)
  <2>1. /\ ~alerting /\ alerting' = TRUE
        /\ ruleState' = [r \in AlertRules |-> IF r \in throws THEN ruleState[r]
                                             ELSE IF r \in breached THEN Breached(ruleState[r])
                                             ELSE Cleared(ruleState[r])]
        /\ alertTick' = [alertTick EXCEPT ![e] = [at |-> "flush", left |-> AlertRules, sends |-> NoAlert]]
    BY <1>2 DEF Evaluate, MayRun
  <2>2. ASSUME NEW r \in AlertRules
        PROVE  ruleState'[r] \in RuleStates /\ RuleInv(r)'
    <3>1. /\ ruleState[r] \in RuleStates /\ opsHeard[r] \in Seq(Alerts) /\ alertTime \in Nat
          /\ FiresLate(ruleState[r], alertTime) /\ StoryFits(ruleState[r], opsHeard[r])
      BY <1>0 DEF AlertInv, AlertTypeOK, RuleInv, StoryFits
    <3>2. ruleState'[r] \in {ruleState[r], Breached(ruleState[r]), Cleared(ruleState[r])}
      BY <2>1
    <3>3. ruleState'[r] \in RuleStates /\ FiresLate(ruleState'[r], alertTime) /\ StoryFits(ruleState'[r], opsHeard[r])
      BY <3>1, <3>2, ClearedKeeps, BreachedKeeps
    <3> QED BY <1>0, <3>3 DEF RuleInv, StoryFits
  <2>3. \A f \in AlertTicks : alertTick[f].at = "idle"
    BY <2>1 DEF AlertInv, OneTickDelivers
  <2>4. [at |-> "flush", left |-> AlertRules, sends |-> NoAlert] \in Ticks
    BY DEF Ticks
  <2>5. /\ alertTick' \in [AlertTicks -> Ticks] /\ alertTick'[e].at = "flush"
        /\ \A f \in AlertTicks : f # e => alertTick'[f].at = "idle"
    BY <1>0, <2>1, <2>3, <2>4 DEF AlertTypeOK
  <2>6. AlertTypeOK'
    BY <1>0, <2>1, <2>2, <2>5 DEF AlertTypeOK
  <2>7. OneTickDelivers' /\ \A f \in AlertTicks : SendsTheHead(f)'
    BY <2>1, <2>5 DEF OneTickDelivers, SendsTheHead
  <2> QED BY <2>2, <2>6, <2>7 DEF AlertInv
<1> QED BY <1>1, <1>2

(* A tick under way: the other ticks are idle.                               *)
LEMMA TickMoves ==
    ASSUME AlertInv, NEW e \in AlertTicks, alertTick[e].at # "idle", NEW t \in Ticks,
           alertTick' = [alertTick EXCEPT ![e] = t], alerting' \in BOOLEAN, t.at # "idle" => alerting'
    PROVE  /\ alertTick' \in [AlertTicks -> Ticks] /\ OneTickDelivers'
           /\ alertTick'[e] = t /\ \A f \in AlertTicks : f # e => alertTick'[f].at = "idle"
BY DEF AlertInv, AlertTypeOK, OneTickDelivers

(* So does the flush of the alerts of a tick.                                *)
LEMMA FlushKeeps ==
    ASSUME AlertInv, NEW e \in AlertTicks, NEW r \in AlertRules, Notify(e, r) \/ RuleFlushed(e, r) \/ TickIsOver(e)
    PROVE  AlertInv'
PROOF
<1>0. /\ AlertTypeOK /\ alertTick[e].at = "flush" /\ alertTick[e] \in Ticks
      /\ UNCHANGED <<alertTime, ruleState, opsHeard>> /\ alerting' \in BOOLEAN /\ alerting
  BY DEF AlertInv, AlertTypeOK, OneTickDelivers, Notify, RuleFlushed, TickIsOver
<1>1. PICK t \in Ticks :
        /\ alertTick' = [alertTick EXCEPT ![e] = t] /\ (t.at # "idle" => alerting')
        /\ t.at = "sending" => /\ t.sends \in [rule : AlertRules, alert : Alerts] /\ ruleState[t.sends.rule].outbox # <<>>
                               /\ t.sends.alert = Head(ruleState[t.sends.rule].outbox)
  <2> DEFINE Fits(t) ==
        /\ t \in Ticks /\ alertTick' = [alertTick EXCEPT ![e] = t] /\ (t.at # "idle" => alerting')
        /\ t.at = "sending" => /\ t.sends \in [rule : AlertRules, alert : Alerts] /\ ruleState[t.sends.rule].outbox # <<>>
                               /\ t.sends.alert = Head(ruleState[t.sends.rule].outbox)
  <2>1. CASE Notify(e, r)
    <3> DEFINE head == Head(ruleState[r].outbox)
               mail == [rule |-> r, alert |-> head]
    <3>1. ruleState[r].outbox \in Seq(Alerts) /\ ruleState[r].outbox # <<>> /\ alerting'
      BY <1>0, <2>1 DEF Notify, AlertTypeOK, RuleStates
    <3>2. mail \in [rule : AlertRules, alert : Alerts] /\ mail.rule = r /\ mail.alert = head
      BY <3>1
    <3>3. alertTick' = [alertTick EXCEPT ![e] = [alertTick[e] EXCEPT !.at = "sending", !.sends = mail]]
      BY <1>0, <2>1 DEF Notify, AlertTypeOK
    <3> HIDE DEF head, mail
    <3>4. /\ [alertTick[e] EXCEPT !.at = "sending", !.sends = mail] \in Ticks
          /\ [alertTick[e] EXCEPT !.at = "sending", !.sends = mail].sends = mail
      BY <1>0, <3>2 DEF Ticks
    <3>5. Fits([alertTick[e] EXCEPT !.at = "sending", !.sends = mail])
      BY <3>1, <3>2, <3>3, <3>4 DEF head
    <3> QED BY <3>5
  <2>2. CASE RuleFlushed(e, r)
    <3>1. alertTick' = [alertTick EXCEPT ![e] = [alertTick[e] EXCEPT !.left = @ \ {r}]] /\ alerting'
      BY <1>0, <2>2 DEF RuleFlushed, AlertTypeOK
    <3>2. /\ [alertTick[e] EXCEPT !.left = @ \ {r}] \in Ticks
          /\ [alertTick[e] EXCEPT !.left = @ \ {r}].at = "flush"
      BY <1>0 DEF Ticks
    <3> QED BY <3>1, <3>2
  <2>3. CASE TickIsOver(e)
    <3>1. NoTick \in Ticks /\ NoTick.at = "idle"
      BY DEF NoTick, Ticks
    <3> QED BY <2>3, <3>1 DEF TickIsOver
  <2> QED BY <2>1, <2>2, <2>3
<1>2. /\ alertTick' \in [AlertTicks -> Ticks] /\ OneTickDelivers'
      /\ alertTick'[e] = t /\ \A f \in AlertTicks : f # e => alertTick'[f].at = "idle"
  BY <1>0, <1>1, TickMoves
<1>3. AlertTypeOK' /\ \A f \in AlertTicks : SendsTheHead(f)'
  BY <1>0, <1>1, <1>2 DEF AlertTypeOK, SendsTheHead
<1>4. \A q \in AlertRules : RuleInv(q)'
  BY <1>0 DEF AlertInv, RuleInv
<1> QED BY <1>2, <1>3, <1>4 DEF AlertInv

(* So does a delivery, that arrives or not.                                  *)
LEMMA DeliveryKeeps ==
    ASSUME AlertInv, NEW e \in AlertTicks, Delivered(e) \/ DeliveryFails(e)
    PROVE  AlertInv'
PROOF
<1>0. AlertTypeOK /\ alertTick[e].at = "sending" /\ alertTick[e] \in Ticks /\ alerting /\ alerting' = alerting /\ alertTime' = alertTime
  BY DEF AlertInv, AlertTypeOK, OneTickDelivers, Delivered, DeliveryFails
<1>1. PICK r \in AlertRules : r = alertTick[e].sends.rule
  BY <1>0 DEF AlertInv, SendsTheHead
<1>2. PICK t \in Ticks : alertTick' = [alertTick EXCEPT ![e] = t] /\ t.at = "flush"
  <2>1. CASE Delivered(e)
    <3>1. alertTick' = [alertTick EXCEPT ![e] = [alertTick[e] EXCEPT !.at = "flush"]]
      BY <1>0, <2>1 DEF Delivered, AlertTypeOK
    <3>2. [alertTick[e] EXCEPT !.at = "flush"] \in Ticks /\ [alertTick[e] EXCEPT !.at = "flush"].at = "flush"
      BY <1>0 DEF Ticks
    <3> QED BY <3>1, <3>2
  <2>2. CASE DeliveryFails(e)
    <3> DEFINE t == [alertTick[e] EXCEPT !.at = "flush", !.left = @ \ {r}]
    <3>1. alertTick' = [alertTick EXCEPT ![e] = t]
      BY <1>0, <1>1, <2>2 DEF DeliveryFails, AlertTypeOK
    <3>2. t \in Ticks /\ t.at = "flush"
      BY <1>0 DEF Ticks
    <3> HIDE DEF t
    <3> QED BY <3>1, <3>2
  <2> QED BY <2>1, <2>2
<1>3. /\ alertTick' \in [AlertTicks -> Ticks] /\ OneTickDelivers'
      /\ alertTick'[e] = t /\ \A f \in AlertTicks : f # e => alertTick'[f].at = "idle"
  BY <1>0, <1>2, TickMoves
<1>4. \A f \in AlertTicks : SendsTheHead(f)'
  BY <1>2, <1>3 DEF SendsTheHead
<1> DEFINE h == opsHeard[r]
           o == ruleState[r].outbox
           a == alertTick[e].sends.alert
<1>5. h \in Seq(Alerts) /\ o \in Seq(Alerts) /\ o # <<>> /\ a = Head(o) /\ a \in Alerts
      /\ ruleState[r] \in RuleStates /\ RuleInv(r)
  BY <1>0, <1>1 DEF AlertInv, AlertTypeOK, SendsTheHead, RuleStates
<1>6. CASE Delivered(e)
  <2>1. opsHeard' = [opsHeard EXCEPT ![r] = Append(h, a)] /\ ruleState' = [ruleState EXCEPT ![r].outbox = Tail(o)]
    BY <1>0, <1>1, <1>5, <1>6 DEF Delivered, AlertTypeOK
  <2>2. Append(h, a) \in Seq(Alerts) /\ Tail(o) \in Seq(Alerts)
    BY <1>5
  <2>3. Append(h, a) \o Tail(o) = h \o o
    BY <1>5, HeardIsTakenOff
  <2>4. /\ [ruleState[r] EXCEPT !.outbox = Tail(o)] \in RuleStates
        /\ ruleState'[r] = [ruleState[r] EXCEPT !.outbox = Tail(o)] /\ opsHeard'[r] = Append(h, a)
        /\ \A q \in AlertRules : q # r => ruleState'[q] = ruleState[q] /\ opsHeard'[q] = opsHeard[q]
    BY <1>0, <1>5, <2>1, <2>2 DEF AlertTypeOK, RuleStates
  <2>5. AlertTypeOK'
    BY <1>0, <1>3, <2>1, <2>2, <2>4 DEF AlertTypeOK
  <2>6. RuleInv(r)'
    <3>1. /\ ruleState'[r].outbox = Tail(o) /\ ruleState'[r].since = ruleState[r].since
          /\ ruleState'[r].firing = ruleState[r].firing /\ ruleState'[r].raised = ruleState[r].raised
      BY <1>5, <2>4 DEF RuleStates
    <3> QED BY <1>0, <1>5, <2>3, <2>4, <3>1 DEF RuleInv, FiresLate
  <2>7. ASSUME NEW q \in AlertRules, q # r PROVE RuleInv(q)'
    BY <1>0, <2>4, <2>7 DEF AlertInv, RuleInv
  <2> QED BY <1>3, <1>4, <2>5, <2>6, <2>7 DEF AlertInv
<1>7. CASE DeliveryFails(e)
  <2>1. UNCHANGED ruleState /\ (opsHeard' = opsHeard \/ opsHeard' = [opsHeard EXCEPT ![r] = Append(h, a)])
    BY <1>0, <1>1, <1>7 DEF DeliveryFails, AlertTypeOK
  <2>2. Append(h, a) \in Seq(Alerts)
    BY <1>5
  <2>3. /\ opsHeard'[r] \in {h, Append(h, a)} /\ opsHeard' \in [AlertRules -> Seq(Alerts)]
        /\ \A q \in AlertRules : q # r => opsHeard'[q] = opsHeard[q]
    BY <1>0, <2>1, <2>2 DEF AlertTypeOK
  <2>4. AlertTypeOK'
    BY <1>0, <1>3, <2>1, <2>3 DEF AlertTypeOK
  <2>5. RuleInv(r)'
    <3>1. TellsOf(h \o o) /\ ruleState[r].raised = StandsAt(h \o o) /\ FiresLate(ruleState[r], alertTime)
      BY <1>5 DEF RuleInv
    <3>2. TellsOf(Append(h, a) \o o) /\ StandsAt(Append(h, a) \o o) = StandsAt(h \o o)
      BY <1>5, <3>1, HeardAgain
    <3> HIDE DEF h, o, a
    <3>3. TellsOf(opsHeard'[r] \o o) /\ StandsAt(opsHeard'[r] \o o) = StandsAt(h \o o)
      BY <2>3, <3>1, <3>2
    <3> QED BY <1>0, <2>1, <3>1, <3>3 DEF RuleInv, o
  <2>6. ASSUME NEW q \in AlertRules, q # r PROVE RuleInv(q)'
    BY <1>0, <2>1, <2>3, <2>6 DEF AlertInv, RuleInv
  <2> QED BY <1>3, <1>4, <2>4, <2>5, <2>6 DEF AlertInv
<1> QED BY <1>6, <1>7

(* Every step of the engine or the world keeps it.                           *)
LEMMA AlertInvStep == AlertInv /\ [AlertNext]_alertVars => AlertInv'
PROOF
<1> SUFFICES ASSUME AlertInv, [AlertNext]_alertVars PROVE AlertInv'
  OBVIOUS
<1>0. alertTime \in Nat
  BY DEF AlertInv, AlertTypeOK
<1>1. CASE AlertClock \/ (\E r \in AlertRules : ConditionTurns(r)) \/ UNCHANGED alertVars
  BY <1>0, <1>1, WorldKeeps DEF AlertClock, ConditionTurns, alertVars
<1>2. ASSUME NEW e \in AlertTicks, NEW throws \in SUBSET AlertRules, Evaluate(e, throws) PROVE AlertInv'
  BY <1>2, EvaluateKeeps
<1>3. ASSUME NEW e \in AlertTicks, Delivered(e) \/ DeliveryFails(e) PROVE AlertInv'
  BY <1>3, DeliveryKeeps
<1>4. ASSUME NEW e \in AlertTicks, NEW r \in AlertRules, Notify(e, r) \/ RuleFlushed(e, r) PROVE AlertInv'
  BY <1>4, FlushKeeps
<1>5. ASSUME NEW e \in AlertTicks, TickIsOver(e) PROVE AlertInv'
  <2>1. CASE AlertRules = {}
    <3>1. /\ AlertTypeOK /\ alerting' = FALSE /\ UNCHANGED <<alertTime, ruleState, opsHeard>>
          /\ alertTick' = [alertTick EXCEPT ![e] = NoTick] /\ alertTick[e].at # "idle"
      BY <1>5 DEF AlertInv, TickIsOver
    <3>2. NoTick \in Ticks /\ NoTick.at = "idle"
      BY DEF NoTick, Ticks
    <3>3. /\ alertTick' \in [AlertTicks -> Ticks] /\ OneTickDelivers'
          /\ alertTick'[e] = NoTick /\ \A f \in AlertTicks : f # e => alertTick'[f].at = "idle"
      BY <3>1, <3>2, TickMoves
    <3>4. AlertTypeOK' /\ \A f \in AlertTicks : SendsTheHead(f)'
      BY <3>1, <3>2, <3>3 DEF AlertTypeOK, SendsTheHead
    <3> QED BY <2>1, <3>3, <3>4 DEF AlertInv
  <2>2. CASE AlertRules # {}
    BY <1>5, <2>2, FlushKeeps
  <2> QED BY <2>1, <2>2
<1> QED BY <1>1, <1>2, <1>3, <1>4, <1>5 DEF AlertNext, AlertTickStep

(* What operators hear of a rule is its story, for any number of rules,      *)
(* ticks and outages: firing and resolved in turns, none left out, each      *)
(* held as long as asked; what was not heard is still queued.                *)
THEOREM OperatorsHearTheStory == AlertSpec => []AlertsTellTheStory
PROOF
<1>1. AlertInv => AlertsTellTheStory
  BY DEF AlertInv, RuleInv, FiresLate, TellsOf, StandsAt, AlertsTellTheStory
<1> QED BY <1>1, AlertInvInit, AlertInvStep, PTL DEF AlertSpec

-----------------------------------------------------------------------------
(* RPC failover (RpcFailover).                                               *)
FailoverTypeOK ==
    /\ clock \in Nat \ {0}
    /\ consecutiveFailures \in [Urls -> Nat] /\ cooldownUntil \in [Urls -> Nat]
    /\ place \in [RpcRequests -> 0 .. Endpoints] /\ sent \in [RpcRequests -> BOOLEAN]
    /\ countedFailures \in [RpcRequests -> SUBSET Urls] /\ asked \in [RpcRequests -> SUBSET Urls]
    /\ verdict \in [RpcRequests -> {"none", "ok", "error"}] /\ walks \in [RpcRequests -> Nat]

(* The endpoint that is being asked is among those the request asked, and a  *)
(* request that has not begun is nowhere.                                    *)
AskedIsKnown ==
    \A q \in RpcRequests :
        /\ sent[q] => place[q] \in asked[q] /\ place[q] # 0
        /\ walks[q] = 0 => place[q] = 0

FailoverInv == FailoverTypeOK /\ AskedIsKnown /\ CooldownsAreEarned

(* A power of two counts the subsets of a set, so it is a number, and not 0. *)
LEMMA PowersOfTwo == ASSUME NEW k \in Nat PROVE 2 ^ k \in Nat
PROOF
<1>1. IsFiniteSet(1 .. k) /\ Cardinality(1 .. k) = k
  <2>1. IsFiniteSet(1 .. k) /\ Cardinality(1 .. k) = IF 1 > k THEN 0 ELSE k - 1 + 1
    BY FS_Interval
  <2> QED BY <2>1
<1>2. IsFiniteSet(SUBSET (1 .. k)) /\ Cardinality(SUBSET (1 .. k)) = 2 ^ k
  BY <1>1, FS_SUBSET
<1> QED BY <1>2, FS_CardinalityType

(* A cooldown ends at a moment that is not the beginning of time.            *)
LEMMA CooldownIsSet ==
    ASSUME FailoverTypeOK, NEW failures \in Nat, failures >= FailureThreshold
    PROVE  /\ clock + Capped(BaseCooldown * 2 ^ (failures - FailureThreshold)) \in Nat
           /\ clock + Capped(BaseCooldown * 2 ^ (failures - FailureThreshold)) # 0
PROOF
<1> DEFINE two == 2 ^ (failures - FailureThreshold)
<1>1. two \in Nat
  BY FailoverAssumption, PowersOfTwo
<1> HIDE DEF two
<1>2. BaseCooldown * two \in Nat
  BY <1>1, FailoverAssumption
<1>3. Capped(BaseCooldown * two) \in Nat
  BY <1>2, FailoverAssumption DEF Capped
<1> QED BY <1>3 DEF FailoverTypeOK, two

(* The requests that count against an endpoint, when one more does.          *)
Strikes(e) == {q \in RpcRequests : e \in countedFailures[q]}
(* An endpoint has finitely many strikes.                                    *)
LEMMA StrikesAreFinite == ASSUME NEW e PROVE IsFiniteSet(Strikes(e)) /\ Cardinality(Strikes(e)) \in Nat
BY FailoverAssumption, FS_Subset, FS_CardinalityType DEF Strikes

(* A failure counted anew is one strike more, against one endpoint.          *)
LEMMA OneStrikeMore ==
    ASSUME FailoverTypeOK, NEW q \in RpcRequests, NEW e \in Urls, ~Counted(q, e),
           countedFailures' = [countedFailures EXCEPT ![q] = @ \cup {e}]
    PROVE  /\ Cardinality(Strikes(e)') = Cardinality(Strikes(e)) + 1
           /\ \A f \in Urls : f # e => Strikes(f)' = Strikes(f)
PROOF
<1>1. Strikes(e)' = Strikes(e) \cup {q} /\ q \notin Strikes(e)
  BY DEF Strikes, Counted, FailoverTypeOK
<1>2. Cardinality(Strikes(e) \cup {q}) = Cardinality(Strikes(e)) + 1
  BY <1>1, StrikesAreFinite, FS_AddElement
<1>3. ASSUME NEW f \in Urls, f # e PROVE Strikes(f)' = Strikes(f)
  BY <1>3 DEF Strikes, FailoverTypeOK
<1> QED BY <1>1, <1>2, <1>3

(* The counters never exceed the strikes.                                    *)
LEMMA StrikesBound == OneStrikePerRequest <=> \A e \in Urls : consecutiveFailures[e] <= Cardinality(Strikes(e))
BY DEF OneStrikePerRequest, Strikes

(* Recording a failure keeps the counters honest.                            *)
LEMMA FailureKeeps ==
    ASSUME FailoverTypeOK, OneStrikePerRequest, CoolingHasReason, UNCHANGED clock,
           NEW q \in RpcRequests, NEW e \in Urls, RecordFailure(q, e)
    PROVE  /\ consecutiveFailures' \in [Urls -> Nat] /\ cooldownUntil' \in [Urls -> Nat]
           /\ countedFailures' \in [RpcRequests -> SUBSET Urls]
           /\ OneStrikePerRequest' /\ CoolingHasReason'
PROOF
<1>1. CASE Counted(q, e)
  BY <1>1 DEF RecordFailure, FailoverTypeOK, OneStrikePerRequest, CoolingHasReason
<1>2. CASE ~Counted(q, e)
  <2> DEFINE failures == consecutiveFailures[e] + 1
             until == clock + Capped(BaseCooldown * 2 ^ (failures - FailureThreshold))
  <2>1. /\ countedFailures' = [countedFailures EXCEPT ![q] = @ \cup {e}]
        /\ consecutiveFailures' = [consecutiveFailures EXCEPT ![e] = failures]
        /\ cooldownUntil' = IF failures < FailureThreshold THEN cooldownUntil
                            ELSE [cooldownUntil EXCEPT ![e] = until]
    BY <1>2 DEF RecordFailure
  <2>2. failures \in Nat /\ failures = consecutiveFailures[e] + 1 /\ consecutiveFailures[e] \in Nat
    BY DEF FailoverTypeOK
  <2> HIDE DEF failures
  <2>3. ~(failures < FailureThreshold) => until \in Nat /\ until # 0
    <3> SUFFICES ASSUME ~(failures < FailureThreshold) PROVE until \in Nat /\ until # 0
      OBVIOUS
    <3>1. failures >= FailureThreshold
      BY <2>2, FailoverAssumption
    <3> QED BY <2>2, <3>1, CooldownIsSet
  <2> HIDE DEF until
  <2>4. /\ consecutiveFailures' \in [Urls -> Nat] /\ cooldownUntil' \in [Urls -> Nat]
        /\ countedFailures' \in [RpcRequests -> SUBSET Urls]
    BY <2>1, <2>2, <2>3 DEF FailoverTypeOK
  <2>5. OneStrikePerRequest'
    <3>1. /\ Cardinality(Strikes(e)') = Cardinality(Strikes(e)) + 1
          /\ \A f \in Urls : f # e => Strikes(f)' = Strikes(f)
      BY <1>2, <2>1, OneStrikeMore
    <3>2. \A f \in Urls : consecutiveFailures[f] <= Cardinality(Strikes(f))
      BY StrikesBound
    <3>3. ASSUME NEW f \in Urls PROVE consecutiveFailures'[f] <= Cardinality(Strikes(f)')
      <4>1. CASE f = e
        BY <2>1, <2>2, <3>1, <3>2, <4>1, StrikesAreFinite DEF FailoverTypeOK
      <4>2. CASE f # e
        BY <2>1, <3>1, <3>2, <4>2 DEF FailoverTypeOK
      <4> QED BY <4>1, <4>2
    <3>4. OneStrikePerRequest' <=> \A f \in Urls : consecutiveFailures'[f] <= Cardinality(Strikes(f)')
      BY DEF OneStrikePerRequest, Strikes
    <3> QED BY <3>3, <3>4
  <2>6. CoolingHasReason'
    <3>1. ASSUME NEW f \in Urls
          PROVE  (cooldownUntil'[f] # 0) = (consecutiveFailures'[f] >= FailureThreshold)
      <4>0. (cooldownUntil[f] # 0) = (consecutiveFailures[f] >= FailureThreshold)
        BY DEF CoolingHasReason
      <4>1. CASE f = e /\ failures < FailureThreshold
        BY <2>1, <2>2, <4>0, <4>1, FailoverAssumption DEF FailoverTypeOK
      <4>2. CASE f = e /\ ~(failures < FailureThreshold)
        BY <2>1, <2>2, <2>3, <4>2, FailoverAssumption DEF FailoverTypeOK
      <4>3. CASE f # e
        BY <2>1, <4>0, <4>3 DEF FailoverTypeOK
      <4> QED BY <4>1, <4>2, <4>3
    <3> QED BY <3>1 DEF CoolingHasReason
  <2> QED BY <2>4, <2>5, <2>6
<1> QED BY <1>1, <1>2

(* So does recording a success.                                              *)
LEMMA SuccessKeeps ==
    ASSUME FailoverTypeOK, OneStrikePerRequest, CoolingHasReason,
           NEW q \in RpcRequests, NEW e \in Urls, RecordSuccess(q, e)
    PROVE  /\ consecutiveFailures' \in [Urls -> Nat] /\ cooldownUntil' \in [Urls -> Nat]
           /\ countedFailures' \in [RpcRequests -> SUBSET Urls]
           /\ OneStrikePerRequest' /\ CoolingHasReason'
PROOF
<1>1. /\ consecutiveFailures' \in [Urls -> Nat] /\ cooldownUntil' \in [Urls -> Nat]
      /\ countedFailures' \in [RpcRequests -> SUBSET Urls]
  BY DEF RecordSuccess, FailoverTypeOK
<1>2. ASSUME NEW f \in Urls PROVE consecutiveFailures'[f] <= Cardinality(Strikes(f)')
  <2>1. IsFiniteSet(Strikes(f)') /\ Cardinality(Strikes(f)') \in Nat
    BY FailoverAssumption, FS_Subset, FS_CardinalityType DEF Strikes
  <2>2. CASE f = e
    BY <2>1, <2>2 DEF RecordSuccess, FailoverTypeOK
  <2>3. CASE f # e
    <3>1. Strikes(f)' = Strikes(f)
      BY <2>3 DEF RecordSuccess, Strikes, FailoverTypeOK
    <3>2. consecutiveFailures'[f] = consecutiveFailures[f]
      BY <2>3 DEF RecordSuccess, FailoverTypeOK
    <3> QED BY <3>1, <3>2, StrikesBound
  <2> QED BY <2>2, <2>3
<1>3. OneStrikePerRequest'
  BY <1>2 DEF OneStrikePerRequest, Strikes
<1>4. CoolingHasReason'
  BY FailoverAssumption DEF CoolingHasReason, RecordSuccess, FailoverTypeOK
<1> QED BY <1>1, <1>3, <1>4

(* A transport just made satisfies the invariant.                            *)
LEMMA FailoverInvInit == FailoverInit => FailoverInv
PROOF
<1> SUFFICES ASSUME FailoverInit PROVE FailoverInv
  OBVIOUS
<1>1. FailoverTypeOK /\ AskedIsKnown
  BY FailoverAssumption DEF FailoverInit, FailoverTypeOK, AskedIsKnown
<1>2. NeverRefusedUnasked /\ CoolingHasReason
  BY FailoverAssumption DEF FailoverInit, NeverRefusedUnasked, CoolingHasReason
<1>3. OneStrikePerRequest
  <2>1. \A e \in Urls : consecutiveFailures[e] <= Cardinality(Strikes(e))
    BY StrikesAreFinite DEF FailoverInit
  <2> QED BY <2>1, StrikesBound
<1> QED BY <1>1, <1>2, <1>3 DEF FailoverInv, CooldownsAreEarned

(* The records stay, or move as the two lemmas say; the walk goes on: an     *)
(* error is told by a request at the last endpoint only after it asked.      *)
LEMMA WalkKeeps ==
    ASSUME FailoverInv, NEW q \in RpcRequests, UNCHANGED <<clock, asked>>, place[q] # 0,
           sent' \in [RpcRequests -> BOOLEAN], \A p \in RpcRequests : sent'[p] => sent[p] /\ p # q,
           consecutiveFailures' \in [Urls -> Nat], cooldownUntil' \in [Urls -> Nat],
           countedFailures' \in [RpcRequests -> SUBSET Urls], OneStrikePerRequest', CoolingHasReason',
           \/ MoveOn(q) /\ (place[q] = Endpoints => asked[q] # {})
           \/ \E how \in {"ok", "error"} : Stop(q, how) /\ asked[q] # {}
    PROVE  FailoverInv'
PROOF
<1>1. FailoverTypeOK /\ AskedIsKnown /\ NeverRefusedUnasked
  BY DEF FailoverInv, CooldownsAreEarned
<1>2. place' \in [RpcRequests -> 0 .. Endpoints] /\ \A p \in RpcRequests \ {q} : place'[p] = place[p]
  BY <1>1, FailoverAssumption DEF MoveOn, Stop, FailoverTypeOK
<1>3. FailoverTypeOK'
  <2>1. verdict' \in [RpcRequests -> {"none", "ok", "error"}]
    BY <1>1 DEF MoveOn, Stop, FailoverTypeOK
  <2>2. walks' \in [RpcRequests -> Nat]
    BY <1>1 DEF MoveOn, Stop, FailoverTypeOK
  <2> QED BY <1>1, <1>2, <2>1, <2>2 DEF FailoverTypeOK
<1>4. AskedIsKnown'
  <2>1. \A p \in RpcRequests : walks'[p] = 0 => walks[p] = 0
    BY <1>1 DEF MoveOn, Stop, FailoverTypeOK
  <2> QED BY <1>1, <1>2, <2>1 DEF AskedIsKnown
<1>5. NeverRefusedUnasked'
  <2>1. ASSUME NEW p \in RpcRequests, verdict'[p] = "error" PROVE verdict[p] = "error" \/ asked[p] # {}
    <3>1. UNCHANGED verdict \/ (asked[q] # {} /\ verdict'[p] = IF p = q THEN verdict'[q] ELSE verdict[p])
      BY <1>1 DEF MoveOn, Stop, FailoverTypeOK
    <3> QED BY <2>1, <3>1
  <2> QED BY <1>1, <2>1 DEF NeverRefusedUnasked
<1> QED BY <1>3, <1>4, <1>5 DEF FailoverInv, CooldownsAreEarned

(* An endpoint's answer, of any kind, keeps the invariant.                   *)
LEMMA AnswersKeep ==
    ASSUME FailoverInv, NEW q \in RpcRequests, Succeeds(q) \/ EndpointFails(q) \/ RequestFails(q)
    PROVE  FailoverInv'
PROOF
<1>1. FailoverTypeOK /\ AskedIsKnown /\ OneStrikePerRequest /\ CoolingHasReason /\ Answered(q)
  BY DEF FailoverInv, CooldownsAreEarned, Succeeds, EndpointFails, RequestFails
<1>2. /\ place[q] \in Urls /\ asked[q] # {} /\ place[q] # 0 /\ UNCHANGED <<clock, asked>>
      /\ sent' \in [RpcRequests -> BOOLEAN] /\ \A p \in RpcRequests : sent'[p] => sent[p] /\ p # q
  BY <1>1 DEF Answered, AskedIsKnown, FailoverTypeOK, Urls
<1>3. CASE Succeeds(q)
  BY <1>1, <1>2, <1>3, SuccessKeeps, WalkKeeps DEF Succeeds
<1>4. CASE EndpointFails(q)
  BY <1>1, <1>2, <1>4, FailureKeeps, WalkKeeps DEF EndpointFails
<1>5. CASE RequestFails(q)
  <2>1. /\ consecutiveFailures' \in [Urls -> Nat] /\ cooldownUntil' \in [Urls -> Nat]
        /\ countedFailures' \in [RpcRequests -> SUBSET Urls] /\ OneStrikePerRequest' /\ CoolingHasReason'
    BY <1>1, <1>5 DEF RequestFails, FailoverTypeOK, OneStrikePerRequest, CoolingHasReason
  <2>2. Stop(q, "error") \/ MoveOn(q)
    BY <1>5 DEF RequestFails
  <2>3. CASE MoveOn(q)
    BY <1>2, <2>1, <2>3, WalkKeeps
  <2>4. CASE Stop(q, "error")
    <3>1. \E how \in {"ok", "error"} : Stop(q, how) /\ asked[q] # {}
      BY <1>2, <2>4
    <3> QED BY <1>2, <2>1, <3>1, WalkKeeps
  <2> QED BY <2>2, <2>3, <2>4
<1> QED BY <1>3, <1>4, <1>5

(* Every step of a request or of the clock keeps it.                         *)
LEMMA FailoverInvStep == ASSUME FailoverInv, [FailoverNext]_failoverVars PROVE FailoverInv'
PROOF
<1>1. FailoverTypeOK /\ AskedIsKnown /\ CooldownsAreEarned
  BY DEF FailoverInv
<1>2. CASE UNCHANGED failoverVars
  BY <1>1, <1>2 DEF failoverVars, FailoverInv, FailoverTypeOK, AskedIsKnown, CooldownsAreEarned,
     NeverRefusedUnasked,
                    OneStrikePerRequest, CoolingHasReason
<1>3. CASE Passes
  BY <1>1, <1>3 DEF Passes, requestVars, FailoverInv, FailoverTypeOK, AskedIsKnown, CooldownsAreEarned,
                    NeverRefusedUnasked, OneStrikePerRequest, CoolingHasReason
<1>4. ASSUME NEW q \in RpcRequests, Begin(q) PROVE FailoverInv'
  <2>1. /\ UNCHANGED <<clock, consecutiveFailures, cooldownUntil, sent, countedFailures, verdict, asked>>
        /\ place' = [place EXCEPT ![q] = 1] /\ walks' = [walks EXCEPT ![q] = 1] /\ walks[q] = 0
    BY <1>4 DEF Begin
  <2>2. 1 \in 0 .. Endpoints
    BY FailoverAssumption
  <2>3. FailoverTypeOK'
    BY <1>1, <2>1, <2>2 DEF FailoverTypeOK
  <2>4. CooldownsAreEarned'
    BY <1>1, <2>1 DEF CooldownsAreEarned, NeverRefusedUnasked, OneStrikePerRequest, CoolingHasReason
  <2>5. AskedIsKnown'
    BY <1>1, <2>1 DEF AskedIsKnown, FailoverTypeOK
  <2> QED BY <2>3, <2>4, <2>5 DEF FailoverInv
<1>5. ASSUME NEW q \in RpcRequests, PassOver(q) PROVE FailoverInv'
  <2>1. /\ place[q] # 0 /\ ~sent[q] /\ MoveOn(q)
        /\ UNCHANGED <<clock, consecutiveFailures, cooldownUntil, sent, countedFailures, asked>>
    BY <1>1, <1>5 DEF PassOver, FailoverTypeOK
  <2>2. place[q] # Endpoints
    BY <1>5, FailoverAssumption DEF PassOver, PassedOver, HealthierEndpointFollows, Urls
  <2>3. /\ OneStrikePerRequest' /\ CoolingHasReason' /\ sent' \in [RpcRequests -> BOOLEAN]
        /\ consecutiveFailures' \in [Urls -> Nat] /\ cooldownUntil' \in [Urls -> Nat]
        /\ countedFailures' \in [RpcRequests -> SUBSET Urls] /\ \A p \in RpcRequests : sent'[p] => sent[p] /\ p # q
    BY <1>1, <2>1 DEF CooldownsAreEarned, OneStrikePerRequest, CoolingHasReason, FailoverTypeOK
  <2> QED BY <2>1, <2>2, <2>3, WalkKeeps
<1>6. ASSUME NEW q \in RpcRequests, Ask(q) PROVE FailoverInv'
  <2>1. /\ UNCHANGED <<clock, consecutiveFailures, cooldownUntil, place, countedFailures, verdict, walks>>
        /\ sent' = [sent EXCEPT ![q] = TRUE] /\ asked' = [asked EXCEPT ![q] = @ \cup {place[q]}]
        /\ place[q] \in Urls /\ place[q] # 0
    BY <1>1, <1>6 DEF Ask, FailoverTypeOK, Urls
  <2>2. FailoverTypeOK' /\ AskedIsKnown'
    BY <1>1, <2>1 DEF FailoverTypeOK, AskedIsKnown
  <2>3. CooldownsAreEarned'
    BY <1>1, <2>1 DEF CooldownsAreEarned, NeverRefusedUnasked, OneStrikePerRequest,
       CoolingHasReason, FailoverTypeOK
  <2> QED BY <2>2, <2>3 DEF FailoverInv
<1> QED BY <1>2, <1>3, <1>4, <1>5, <1>6, AnswersKeep DEF FailoverNext, FailoverStep

(* Cooldowns are earned, for any number of endpoints, requests and retries.  *)
THEOREM CooldownsStayEarned == FailoverSpec => []CooldownsAreEarned
<1>1. FailoverInv /\ [FailoverNext]_failoverVars => FailoverInv'
  BY FailoverInvStep
<1>2. FailoverInv => CooldownsAreEarned
  BY DEF FailoverInv
<1> QED BY <1>1, <1>2, FailoverInvInit, PTL DEF FailoverSpec

-----------------------------------------------------------------------------
(* The CCTP bridge (Bridge).                                                 *)
BridgeCalls ==
    [stage : {"none", "checking", "approving", "simulating", "burning", "polling", "attested", "delivering",
              "minting", "ended"},
     amount : Nat, told : {"nothing", "refused", "unknown", "minted", "alreadyReceived"}, call : Nat, held : Nat]
Burns == {"none", "sent", "mined", "reverted"}
Attestations == [state : {"unseen", "signed", "lapsed"}, signed : Nat]
Deliveries == [transfer : Transfers, call : Nat, message : Nat]

BridgeTypeOK ==
    /\ bridge \in [Transfers -> BridgeCalls]
    /\ burnTx \in [Transfers -> Burns]
    /\ circle \in [Transfers -> Attestations]
    /\ deliveries \subseteq Deliveries
    /\ mintedBy \in [Transfers -> Nat \cup {NotMinted}]

(* A call that has sent no delivery of its own yet. *)
Undelivered(t) == bridge[t].stage \notin {"none", "minting", "ended"}

BurnIsOwn(t) ==
    /\ bridge[t].stage \in {"none", "checking", "approving", "simulating"} => burnTx[t] = "none"
    /\ bridge[t].stage = "none" <=> bridge[t].call = 0
    /\ circle[t].state # "unseen" => burnTx[t] = "mined"
MintIsOwn(t) ==
    /\ mintedBy[t] <= bridge[t].call
    /\ Undelivered(t) => mintedBy[t] < bridge[t].call
    /\ \A d \in deliveries :
          d.transfer = t => d.call <= bridge[t].call /\ (Undelivered(t) => d.call < bridge[t].call)
TellsOfBridge(t) ==
    /\ bridge[t].told # "nothing" => bridge[t].stage = "ended"
    /\ bridge[t].told = "minted" => mintedBy[t] = bridge[t].call
    /\ bridge[t].told = "alreadyReceived" => mintedBy[t] \notin {NotMinted, bridge[t].call}
    /\ bridge[t].told = "refused" => burnTx[t] \in {"none", "reverted"}
BridgeInv == BridgeTypeOK /\ \A t \in Transfers : BurnIsOwn(t) /\ MintIsOwn(t) /\ TellsOfBridge(t)

(* With no transfer begun the invariant holds.                               *)
LEMMA BridgeInvInit == BridgeInit => BridgeInv
PROOF
<1> SUFFICES ASSUME BridgeInit PROVE BridgeInv
  OBVIOUS
<1>1. BridgeTypeOK
  BY DEF BridgeInit, BridgeTypeOK, BridgeCalls, Burns, Attestations, NotMinted
<1>2. ASSUME NEW t \in Transfers PROVE BurnIsOwn(t) /\ MintIsOwn(t) /\ TellsOfBridge(t)
  BY DEF BridgeInit, BurnIsOwn, MintIsOwn, TellsOfBridge, Undelivered, NotMinted
<1> QED BY <1>1, <1>2 DEF BridgeInv

(* One call moves on, and only its own record, burn or deliveries with it.   *)
LEMMA OneCall ==
    ASSUME bridge \in [Transfers -> BridgeCalls], NEW t \in Transfers, NEW new \in BridgeCalls,
           bridge' = [bridge EXCEPT ![t] = new]
    PROVE  /\ bridge' \in [Transfers -> BridgeCalls] /\ bridge'[t] = new
           /\ \A s \in Transfers \ {t} : bridge'[s] = bridge[s]
OBVIOUS

(* What going to a stage does to the calls, written out.                     *)
LEMMA CallGoesTo ==
    ASSUME bridge \in [Transfers -> BridgeCalls], NEW t \in Transfers,
           NEW stage \in {"approving", "simulating", "burning", "polling", "delivering", "minting"}, BridgeTo(t, stage)
    PROVE  /\ bridge' \in [Transfers -> BridgeCalls]
           /\ bridge'[t].stage = stage /\ bridge'[t].told = bridge[t].told /\ bridge'[t].call = bridge[t].call
           /\ \A s \in Transfers \ {t} : bridge'[s] = bridge[s]
PROOF
<1> DEFINE new == [bridge[t] EXCEPT !.stage = stage]
<1>1. bridge' = [bridge EXCEPT ![t] = new]
  BY DEF BridgeTo
<1>2. new \in BridgeCalls /\ new.stage = stage /\ new.told = bridge[t].told /\ new.call = bridge[t].call
  BY DEF BridgeCalls
<1> HIDE DEF new
<1> QED BY <1>1, <1>2, OneCall

(* What telling the caller does to the calls, written out.                   *)
LEMMA CallTells ==
    ASSUME bridge \in [Transfers -> BridgeCalls], NEW t \in Transfers,
           NEW told \in {"refused", "unknown", "minted", "alreadyReceived"}, BridgeTells(t, told)
    PROVE  /\ bridge' \in [Transfers -> BridgeCalls]
           /\ bridge'[t].stage = "ended" /\ bridge'[t].told = told /\ bridge'[t].call = bridge[t].call
           /\ \A s \in Transfers \ {t} : bridge'[s] = bridge[s]
PROOF
<1> DEFINE new == [bridge[t] EXCEPT !.stage = "ended", !.told = told]
<1>1. bridge' = [bridge EXCEPT ![t] = new]
  BY DEF BridgeTells
<1>2. new \in BridgeCalls /\ new.stage = "ended" /\ new.told = told /\ new.call = bridge[t].call
  BY DEF BridgeCalls
<1> HIDE DEF new
<1> QED BY <1>1, <1>2, OneCall

(* What keeps the invariant: one call changes, its burn at most with it.     *)
LEMMA OneTransferKeeps ==
    ASSUME BridgeInv, NEW t \in Transfers, UNCHANGED <<circle, deliveries, mintedBy>>,
           bridge' \in [Transfers -> BridgeCalls], burnTx' \in [Transfers -> Burns],
           \A s \in Transfers \ {t} : bridge'[s] = bridge[s] /\ burnTx'[s] = burnTx[s],
           BurnIsOwn(t)', MintIsOwn(t)', TellsOfBridge(t)'
    PROVE  BridgeInv'
PROOF
<1>1. BridgeTypeOK'
  BY DEF BridgeInv, BridgeTypeOK
<1>2. ASSUME NEW s \in Transfers, s # t PROVE BurnIsOwn(s)' /\ MintIsOwn(s)' /\ TellsOfBridge(s)'
  <2>1. BurnIsOwn(s) /\ MintIsOwn(s) /\ TellsOfBridge(s)
    BY DEF BridgeInv
  <2>2. bridge'[s] = bridge[s] /\ burnTx'[s] = burnTx[s]
    BY <1>2
  <2> QED BY <2>1, <2>2 DEF BurnIsOwn, MintIsOwn, TellsOfBridge, Undelivered
<1> QED BY <1>1, <1>2 DEF BridgeInv

(* What the invariant says of one transfer.                                  *)
LEMMA BridgeFacts ==
    ASSUME BridgeInv, NEW t \in Transfers
    PROVE  /\ bridge \in [Transfers -> BridgeCalls] /\ burnTx \in [Transfers -> Burns]
           /\ circle \in [Transfers -> Attestations] /\ deliveries \subseteq Deliveries
           /\ mintedBy \in [Transfers -> Nat \cup {NotMinted}]
           /\ bridge[t] \in BridgeCalls /\ bridge[t].call \in Nat /\ burnTx[t] \in Burns
           /\ mintedBy[t] \in Nat \cup {NotMinted} /\ NotMinted \in Int
           /\ BurnIsOwn(t) /\ MintIsOwn(t) /\ TellsOfBridge(t)
PROOF
<1>1. BridgeTypeOK /\ BurnIsOwn(t) /\ MintIsOwn(t) /\ TellsOfBridge(t)
  BY DEF BridgeInv
<1>2. bridge[t] \in BridgeCalls
  BY <1>1 DEF BridgeTypeOK
<1>3. bridge[t].call \in Nat
  BY <1>2 DEF BridgeCalls
<1> QED BY <1>1, <1>2, <1>3 DEF BridgeTypeOK, NotMinted

-----------------------------------------------------------------------------
(* A call that starts keeps the invariant.                                   *)
LEMMA StartsKeeps ==
    ASSUME BridgeInv, NEW t \in Transfers, NEW amount \in BurnAmounts, BridgeStarts(t, amount)
    PROVE  BridgeInv'
PROOF
<1> DEFINE ok == amount > AttesterFee
           new == [bridge[t] EXCEPT !.amount = amount, !.call = 1,
                      !.stage = IF ok THEN "checking" ELSE "ended",
                      !.told = IF ok THEN bridge[t].told ELSE "refused"]
<1>1. bridge' = [bridge EXCEPT ![t] = new] /\ bridge[t].stage = "none" /\ UNCHANGED <<burnTx, circle, deliveries, mintedBy>>
  <2>1. bridge' = [bridge EXCEPT ![t] = new]
    BY DEF BridgeStarts
  <2> QED BY <2>1 DEF BridgeStarts, BridgeAt, bridgeChains
<1>2. amount \in Nat
  BY BridgeAssumption
<1>3. /\ bridge[t] \in BridgeCalls /\ BurnIsOwn(t) /\ MintIsOwn(t) /\ TellsOfBridge(t)
      /\ bridge \in [Transfers -> BridgeCalls] /\ burnTx \in [Transfers -> Burns] /\ bridge[t].call \in Nat
      /\ deliveries \subseteq Deliveries /\ mintedBy[t] \in Nat \cup {NotMinted} /\ NotMinted \in Int
  BY BridgeFacts
<1>4. /\ new \in BridgeCalls /\ new.call = 1
      /\ \/ new.stage = "checking" /\ new.told = bridge[t].told
         \/ new.stage = "ended" /\ new.told = "refused"
  <2>1. CASE ok
    BY <1>2, <1>3, <2>1 DEF BridgeCalls
  <2>2. CASE ~ok
    BY <1>2, <1>3, <2>2 DEF BridgeCalls
  <2> QED BY <2>1, <2>2
<1> HIDE DEF new
<1>5. bridge' \in [Transfers -> BridgeCalls] /\ bridge'[t] = new /\ \A s \in Transfers \ {t} : bridge'[s] = bridge[s]
  BY <1>1, <1>3, <1>4, OneCall
<1>6. burnTx[t] = "none" /\ bridge[t].told = "nothing"
  BY <1>1, <1>3 DEF BurnIsOwn, TellsOfBridge
<1>8. mintedBy[t] < 1 /\ \A d \in deliveries : d.transfer = t => d.call < 1
  BY <1>1, <1>3 DEF BurnIsOwn, MintIsOwn, Deliveries
<1>7. BurnIsOwn(t)' /\ MintIsOwn(t)' /\ TellsOfBridge(t)'
  <2>1. BurnIsOwn(t)'
    BY <1>1, <1>3, <1>4, <1>5, <1>6 DEF BurnIsOwn
  <2>2. MintIsOwn(t)'
    BY <1>1, <1>3, <1>4, <1>5, <1>8 DEF MintIsOwn, Deliveries
  <2>3. TellsOfBridge(t)'
    BY <1>1, <1>4, <1>5, <1>6 DEF TellsOfBridge
  <2> QED BY <2>1, <2>2, <2>3
<1> QED BY <1>1, <1>3, <1>5, <1>7, OneTransferKeeps

(* A call that is under way moves on, or ends with what is so.               *)
LEMMA GoingOnKeeps ==
    ASSUME BridgeInv, NEW t \in Transfers, UNCHANGED <<burnTx, circle, deliveries, mintedBy>>,
           bridge[t].stage # "none", Undelivered(t),
           NEW stage \in {"approving", "simulating", "burning", "polling", "delivering"}, BridgeTo(t, stage),
           stage \in {"approving", "simulating"} => burnTx[t] = "none"
    PROVE  BridgeInv'
PROOF
<1>1. /\ BurnIsOwn(t) /\ MintIsOwn(t) /\ TellsOfBridge(t) /\ burnTx \in [Transfers -> Burns]
      /\ bridge \in [Transfers -> BridgeCalls]
  BY BridgeFacts
<1>2. /\ bridge' \in [Transfers -> BridgeCalls]
      /\ bridge'[t].stage = stage /\ bridge'[t].told = bridge[t].told /\ bridge'[t].call = bridge[t].call
      /\ \A s \in Transfers \ {t} : bridge'[s] = bridge[s]
  BY <1>1, CallGoesTo
<1>3. BurnIsOwn(t)'
  BY <1>1, <1>2 DEF BurnIsOwn
<1>4. MintIsOwn(t)'
  BY <1>1, <1>2 DEF MintIsOwn
<1>5. TellsOfBridge(t)'
  BY <1>1, <1>2 DEF TellsOfBridge, Undelivered
<1> QED BY <1>1, <1>2, <1>3, <1>4, <1>5, OneTransferKeeps

(* So does telling the caller something that is so.                          *)
LEMMA TellingKeeps ==
    ASSUME BridgeInv, NEW t \in Transfers, UNCHANGED <<burnTx, circle, deliveries, mintedBy>>,
           bridge[t].stage # "none",
           NEW told \in {"refused", "unknown", "minted", "alreadyReceived"}, BridgeTells(t, told),
           told = "minted" => mintedBy[t] = bridge[t].call,
           told = "alreadyReceived" => mintedBy[t] \notin {NotMinted, bridge[t].call},
           told = "refused" => burnTx[t] \in {"none", "reverted"}
    PROVE  BridgeInv'
PROOF
<1>1. BurnIsOwn(t) /\ MintIsOwn(t) /\ burnTx \in [Transfers -> Burns] /\ bridge \in [Transfers -> BridgeCalls]
  BY BridgeFacts
<1>2. /\ bridge' \in [Transfers -> BridgeCalls]
      /\ bridge'[t].stage = "ended" /\ bridge'[t].told = told /\ bridge'[t].call = bridge[t].call
      /\ \A s \in Transfers \ {t} : bridge'[s] = bridge[s]
  BY <1>1, CallTells
<1>3. BurnIsOwn(t)'
  BY <1>1, <1>2 DEF BurnIsOwn
<1>4. MintIsOwn(t)'
  BY <1>1, <1>2 DEF MintIsOwn, Undelivered
<1>5. TellsOfBridge(t)'
  BY <1>1, <1>2 DEF TellsOfBridge
<1> QED BY <1>1, <1>2, <1>3, <1>4, <1>5, OneTransferKeeps

(* So do the reads, waits and failures that change no chain.                 *)
LEMMA SourceKeeps ==
    ASSUME BridgeInv, NEW t \in Transfers,
           ChecksAllowance(t) \/ ReadsApproval(t) \/ ReadsBurnReceipt(t) \/ DeadlinePasses(t) \/ ChecksNonce(t)
               \/ ReadsMintReceipt(t) \/ AwaitFails(t)
    PROVE  BridgeInv'
PROOF
<1>1. BurnIsOwn(t) /\ MintIsOwn(t) /\ TellsOfBridge(t) /\ mintedBy[t] \in Nat \cup {NotMinted} /\ burnTx[t] \in Burns
      /\ NotMinted \in Int /\ bridge[t].call \in Nat
  BY BridgeFacts
<1>2. UNCHANGED <<burnTx, circle, deliveries, mintedBy>>
  BY DEF ChecksAllowance, ReadsApproval, ReadsBurnReceipt, DeadlinePasses, ChecksNonce,
     ReadsMintReceipt, AwaitFails,
         bridgeChains
<1>3. CASE ChecksAllowance(t) \/ ReadsApproval(t)
  <2>1. /\ burnTx[t] = "none" \/ bridge[t].stage = "approving"
        /\ bridge[t].stage \in {"checking", "approving"}
        /\ BridgeTo(t, "approving") \/ BridgeTo(t, "simulating")
    BY <1>1, <1>3 DEF ChecksAllowance, ReadsApproval, BridgeAt, BurnIsOwn
  <2>2. burnTx[t] = "none" /\ Undelivered(t)
    BY <1>1, <2>1 DEF BurnIsOwn, Undelivered
  <2> QED BY <1>2, <2>1, <2>2, GoingOnKeeps
<1>4. CASE ReadsBurnReceipt(t)
  <2>1. /\ bridge[t].stage = "burning" /\ Undelivered(t)
        /\ \/ BridgeTo(t, "polling")
           \/ BridgeTells(t, "refused") /\ burnTx[t] \in {"none", "reverted"}
    BY <1>1, <1>4 DEF ReadsBurnReceipt, BridgeAt, Burns, Undelivered
  <2> QED BY <1>2, <2>1, GoingOnKeeps, TellingKeeps
<1>5. CASE DeadlinePasses(t)
  BY <1>2, <1>5, TellingKeeps DEF DeadlinePasses, BridgeAt
<1>6. CASE ChecksNonce(t)
  <2>1. bridge[t].stage = "attested" /\ Undelivered(t)
    BY <1>6 DEF ChecksNonce, BridgeAt, Undelivered
  <2>2. mintedBy[t] # bridge[t].call
    BY <1>1, <2>1 DEF MintIsOwn
  <2> QED BY <1>2, <1>6, <2>1, <2>2, GoingOnKeeps, TellingKeeps DEF ChecksNonce
<1>7. CASE ReadsMintReceipt(t)
  BY <1>2, <1>7, TellingKeeps DEF ReadsMintReceipt, BridgeAt, ReceiptSucceeded
<1>8. CASE AwaitFails(t)
  BY <1>2, <1>8, TellingKeeps DEF AwaitFails
<1> QED BY <1>3, <1>4, <1>5, <1>6, <1>7, <1>8

(* So does sending the burn.                                                 *)
LEMMA SendsBurnKeeps == ASSUME BridgeInv, NEW t \in Transfers, SendsBurn(t) PROVE BridgeInv'
PROOF
<1>1. /\ BurnIsOwn(t) /\ MintIsOwn(t) /\ TellsOfBridge(t) /\ burnTx \in [Transfers -> Burns]
      /\ bridge \in [Transfers -> BridgeCalls]
  BY BridgeFacts
<1>2. bridge[t].stage = "simulating" /\ burnTx[t] = "none" /\ UNCHANGED <<circle, deliveries, mintedBy>>
  BY <1>1 DEF SendsBurn, BridgeAt, BurnIsOwn
<1>3. CASE ~BurnWouldPass(t)
  BY <1>2, <1>3, TellingKeeps DEF SendsBurn
<1>4. CASE BurnWouldPass(t)
  <2>1. /\ bridge' \in [Transfers -> BridgeCalls]
        /\ bridge'[t].stage = "burning" /\ bridge'[t].told = bridge[t].told /\ bridge'[t].call = bridge[t].call
        /\ \A s \in Transfers \ {t} : bridge'[s] = bridge[s]
    BY <1>1, <1>4, CallGoesTo DEF SendsBurn
  <2>2. /\ burnTx' \in [Transfers -> Burns] /\ burnTx'[t] = "sent"
        /\ \A s \in Transfers \ {t} : burnTx'[s] = burnTx[s]
    BY <1>1, <1>4 DEF SendsBurn, Burns
  <2>3. BurnIsOwn(t)' /\ TellsOfBridge(t)'
    BY <1>1, <1>2, <2>1, <2>2 DEF BurnIsOwn, TellsOfBridge
  <2>4. MintIsOwn(t)'
    BY <1>1, <1>2, <2>1 DEF MintIsOwn, Undelivered
  <2> QED BY <1>2, <2>1, <2>2, <2>3, <2>4, OneTransferKeeps
<1> QED BY <1>3, <1>4

(* So does the burn when it is mined.                                        *)
LEMMA BurnMinesKeeps == ASSUME BridgeInv, NEW t \in Transfers, BurnMines(t) PROVE BridgeInv'
PROOF
<1>1. /\ BurnIsOwn(t) /\ MintIsOwn(t) /\ TellsOfBridge(t) /\ burnTx \in [Transfers -> Burns]
      /\ bridge \in [Transfers -> BridgeCalls]
  BY BridgeFacts
<1>2. burnTx[t] = "sent" /\ UNCHANGED <<bridge, circle, deliveries, mintedBy>>
  BY DEF BurnMines
<1>3. /\ burnTx' \in [Transfers -> Burns] /\ burnTx'[t] \in {"mined", "reverted"}
      /\ \A s \in Transfers \ {t} : burnTx'[s] = burnTx[s]
  BY <1>1 DEF BurnMines, Burns
<1>4. BurnIsOwn(t)' /\ TellsOfBridge(t)'
  BY <1>1, <1>2, <1>3 DEF BurnIsOwn, TellsOfBridge
<1>5. MintIsOwn(t)'
  BY <1>1, <1>2 DEF MintIsOwn, Undelivered
<1> QED BY <1>1, <1>2, <1>3, <1>4, <1>5, OneTransferKeeps

(* So does a poll that finds the attestation.                                *)
LEMMA PollFindsKeeps == ASSUME BridgeInv, NEW t \in Transfers, PollFinds(t) PROVE BridgeInv'
PROOF
<1> DEFINE new == [bridge[t] EXCEPT !.stage = "attested", !.held = circle[t].signed]
<1>1. /\ BurnIsOwn(t) /\ MintIsOwn(t) /\ TellsOfBridge(t) /\ burnTx \in [Transfers -> Burns]
      /\ bridge \in [Transfers -> BridgeCalls] /\ circle \in [Transfers -> Attestations] /\ bridge[t] \in BridgeCalls
  BY BridgeFacts
<1>2. bridge[t].stage = "polling" /\ UNCHANGED <<burnTx, circle, deliveries, mintedBy>>
  BY DEF PollFinds, BridgeAt, bridgeChains
<1>3. bridge' = [bridge EXCEPT ![t] = new]
  BY DEF PollFinds
<1>4. new \in BridgeCalls /\ new.stage = "attested" /\ new.told = bridge[t].told /\ new.call = bridge[t].call
  BY <1>1 DEF BridgeCalls, Attestations
<1> HIDE DEF new
<1>5. bridge' \in [Transfers -> BridgeCalls] /\ bridge'[t] = new /\ \A s \in Transfers \ {t} : bridge'[s] = bridge[s]
  BY <1>1, <1>3, <1>4, OneCall
<1>6. BurnIsOwn(t)' /\ TellsOfBridge(t)'
  BY <1>1, <1>2, <1>4, <1>5 DEF BurnIsOwn, TellsOfBridge
<1>7. MintIsOwn(t)'
  BY <1>1, <1>2, <1>4, <1>5 DEF MintIsOwn, Undelivered
<1> QED BY <1>1, <1>2, <1>5, <1>6, <1>7, OneTransferKeeps

(* So does recovering a transfer from its burn.                              *)
LEMMA RecoversKeeps == ASSUME BridgeInv, NEW t \in Transfers, Recovers(t) PROVE BridgeInv'
PROOF
<1> DEFINE new == [bridge[t] EXCEPT !.stage = "polling", !.told = "nothing", !.call = bridge[t].call + 1]
<1>1. /\ BurnIsOwn(t) /\ MintIsOwn(t) /\ TellsOfBridge(t) /\ burnTx \in [Transfers -> Burns]
      /\ bridge \in [Transfers -> BridgeCalls] /\ bridge[t] \in BridgeCalls /\ bridge[t].call \in Nat
      /\ mintedBy[t] \in Nat \cup {NotMinted} /\ NotMinted \in Int /\ deliveries \subseteq Deliveries
  BY BridgeFacts
<1>2. bridge[t].stage = "ended" /\ UNCHANGED <<burnTx, circle, deliveries, mintedBy>>
  BY DEF Recovers, BridgeAt, bridgeChains
<1>3. bridge' = [bridge EXCEPT ![t] = new]
  BY DEF Recovers
<1>4. new \in BridgeCalls /\ new.stage = "polling" /\ new.told = "nothing" /\ new.call = bridge[t].call + 1
  <2>1. bridge[t].call + 1 \in Nat
    BY <1>1
  <2> QED BY <1>1, <2>1 DEF BridgeCalls
<1> HIDE DEF new
<1>5. bridge' \in [Transfers -> BridgeCalls] /\ bridge'[t] = new /\ \A s \in Transfers \ {t} : bridge'[s] = bridge[s]
  BY <1>1, <1>3, <1>4, OneCall
<1>6. BurnIsOwn(t)' /\ TellsOfBridge(t)'
  BY <1>1, <1>2, <1>4, <1>5 DEF BurnIsOwn, TellsOfBridge
<1>7. MintIsOwn(t)'
  BY <1>1, <1>2, <1>4, <1>5 DEF MintIsOwn, Undelivered, Deliveries
<1> QED BY <1>1, <1>2, <1>5, <1>6, <1>7, OneTransferKeeps

(* Circle and its messages: the calls and who minted stay as they are.       *)
LEMMA CircleKeeps ==
    ASSUME BridgeInv, NEW t \in Transfers, CircleSigns(t) \/ Reattests(t) \/ MessageLapses(t)
    PROVE  BridgeInv'
PROOF
<1>1. BridgeTypeOK
  BY DEF BridgeInv
<1>2. UNCHANGED <<bridge, burnTx, deliveries, mintedBy>>
  BY DEF CircleSigns, Reattests, MessageLapses
<1>3. circle \in [Transfers -> Attestations]
  BY <1>1 DEF BridgeTypeOK
<1>4. PICK new \in Attestations :
          circle' = [circle EXCEPT ![t] = new] /\ (circle[t].state # "unseen" \/ burnTx[t] = "mined")
  <2>1. CASE CircleSigns(t)
    <3>1. [state |-> "signed", signed |-> 1] \in Attestations
      BY DEF Attestations
    <3> QED BY <2>1, <3>1 DEF CircleSigns
  <2>2. CASE Reattests(t)
    <3>1. [state |-> "signed", signed |-> circle[t].signed + 1] \in Attestations
      BY <1>3 DEF Attestations
    <3> QED BY <2>2, <3>1 DEF Reattests
  <2>3. CASE MessageLapses(t)
    <3>1. [circle[t] EXCEPT !.state = "lapsed"] \in Attestations
      BY <1>3 DEF Attestations
    <3> QED BY <2>3, <3>1 DEF MessageLapses
  <2> QED BY <2>1, <2>2, <2>3
<1>5. BridgeTypeOK'
  BY <1>1, <1>2, <1>4 DEF BridgeTypeOK
<1>6. ASSUME NEW s \in Transfers PROVE BurnIsOwn(s)' /\ MintIsOwn(s)' /\ TellsOfBridge(s)'
  <2>1. BurnIsOwn(s) /\ MintIsOwn(s) /\ TellsOfBridge(s)
    BY DEF BridgeInv
  <2>2. circle'[s].state # "unseen" => circle[s].state # "unseen" \/ burnTx[s] = "mined"
    BY <1>3, <1>4
  <2>3. BurnIsOwn(s)'
    BY <1>2, <2>1, <2>2 DEF BurnIsOwn
  <2>4. MintIsOwn(s)' /\ TellsOfBridge(s)'
    BY <1>2, <2>1 DEF MintIsOwn, Undelivered, TellsOfBridge
  <2> QED BY <2>3, <2>4
<1> QED BY <1>5, <1>6 DEF BridgeInv

(* So does delivering the message.                                           *)
LEMMA DeliversKeeps == ASSUME BridgeInv, NEW t \in Transfers, Delivers(t) PROVE BridgeInv'
PROOF
<1>1. /\ BurnIsOwn(t) /\ MintIsOwn(t) /\ TellsOfBridge(t) /\ burnTx \in [Transfers -> Burns]
      /\ bridge \in [Transfers -> BridgeCalls] /\ bridge[t] \in BridgeCalls /\ bridge[t].call \in Nat
      /\ deliveries \subseteq Deliveries /\ mintedBy[t] \in Nat \cup {NotMinted} /\ NotMinted \in Int
  BY BridgeFacts
<1>2. bridge[t].stage = "delivering" /\ UNCHANGED <<burnTx, circle, mintedBy>>
  BY DEF Delivers, BridgeAt
<1>3. CASE ~WouldMint(Delivery(t))
  BY <1>2, <1>3, TellingKeeps DEF Delivers
<1>4. CASE WouldMint(Delivery(t))
  <2>1. /\ bridge' \in [Transfers -> BridgeCalls]
        /\ bridge'[t].stage = "minting" /\ bridge'[t].told = bridge[t].told /\ bridge'[t].call = bridge[t].call
        /\ \A s \in Transfers \ {t} : bridge'[s] = bridge[s]
    BY <1>1, <1>4, CallGoesTo DEF Delivers
  <2>2. deliveries' = deliveries \cup {Delivery(t)}
    BY <1>4 DEF Delivers
  <2>3. Delivery(t) \in Deliveries /\ Delivery(t).transfer = t /\ Delivery(t).call = bridge[t].call
    BY <1>1 DEF Delivery, Deliveries, BridgeCalls
  <2>4. BridgeTypeOK'
    BY <1>1, <1>2, <2>1, <2>2, <2>3 DEF BridgeInv, BridgeTypeOK
  <2>5. BurnIsOwn(t)' /\ TellsOfBridge(t)'
    BY <1>1, <1>2, <2>1 DEF BurnIsOwn, TellsOfBridge
  <2>6. MintIsOwn(t)'
    BY <1>1, <1>2, <2>1, <2>2, <2>3 DEF MintIsOwn, Undelivered, Deliveries
  <2>7. ASSUME NEW s \in Transfers, s # t PROVE BurnIsOwn(s)' /\ MintIsOwn(s)' /\ TellsOfBridge(s)'
    <3>1. BurnIsOwn(s) /\ MintIsOwn(s) /\ TellsOfBridge(s)
      BY DEF BridgeInv
    <3>2. bridge'[s] = bridge[s]
      BY <2>1, <2>7
    <3>3. BurnIsOwn(s)' /\ TellsOfBridge(s)'
      BY <1>2, <3>1, <3>2 DEF BurnIsOwn, TellsOfBridge
    <3>4. MintIsOwn(s)'
      BY <1>2, <2>2, <2>3, <2>7, <3>1, <3>2 DEF MintIsOwn, Undelivered
    <3> QED BY <3>3, <3>4
  <2> QED BY <2>4, <2>5, <2>6, <2>7 DEF BridgeInv
<1> QED BY <1>3, <1>4

(* A transfer is minted once; nothing that was told becomes wrong by it.     *)
LEMMA MintingKeeps ==
    ASSUME BridgeInv, UNCHANGED <<bridge, burnTx, circle>>, deliveries' \subseteq deliveries,
           NEW t \in Transfers, NEW by \in Nat, mintedBy[t] = NotMinted, mintedBy' = [mintedBy EXCEPT ![t] = by],
           by <= bridge[t].call, Undelivered(t) => by < bridge[t].call
    PROVE  BridgeInv'
PROOF
<1>1. /\ mintedBy \in [Transfers -> Nat \cup {NotMinted}] /\ MintIsOwn(t) /\ TellsOfBridge(t) /\ BurnIsOwn(t)
      /\ bridge[t].call \in Nat
  BY BridgeFacts
<1>2. mintedBy'[t] = by /\ \A s \in Transfers \ {t} : mintedBy'[s] = mintedBy[s]
  BY <1>1
<1>3. BridgeTypeOK'
  BY DEF BridgeInv, BridgeTypeOK
<1>4. BurnIsOwn(t)'
  BY <1>1 DEF BurnIsOwn
<1>5. MintIsOwn(t)'
  BY <1>1, <1>2 DEF MintIsOwn, Undelivered
<1>6. TellsOfBridge(t)'
  BY <1>1, <1>2 DEF TellsOfBridge, NotMinted
<1>7. ASSUME NEW s \in Transfers, s # t PROVE BurnIsOwn(s)' /\ MintIsOwn(s)' /\ TellsOfBridge(s)'
  BY <1>2, <1>7 DEF BridgeInv, BurnIsOwn, MintIsOwn, TellsOfBridge, Undelivered
<1> QED BY <1>3, <1>4, <1>5, <1>6, <1>7 DEF BridgeInv

(* So does the mint, whoever delivered.                                      *)
LEMMA MintsKeep ==
    ASSUME BridgeInv, NEW t \in Transfers,
           RelayerDelivers(t) \/ \E d \in deliveries : d.transfer = t /\ DeliveryMines(d)
    PROVE  BridgeInv'
PROOF
<1>1. /\ BurnIsOwn(t) /\ MintIsOwn(t) /\ deliveries \subseteq Deliveries /\ bridge[t].call \in Nat
  BY BridgeFacts
<1>2. CASE RelayerDelivers(t)
  <2>1. /\ mintedBy[t] = NotMinted /\ mintedBy' = [mintedBy EXCEPT ![t] = ByRelayer] /\ ByRelayer = 0
        /\ UNCHANGED <<bridge, burnTx, circle, deliveries>> /\ circle[t].state = "signed"
    BY <1>2 DEF RelayerDelivers, ByRelayer
  <2>2. bridge[t].call > 0
    BY <1>1, <2>1 DEF BurnIsOwn
  <2>3. /\ ByRelayer \in Nat /\ ByRelayer <= bridge[t].call /\ ByRelayer < bridge[t].call
        /\ deliveries' \subseteq deliveries
    BY <1>1, <2>1, <2>2
  <2> QED BY <2>1, <2>3, MintingKeeps
<1>3. CASE \E d \in deliveries : d.transfer = t /\ DeliveryMines(d)
  <2>1. PICK d \in deliveries : d.transfer = t /\ DeliveryMines(d)
    BY <1>3
  <2>2. /\ UNCHANGED <<bridge, burnTx, circle>> /\ deliveries' \subseteq deliveries
        /\ d.call \in Nat /\ d.call <= bridge[t].call /\ (Undelivered(t) => d.call < bridge[t].call)
    BY <1>1, <2>1 DEF DeliveryMines, MintIsOwn, Deliveries
  <2>3. CASE WouldMint(d)
    BY <2>1, <2>2, <2>3, MintingKeeps DEF DeliveryMines, WouldMint
  <2>4. CASE ~WouldMint(d)
    <3>1. UNCHANGED mintedBy
      BY <2>1, <2>4 DEF DeliveryMines
    <3>2. BridgeTypeOK'
      BY <2>2, <3>1 DEF BridgeInv, BridgeTypeOK
    <3>3. ASSUME NEW s \in Transfers PROVE BurnIsOwn(s)' /\ MintIsOwn(s)' /\ TellsOfBridge(s)'
      <4>1. BurnIsOwn(s) /\ MintIsOwn(s) /\ TellsOfBridge(s)
        BY DEF BridgeInv
      <4>2. BurnIsOwn(s)' /\ TellsOfBridge(s)'
        BY <2>2, <3>1, <4>1 DEF BurnIsOwn, TellsOfBridge
      <4>3. MintIsOwn(s)'
        BY <2>2, <3>1, <4>1 DEF MintIsOwn, Undelivered
      <4> QED BY <4>2, <4>3
    <3> QED BY <3>2, <3>3 DEF BridgeInv
  <2> QED BY <2>3, <2>4
<1> QED BY <1>2, <1>3

(* Every step of a call, a chain or Circle keeps it.                         *)
LEMMA BridgeInvStep == ASSUME BridgeInv, [BridgeNext]_bridgeVars PROVE BridgeInv'
PROOF
<1>1. ASSUME UNCHANGED <<bridge, burnTx, circle, deliveries, mintedBy>> PROVE BridgeInv'
  BY <1>1 DEF BridgeInv, BridgeTypeOK, BurnIsOwn, MintIsOwn, TellsOfBridge, Undelivered
<1>2. ASSUME NEW t \in Transfers, ApprovalMines(t) PROVE BridgeInv'
  BY <1>1, <1>2 DEF ApprovalMines
<1>3. ASSUME NEW t \in Transfers, BridgeStep(t) PROVE BridgeInv'
  BY <1>3, SourceKeeps, SendsBurnKeeps, PollFindsKeeps, DeliversKeeps, RecoversKeeps DEF BridgeStep
<1>4. ASSUME NEW t \in Transfers, OutsideStep(t) PROVE BridgeInv'
  BY <1>2, <1>4, BurnMinesKeeps, MintsKeep, CircleKeeps DEF OutsideStep
<1>5. CASE UNCHANGED bridgeVars
  BY <1>1, <1>5 DEF bridgeVars
<1> QED BY <1>3, <1>4, <1>5, StartsKeeps, SourceKeeps, CircleKeeps, MintsKeep DEF BridgeNext

(* What a bridging call says is so, however deliveries race and waits fail,  *)
(* for any number of transfers, amounts, lapses and mishaps.                 *)
THEOREM BridgeTellsTheTruth == BridgeSpec => []BridgeReportsAreTrue
<1>1. BridgeInv /\ [BridgeNext]_bridgeVars => BridgeInv'
  BY BridgeInvStep
<1>2. BridgeInv => BridgeReportsAreTrue
  BY DEF BridgeInv, TellsOfBridge, BridgeReportsAreTrue
<1> QED BY <1>1, <1>2, BridgeInvInit, PTL DEF BridgeSpec

-----------------------------------------------------------------------------
(* The CLI's login and register (Cli).                                       *)
Addresses == Logins \cup {NoKeystore, Stranger}
ToldOf == {"nothing", "unregistered", "rejected", "registered", "reverted", "unconfirmed"}
Registrations ==
    [stage : {"none", "simulating", "confirming", "sending", "waiting", "ended"}, owner : Addresses,
     predicted : Nat, id : Nat, told : ToldOf]
Transactions == [fate : {"none", "pending", "success", "reverted"}, signer : Addresses]
CliTypeOK ==
    /\ keystore \in Addresses
    /\ register \in [Registers -> Registrations]
    /\ registerTx \in [Registers -> Transactions]
    /\ agents \in Seq([owner : Addresses, by : Registers \cup {Stranger}])

(* A command's transaction is sent by the command only, signed by the owner  *)
(* it showed, and mints once if it succeeds.                                 *)
SentOnce(r) ==
    /\ register[r].stage \in {"none", "simulating", "confirming", "sending"} => registerTx[r].fate = "none"
    /\ register[r].stage \in {"sending", "waiting"} => registerTx[r].signer = register[r].owner
    /\ register[r].told # "nothing" => register[r].stage = "ended"
    /\ registerTx[r].fate # "none" => registerTx[r].signer = register[r].owner
MintsOnce(r) ==
    /\ registerTx[r].fate = "success" <=> \E i \in DOMAIN agents : agents[i].by = r
    /\ \A i, k \in DOMAIN agents : agents[i].by = r /\ agents[k].by = r => i = k
    /\ \A i \in DOMAIN agents : agents[i].by = r => agents[i].owner = register[r].owner
TellsTrue(r) ==
    /\ register[r].told = "registered" =>
          \E i \in DOMAIN agents :
              register[r].id = i /\ agents[i].owner = register[r].owner /\ agents[i].by = r
    /\ register[r].told \in {"unregistered", "reverted"} => registerTx[r].fate \in {"none", "reverted"}
CliInv == CliTypeOK /\ \A r \in Registers : SentOnce(r) /\ MintsOnce(r) /\ TellsTrue(r)

(* The invariant is stronger than what is promised.                          *)
LEMMA CliInvHolds == CliInv => RegistrationsAreTrue
PROOF
<1> SUFFICES ASSUME CliInv, NEW r \in Registers
             PROVE  /\ register[r].told = "registered" =>
                          agents[register[r].id] = [owner |-> register[r].owner, by |-> r]
                    /\ register[r].told \in {"unregistered", "reverted"} => \A i \in DOMAIN agents : agents[i].by # r
                    /\ \A i \in DOMAIN agents : agents[i].by = r => agents[i].owner = register[r].owner
  BY DEF RegistrationsAreTrue
<1>1. CliTypeOK /\ MintsOnce(r) /\ TellsTrue(r)
  BY DEF CliInv
<1>2. ASSUME register[r].told = "registered"
      PROVE  agents[register[r].id] = [owner |-> register[r].owner, by |-> r]
  <2>1. PICK i \in DOMAIN agents :
            register[r].id = i /\ agents[i].owner = register[r].owner /\ agents[i].by = r
    BY <1>1, <1>2 DEF TellsTrue
  <2>2. agents[i] \in [owner : Addresses, by : Registers \cup {Stranger}]
    <3>1. agents \in Seq([owner : Addresses, by : Registers \cup {Stranger}])
      BY <1>1 DEF CliTypeOK
    <3> QED BY <2>1, <3>1, ElementOfSeq, LenProperties
  <2> QED BY <2>1, <2>2
<1> QED BY <1>1, <1>2 DEF MintsOnce, TellsTrue

(* With no command given the invariant holds.                                *)
LEMMA CliInvInit == CliInit => CliInv
BY CliAssumption DEF CliInit, CliInv, CliTypeOK, Registrations, ToldOf, Transactions, Addresses,
   SentOnce, MintsOnce, TellsTrue

(* A command ends by what it tells, or changes its own record.               *)
LEMMA OneRecord ==
    ASSUME register \in [Registers -> Registrations], NEW r \in Registers,
           NEW new \in Registrations, register' = [register EXCEPT ![r] = new]
    PROVE  /\ register' \in [Registers -> Registrations] /\ register'[r] = new
           /\ \A s \in Registers \ {r} : register'[s] = register[s]
OBVIOUS

(* What telling the user does to the commands, written out.                  *)
LEMMA CommandTells ==
    ASSUME register \in [Registers -> Registrations], NEW r \in Registers,
           NEW told \in ToldOf, RegisterTold(r, told)
    PROVE  /\ register' \in [Registers -> Registrations]
           /\ \A s \in Registers \ {r} : register'[s] = register[s]
           /\ register'[r].stage = "ended" /\ register'[r].told = told /\ register'[r].owner = register[r].owner
PROOF
<1> DEFINE new == [register[r] EXCEPT !.stage = "ended", !.told = told]
<1>1. register' = [register EXCEPT ![r] = new]
  BY DEF RegisterTold
<1>2. new \in Registrations /\ new.stage = "ended" /\ new.told = told /\ new.owner = register[r].owner
  BY DEF Registrations
<1> HIDE DEF new
<1> QED BY <1>1, <1>2, OneRecord

(* The registry is left alone and one command moves without its transaction. *)
LEMMA CommandMoves ==
    ASSUME CliInv, NEW r \in Registers, UNCHANGED <<registerTx, agents>>, keystore' \in Addresses,
           register' \in [Registers -> Registrations],
           \A s \in Registers \ {r} : register'[s] = register[s],
           SentOnce(r)', TellsTrue(r)',
           registerTx[r].fate = "success" => register'[r].owner = register[r].owner
    PROVE  CliInv'
PROOF
<1>1. CliTypeOK'
  BY DEF CliInv, CliTypeOK
<1>2. ASSUME NEW s \in Registers, s # r PROVE SentOnce(s)' /\ MintsOnce(s)' /\ TellsTrue(s)'
  <2>1. register'[s] = register[s] /\ registerTx'[s] = registerTx[s] /\ agents' = agents
    BY <1>2
  <2>2. SentOnce(s) /\ MintsOnce(s) /\ TellsTrue(s)
    BY DEF CliInv
  <2>3. SentOnce(s)'
    BY <2>1, <2>2 DEF SentOnce
  <2>4. MintsOnce(s)'
    BY <2>1, <2>2 DEF MintsOnce
  <2>5. TellsTrue(s)'
    BY <2>1, <2>2 DEF TellsTrue
  <2> QED BY <2>3, <2>4, <2>5
<1>3. MintsOnce(r)'
  BY DEF CliInv, MintsOnce
<1> QED BY <1>1, <1>2, <1>3 DEF CliInv

(* The steps of register that send nothing keep the invariant.               *)
LEMMA RegisterKeeps ==
    ASSUME CliInv, NEW r \in Registers,
           TakesAddress(r) \/ Simulates(r) \/ StopsShort(r) \/ WaitRunsOut(r)
    PROVE  CliInv'
PROOF
<1>0. CliTypeOK /\ SentOnce(r) /\ MintsOnce(r) /\ TellsTrue(r)
  BY DEF CliInv
<1>1. UNCHANGED <<keystore, registerTx, agents>> /\ keystore' \in Addresses
  BY <1>0 DEF TakesAddress, Simulates, StopsShort, WaitRunsOut, CliTypeOK
<1>5. register \in [Registers -> Registrations] /\ {"unregistered", "unconfirmed"} \subseteq ToldOf
  BY <1>0 DEF CliTypeOK, ToldOf
<1>2. CASE \/ TakesAddress(r) /\ keystore = NoKeystore
           \/ StopsShort(r) \/ WaitRunsOut(r)
  <2>1. PICK told \in {"unregistered", "unconfirmed"} :
            RegisterTold(r, told) /\ (told = "unconfirmed" \/ registerTx[r].fate = "none")
    BY <1>0, <1>2 DEF TakesAddress, StopsShort, WaitRunsOut, RegisterAt, SentOnce
  <2>2. /\ register' \in [Registers -> Registrations]
        /\ \A s \in Registers \ {r} : register'[s] = register[s]
        /\ register'[r].stage = "ended" /\ register'[r].told = told /\ register'[r].owner = register[r].owner
    BY <1>5, <2>1, CommandTells
  <2>3. SentOnce(r)' /\ TellsTrue(r)'
    BY <1>0, <1>1, <2>1, <2>2 DEF SentOnce, TellsTrue
  <2> QED BY <1>1, <2>2, <2>3, CommandMoves
<1>3. CASE TakesAddress(r) /\ keystore # NoKeystore
  <2> DEFINE new == [register[r] EXCEPT !.stage = "simulating", !.owner = keystore]
  <2>1. register' = [register EXCEPT ![r] = new]
    BY <1>3 DEF TakesAddress
  <2>2. new \in Registrations /\ new.stage = "simulating" /\ new.told = register[r].told
    BY <1>0, <1>5 DEF Registrations, CliTypeOK
  <2>3. registerTx[r].fate = "none" /\ register[r].told = "nothing"
    BY <1>0, <1>3 DEF TakesAddress, RegisterAt, SentOnce
  <2> HIDE DEF new
  <2>4. /\ register' \in [Registers -> Registrations] /\ register'[r] = new
        /\ \A s \in Registers \ {r} : register'[s] = register[s]
    BY <1>5, <2>1, <2>2, OneRecord
  <2>5. SentOnce(r)' /\ TellsTrue(r)'
    BY <1>1, <2>2, <2>3, <2>4 DEF SentOnce, TellsTrue
  <2> QED BY <1>1, <2>3, <2>4, <2>5, CommandMoves
<1>4. CASE Simulates(r)
  <2> DEFINE new == [register[r] EXCEPT !.stage = "confirming", !.predicted = Len(agents) + 1]
  <2>1. register' = [register EXCEPT ![r] = new]
    BY <1>4 DEF Simulates
  <2>2. Len(agents) + 1 \in Nat
    BY <1>0 DEF CliTypeOK
  <2>3. new \in Registrations /\ new.stage = "confirming" /\ new.told = register[r].told /\ new.owner = register[r].owner
    BY <1>5, <2>2 DEF Registrations
  <2>4. registerTx[r].fate = "none" /\ register[r].told = "nothing"
    BY <1>0, <1>4 DEF Simulates, RegisterAt, SentOnce
  <2> HIDE DEF new
  <2>5. /\ register' \in [Registers -> Registrations] /\ register'[r] = new
        /\ \A s \in Registers \ {r} : register'[s] = register[s]
    BY <1>5, <2>1, <2>3, OneRecord
  <2>6. SentOnce(r)' /\ TellsTrue(r)'
    BY <1>1, <2>3, <2>4, <2>5 DEF SentOnce, TellsTrue
  <2> QED BY <1>1, <2>4, <2>5, <2>6, CommandMoves
<1> QED BY <1>2, <1>3, <1>4

(* So does unlocking the keystore.                                           *)
LEMMA UnlocksKeeps == ASSUME CliInv, NEW r \in Registers, Unlocks(r) PROVE CliInv'
PROOF
<1>1. /\ CliTypeOK /\ SentOnce(r) /\ MintsOnce(r) /\ TellsTrue(r)
      /\ register[r].stage = "confirming" /\ registerTx[r].fate = "none" /\ register[r].told = "nothing"
      /\ UNCHANGED <<keystore, agents>>
  BY DEF CliInv, Unlocks, RegisterAt, SentOnce
<1>2. register \in [Registers -> Registrations] /\ registerTx \in [Registers -> Transactions] /\ keystore \in Addresses
  BY <1>1 DEF CliTypeOK
<1>3. CASE ~SignerIsOwner(r)
  <2>1. RegisterTold(r, "unregistered") /\ "unregistered" \in ToldOf /\ UNCHANGED registerTx
    BY <1>3 DEF Unlocks, ToldOf
  <2>2. /\ register' \in [Registers -> Registrations]
        /\ \A s \in Registers \ {r} : register'[s] = register[s]
        /\ register'[r].stage = "ended" /\ register'[r].told = "unregistered" /\ register'[r].owner = register[r].owner
    BY <1>2, <2>1, CommandTells
  <2>3. SentOnce(r)' /\ TellsTrue(r)'
    BY <1>1, <2>1, <2>2 DEF SentOnce, TellsTrue
  <2> QED BY <1>1, <1>2, <2>1, <2>2, <2>3, CommandMoves
<1>4. CASE SignerIsOwner(r)
  <2> DEFINE new == [register[r] EXCEPT !.stage = "sending"]
             tx == [registerTx[r] EXCEPT !.signer = keystore]
  <2>1. register' = [register EXCEPT ![r] = new] /\ registerTx' = [registerTx EXCEPT ![r] = tx]
    BY <1>4 DEF Unlocks
  <2>2. new \in Registrations /\ new.stage = "sending" /\ new.told = "nothing" /\ new.owner = register[r].owner
    BY <1>1, <1>2 DEF Registrations
  <2>3. tx \in Transactions /\ tx.fate = "none" /\ tx.signer = register[r].owner
    BY <1>1, <1>2, <1>4 DEF Transactions, SignerIsOwner
  <2> HIDE DEF new, tx
  <2>4. /\ register' \in [Registers -> Registrations] /\ register'[r] = new
        /\ \A s \in Registers \ {r} : register'[s] = register[s]
    BY <1>2, <2>1, <2>2, OneRecord
  <2>5. /\ registerTx' \in [Registers -> Transactions] /\ registerTx'[r] = tx
        /\ \A s \in Registers \ {r} : registerTx'[s] = registerTx[s]
    BY <1>2, <2>1, <2>3
  <2>6. CliTypeOK' /\ SentOnce(r)' /\ MintsOnce(r)' /\ TellsTrue(r)'
    BY <1>1, <1>2, <2>2, <2>3, <2>4, <2>5 DEF CliTypeOK, SentOnce, MintsOnce, TellsTrue
  <2>7. ASSUME NEW s \in Registers, s # r PROVE SentOnce(s)' /\ MintsOnce(s)' /\ TellsTrue(s)'
    BY <1>1, <2>4, <2>5, <2>7 DEF CliInv, SentOnce, MintsOnce, TellsTrue
  <2> QED BY <2>6, <2>7 DEF CliInv
<1> QED BY <1>3, <1>4

(* So does sending the transaction, heard of or not.                         *)
LEMMA SendsKeeps ==
    ASSUME CliInv, NEW r \in Registers, NEW taken \in BOOLEAN, NEW answered \in BOOLEAN,
           SendsRegister(r, taken, answered)
    PROVE  CliInv'
PROOF
<1>1. /\ CliTypeOK /\ SentOnce(r) /\ MintsOnce(r) /\ TellsTrue(r) /\ UNCHANGED <<keystore, agents>>
      /\ register[r].stage = "sending" /\ register[r].told = "nothing"
      /\ registerTx[r].fate = "none" /\ registerTx[r].signer = register[r].owner
  BY DEF CliInv, SendsRegister, RegisterAt, SentOnce
<1>2. register \in [Registers -> Registrations] /\ registerTx \in [Registers -> Transactions]
  BY <1>1 DEF CliTypeOK
<1>3. /\ registerTx' \in [Registers -> Transactions]
      /\ registerTx'[r].fate \in {"none", "pending"} /\ registerTx'[r].signer = register[r].owner
      /\ \A s \in Registers \ {r} : registerTx'[s] = registerTx[s]
  BY <1>1, <1>2 DEF SendsRegister, Transactions
<1>4. /\ register' \in [Registers -> Registrations] /\ register'[r].owner = register[r].owner
      /\ \/ register'[r].stage = "waiting" /\ register'[r].told = "nothing"
         \/ register'[r].stage = "ended" /\ register'[r].told = "rejected"
      /\ \A s \in Registers \ {r} : register'[s] = register[s]
  <2>1. CASE answered
    <3> DEFINE new == [register[r] EXCEPT !.stage = "waiting"]
    <3>1. register' = [register EXCEPT ![r] = new]
      BY <2>1 DEF SendsRegister
    <3>2. new \in Registrations /\ new.stage = "waiting" /\ new.told = "nothing" /\ new.owner = register[r].owner
      BY <1>1, <1>2 DEF Registrations
    <3> HIDE DEF new
    <3> QED BY <1>2, <3>1, <3>2, OneRecord
  <2>2. CASE ~answered
    <3>1. RegisterTold(r, "rejected") /\ "rejected" \in ToldOf
      BY <2>2 DEF SendsRegister, ToldOf
    <3> QED BY <1>2, <3>1, CommandTells
  <2> QED BY <2>1, <2>2
<1>5. CliTypeOK' /\ SentOnce(r)' /\ MintsOnce(r)' /\ TellsTrue(r)'
  BY <1>1, <1>3, <1>4 DEF CliTypeOK, SentOnce, MintsOnce, TellsTrue
<1>6. ASSUME NEW s \in Registers, s # r PROVE SentOnce(s)' /\ MintsOnce(s)' /\ TellsTrue(s)'
  BY <1>1, <1>3, <1>4, <1>6 DEF CliInv, SentOnce, MintsOnce, TellsTrue
<1> QED BY <1>5, <1>6 DEF CliInv

(* The registry grows by one agent at its end.                               *)
LEMMA RegistryGrows ==
    ASSUME CliTypeOK, NEW a \in [owner : Addresses, by : Registers \cup {Stranger}], agents' = Append(agents, a)
    PROVE  /\ agents' \in Seq([owner : Addresses, by : Registers \cup {Stranger}])
           /\ Len(agents) \in Nat /\ DOMAIN agents = 1 .. Len(agents) /\ DOMAIN agents' = 1 .. Len(agents) + 1
           /\ \A i \in DOMAIN agents : agents'[i] = agents[i]
           /\ agents'[Len(agents) + 1] = a
BY DEF CliTypeOK

(* So does the transaction when it is mined.                                 *)
LEMMA MinesKeeps ==
    ASSUME CliInv, NEW r \in Registers, NEW passes \in BOOLEAN, TxMines(r, passes)
    PROVE  CliInv'
PROOF
<1> DEFINE a == [owner |-> registerTx[r].signer, by |-> r]
<1>0. /\ CliTypeOK /\ SentOnce(r) /\ MintsOnce(r) /\ TellsTrue(r) /\ registerTx[r].fate = "pending"
      /\ UNCHANGED <<keystore, register>>
  BY DEF CliInv, TxMines
<1>1. a \in [owner : Addresses, by : Registers \cup {Stranger}] /\ a.by = r /\ a.owner = register[r].owner
  BY <1>0 DEF CliTypeOK, SentOnce, Transactions
<1>2. /\ registerTx' \in [Registers -> Transactions]
      /\ registerTx'[r].signer = registerTx[r].signer
      /\ registerTx'[r].fate = IF passes THEN "success" ELSE "reverted"
      /\ \A s \in Registers \ {r} : registerTx'[s] = registerTx[s]
  BY <1>0 DEF TxMines, CliTypeOK, Transactions
<1>3. agents' = IF passes THEN Append(agents, a) ELSE agents
  BY DEF TxMines
<1> HIDE DEF a
<1>4. SentOnce(r)' /\ TellsTrue(r)'
  <2>1. register[r].told \notin {"registered", "unregistered", "reverted"}
    BY <1>0 DEF MintsOnce, TellsTrue, CliTypeOK
  <2> QED BY <1>0, <1>2, <2>1 DEF SentOnce, TellsTrue
<1>5. CASE ~passes
  <2>1. CliTypeOK' /\ MintsOnce(r)'
    BY <1>0, <1>2, <1>3, <1>5 DEF CliTypeOK, MintsOnce
  <2>2. ASSUME NEW s \in Registers, s # r PROVE SentOnce(s)' /\ MintsOnce(s)' /\ TellsTrue(s)'
    BY <1>0, <1>2, <1>3, <1>5, <2>2 DEF CliInv, SentOnce, MintsOnce, TellsTrue
  <2> QED BY <1>4, <2>1, <2>2 DEF CliInv
<1>6. CASE passes
  <2>0. agents' = Append(agents, a)
    BY <1>3, <1>6
  <2>1. /\ agents' \in Seq([owner : Addresses, by : Registers \cup {Stranger}])
        /\ Len(agents) \in Nat /\ DOMAIN agents = 1 .. Len(agents) /\ DOMAIN agents' = 1 .. Len(agents) + 1
        /\ \A i \in DOMAIN agents : agents'[i] = agents[i]
        /\ agents'[Len(agents) + 1] = a
    BY <1>0, <1>1, <2>0, RegistryGrows
  <2>2. CliTypeOK'
    BY <1>0, <1>2, <2>1 DEF CliTypeOK
  <2>3. MintsOnce(r)'
    <3>1. \A i \in DOMAIN agents : agents[i].by # r
      BY <1>0 DEF MintsOnce
    <3> QED BY <1>0, <1>1, <1>2, <1>6, <2>1, <3>1 DEF MintsOnce
  <2>4. ASSUME NEW s \in Registers, s # r PROVE SentOnce(s)' /\ MintsOnce(s)' /\ TellsTrue(s)'
    <3>1. SentOnce(s) /\ MintsOnce(s) /\ TellsTrue(s)
      BY DEF CliInv
    <3>2. SentOnce(s)' /\ TellsTrue(s)'
      BY <1>0, <1>2, <2>1, <2>4, <3>1 DEF SentOnce, TellsTrue
    <3>3. registerTx'[s] = registerTx[s] /\ register'[s] = register[s]
      BY <1>0, <1>2, <2>4
    <3>4. \A i \in DOMAIN agents' : agents'[i].by = s => i \in DOMAIN agents /\ agents'[i] = agents[i]
      BY <1>1, <2>1, <2>4
    <3>5. \A i \in DOMAIN agents : i \in DOMAIN agents' /\ agents'[i] = agents[i]
      BY <2>1
    <3>6. MintsOnce(s)'
      BY <3>1, <3>3, <3>4, <3>5 DEF MintsOnce
    <3> QED BY <3>2, <3>6
  <2> QED BY <1>4, <2>2, <2>3, <2>4 DEF CliInv
<1> QED BY <1>5, <1>6

(* So does a stranger that registers.                                        *)
LEMMA StrangerKeeps == ASSUME CliInv, StrangerRegisters PROVE CliInv'
PROOF
<1> DEFINE a == [owner |-> Stranger, by |-> Stranger]
<1>0. CliTypeOK /\ UNCHANGED <<keystore, register, registerTx>> /\ agents' = Append(agents, a)
  BY DEF CliInv, StrangerRegisters
<1>1. a \in [owner : Addresses, by : Registers \cup {Stranger}] /\ a.by \notin Registers
  BY CliAssumption DEF Addresses
<1> HIDE DEF a
<1>2. /\ agents' \in Seq([owner : Addresses, by : Registers \cup {Stranger}])
      /\ Len(agents) \in Nat /\ DOMAIN agents = 1 .. Len(agents) /\ DOMAIN agents' = 1 .. Len(agents) + 1
      /\ \A i \in DOMAIN agents : agents'[i] = agents[i]
      /\ agents'[Len(agents) + 1] = a
  BY <1>0, <1>1, RegistryGrows
<1>3. CliTypeOK'
  BY <1>0, <1>2 DEF CliTypeOK
<1>4. ASSUME NEW s \in Registers PROVE SentOnce(s)' /\ MintsOnce(s)' /\ TellsTrue(s)'
  <2>1. SentOnce(s) /\ MintsOnce(s) /\ TellsTrue(s)
    BY DEF CliInv
  <2>2. SentOnce(s)' /\ TellsTrue(s)'
    BY <1>0, <1>2, <2>1 DEF SentOnce, TellsTrue
  <2>3. MintsOnce(s)'
    BY <1>0, <1>1, <1>2, <2>1 DEF MintsOnce
  <2> QED BY <2>2, <2>3
<1> QED BY <1>3, <1>4 DEF CliInv

(* A receipt of a success shows exactly one id minted to the owner.          *)
LEMMA ReceiptKeeps == ASSUME CliInv, NEW r \in Registers, ReadsReceipt(r) PROVE CliInv'
PROOF
<1>0. /\ CliTypeOK /\ SentOnce(r) /\ MintsOnce(r) /\ TellsTrue(r) /\ register[r].stage = "waiting"
      /\ registerTx[r].fate \in {"success", "reverted"} /\ UNCHANGED <<keystore, registerTx, agents>>
  BY DEF CliInv, ReadsReceipt, RegisterAt
<1>1. CASE registerTx[r].fate = "reverted"
  <2>0. register \in [Registers -> Registrations]
    BY <1>0 DEF CliTypeOK
  <2>1. RegisterTold(r, "reverted") /\ "reverted" \in ToldOf
    BY <1>1 DEF ReadsReceipt, ToldOf
  <2>2. /\ register' \in [Registers -> Registrations]
        /\ \A s \in Registers \ {r} : register'[s] = register[s]
        /\ register'[r].stage = "ended" /\ register'[r].told = "reverted" /\ register'[r].owner = register[r].owner
    BY <2>0, <2>1, CommandTells
  <2>3. SentOnce(r)' /\ TellsTrue(r)'
    BY <1>0, <1>1, <2>2 DEF SentOnce, TellsTrue
  <2>4. keystore' \in Addresses
    BY <1>0 DEF CliTypeOK
  <2> QED BY <1>0, <2>2, <2>3, <2>4, CommandMoves
<1>2. CASE registerTx[r].fate = "success"
  <2>1. PICK i \in DOMAIN agents : agents[i].by = r
    BY <1>0, <1>2 DEF MintsOnce
  <2>2. MintsOf(r) = {i}
    BY <1>0, <2>1 DEF MintsOf, MintsOnce
  <2>3. Cardinality(MintsOf(r)) = 1
    BY <2>2, FS_Singleton
  <2>4. PICK k \in MintsOf(r) :
            register' = [register EXCEPT ![r].stage = "ended", ![r].told = "registered", ![r].id = k]
    BY <1>2, <2>3 DEF ReadsReceipt
  <2>5. k \in Nat /\ k \in DOMAIN agents /\ agents[k].owner = register[r].owner /\ agents[k].by = r
    BY <1>0, <2>4 DEF MintsOf, CliTypeOK
  <2>6. /\ register' \in [Registers -> Registrations]
        /\ \A s \in Registers \ {r} : register'[s] = register[s]
        /\ register'[r].stage = "ended" /\ register'[r].told = "registered"
        /\ register'[r].owner = register[r].owner /\ register'[r].id = k
    <3>1. register \in [Registers -> Registrations]
      BY <1>0 DEF CliTypeOK
    <3>2. register' = [register EXCEPT ![r] = [register[r] EXCEPT !.stage = "ended", !.told = "registered", !.id = k]]
      BY <2>4
    <3>3. [register[r] EXCEPT !.stage = "ended", !.told = "registered", !.id = k] \in Registrations
      BY <2>5, <3>1 DEF Registrations, ToldOf
    <3> QED BY <3>1, <3>2, <3>3 DEF Registrations
  <2>7. SentOnce(r)' /\ TellsTrue(r)'
    BY <1>0, <1>2, <2>5, <2>6 DEF SentOnce, TellsTrue
  <2>8. keystore' \in Addresses
    BY <1>0 DEF CliTypeOK
  <2> QED BY <1>0, <2>6, <2>7, <2>8, CommandMoves
<1> QED BY <1>0, <1>1, <1>2

(* Every step of a command or the chain keeps it.                            *)
LEMMA CliInvStep == ASSUME CliInv, [CliNext]_cliVars PROVE CliInv'
PROOF
<1>1. ASSUME UNCHANGED <<register, registerTx, agents>>, keystore' \in Addresses PROVE CliInv'
  BY <1>1 DEF CliInv, CliTypeOK, SentOnce, MintsOnce, TellsTrue
<1>2. ASSUME NEW l \in Logins, LoginSaves(l) \/ LoginIsCancelled(l) \/ \E force \in BOOLEAN : LoginLooks(l, force)
      PROVE  CliInv'
  BY <1>1, <1>2 DEF LoginSaves, LoginIsCancelled, LoginLooks, Addresses, CliInv, CliTypeOK
<1>3. ASSUME NEW o \in Logouts, LogoutLooks(o) \/ \E deletes \in BOOLEAN : LogoutEnds(o, deletes)
      PROVE  CliInv'
  BY <1>1, <1>3 DEF LogoutLooks, LogoutEnds, Addresses, CliInv, CliTypeOK
<1>4. ASSUME UNCHANGED cliVars PROVE CliInv'
  BY <1>1, <1>4 DEF cliVars, CliInv, CliTypeOK
<1> QED BY <1>2, <1>3, <1>4, RegisterKeeps, UnlocksKeeps, SendsKeeps, MinesKeeps, StrangerKeeps,
           ReceiptKeeps DEF CliNext

(* What register says is so, for all commands that share the keystore.       *)
THEOREM RegistrationsStayTrue == CliSpec => []RegistrationsAreTrue
<1>1. CliInv /\ [CliNext]_cliVars => CliInv'
  BY CliInvStep
<1> QED BY <1>1, CliInvInit, CliInvHolds, PTL DEF CliSpec

-----------------------------------------------------------------------------
(* The ceremony (Ceremony).                                                  *)
(* The chain of the first contributions, and one that goes on from it torn.  *)
UpTo(n) == [k \in 1 .. n |-> k]
TornAfter(n) == Append(UpTo(n), TornMix)
Entries == [zkey : Seq(Nat), hash : Nat, at : Nat]
MixRecords == [chain : Seq(Nat), at : Nat]
EntryCount == Len(transcript.entries)
MixCount == Len(mixes)

CeremonyTypes ==
    /\ DOMAIN transcript = {"begun", "entries", "round", "vk"}
    /\ transcript.entries \in Seq(Entries) /\ mixes \in Seq(MixRecords) /\ ceremonyNow \in Nat
    /\ finalZkey \in [chain : Seq(Nat), round : Nat]
    /\ DOMAIN shell = {"at", "index", "round"} /\ shell.index \in Nat /\ shell.round \in Nat

(* The transcript is behind the contributions by one at most, and then the   *)
(* key of that one is on disk.                                               *)
TranscriptFollows ==
    /\ EntryCount <= MixCount /\ MixCount <= EntryCount + 1
    /\ MixCount = EntryCount + 1 => MixCount \in DOMAIN zkeys
    /\ ~transcript.begun => MixCount = 0

(* A key is the chain of the contributions up to it, but for the torn one.   *)
KeysAreTheChain ==
    /\ DOMAIN zkeys \subseteq 0 .. EntryCount + 1
    /\ \A i \in DOMAIN zkeys : zkeys[i] = IF i <= MixCount THEN UpTo(i) ELSE TornAfter(i - 1)

MixesAreTheChain ==
    \A m \in 1 .. MixCount : /\ mixes[m].chain = UpTo(m) /\ mixes[m].at <= ceremonyNow
                             /\ \A k \in 1 .. m : mixes[k].at <= mixes[m].at
EntriesAreTheChain ==
    \A i \in 1 .. EntryCount : /\ transcript.entries[i].zkey = UpTo(i) /\ transcript.entries[i].hash \in {i, TornMix}
                               /\ mixes[i].at <= transcript.entries[i].at

(* Where the command that runs stands in the chain.                          *)
ShellStands ==
    /\ shell.at \in {"mixing", "mixed", "recorded"} =>
          transcript.begun /\ shell.index \in DOMAIN zkeys /\ shell.index >= 1
    /\ shell.at = "mixing" => shell.index = EntryCount + 1 /\ MixCount = EntryCount /\ EntryCount \in DOMAIN zkeys
    /\ shell.at = "mixed" => shell.index = EntryCount + 1 /\ MixCount = EntryCount + 1
    /\ shell.at = "recorded" => shell.index = EntryCount /\ MixCount = EntryCount
    /\ shell.at = "sealing" => shell.index \in DOMAIN zkeys

CeremonyInv ==
    /\ CeremonyTypes /\ TranscriptFollows /\ KeysAreTheChain /\ MixesAreTheChain /\ EntriesAreTheChain
    /\ ShellStands

-----------------------------------------------------------------------------
(* A whole key and a torn one, written out.                                  *)
LEMMA UpToIs ==
    ASSUME NEW n \in Nat
    PROVE  /\ UpTo(n) \in Seq(Nat) /\ Len(UpTo(n)) = n /\ DOMAIN UpTo(n) = 1 .. n
           /\ \A k \in 1 .. n : UpTo(n)[k] = k
           /\ Append(UpTo(n), n + 1) = UpTo(n + 1)
           /\ TornAfter(n) \in Seq(Nat) /\ Len(TornAfter(n)) = n + 1 /\ TornAfter(n)[n + 1] = TornMix
           /\ TornAfter(n) # <<>>
PROOF
<1>1. UpTo(n) \in [1 .. n -> Nat] /\ UpTo(n + 1) \in [1 .. n + 1 -> Nat]
  BY DEF UpTo
<1>2. UpTo(n) \in Seq(Nat) /\ UpTo(n + 1) \in Seq(Nat)
  BY <1>1, SeqDef
<1>3. Len(UpTo(n)) = n /\ DOMAIN UpTo(n) = 1 .. n /\ Len(UpTo(n + 1)) = n + 1
  BY <1>1, <1>2, LenProperties
<1>4. \A k \in 1 .. n : UpTo(n)[k] = k
  BY DEF UpTo
<1>5. /\ Append(UpTo(n), n + 1) \in Seq(Nat) /\ Len(Append(UpTo(n), n + 1)) = n + 1
      /\ Append(UpTo(n), n + 1)[n + 1] = n + 1
      /\ \A k \in 1 .. n : Append(UpTo(n), n + 1)[k] = UpTo(n)[k]
  BY <1>2, <1>3, AppendProperties
<1>6. \A k \in 1 .. n + 1 : Append(UpTo(n), n + 1)[k] = UpTo(n + 1)[k]
  BY <1>3, <1>4, <1>5 DEF UpTo
<1>7. Append(UpTo(n), n + 1) = UpTo(n + 1)
  BY <1>2, <1>3, <1>5, <1>6, SeqEqual
<1>8. /\ TornAfter(n) \in Seq(Nat) /\ Len(TornAfter(n)) = n + 1 /\ TornAfter(n)[n + 1] = TornMix
  BY <1>2, <1>3, AppendProperties DEF TornAfter, TornMix
<1>9. TornAfter(n) # <<>>
  BY <1>8, EmptySeq
<1> QED BY <1>2, <1>3, <1>4, <1>7, <1>8, <1>9

(* The transcript and the mixes are sequences.                               *)
LEMMA CeremonyAre ==
    ASSUME CeremonyTypes
    PROVE  /\ EntryCount \in Nat /\ MixCount \in Nat /\ DOMAIN transcript.entries = 1 .. EntryCount /\ DOMAIN mixes = 1 .. MixCount
           /\ \A i \in 1 .. EntryCount : transcript.entries[i] \in Entries
           /\ \A i \in 1 .. MixCount : mixes[i] \in MixRecords
BY LenProperties, ElementOfSeq DEF CeremonyTypes, EntryCount, MixCount

(* Before the ceremony the invariant holds.                                  *)
LEMMA CeremonyInvInit == CeremonyInit => CeremonyInv
PROOF
<1> SUFFICES ASSUME CeremonyInit PROVE CeremonyInv
  OBVIOUS
<1>1. <<>> \in Seq(Entries) /\ <<>> \in Seq(MixRecords) /\ <<>> \in Seq(Nat) /\ Len(<<>>) = 0
  BY EmptySeq
<1>2. /\ transcript.entries = <<>> /\ DOMAIN transcript = {"begun", "entries", "round", "vk"}
      /\ mixes = <<>> /\ EntryCount = 0 /\ MixCount = 0 /\ zkeys = <<>>
  BY <1>1 DEF CeremonyInit, EntryCount, MixCount
<1>3. /\ DOMAIN shell = {"at", "index", "round"} /\ shell.at = "prompt" /\ shell.index = 0 /\ shell.round = 0
      /\ finalZkey = [chain |-> <<>>, round |-> 0] /\ ceremonyNow = 0
  BY DEF CeremonyInit, AtPrompt, Command, NoFinalKey
<1>4. CeremonyTypes
  BY <1>1, <1>2, <1>3 DEF CeremonyTypes
<1>5. DOMAIN zkeys = {}
  BY <1>2
<1> QED BY <1>2, <1>3, <1>4, <1>5 DEF CeremonyInv, TranscriptFollows, KeysAreTheChain, MixesAreTheChain,
        EntriesAreTheChain, ShellStands

(* A contribution the transcript does not know is the tip of the chain.      *)
LEMMA UnrecordedIsTip == ASSUME CeremonyInv, EntryCount + 1 \in DOMAIN zkeys PROVE ChainTip = EntryCount + 1
PROOF
<1>1. EntryCount \in Nat /\ \A i \in DOMAIN zkeys : i \in Int /\ EntryCount + 1 >= i
  BY CeremonyAre DEF CeremonyInv, KeysAreTheChain
<1>2. Max(DOMAIN zkeys) \in DOMAIN zkeys /\ \A y \in DOMAIN zkeys : Max(DOMAIN zkeys) >= y
  BY <1>1 DEF Max
<1>3. Max(DOMAIN zkeys) = EntryCount + 1
  BY <1>1, <1>2
<1> QED BY <1>3 DEF ChainTip

(* When the newest key is recorded, so is every mix.                         *)
LEMMA TipRecorded ==
    ASSUME CeremonyInv, ChainTip < 0 \/ ChainTip = EntryCount
    PROVE  MixCount = EntryCount
PROOF
<1>1. EntryCount \in Nat /\ MixCount \in Nat
  BY CeremonyAre DEF CeremonyInv
<1>2. ChainTip # EntryCount + 1
  BY <1>1
<1>3. EntryCount + 1 \notin DOMAIN zkeys
  BY <1>2, UnrecordedIsTip
<1> QED BY <1>1, <1>3 DEF CeremonyInv, TranscriptFollows

(* The invariant is stronger than what is promised.                          *)
LEMMA CeremonyInvHolds == CeremonyInv => CeremonyHolds
PROOF
<1> SUFFICES ASSUME CeremonyInv PROVE CeremonyHolds
  OBVIOUS
<1>1. /\ EntryCount \in Nat /\ MixCount \in Nat /\ DOMAIN transcript.entries = 1 .. EntryCount /\ DOMAIN mixes = 1 .. MixCount
      /\ \A i \in 1 .. EntryCount : transcript.entries[i] \in Entries
      /\ \A i \in 1 .. MixCount : mixes[i] \in MixRecords
  BY CeremonyAre DEF CeremonyInv
<1>2. NoLinkIsDropped
  <2> SUFFICES ASSUME NEW m \in 1 .. MixCount
               PROVE  LET chain == mixes[m].chain  i == Len(chain) IN
                      \/ i \in DOMAIN zkeys /\ zkeys[i] = chain
                      \/ i \in DOMAIN Recorded /\ Recorded[i].zkey = chain
    BY <1>1 DEF NoLinkIsDropped
  <2>1. mixes[m].chain = UpTo(m) /\ Len(UpTo(m)) = m
    <3>1. m \in Nat
      BY <1>1
    <3>2. Len(UpTo(m)) = m
      BY <3>1, UpToIs
    <3>3. mixes[m].chain = UpTo(m)
      BY DEF CeremonyInv, MixesAreTheChain
    <3> QED BY <3>2, <3>3
  <2>2. CASE m <= EntryCount
    <3>1. m \in 1 .. EntryCount
      BY <1>1, <2>2
    <3> QED BY <1>1, <2>1, <3>1 DEF CeremonyInv, EntriesAreTheChain, Recorded
  <2>3. CASE ~(m <= EntryCount)
    <3>1. m = MixCount /\ MixCount = EntryCount + 1
      BY <1>1, <2>3 DEF CeremonyInv, TranscriptFollows
    <3>2. m \in DOMAIN zkeys /\ zkeys[m] = UpTo(m)
      BY <1>1, <3>1 DEF CeremonyInv, TranscriptFollows, KeysAreTheChain
    <3> QED BY <2>1, <3>2
  <2> QED BY <2>2, <2>3
<1>3. VerdictIsTrue
  <2> SUFFICES ASSUME VerifyChainPasses
               PROVE  /\ finalZkey.chain = [m \in DOMAIN mixes |-> m]
                      /\ \A m \in DOMAIN mixes : mixes[m].at < finalZkey.round
                      /\ ceremonyVk = finalZkey /\ repositoryVk = finalZkey
    BY DEF VerdictIsTrue
  <2>1. MixCount = EntryCount
    BY TipRecorded DEF VerifyChainPasses, KeysOnDiskAgree, Recorded, EntryCount
  <2>2. Len(finalZkey.chain) = EntryCount /\ finalZkey.chain \in Seq(Nat) /\ EntryCount >= 2
    BY DEF VerifyChainPasses, ContributionsMatch, Recorded, EntryCount, CeremonyInv, CeremonyTypes
  <2>3. \A i \in 1 .. EntryCount : finalZkey.chain[i] = i
    <3>1. ASSUME NEW i \in 1 .. EntryCount PROVE finalZkey.chain[i] = transcript.entries[i].hash
      BY <1>1 DEF VerifyChainPasses, ContributionsMatch, Recorded
    <3>2. ASSUME NEW i \in 1 .. EntryCount PROVE transcript.entries[i].hash = i
      BY <1>1 DEF VerifyChainPasses, EveryEntryRead, Recorded, CeremonyInv, EntriesAreTheChain
    <3> QED BY <3>1, <3>2
  <2>4. finalZkey.chain = [m \in 1 .. MixCount |-> m]
    <3>1. UpTo(EntryCount) \in Seq(Nat) /\ Len(UpTo(EntryCount)) = EntryCount /\ \A k \in 1 .. EntryCount : UpTo(EntryCount)[k] = k
      BY <1>1, UpToIs
    <3>2. finalZkey.chain = UpTo(EntryCount)
      BY <1>1, <2>2, <2>3, <3>1, SeqEqual
    <3> QED BY <2>1, <3>2 DEF UpTo
  <2>5. ASSUME NEW m \in 1 .. MixCount PROVE mixes[m].at < finalZkey.round
    <3>1. EntryCount \in 1 .. EntryCount /\ m \in 1 .. EntryCount /\ EntryCount = MixCount
      BY <1>1, <2>1, <2>2
    <3>2. mixes[m].at <= mixes[EntryCount].at /\ mixes[EntryCount].at <= transcript.entries[EntryCount].at
      BY <3>1 DEF CeremonyInv, MixesAreTheChain, EntriesAreTheChain
    <3>3. mixes[m].at \in Nat /\ mixes[EntryCount].at \in Nat /\ transcript.entries[EntryCount].at \in Nat
      BY <1>1, <3>1 DEF Entries, MixRecords
    <3>4. finalZkey.round > transcript.entries[EntryCount].at /\ finalZkey.round \in Nat
      BY DEF VerifyChainPasses, BeaconIsSound, LastEntry, Recorded, EntryCount, CeremonyInv, CeremonyTypes
    <3> QED BY <3>2, <3>3, <3>4
  <2>6. ceremonyVk = finalZkey /\ repositoryVk = finalZkey
    BY DEF VerifyChainPasses, VerifyingKeysMatch
  <2> QED BY <1>1, <2>4, <2>5, <2>6
<1> QED BY <1>2, <1>3 DEF CeremonyHolds

-----------------------------------------------------------------------------
(* What is kept of the invariant while the shell moves on.                   *)
ChainStands ==
    /\ CeremonyTypes /\ TranscriptFollows /\ KeysAreTheChain /\ MixesAreTheChain /\ EntriesAreTheChain

(* At the prompt no command is under way.                                    *)
LEMMA AtPromptStands == ASSUME shell.at = "prompt" PROVE ShellStands
BY DEF ShellStands

(* The shell at its prompt.                                                  *)
LEMMA PromptIs == AtPrompt.at = "prompt" /\ AtPrompt.index = 0 /\ AtPrompt.round = 0
                  /\ DOMAIN AtPrompt = {"at", "index", "round"}
BY DEF AtPrompt, Command

(* A key on disk is whole, or torn one past the last mix.                    *)
LEMMA KeysOfTheChain ==
    ASSUME CeremonyInv
    PROVE  /\ EntryCount \in Nat /\ MixCount \in Nat
           /\ \A i \in DOMAIN zkeys : i \in Nat /\ zkeys[i] \in Seq(Nat)
           /\ \A i \in DOMAIN zkeys : i <= MixCount => zkeys[i] = UpTo(i)
           /\ \A i \in DOMAIN zkeys : i > MixCount => zkeys[i] = TornAfter(i - 1) /\ i = EntryCount + 1 /\ MixCount = EntryCount
PROOF
<1>1. EntryCount \in Nat /\ MixCount \in Nat
  BY CeremonyAre DEF CeremonyInv
<1>2. \A i \in DOMAIN zkeys : i \in 0 .. EntryCount + 1 /\ zkeys[i] = IF i <= MixCount THEN UpTo(i) ELSE TornAfter(i - 1)
  BY DEF CeremonyInv, KeysAreTheChain
<1>3. EntryCount <= MixCount /\ MixCount <= EntryCount + 1
  BY DEF CeremonyInv, TranscriptFollows
<1>4. ASSUME NEW i \in DOMAIN zkeys, i <= MixCount PROVE zkeys[i] = UpTo(i) /\ zkeys[i] \in Seq(Nat)
  <2>1. i \in Nat /\ zkeys[i] = UpTo(i)
    BY <1>1, <1>2, <1>4
  <2>2. UpTo(i) \in Seq(Nat)
    BY <2>1, UpToIs
  <2> QED BY <2>1, <2>2
<1>5. ASSUME NEW i \in DOMAIN zkeys, i > MixCount
      PROVE  zkeys[i] = TornAfter(i - 1) /\ zkeys[i] \in Seq(Nat) /\ i = EntryCount + 1 /\ MixCount = EntryCount
  <2>1. i \in Nat /\ i - 1 \in Nat /\ zkeys[i] = TornAfter(i - 1) /\ i = EntryCount + 1 /\ MixCount = EntryCount
    BY <1>1, <1>2, <1>3, <1>5
  <2>2. TornAfter(i - 1) \in Seq(Nat)
    BY <2>1, UpToIs
  <2> QED BY <2>1, <2>2
<1>6. \A i \in DOMAIN zkeys : i \in Nat
  BY <1>1, <1>2
<1>7. \A i \in DOMAIN zkeys : i <= MixCount \/ i > MixCount
  BY <1>1, <1>6
<1> QED BY <1>1, <1>4, <1>5, <1>6, <1>7

(* Keys come and go, and the one no transcript knows stays.                  *)
LEMMA KeysChange ==
    ASSUME CeremonyInv, UNCHANGED <<transcript, mixes, ceremonyNow, finalZkey>>,
           DOMAIN shell' = {"at", "index", "round"}, shell'.index \in Nat, shell'.round \in Nat,
           DOMAIN zkeys' \subseteq 0 .. EntryCount + 1,
           \A i \in DOMAIN zkeys' : zkeys'[i] = IF i <= MixCount THEN UpTo(i) ELSE TornAfter(i - 1),
           MixCount = EntryCount + 1 => MixCount \in DOMAIN zkeys'
    PROVE  ChainStands' /\ EntryCount' = EntryCount /\ MixCount' = MixCount
PROOF
<1>1. EntryCount' = EntryCount /\ MixCount' = MixCount
  BY DEF EntryCount, MixCount
<1>2. CeremonyTypes'
  BY DEF CeremonyInv, CeremonyTypes
<1>3. TranscriptFollows' /\ KeysAreTheChain'
  BY <1>1 DEF CeremonyInv, TranscriptFollows, KeysAreTheChain
<1>4. MixesAreTheChain' /\ EntriesAreTheChain'
  BY <1>1 DEF CeremonyInv, MixesAreTheChain, EntriesAreTheChain
<1> QED BY <1>1, <1>2, <1>3, <1>4 DEF ChainStands

(* Nothing of the chain changes but the transcript's marks and the clock.    *)
LEMMA ChainKept ==
    ASSUME CeremonyInv, UNCHANGED <<zkeys, mixes>>, transcript'.entries = transcript.entries,
           DOMAIN transcript' = {"begun", "entries", "round", "vk"},
           ceremonyNow' \in Nat, ceremonyNow' >= ceremonyNow,
           transcript'.begun \/ transcript'.begun = transcript.begun,
           finalZkey' \in [chain : Seq(Nat), round : Nat],
           DOMAIN shell' = {"at", "index", "round"}, shell'.index \in Nat, shell'.round \in Nat
    PROVE  ChainStands' /\ EntryCount' = EntryCount /\ MixCount' = MixCount
PROOF
<1>1. EntryCount' = EntryCount /\ MixCount' = MixCount
  BY DEF EntryCount, MixCount
<1>2. CeremonyTypes'
  BY DEF CeremonyInv, CeremonyTypes
<1>3. TranscriptFollows' /\ KeysAreTheChain'
  BY <1>1 DEF CeremonyInv, TranscriptFollows, KeysAreTheChain
<1>4. EntriesAreTheChain'
  BY <1>1 DEF CeremonyInv, EntriesAreTheChain
<1>5. ASSUME NEW m \in 1 .. MixCount PROVE mixes[m].at <= ceremonyNow'
  <2>1. mixes[m].at \in Nat /\ ceremonyNow \in Nat
    BY CeremonyAre DEF CeremonyInv, CeremonyTypes, MixRecords
  <2>2. mixes[m].at <= ceremonyNow
    BY DEF CeremonyInv, MixesAreTheChain
  <2> QED BY <2>1, <2>2
<1>6. MixesAreTheChain'
  BY <1>1, <1>5 DEF CeremonyInv, MixesAreTheChain
<1> QED BY <1>1, <1>2, <1>3, <1>4, <1>6 DEF ChainStands

(* The transcript is told of the contribution it did not know.               *)
LEMMA EntryAdded ==
    ASSUME CeremonyInv, UNCHANGED <<zkeys, mixes, ceremonyNow, finalZkey>>,
           NEW e \in Entries, transcript' = [transcript EXCEPT !.entries = Append(@, e)],
           transcript.begun,
           MixCount = EntryCount + 1, e.zkey = UpTo(EntryCount + 1), e.hash \in {EntryCount + 1, TornMix}, mixes[EntryCount + 1].at <= e.at,
           DOMAIN shell' = {"at", "index", "round"}, shell'.index \in Nat, shell'.round \in Nat
    PROVE  ChainStands' /\ EntryCount' = EntryCount + 1 /\ MixCount' = MixCount /\ transcript'.begun
PROOF
<1>1. EntryCount \in Nat /\ MixCount \in Nat /\ transcript.entries \in Seq(Entries)
      /\ DOMAIN transcript = {"begun", "entries", "round", "vk"}
  BY CeremonyAre DEF CeremonyInv, CeremonyTypes
<1>2. /\ transcript'.entries = Append(transcript.entries, e) /\ transcript'.begun = transcript.begun
      /\ DOMAIN transcript' = {"begun", "entries", "round", "vk"}
  BY <1>1
<1>3. /\ transcript'.entries \in Seq(Entries) /\ Len(transcript'.entries) = EntryCount + 1
      /\ transcript'.entries[EntryCount + 1] = e
      /\ \A i \in 1 .. EntryCount : transcript'.entries[i] = transcript.entries[i]
  BY <1>1, <1>2, AppendProperties DEF EntryCount
<1>4. EntryCount' = EntryCount + 1 /\ MixCount' = MixCount
  BY <1>3 DEF EntryCount, MixCount
<1>5. CeremonyTypes'
  BY <1>2, <1>3 DEF CeremonyInv, CeremonyTypes
<1>6. TranscriptFollows'
  BY <1>1, <1>2, <1>4 DEF TranscriptFollows
<1>7. KeysAreTheChain'
  BY <1>1, <1>4 DEF CeremonyInv, KeysAreTheChain
<1>8. MixesAreTheChain'
  BY <1>4 DEF CeremonyInv, MixesAreTheChain
<1>9. EntriesAreTheChain'
  <2> SUFFICES ASSUME NEW i \in 1 .. EntryCount + 1
               PROVE  /\ transcript'.entries[i].zkey = UpTo(i) /\ transcript'.entries[i].hash \in {i, TornMix}
                      /\ mixes[i].at <= transcript'.entries[i].at
    BY <1>4 DEF EntriesAreTheChain
  <2>1. CASE i = EntryCount + 1
    BY <1>3, <2>1
  <2>2. CASE i # EntryCount + 1
    <3>1. i \in 1 .. EntryCount
      BY <1>1, <2>2
    <3> QED BY <1>3, <3>1 DEF CeremonyInv, EntriesAreTheChain
  <2> QED BY <2>1, <2>2
<1> QED BY <1>2, <1>4, <1>5, <1>6, <1>7, <1>8, <1>9 DEF ChainStands

(* An entry's hash is read off its key.                                      *)
LEMMA HashRead ==
    ASSUME CeremonyInv, UNCHANGED <<zkeys, mixes, ceremonyNow, finalZkey>>,
           NEW i \in 1 .. EntryCount, i \in DOMAIN zkeys,
           transcript' = [transcript EXCEPT !.entries[i].hash = LastMix(zkeys[i])],
           DOMAIN shell' = {"at", "index", "round"}, shell'.index \in Nat, shell'.round \in Nat
    PROVE  ChainStands' /\ EntryCount' = EntryCount /\ MixCount' = MixCount
PROOF
<1>1. /\ EntryCount \in Nat /\ MixCount \in Nat /\ DOMAIN transcript.entries = 1 .. EntryCount
      /\ \A j \in 1 .. EntryCount : transcript.entries[j] \in Entries
      /\ DOMAIN transcript = {"begun", "entries", "round", "vk"} /\ transcript.entries \in Seq(Entries)
  BY CeremonyAre DEF CeremonyInv, CeremonyTypes
<1>2. i \in Nat /\ i >= 1 /\ i <= MixCount
  BY <1>1 DEF CeremonyInv, TranscriptFollows
<1>3. zkeys[i] = UpTo(i)
  BY <1>2, KeysOfTheChain
<1>4. Len(UpTo(i)) = i /\ UpTo(i)[i] = i
  <2>1. i \in 1 .. i
    BY <1>2
  <2> QED BY <1>2, <2>1, UpToIs
<1>5. LastMix(zkeys[i]) = i
  BY <1>3, <1>4 DEF LastMix
<1> DEFINE e == [transcript.entries[i] EXCEPT !.hash = i]
           es == [transcript.entries EXCEPT ![i] = e]
<1>6. transcript' = [transcript EXCEPT !.entries = es]
  BY <1>5
<1>7. e \in Entries /\ e.zkey = transcript.entries[i].zkey /\ e.at = transcript.entries[i].at /\ e.hash = i
  <2>1. transcript.entries[i] \in [zkey : Seq(Nat), hash : Nat, at : Nat]
    BY <1>1 DEF Entries
  <2> QED BY <1>2, <2>1 DEF Entries
<1>8. es \in Seq(Entries) /\ Len(es) = EntryCount /\ \A j \in 1 .. EntryCount : es[j] = IF j = i THEN e ELSE transcript.entries[j]
  <2>1. es \in Seq(Entries) /\ Len(es) = Len(transcript.entries)
    BY <1>1, <1>7, ExceptSeq
  <2> QED BY <1>1, <2>1 DEF EntryCount
<1> HIDE DEF e, es
<1>9. /\ transcript'.entries = es /\ transcript'.begun = transcript.begun
      /\ DOMAIN transcript' = {"begun", "entries", "round", "vk"}
  BY <1>1, <1>6
<1>10. EntryCount' = EntryCount /\ MixCount' = MixCount
  BY <1>8, <1>9 DEF EntryCount, MixCount
<1>11. CeremonyTypes'
  BY <1>8, <1>9 DEF CeremonyInv, CeremonyTypes
<1>12. TranscriptFollows' /\ KeysAreTheChain' /\ MixesAreTheChain'
  BY <1>9, <1>10 DEF CeremonyInv, TranscriptFollows, KeysAreTheChain, MixesAreTheChain
<1>13. EntriesAreTheChain'
  <2> SUFFICES ASSUME NEW j \in 1 .. EntryCount
               PROVE  /\ es[j].zkey = UpTo(j) /\ es[j].hash \in {j, TornMix} /\ mixes[j].at <= es[j].at
    BY <1>9, <1>10 DEF EntriesAreTheChain
  <2>1. /\ transcript.entries[j].zkey = UpTo(j) /\ transcript.entries[j].hash \in {j, TornMix}
        /\ mixes[j].at <= transcript.entries[j].at
    BY DEF CeremonyInv, EntriesAreTheChain
  <2> QED BY <1>7, <1>8, <2>1
<1> QED BY <1>10, <1>11, <1>12, <1>13 DEF ChainStands

-----------------------------------------------------------------------------
(* When the chain agrees, its last key holds every mix recorded.             *)
LEMMA ChainAgreesIs ==
    ASSUME CeremonyInv, ChainAgrees
    PROVE  MixCount = EntryCount /\ EntryCount \in DOMAIN zkeys /\ ChainEnd = EntryCount
           /\ zkeys[EntryCount] = UpTo(EntryCount) /\ EntryCount \in Nat /\ Len(UpTo(EntryCount)) = EntryCount /\ UpTo(EntryCount) \in Seq(Nat)
PROOF
<1>1. ChainTip = EntryCount /\ ChainEnd = EntryCount /\ NoGap
  BY DEF ChainAgrees, ChainEnd, Recorded, EntryCount
<1>2. MixCount = EntryCount
  BY <1>1, TipRecorded
<1>3. EntryCount \in Nat /\ MixCount \in Nat
  BY CeremonyAre DEF CeremonyInv
<1>4. EntryCount \in DOMAIN zkeys
  BY <1>1, <1>3 DEF NoGap
<1>5. zkeys[EntryCount] = UpTo(EntryCount)
  BY <1>2, <1>3, <1>4, KeysOfTheChain
<1>6. Len(UpTo(EntryCount)) = EntryCount /\ UpTo(EntryCount) \in Seq(Nat)
  BY <1>3, UpToIs
<1> QED BY <1>1, <1>2, <1>3, <1>4, <1>5, <1>6

(* The set-up keeps the invariant.                                           *)
LEMMA InitSetsUpKeeps == ASSUME CeremonyInv, InitSetsUp PROVE CeremonyInv'
PROOF
<1>1. DOMAIN shell' = {"at", "index", "round"} /\ shell'.at = "setUp" /\ shell'.index = 0 /\ shell'.round = 0
  BY DEF InitSetsUp, Command
<1>2. EntryCount = 0 /\ MixCount = 0
  BY CeremonyAre DEF CeremonyInv, TranscriptFollows, InitSetsUp
<1>3. DOMAIN zkeys' = DOMAIN zkeys \cup {0} /\ zkeys'[0] = <<>> /\ \A i \in DOMAIN zkeys : i # 0 => zkeys'[i] = zkeys[i]
  BY DEF InitSetsUp, WithKey
<1>4. UpTo(0) = <<>>
  <2>1. UpTo(0) \in Seq(Nat) /\ Len(UpTo(0)) = 0
    BY UpToIs
  <2> QED BY <2>1, EmptySeq
<1>5. DOMAIN zkeys' \subseteq 0 .. EntryCount + 1
  BY <1>2, <1>3 DEF CeremonyInv, KeysAreTheChain
<1>6. \A i \in DOMAIN zkeys' : zkeys'[i] = IF i <= MixCount THEN UpTo(i) ELSE TornAfter(i - 1)
  BY <1>2, <1>3, <1>4 DEF CeremonyInv, KeysAreTheChain
<1>7. UNCHANGED <<transcript, mixes, ceremonyNow, finalZkey>>
  BY DEF InitSetsUp
<1>8. ChainStands'
  BY <1>1, <1>2, <1>5, <1>6, <1>7, KeysChange
<1>9. ShellStands'
  BY <1>1 DEF ShellStands
<1> QED BY <1>8, <1>9 DEF CeremonyInv, ChainStands

(* So does a contribution that starts.                                       *)
LEMMA ContributeStartsKeeps == ASSUME CeremonyInv, ContributeStarts PROVE CeremonyInv'
PROOF
<1>1. MixCount = EntryCount /\ EntryCount \in DOMAIN zkeys /\ ChainEnd = EntryCount /\ zkeys[EntryCount] = UpTo(EntryCount) /\ EntryCount \in Nat
  BY ChainAgreesIs DEF ContributeStarts
<1>2. DOMAIN shell' = {"at", "index", "round"} /\ shell'.at = "mixing" /\ shell'.index = EntryCount + 1 /\ shell'.round = 0
  BY <1>1 DEF ContributeStarts, Command
<1>3. /\ DOMAIN zkeys' = DOMAIN zkeys \cup {EntryCount + 1} /\ zkeys'[EntryCount + 1] = TornAfter(EntryCount)
      /\ \A i \in DOMAIN zkeys : i # EntryCount + 1 => zkeys'[i] = zkeys[i]
  BY <1>1 DEF ContributeStarts, WithKey, TornAfter
<1>4. DOMAIN zkeys' \subseteq 0 .. EntryCount + 1
  BY <1>1, <1>3 DEF CeremonyInv, KeysAreTheChain
<1>5. \A i \in DOMAIN zkeys' : zkeys'[i] = IF i <= MixCount THEN UpTo(i) ELSE TornAfter(i - 1)
  <2> TAKE i \in DOMAIN zkeys'
  <2>1. CASE i = EntryCount + 1
    <3>1. ~(i <= MixCount) /\ i - 1 = EntryCount
      BY <1>1, <2>1
    <3> QED BY <1>3, <2>1, <3>1
  <2>2. CASE i # EntryCount + 1
    <3>1. i \in DOMAIN zkeys /\ zkeys'[i] = zkeys[i]
      BY <1>3, <2>2
    <3> QED BY <3>1 DEF CeremonyInv, KeysAreTheChain
  <2> QED BY <2>1, <2>2
<1>6. UNCHANGED <<transcript, mixes, ceremonyNow, finalZkey>> /\ transcript.begun /\ EntryCount + 1 \in Nat
  BY <1>1 DEF ContributeStarts
<1>7. MixCount # EntryCount + 1
  BY <1>1
<1>8. ChainStands' /\ EntryCount' = EntryCount /\ MixCount' = MixCount
  BY <1>2, <1>4, <1>5, <1>6, <1>7, KeysChange
<1>9. ShellStands'
  BY <1>1, <1>2, <1>3, <1>6, <1>8 DEF ShellStands
<1> QED BY <1>8, <1>9 DEF CeremonyInv, ChainStands

(* So does its key when it is on disk.                                       *)
LEMMA MixEndsKeeps == ASSUME CeremonyInv, MixEnds PROVE CeremonyInv'
PROOF
<1>1. /\ EntryCount \in Nat /\ MixCount \in Nat /\ mixes \in Seq(MixRecords) /\ ceremonyNow \in Nat
      /\ \A i \in 1 .. MixCount : mixes[i] \in MixRecords
  BY CeremonyAre DEF CeremonyInv, CeremonyTypes
<1>2. /\ transcript.begun /\ shell.index = EntryCount + 1 /\ MixCount = EntryCount /\ EntryCount \in DOMAIN zkeys /\ EntryCount + 1 \in DOMAIN zkeys
      /\ DOMAIN shell = {"at", "index", "round"}
  BY DEF MixEnds, AtShell, CeremonyInv, ShellStands, CeremonyTypes
<1>3. zkeys[EntryCount] = UpTo(EntryCount) /\ shell.index - 1 = EntryCount
  BY <1>1, <1>2, KeysOfTheChain
<1>4. Append(UpTo(EntryCount), EntryCount + 1) = UpTo(EntryCount + 1)
  BY <1>1, UpToIs
<1>5. Append(zkeys[shell.index - 1], Len(mixes) + 1) = UpTo(EntryCount + 1)
  BY <1>2, <1>3, <1>4 DEF MixCount
<1> DEFINE mix == [chain |-> UpTo(EntryCount + 1), at |-> ceremonyNow]
<1>6. zkeys' = [zkeys EXCEPT ![EntryCount + 1] = UpTo(EntryCount + 1)] /\ mixes' = Append(mixes, mix)
  BY <1>2, <1>5 DEF MixEnds
<1>7. mix \in MixRecords /\ mix.chain = UpTo(EntryCount + 1) /\ mix.at = ceremonyNow
  <2>1. UpTo(EntryCount + 1) \in Seq(Nat)
    BY <1>1, UpToIs
  <2> QED BY <1>1, <2>1 DEF MixRecords
<1> HIDE DEF mix
<1>8. /\ mixes' \in Seq(MixRecords) /\ Len(mixes') = MixCount + 1 /\ mixes'[MixCount + 1] = mix
      /\ \A k \in 1 .. MixCount : mixes'[k] = mixes[k]
  BY <1>1, <1>6, <1>7, AppendProperties DEF MixCount
<1>9. EntryCount' = EntryCount /\ MixCount' = EntryCount + 1
  BY <1>2, <1>8 DEF EntryCount, MixCount, MixEnds
<1>10. /\ DOMAIN shell' = {"at", "index", "round"} /\ shell'.at = "mixed" /\ shell'.index = EntryCount + 1
       /\ shell'.round = shell.round
  BY <1>2 DEF MixEnds, Does
<1>11. CeremonyTypes'
  BY <1>1, <1>8, <1>10 DEF CeremonyInv, CeremonyTypes, MixEnds
<1>12. DOMAIN zkeys' = DOMAIN zkeys /\ zkeys'[EntryCount + 1] = UpTo(EntryCount + 1) /\ \A i \in DOMAIN zkeys : i # EntryCount + 1 => zkeys'[i] = zkeys[i]
  BY <1>2, <1>6
<1>13. TranscriptFollows'
  BY <1>1, <1>2, <1>9, <1>12 DEF TranscriptFollows, MixEnds
<1>14. KeysAreTheChain'
  <2>1. DOMAIN zkeys' \subseteq 0 .. EntryCount + 1
    BY <1>12 DEF CeremonyInv, KeysAreTheChain
  <2>2. ASSUME NEW i \in DOMAIN zkeys'
        PROVE  zkeys'[i] = IF i <= EntryCount + 1 THEN UpTo(i) ELSE TornAfter(i - 1)
    <3>1. i \in 0 .. EntryCount + 1
      BY <2>1
    <3>2. CASE i = EntryCount + 1
      BY <1>1, <1>12, <3>2
    <3>3. CASE i # EntryCount + 1
      <4>1. i <= EntryCount /\ i <= EntryCount + 1 /\ i \in DOMAIN zkeys
        BY <1>1, <1>12, <3>1, <3>3
      <4>2. zkeys[i] = UpTo(i)
        BY <1>2, <4>1 DEF CeremonyInv, KeysAreTheChain
      <4> QED BY <1>12, <3>3, <4>1, <4>2
    <3> QED BY <3>2, <3>3
  <2> QED BY <1>9, <2>1, <2>2 DEF KeysAreTheChain
<1>15. MixesAreTheChain'
  <2>1. ASSUME NEW m \in 1 .. MixCount
        PROVE  /\ mixes[m].chain = UpTo(m) /\ mixes[m].at <= ceremonyNow
               /\ \A k \in 1 .. m : mixes[k].at <= mixes[m].at
    BY DEF CeremonyInv, MixesAreTheChain
  <2> SUFFICES ASSUME NEW m \in 1 .. MixCount + 1
               PROVE  /\ mixes'[m].chain = UpTo(m) /\ mixes'[m].at <= ceremonyNow
                      /\ \A k \in 1 .. m : mixes'[k].at <= mixes'[m].at
    BY <1>2, <1>9 DEF MixesAreTheChain, MixEnds
  <2>2. CASE m = MixCount + 1
    <3>1. mixes'[m].chain = UpTo(m) /\ mixes'[m].at = ceremonyNow
      BY <1>2, <1>7, <1>8, <2>2
    <3>2. ASSUME NEW k \in 1 .. m PROVE mixes'[k].at <= ceremonyNow
      <4>1. CASE k = MixCount + 1
        BY <1>1, <1>7, <1>8, <4>1
      <4>2. CASE k # MixCount + 1
        <5>1. k \in 1 .. MixCount
          BY <1>1, <2>2, <4>2
        <5> QED BY <1>8, <2>1, <5>1
      <4> QED BY <4>1, <4>2
    <3> QED BY <1>1, <3>1, <3>2
  <2>3. CASE m # MixCount + 1
    <3>1. m \in 1 .. MixCount /\ \A k \in 1 .. m : k \in 1 .. MixCount
      BY <1>1, <2>3
    <3> QED BY <1>8, <2>1, <3>1
  <2> QED BY <2>2, <2>3
<1>16. EntriesAreTheChain'
  <2> SUFFICES ASSUME NEW i \in 1 .. EntryCount
               PROVE  /\ transcript.entries[i].zkey = UpTo(i) /\ transcript.entries[i].hash \in {i, TornMix}
                      /\ mixes'[i].at <= transcript.entries[i].at
    BY <1>9 DEF EntriesAreTheChain, MixEnds
  <2> QED BY <1>2, <1>8 DEF CeremonyInv, EntriesAreTheChain
<1>17. ShellStands'
  BY <1>2, <1>1, <1>9, <1>10, <1>12 DEF ShellStands, MixEnds
<1> QED BY <1>11, <1>13, <1>14, <1>15, <1>16, <1>17 DEF CeremonyInv

(* So does its entry in the transcript.                                      *)
LEMMA RecordsContributionKeeps == ASSUME CeremonyInv, RecordsContribution PROVE CeremonyInv'
PROOF
<1>1. /\ EntryCount \in Nat /\ MixCount \in Nat /\ ceremonyNow \in Nat /\ transcript.begun
      /\ shell.index = EntryCount + 1 /\ MixCount = EntryCount + 1 /\ EntryCount + 1 \in DOMAIN zkeys
      /\ DOMAIN shell = {"at", "index", "round"} /\ shell.round \in Nat
  BY CeremonyAre DEF CeremonyInv, CeremonyTypes, ShellStands, RecordsContribution, AtShell
<1>2. zkeys[EntryCount + 1] = UpTo(EntryCount + 1)
  BY <1>1, KeysOfTheChain
<1> DEFINE e == Link(zkeys[shell.index], TornMix, ceremonyNow)
<1>3. e.zkey = UpTo(EntryCount + 1) /\ e.hash = TornMix /\ e.at = ceremonyNow /\ e \in Entries
  <2>1. UpTo(EntryCount + 1) \in Seq(Nat)
    BY <1>1, UpToIs
  <2> QED BY <1>1, <1>2, <2>1 DEF Link, Entries, TornMix
<1>4. transcript' = [transcript EXCEPT !.entries = Append(@, e)] /\ UNCHANGED <<zkeys, mixes, ceremonyNow, finalZkey>>
  BY DEF RecordsContribution, ceremonyKeys
<1> HIDE DEF e
<1>5. mixes[EntryCount + 1].at <= ceremonyNow
  BY <1>1 DEF CeremonyInv, MixesAreTheChain
<1>6. /\ DOMAIN shell' = {"at", "index", "round"} /\ shell'.at = "recorded" /\ shell'.index = EntryCount + 1
      /\ shell'.index \in Nat /\ shell'.round \in Nat
  BY <1>1 DEF RecordsContribution, Does
<1>7. ChainStands' /\ EntryCount' = EntryCount + 1 /\ MixCount' = MixCount /\ transcript'.begun
  BY <1>1, <1>3, <1>4, <1>5, <1>6, EntryAdded
<1>8. ShellStands'
  BY <1>1, <1>4, <1>6, <1>7 DEF ShellStands
<1> QED BY <1>7, <1>8 DEF CeremonyInv, ChainStands

(* A key the transcript does not know is one past its end.                   *)
LEMMA UnrecordedIs ==
    ASSUME CeremonyInv, UnrecordedKey
    PROVE  /\ ChainTip = EntryCount + 1 /\ EntryCount + 1 \in DOMAIN zkeys /\ EntryCount \in Nat /\ transcript.begun
           /\ WholeKey(zkeys[ChainTip]) => MixCount = EntryCount + 1 /\ zkeys[ChainTip] = UpTo(EntryCount + 1) /\ LastMix(UpTo(EntryCount + 1)) = EntryCount + 1
           /\ ~WholeKey(zkeys[ChainTip]) => MixCount = EntryCount
           /\ 0 .. EntryCount + 1 \subseteq DOMAIN zkeys
PROOF
<1>1. EntryCount \in Nat /\ MixCount \in Nat
  BY CeremonyAre DEF CeremonyInv
<1>2. ChainTip = EntryCount + 1 /\ 0 .. EntryCount + 1 \subseteq DOMAIN zkeys /\ transcript.begun
  BY DEF UnrecordedKey, NoGap, Recorded, EntryCount
<1>3. EntryCount + 1 \in DOMAIN zkeys
  BY <1>1, <1>2
<1>4. Len(UpTo(EntryCount + 1)) = EntryCount + 1 /\ UpTo(EntryCount + 1)[EntryCount + 1] = EntryCount + 1 /\ UpTo(EntryCount + 1) # <<>>
  <2>1. EntryCount + 1 \in 1 .. EntryCount + 1 /\ EntryCount + 1 \in Nat
    BY <1>1
  <2>2. Len(UpTo(EntryCount + 1)) = EntryCount + 1 /\ UpTo(EntryCount + 1)[EntryCount + 1] = EntryCount + 1 /\ UpTo(EntryCount + 1) \in Seq(Nat)
    BY <2>1, UpToIs
  <2> QED BY <1>1, <2>2, EmptySeq
<1>5. LastMix(UpTo(EntryCount + 1)) = EntryCount + 1
  BY <1>4 DEF LastMix
<1>6. CASE MixCount = EntryCount + 1
  <2>1. zkeys[EntryCount + 1] = UpTo(EntryCount + 1)
    BY <1>1, <1>3, <1>6, KeysOfTheChain
  <2>2. WholeKey(zkeys[EntryCount + 1])
    BY <1>1, <1>5, <2>1 DEF WholeKey, TornMix
  <2> QED BY <1>1, <1>2, <1>3, <1>5, <1>6, <2>1, <2>2
<1>7. CASE MixCount # EntryCount + 1
  <2>1. MixCount = EntryCount
    BY <1>1, <1>7 DEF CeremonyInv, TranscriptFollows
  <2>2. EntryCount + 1 > MixCount /\ EntryCount + 1 - 1 = EntryCount
    BY <1>1, <2>1
  <2>3. zkeys[EntryCount + 1] = TornAfter(EntryCount)
    BY <1>3, <2>2, KeysOfTheChain
  <2>4. Len(TornAfter(EntryCount)) = EntryCount + 1 /\ TornAfter(EntryCount)[EntryCount + 1] = TornMix /\ TornAfter(EntryCount) # <<>>
    BY <1>1, UpToIs
  <2>5. ~WholeKey(zkeys[EntryCount + 1])
    BY <2>3, <2>4 DEF WholeKey, LastMix
  <2> QED BY <1>1, <1>2, <1>3, <2>1, <2>5
<1> QED BY <1>6, <1>7

(* A key reconciled by hand becomes the next entry.                          *)
LEMMA ReconcilesKeeps == ASSUME CeremonyInv, ReconcilesByHand PROVE CeremonyInv'
PROOF
<1>1. /\ ChainTip = EntryCount + 1 /\ EntryCount \in Nat /\ MixCount = EntryCount + 1 /\ zkeys[ChainTip] = UpTo(EntryCount + 1)
      /\ LastMix(UpTo(EntryCount + 1)) = EntryCount + 1 /\ transcript.begun
  BY UnrecordedIs DEF ReconcilesByHand
<1>2. \A i \in 1 .. MixCount : mixes[i] \in MixRecords
  BY CeremonyAre DEF CeremonyInv
<1>3. mixes[EntryCount + 1] \in MixRecords
  BY <1>1, <1>2
<1> DEFINE e == Link(zkeys[ChainTip], LastMix(zkeys[ChainTip]), mixes[LastMix(zkeys[ChainTip])].at)
<1>4. e = Link(UpTo(EntryCount + 1), EntryCount + 1, mixes[EntryCount + 1].at)
  BY <1>1
<1>5. e.zkey = UpTo(EntryCount + 1) /\ e.hash = EntryCount + 1 /\ e.at = mixes[EntryCount + 1].at /\ e \in Entries
  <2>1. UpTo(EntryCount + 1) \in Seq(Nat)
    BY <1>1, UpToIs
  <2>2. mixes[EntryCount + 1].at \in Nat
    BY <1>3 DEF MixRecords
  <2> HIDE DEF e
  <2> QED BY <1>1, <1>4, <2>1, <2>2 DEF Link, Entries
<1>6. transcript' = [transcript EXCEPT !.entries = Append(@, e)]
      /\ UNCHANGED <<zkeys, mixes, ceremonyNow, finalZkey, shell>>
  BY DEF ReconcilesByHand, ceremonyKeys
<1> HIDE DEF e
<1>7. mixes[EntryCount + 1].at <= e.at
  <2>1. mixes[EntryCount + 1].at \in Nat
    BY <1>3 DEF MixRecords
  <2> QED BY <1>5, <2>1
<1>8. DOMAIN shell = {"at", "index", "round"} /\ shell.index \in Nat /\ shell.round \in Nat /\ shell.at = "prompt"
  BY DEF CeremonyInv, CeremonyTypes, ReconcilesByHand, UnrecordedKey, AtShell
<1>9. ChainStands'
  BY <1>1, <1>5, <1>6, <1>7, <1>8, EntryAdded
<1>10. ShellStands'
  BY <1>6, <1>8 DEF ShellStands
<1> QED BY <1>9, <1>10 DEF CeremonyInv, ChainStands

(* Reading the transcript back keeps the invariant.                          *)
LEMMA ReadsBackKeeps == ASSUME CeremonyInv, ReadsBack PROVE CeremonyInv'
PROOF
<1>1. shell.index = EntryCount /\ EntryCount \in DOMAIN zkeys /\ EntryCount >= 1 /\ EntryCount \in Nat
  BY CeremonyAre DEF CeremonyInv, ShellStands, ReadsBack, AtShell
<1>2. EntryCount \in 1 .. EntryCount
  BY <1>1
<1>3. transcript' = [transcript EXCEPT !.entries[EntryCount].hash = LastMix(zkeys[EntryCount])]
      /\ UNCHANGED <<zkeys, mixes, ceremonyNow, finalZkey>> /\ shell' = AtPrompt
  BY <1>1 DEF ReadsBack, ceremonyKeys, Recorded, EntryCount
<1>4. ChainStands'
  BY <1>1, <1>2, <1>3, PromptIs, HashRead
<1>5. ShellStands'
  BY <1>3, PromptIs DEF ShellStands
<1> QED BY <1>4, <1>5 DEF CeremonyInv, ChainStands

(* So does filling in an entry by hand.                                      *)
LEMMA FillsInKeeps ==
    ASSUME CeremonyInv, NEW i \in DOMAIN Recorded, FillsInByHand(i)
    PROVE  CeremonyInv'
PROOF
<1>1. i \in 1 .. EntryCount /\ i \in DOMAIN zkeys
  BY CeremonyAre DEF CeremonyInv, Recorded, FillsInByHand
<1>2. transcript' = [transcript EXCEPT !.entries[i].hash = LastMix(zkeys[i])]
      /\ UNCHANGED <<zkeys, mixes, ceremonyNow, finalZkey, shell>>
  BY DEF FillsInByHand, ceremonyKeys
<1>3. DOMAIN shell = {"at", "index", "round"} /\ shell.index \in Nat /\ shell.round \in Nat /\ shell.at = "prompt"
  BY DEF CeremonyInv, CeremonyTypes, FillsInByHand, AtShell
<1>4. ChainStands'
  BY <1>1, <1>2, <1>3, HashRead
<1>5. ShellStands'
  BY <1>2, <1>3 DEF ShellStands
<1> QED BY <1>4, <1>5 DEF CeremonyInv, ChainStands

(* So does a beacon that starts.                                             *)
LEMMA BeaconSealsKeeps ==
    ASSUME CeremonyInv, NEW r \in 1 .. CeremonyMaxTime, BeaconSeals(r)
    PROVE  CeremonyInv'
PROOF
<1>1. EntryCount \in DOMAIN zkeys /\ ChainEnd = EntryCount /\ zkeys[EntryCount] = UpTo(EntryCount) /\ EntryCount \in Nat
  BY ChainAgreesIs DEF BeaconSeals
<1>2. TornAfter(EntryCount) \in Seq(Nat)
  BY <1>1, UpToIs
<1>3. finalZkey' = [chain |-> TornAfter(EntryCount), round |-> r] /\ shell' = Command("sealing", EntryCount, r)
  BY <1>1 DEF BeaconSeals, TornAfter
<1>4. finalZkey' \in [chain : Seq(Nat), round : Nat] /\ r \in Nat
  BY <1>2, <1>3, CeremonyAssumption
<1>5. /\ DOMAIN shell' = {"at", "index", "round"} /\ shell'.at = "sealing" /\ shell'.index = EntryCount
      /\ shell'.round = r
  BY <1>3 DEF Command
<1>6. UNCHANGED <<zkeys, mixes, transcript, ceremonyNow>> /\ ceremonyNow \in Nat
      /\ DOMAIN transcript = {"begun", "entries", "round", "vk"}
  BY DEF BeaconSeals, CeremonyInv, CeremonyTypes
<1>7. ChainStands'
  BY <1>1, <1>4, <1>5, <1>6, ChainKept
<1>8. ShellStands'
  BY <1>1, <1>5, <1>6 DEF ShellStands
<1> QED BY <1>7, <1>8 DEF CeremonyInv, ChainStands

(* So does its key when it is on disk.                                       *)
LEMMA SealEndsKeeps == ASSUME CeremonyInv, SealEnds PROVE CeremonyInv'
PROOF
<1>1. /\ shell.index \in DOMAIN zkeys /\ shell.index \in Nat /\ shell.round \in Nat
      /\ DOMAIN shell = {"at", "index", "round"}
  BY DEF CeremonyInv, CeremonyTypes, ShellStands, SealEnds, AtShell
<1>2. zkeys[shell.index] \in Seq(Nat)
  BY <1>1, KeysOfTheChain
<1>3. finalZkey' \in [chain : Seq(Nat), round : Nat]
  BY <1>1, <1>2 DEF SealEnds
<1>4. /\ DOMAIN shell' = {"at", "index", "round"} /\ shell'.at = "sealed" /\ shell'.index = shell.index
      /\ shell'.round = shell.round
  BY <1>1 DEF SealEnds, Does
<1>5. UNCHANGED <<zkeys, mixes, transcript, ceremonyNow>> /\ ceremonyNow \in Nat
      /\ DOMAIN transcript = {"begun", "entries", "round", "vk"}
  BY DEF SealEnds, CeremonyInv, CeremonyTypes
<1>6. ChainStands'
  BY <1>1, <1>3, <1>4, <1>5, ChainKept
<1>7. ShellStands'
  BY <1>4 DEF ShellStands
<1> QED BY <1>6, <1>7 DEF CeremonyInv, ChainStands

(* A command's mark in the transcript, and one that dies.                    *)
LEMMA PromptReturns ==
    ASSUME CeremonyInv, UNCHANGED <<zkeys, finalZkey, mixes, ceremonyNow>>, shell' = AtPrompt,
           transcript'.entries = transcript.entries,
           DOMAIN transcript' = {"begun", "entries", "round", "vk"},
           transcript'.begun \/ transcript'.begun = transcript.begun
    PROVE  CeremonyInv'
PROOF
<1>1. finalZkey \in [chain : Seq(Nat), round : Nat] /\ ceremonyNow \in Nat
  BY DEF CeremonyInv, CeremonyTypes
<1>2. ChainStands'
  BY <1>1, PromptIs, ChainKept
<1>3. ShellStands'
  BY PromptIs DEF ShellStands
<1> QED BY <1>2, <1>3 DEF CeremonyInv, ChainStands

(* So do the marks in the transcript, and a command that dies.               *)
LEMMA MarksKeep ==
    ASSUME CeremonyInv, InitRecords \/ BeaconRecords \/ FinalizeRecords \/ CommandDies
    PROVE  CeremonyInv'
PROOF
<1>1. DOMAIN transcript = {"begun", "entries", "round", "vk"}
  BY DEF CeremonyInv, CeremonyTypes
<1>2. CASE InitRecords
  <2>1. transcript' = [transcript EXCEPT !.begun = TRUE] /\ shell' = AtPrompt
        /\ UNCHANGED <<zkeys, finalZkey, mixes, ceremonyNow>>
    BY <1>2 DEF InitRecords, ceremonyKeys
  <2>2. transcript'.begun /\ transcript'.entries = transcript.entries
        /\ DOMAIN transcript' = {"begun", "entries", "round", "vk"}
    BY <1>1, <2>1
  <2> QED BY <2>1, <2>2, PromptReturns
<1>3. CASE BeaconRecords
  <2>1. transcript' = [transcript EXCEPT !.round = shell.round] /\ shell' = AtPrompt
        /\ UNCHANGED <<zkeys, finalZkey, mixes, ceremonyNow>>
    BY <1>3 DEF BeaconRecords, ceremonyKeys
  <2>2. transcript'.begun = transcript.begun /\ transcript'.entries = transcript.entries
        /\ DOMAIN transcript' = {"begun", "entries", "round", "vk"}
    BY <1>1, <2>1
  <2> QED BY <2>1, <2>2, PromptReturns
<1>4. CASE FinalizeRecords
  <2>1. transcript' = [transcript EXCEPT !.vk = ceremonyVk] /\ shell' = AtPrompt
        /\ UNCHANGED <<zkeys, finalZkey, mixes, ceremonyNow>>
    BY <1>4 DEF FinalizeRecords, ceremonyKeys
  <2>2. transcript'.begun = transcript.begun /\ transcript'.entries = transcript.entries
        /\ DOMAIN transcript' = {"begun", "entries", "round", "vk"}
    BY <1>1, <2>1
  <2> QED BY <2>1, <2>2, PromptReturns
<1>5. CASE CommandDies
  <2>1. transcript' = transcript /\ shell' = AtPrompt /\ UNCHANGED <<zkeys, finalZkey, mixes, ceremonyNow>>
    BY <1>5 DEF CommandDies, ceremonyKeys
  <2> QED BY <1>1, <2>1, PromptReturns
<1> QED BY <1>2, <1>3, <1>4, <1>5

(* So do the exports of the verifying key, and the clock.                    *)
LEMMA ExportsKeep ==
    ASSUME CeremonyInv, FinalizeExports \/ InstallsVerifyingKey \/ CeremonyClock
    PROVE  CeremonyInv'
PROOF
<1>1. /\ finalZkey \in [chain : Seq(Nat), round : Nat] /\ ceremonyNow \in Nat
      /\ DOMAIN transcript = {"begun", "entries", "round", "vk"}
      /\ DOMAIN shell = {"at", "index", "round"} /\ shell.index \in Nat /\ shell.round \in Nat
  BY DEF CeremonyInv, CeremonyTypes
<1>2. CASE FinalizeExports
  <2>1. /\ shell' = Command("exported", 0, 0)
        /\ UNCHANGED <<zkeys, finalZkey, transcript, mixes, ceremonyNow>>
    BY <1>2 DEF FinalizeExports
  <2>2. /\ DOMAIN shell' = {"at", "index", "round"} /\ shell'.at = "exported" /\ shell'.index = 0
        /\ shell'.round = 0
    BY <2>1 DEF Command
  <2>3. ChainStands'
    BY <1>1, <2>1, <2>2, ChainKept
  <2>4. ShellStands'
    BY <2>2 DEF ShellStands
  <2> QED BY <2>3, <2>4 DEF CeremonyInv, ChainStands
<1>3. CASE InstallsVerifyingKey
  <2>1. UNCHANGED <<zkeys, finalZkey, transcript, mixes, ceremonyNow, shell>> /\ shell.at = "prompt"
    BY <1>3 DEF InstallsVerifyingKey, AtShell
  <2>2. ChainStands'
    BY <1>1, <2>1, ChainKept
  <2>3. ShellStands'
    BY <2>1 DEF ShellStands
  <2> QED BY <2>2, <2>3 DEF CeremonyInv, ChainStands
<1>4. CASE CeremonyClock
  <2>1. UNCHANGED <<zkeys, finalZkey, transcript, mixes, shell>> /\ ceremonyNow' = ceremonyNow + 1
    BY <1>4 DEF CeremonyClock, ceremonyKeys
  <2>2. ceremonyNow' \in Nat /\ ceremonyNow' >= ceremonyNow
    BY <1>1, <2>1
  <2>3. ChainStands' /\ EntryCount' = EntryCount /\ MixCount' = MixCount
    BY <1>1, <2>1, <2>2, ChainKept
  <2>4. ShellStands'
    BY <2>1, <2>3 DEF CeremonyInv, ShellStands
  <2> QED BY <2>3, <2>4 DEF CeremonyInv, ChainStands
<1> QED BY <1>2, <1>3, <1>4

(* Keys are moved at the prompt only.                                        *)
LEMMA KeysMoved ==
    ASSUME CeremonyInv, UNCHANGED <<transcript, mixes, ceremonyNow, finalZkey, shell>>, shell.at = "prompt",
           DOMAIN zkeys' \subseteq 0 .. EntryCount + 1,
           \A i \in DOMAIN zkeys' : zkeys'[i] = IF i <= MixCount THEN UpTo(i) ELSE TornAfter(i - 1),
           MixCount = EntryCount + 1 => MixCount \in DOMAIN zkeys'
    PROVE  CeremonyInv'
PROOF
<1>1. DOMAIN shell' = {"at", "index", "round"} /\ shell'.index \in Nat /\ shell'.round \in Nat
  BY DEF CeremonyInv, CeremonyTypes
<1>2. ChainStands'
  BY <1>1, KeysChange
<1>3. ShellStands'
  BY DEF ShellStands
<1> QED BY <1>2, <1>3 DEF CeremonyInv, ChainStands

(* So does a key that is lost.                                               *)
LEMMA KeyIsLostKeeps ==
    ASSUME CeremonyInv, NEW i \in 0 .. MaxMixes, KeyIsLost(i)
    PROVE  CeremonyInv'
PROOF
<1>1. EntryCount \in Nat /\ MixCount \in Nat /\ i \in Nat /\ i <= EntryCount
  BY CeremonyAre, CeremonyAssumption DEF CeremonyInv, KeyIsLost, Recorded, EntryCount
<1>2. zkeys' = [k \in DOMAIN zkeys \ {i} |-> zkeys[k]] /\ shell.at = "prompt"
      /\ UNCHANGED <<transcript, mixes, ceremonyNow, finalZkey, shell>>
  BY DEF KeyIsLost, AtShell
<1>3. DOMAIN zkeys' = DOMAIN zkeys \ {i} /\ \A k \in DOMAIN zkeys' : zkeys'[k] = zkeys[k]
  BY <1>2
<1>4. DOMAIN zkeys' \subseteq 0 .. EntryCount + 1
  BY <1>3 DEF CeremonyInv, KeysAreTheChain
<1>5. \A k \in DOMAIN zkeys' : zkeys'[k] = IF k <= MixCount THEN UpTo(k) ELSE TornAfter(k - 1)
  BY <1>3 DEF CeremonyInv, KeysAreTheChain
<1>6. MixCount = EntryCount + 1 => MixCount \in DOMAIN zkeys'
  BY <1>1, <1>3 DEF CeremonyInv, TranscriptFollows
<1> QED BY <1>2, <1>4, <1>5, <1>6, KeysMoved

(* So does one that is restored from where it was published.                 *)
LEMMA KeyIsRestoredKeeps ==
    ASSUME CeremonyInv, NEW chain \in PublishedKeys, KeyIsRestored(chain)
    PROVE  CeremonyInv'
PROOF
<1>1. EntryCount \in Nat /\ MixCount \in Nat /\ DOMAIN mixes = 1 .. MixCount /\ EntryCount <= MixCount /\ MixCount <= EntryCount + 1
  BY CeremonyAre DEF CeremonyInv, TranscriptFollows
<1> DEFINE n == Len(chain)
<1>2. n \in 0 .. MixCount /\ chain = UpTo(n)
  <2>1. CASE chain = <<>>
    <3>1. UpTo(0) \in Seq(Nat) /\ Len(UpTo(0)) = 0 /\ Len(<<>>) = 0
      BY UpToIs
    <3>2. UpTo(0) = <<>>
      BY <3>1, EmptySeq
    <3> QED BY <1>1, <2>1, <3>1, <3>2
  <2>2. CASE \E m \in DOMAIN mixes : chain = mixes[m].chain
    <3>1. PICK m \in 1 .. MixCount : chain = mixes[m].chain
      BY <1>1, <2>2
    <3>2. chain = UpTo(m)
      BY <3>1 DEF CeremonyInv, MixesAreTheChain
    <3>3. m \in Nat /\ m \in 0 .. MixCount
      BY <1>1
    <3>4. Len(UpTo(m)) = m
      BY <3>3, UpToIs
    <3> QED BY <3>2, <3>3, <3>4
  <2> QED BY <2>1, <2>2 DEF PublishedKeys
<1>3. zkeys' = WithKey(n, chain) /\ shell.at = "prompt"
      /\ UNCHANGED <<transcript, mixes, ceremonyNow, finalZkey, shell>>
  BY DEF KeyIsRestored, AtShell
<1> HIDE DEF n
<1>4. DOMAIN zkeys' = DOMAIN zkeys \cup {n}
      /\ \A k \in DOMAIN zkeys' : zkeys'[k] = IF k = n THEN chain ELSE zkeys[k]
  BY <1>3 DEF WithKey
<1>5. DOMAIN zkeys' \subseteq 0 .. EntryCount + 1
  BY <1>1, <1>2, <1>4 DEF CeremonyInv, KeysAreTheChain
<1>6. \A k \in DOMAIN zkeys' : zkeys'[k] = IF k <= MixCount THEN UpTo(k) ELSE TornAfter(k - 1)
  <2> TAKE k \in DOMAIN zkeys'
  <2>1. CASE k = n
    <3>1. k <= MixCount
      BY <1>1, <1>2, <2>1
    <3> QED BY <1>2, <1>4, <2>1, <3>1
  <2>2. CASE k # n
    <3>1. k \in DOMAIN zkeys /\ zkeys'[k] = zkeys[k]
      BY <1>4, <2>2
    <3> QED BY <3>1 DEF CeremonyInv, KeysAreTheChain
  <2> QED BY <2>1, <2>2
<1>7. MixCount = EntryCount + 1 => MixCount \in DOMAIN zkeys'
  BY <1>4 DEF CeremonyInv, TranscriptFollows
<1> QED BY <1>3, <1>5, <1>6, <1>7, KeysMoved

(* So does removing a torn key by hand.                                      *)
LEMMA RemovesTornKeeps == ASSUME CeremonyInv, RemovesTornKey PROVE CeremonyInv'
PROOF
<1>1. ChainTip = EntryCount + 1 /\ EntryCount \in Nat /\ MixCount = EntryCount /\ 0 .. EntryCount + 1 \subseteq DOMAIN zkeys
  BY UnrecordedIs DEF RemovesTornKey
<1>2. zkeys' = [k \in 0 .. EntryCount |-> zkeys[k]]
  BY <1>1 DEF RemovesTornKey
<1>3. UNCHANGED <<transcript, mixes, ceremonyNow, finalZkey, shell>> /\ shell.at = "prompt"
  BY DEF RemovesTornKey, UnrecordedKey, AtShell
<1>4. DOMAIN zkeys' \subseteq 0 .. EntryCount + 1 /\ \A k \in DOMAIN zkeys' : k \in DOMAIN zkeys /\ zkeys'[k] = zkeys[k]
  BY <1>1, <1>2
<1>5. \A k \in DOMAIN zkeys' : zkeys'[k] = IF k <= MixCount THEN UpTo(k) ELSE TornAfter(k - 1)
  BY <1>4 DEF CeremonyInv, KeysAreTheChain
<1>6. MixCount # EntryCount + 1
  BY <1>1
<1> QED BY <1>3, <1>4, <1>5, <1>6, KeysMoved

(* So does putting the keys of a ceremony away.                              *)
LEMMA PutsKeysAwayKeeps == ASSUME CeremonyInv, PutsKeysAway PROVE CeremonyInv'
PROOF
<1>1. MixCount = EntryCount /\ EntryCount \in Nat
  BY TipRecorded, CeremonyAre DEF PutsKeysAway, VerifyChainPasses, KeysOnDiskAgree, Recorded,
     EntryCount, CeremonyInv
<1>2. zkeys' = <<>> /\ UNCHANGED <<transcript, mixes, ceremonyNow, finalZkey, shell>> /\ shell.at = "prompt"
  BY DEF PutsKeysAway, AtShell
<1>3. DOMAIN zkeys' = {}
  BY <1>2
<1>4. MixCount # EntryCount + 1
  BY <1>1
<1> QED BY <1>2, <1>3, <1>4, KeysMoved

(* Every step of a command or of a hand keeps it.                            *)
LEMMA CeremonyInvStep == CeremonyInv /\ [CeremonyNext]_ceremonyVars => CeremonyInv'
PROOF
<1> SUFFICES ASSUME CeremonyInv, [CeremonyNext]_ceremonyVars PROVE CeremonyInv'
  OBVIOUS
<1>1. CASE InitSetsUp
  BY <1>1, InitSetsUpKeeps
<1>2. CASE ContributeStarts
  BY <1>2, ContributeStartsKeeps
<1>3. CASE MixEnds
  BY <1>3, MixEndsKeeps
<1>4. CASE RecordsContribution
  BY <1>4, RecordsContributionKeeps
<1>5. CASE ReadsBack
  BY <1>5, ReadsBackKeeps
<1>6. CASE \E r \in 1 .. CeremonyMaxTime : BeaconSeals(r)
  BY <1>6, BeaconSealsKeeps
<1>7. CASE SealEnds
  BY <1>7, SealEndsKeeps
<1>8. CASE InitRecords \/ BeaconRecords \/ FinalizeRecords \/ CommandDies
  BY <1>8, MarksKeep
<1>9. CASE FinalizeExports \/ InstallsVerifyingKey \/ CeremonyClock
  BY <1>9, ExportsKeep
<1>10. CASE \E i \in 0 .. MaxMixes : KeyIsLost(i)
  BY <1>10, KeyIsLostKeeps
<1>11. CASE \E chain \in PublishedKeys : KeyIsRestored(chain)
  BY <1>11, KeyIsRestoredKeeps
<1>12. CASE \E i \in DOMAIN Recorded : FillsInByHand(i)
  BY <1>12, FillsInKeeps
<1>13. CASE ReconcilesByHand
  BY <1>13, ReconcilesKeeps
<1>14. CASE RemovesTornKey
  BY <1>14, RemovesTornKeeps
<1>15. CASE PutsKeysAway
  BY <1>15, PutsKeysAwayKeeps
<1>16. CASE UNCHANGED ceremonyVars
  BY <1>16 DEF ceremonyVars, CeremonyInv, CeremonyTypes, TranscriptFollows, KeysAreTheChain,
     MixesAreTheChain, EntriesAreTheChain, ShellStands, EntryCount, MixCount
<1> QED BY <1>1, <1>2, <1>3, <1>4, <1>5, <1>6, <1>7, <1>8, <1>9, <1>10, <1>11, <1>12, <1>13, <1>14,
        <1>15, <1>16 DEF CeremonyNext

(* However many contributions and whatever commands die, keys are lost and   *)
(* hands mend: no contribution anyone was shown is dropped from the ceremony,*)
(* and when verify-chain passes it tells the truth (ceremony.mjs).           *)
THEOREM CeremonyIsTrue == CeremonySpec => []CeremonyHolds
PROOF
<1>1. CeremonyInit => CeremonyInv
  BY CeremonyInvInit
<1>2. CeremonyInv /\ [CeremonyNext]_ceremonyVars => CeremonyInv'
  BY CeremonyInvStep
<1>3. CeremonyInv => CeremonyHolds
  BY CeremonyInvHolds
<1> QED BY <1>1, <1>2, <1>3, PTL DEF CeremonySpec

-----------------------------------------------------------------------------
(* Migrations (Migrations).                                                  *)
RowCount == Cardinality(rows)
Marks == Numbers \X Nat

RunnersTyped ==
    /\ DOMAIN runner = Runners
    /\ \A r \in Runners :
          /\ DOMAIN runner[r] = {"stage", "up", "plan", "done"}
          /\ runner[r].plan \in Seq(Numbers) /\ runner[r].done \in SUBSET Marks

SchemaTyped ==
    /\ rows \subseteq Numbers /\ handMade \subseteq objects /\ byHand \in Nat
    /\ applications \in [Numbers -> Nat]

(* An application counted is listed by who made it, before the next one.     *)
DoneWasApplied ==
    \A r \in Runners : \A d \in runner[r].done : d[2] <= applications[d[1]]

HandsWereThere == handMade # {} => byHand > 0

(* While no down has had company, a plan up goes on from the first rows, and *)
(* a plan down, alone, back from the last one.                               *)
PlansUpFollow ==
    \A r \in Runners : runner[r].stage = "running" /\ runner[r].up =>
        \A i \in DOMAIN runner[r].plan :
            runner[r].plan[i] = runner[r].plan[1] + i - 1 /\ runner[r].plan[1] <= RowCount + 1
PlansDownFollow ==
    \A r \in Runners : runner[r].stage = "running" /\ ~runner[r].up =>
        /\ RunnersRunning = {r}
        /\ \A i \in DOMAIN runner[r].plan : runner[r].plan[i] = RowCount - i + 1
RowsInOrder == rows = 1 .. RowCount /\ rows \subseteq objects /\ handMade \cap rows = {}
InOrder == ~downOverlapped => RowsInOrder /\ PlansUpFollow /\ PlansDownFollow

MigrationsInv ==
    /\ RunnersTyped /\ SchemaTyped /\ DoneWasApplied /\ HandsWereThere
    /\ UnrecordedIsHandMade /\ ConflictsAreReal /\ OneRunnerListsEach /\ InOrder

(* The invariant is stronger than what is promised.                          *)
LEMMA MigrationsInvHolds == MigrationsInv => MigrationsHold
BY DEF MigrationsInv, InOrder, RowsInOrder, RecordedExists, MigrationsHold, RowCount

-----------------------------------------------------------------------------
(* A set of numbers is finite, and those up to one of its own are the fewer. *)
LEMMA NumbersFinite ==
    ASSUME NEW ms \in SUBSET Numbers
    PROVE  IsFiniteSet(ms) /\ Cardinality(ms) \in Nat
PROOF
<1>1. IsFiniteSet(Numbers)
  BY MigrationsAssumption, FS_Interval DEF Numbers
<1> QED BY <1>1, FS_Subset, FS_CardinalityType

(* The first k numbers are k.                                                *)
LEMMA Initial ==
    ASSUME NEW k \in Nat
    PROVE  IsFiniteSet(1 .. k) /\ Cardinality(1 .. k) = k
PROOF
<1>1. IsFiniteSet(1 .. k) /\ Cardinality(1 .. k) = IF 1 > k THEN 0 ELSE k - 1 + 1
  BY FS_Interval
<1> QED BY <1>1

(* The number of members up to one of them tells the members apart.          *)
LEMMA RankTellsApart ==
    ASSUME NEW ms \in SUBSET Numbers, NEW x \in ms, NEW y \in ms, x < y
    PROVE  Cardinality({z \in ms : z <= x}) < Cardinality({z \in ms : z <= y})
PROOF
<1> DEFINE X == {z \in ms : z <= x}
           Y == {z \in ms : z <= y}
<1>0. ms \subseteq Int
  BY MigrationsAssumption DEF Numbers
<1>1. X \subseteq Y /\ y \in Y /\ y \notin X
  <2>1. x \in Int /\ y \in Int /\ \A z \in ms : z \in Int
    BY <1>0
  <2>2. \A z \in ms : z <= x => z <= y
    BY <2>1
  <2>3. y <= y /\ ~(y <= x)
    BY <2>1
  <2> QED BY <2>2, <2>3
<1>2. IsFiniteSet(Y) /\ Cardinality(Y) \in Nat /\ Cardinality(X) \in Nat
  BY NumbersFinite
<1> HIDE DEF X, Y
<1>3. Cardinality(X) <= Cardinality(Y) /\ (Cardinality(Y) = Cardinality(X) => Y = X)
  BY <1>1, <1>2, FS_Subset
<1>4. Cardinality(X) < Cardinality(Y)
  BY <1>1, <1>2, <1>3
<1> QED BY <1>4 DEF X, Y

(* ByNumber: every set of numbers has its ascending sequence.                *)
LEMMA ByNumberIs ==
    ASSUME NEW ms \in SUBSET Numbers
    PROVE  /\ ByNumber(ms) \in [1 .. Cardinality(ms) -> ms] /\ ByNumber(ms) \in Seq(Numbers)
           /\ Len(ByNumber(ms)) = Cardinality(ms)
           /\ \A i, k \in DOMAIN ByNumber(ms) : i < k => ByNumber(ms)[i] < ByNumber(ms)[k]
PROOF
<1> DEFINE n == Cardinality(ms)
           upTo(x) == {z \in ms : z <= x}
           rank == [x \in ms |-> Cardinality(upTo(x))]
<1>1. IsFiniteSet(ms) /\ n \in Nat /\ ms \subseteq Int
  BY NumbersFinite, MigrationsAssumption DEF Numbers
<1>2. ASSUME NEW x \in ms PROVE Cardinality(upTo(x)) \in 1 .. n
  <2>1. IsFiniteSet(upTo(x)) /\ Cardinality(upTo(x)) \in Nat /\ upTo(x) \in SUBSET ms
    BY NumbersFinite
  <2>2. x \in upTo(x)
    BY <1>1
  <2> HIDE DEF upTo
  <2>3. Cardinality(upTo(x)) <= n
    BY <1>1, <2>1, FS_Subset
  <2>4. Cardinality(upTo(x)) # 0
    BY <2>1, <2>2, FS_EmptySet
  <2> QED BY <1>1, <2>1, <2>3, <2>4
<1>3. ASSUME NEW x \in ms, NEW y \in ms, x < y PROVE Cardinality(upTo(x)) < Cardinality(upTo(y))
  BY <1>3, RankTellsApart
<1> HIDE DEF n, upTo
<1>4. rank \in [ms -> 1 .. n]
  BY <1>2
<1>5. \A x, y \in ms : rank[x] = rank[y] => x = y
  <2> SUFFICES ASSUME NEW x \in ms, NEW y \in ms, rank[x] = rank[y], x # y PROVE FALSE
    OBVIOUS
  <2>1. x < y \/ y < x
    BY <1>1
  <2>2. Cardinality(upTo(x)) \in Int /\ Cardinality(upTo(y)) \in Int
    BY <1>2
  <2> QED BY <1>3, <2>1, <2>2
<1> HIDE DEF rank
<1>6. rank \in Injection(ms, 1 .. n)
  BY <1>4, <1>5 DEF Injection, IsInjective
<1>7. IsFiniteSet(1 .. n) /\ Cardinality(1 .. n) = Cardinality(ms)
  BY <1>1, Initial DEF n
<1>8. rank \in Surjection(ms, 1 .. n)
  BY <1>6, <1>7, FS_Injection
<1>9. \A i \in 1 .. n : \E x \in ms : rank[x] = i
  BY <1>8 DEF Surjection
<1> DEFINE s == [i \in 1 .. n |-> CHOOSE x \in ms : rank[x] = i]
<1>10. s \in [1 .. n -> ms] /\ \A i \in 1 .. n : rank[s[i]] = i
  BY <1>9
<1>11. ASSUME NEW i \in 1 .. n, NEW k \in 1 .. n, i < k PROVE s[i] < s[k]
  <2> SUFFICES ASSUME ~(s[i] < s[k]) PROVE FALSE
    OBVIOUS
  <2>1. s[i] \in ms /\ s[k] \in ms /\ rank[s[i]] = i /\ rank[s[k]] = k
    BY <1>10
  <2> HIDE DEF s
  <2>2. s[k] < s[i] \/ s[k] = s[i]
    <3>1. s[i] \in Int /\ s[k] \in Int
      BY <1>1, <2>1
    <3> QED BY <3>1
  <2>3. s[k] < s[i] => rank[s[k]] < rank[s[i]]
    BY <1>3, <2>1 DEF rank
  <2> QED BY <1>1, <1>11, <2>1, <2>2, <2>3
<1> HIDE DEF s
<1>12. \E t \in [1 .. n -> ms] : \A i, k \in DOMAIN t : i < k => t[i] < t[k]
  <2>1. DOMAIN s = 1 .. n
    BY <1>10
  <2> QED BY <1>10, <1>11, <2>1
<1>13. /\ ByNumber(ms) \in [1 .. n -> ms]
       /\ \A i, k \in DOMAIN ByNumber(ms) : i < k => ByNumber(ms)[i] < ByNumber(ms)[k]
  BY <1>12 DEF ByNumber, n
<1>14. ByNumber(ms) \in Seq(Numbers) /\ Len(ByNumber(ms)) = n
  <2>1. ByNumber(ms) \in [1 .. n -> Numbers]
    BY <1>13
  <2>2. ByNumber(ms) \in Seq(Numbers)
    BY <1>1, <2>1, SeqDef
  <2> QED BY <1>1, <2>1, <2>2, LenProperties
<1> QED BY <1>13, <1>14 DEF n

(* Of consecutive numbers it is the one that counts them.                    *)
LEMMA ByNumberCounts ==
    ASSUME NEW a \in Numbers \cup {LastMigration + 1}, NEW b \in Numbers \cup {0}, a <= b + 1, a .. b \subseteq Numbers
    PROVE  /\ Len(ByNumber(a .. b)) = b - a + 1
           /\ \A i \in 1 .. b - a + 1 : ByNumber(a .. b)[i] = a + i - 1
PROOF
<1> DEFINE s == ByNumber(a .. b)
           n == b - a + 1
<1>1. a \in Int /\ b \in Int /\ n \in Nat
  BY MigrationsAssumption DEF Numbers
<1>2. IsFiniteSet(a .. b) /\ Cardinality(a .. b) = n
  <2>1. IsFiniteSet(a .. b) /\ Cardinality(a .. b) = IF a > b THEN 0 ELSE b - a + 1
    BY <1>1, FS_Interval
  <2>2. a > b => n = 0
    BY <1>1
  <2> QED BY <2>1, <2>2
<1>3. s \in [1 .. n -> a .. b] /\ Len(s) = n /\ \A i, k \in 1 .. n : i < k => s[i] < s[k]
  <2>1. /\ s \in [1 .. Cardinality(a .. b) -> a .. b] /\ Len(s) = Cardinality(a .. b)
        /\ \A i, k \in DOMAIN s : i < k => s[i] < s[k]
    BY ByNumberIs
  <2> HIDE DEF s, n
  <2> QED BY <1>2, <2>1
<1> HIDE DEF s, n
<1>4. s \in Injection(1 .. n, a .. b)
  <2>1. \A i, k \in 1 .. n : s[i] = s[k] => i = k
    <3> SUFFICES ASSUME NEW i \in 1 .. n, NEW k \in 1 .. n, s[i] = s[k], i # k PROVE FALSE
      OBVIOUS
    <3>1. i < k \/ k < i
      BY <1>1
    <3>2. s[i] \in Int
      BY <1>1, <1>3
    <3> QED BY <1>3, <3>1, <3>2
  <2> QED BY <1>3, <2>1 DEF Injection, IsInjective
<1>5. s \in Surjection(1 .. n, a .. b)
  <2>1. IsFiniteSet(1 .. n) /\ Cardinality(1 .. n) = n
    BY <1>1, Initial
  <2> QED BY <1>2, <1>4, <2>1, FS_Injection
<1>6. ASSUME NEW i \in 1 .. n PROVE s[i] = a + i - 1
  <2> DEFINE below == {k \in 1 .. n : s[k] <= s[i]}
             values == {v \in a .. b : v <= s[i]}
  <2>1. s[i] \in a .. b /\ s[i] \in Int
    BY <1>1, <1>3
  <2>2. below = 1 .. i
    <3>1. \A k \in 1 .. n : s[k] <= s[i] <=> k <= i
      <4> SUFFICES ASSUME NEW k \in 1 .. n PROVE s[k] <= s[i] <=> k <= i
        OBVIOUS
      <4>1. s[k] \in Int /\ k \in Int /\ i \in Int
        BY <1>1, <1>3
      <4>2. (i < k => s[i] < s[k]) /\ (k < i => s[k] < s[i])
        BY <1>3
      <4> QED BY <2>1, <4>1, <4>2
    <3> QED BY <1>1, <3>1
  <2>3. values = a .. s[i]
    BY <1>1, <2>1
  <2>4. Cardinality(1 .. i) = i /\ Cardinality(a .. s[i]) = s[i] - a + 1
    <3>1. i \in Nat /\ s[i] >= a
      BY <1>1, <2>1
    <3> QED BY <1>1, <2>1, <3>1, Initial, FS_Interval
  <2>5. Cardinality(below) = Cardinality(values)
    <3> DEFINE f == [k \in below |-> s[k]]
    <3>1. f \in [below -> values]
      BY <1>3
    <3>2. \A v \in values : \E k \in below : f[k] = v
      BY <1>5 DEF Surjection
    <3>3. \A k, m \in below : f[k] = f[m] => k = m
      BY <1>4 DEF Injection, IsInjective
    <3>4. IsFiniteSet(below)
      <4>1. i \in Nat
        BY <1>1
      <4> QED BY <2>2, <4>1, Initial
    <3> HIDE DEF f, below, values
    <3>5. f \in Surjection(below, values) /\ f \in Injection(below, values)
      BY <3>1, <3>2, <3>3 DEF Surjection, Injection, IsInjective
    <3> QED BY <3>4, <3>5, FS_Surjection
  <2> HIDE DEF below, values
  <2>6. i = s[i] - a + 1
    BY <2>2, <2>3, <2>4, <2>5
  <2> QED BY <1>1, <2>1, <2>6
<1> QED BY <1>3, <1>6 DEF s, n

-----------------------------------------------------------------------------
(* A plan is the first steps of a sequence of numbers.                       *)
LEMMA FirstSteps ==
    ASSUME NEW s \in Seq(Numbers), NEW n \in 0 .. Len(s)
    PROVE  /\ SubSeq(s, 1, n) \in Seq(Numbers) /\ Len(SubSeq(s, 1, n)) = n
           /\ \A i \in 1 .. n : SubSeq(s, 1, n)[i] = s[i]
PROOF
<1>1. Len(s) \in Nat /\ \A i \in 1 .. Len(s) : s[i] \in Numbers
  BY LenProperties, ElementOfSeq
<1>2. /\ SubSeq(s, 1, n) \in Seq(Numbers)
      /\ Len(SubSeq(s, 1, n)) = IF 1 <= n THEN n - 1 + 1 ELSE 0
      /\ \A i \in 1 .. n - 1 + 1 : SubSeq(s, 1, n)[i] = s[1 + i - 1]
  BY <1>1, SubSeqProperties
<1> QED BY <1>1, <1>2

(* A plan up lists what is missing, from the lowest.                         *)
LEMMA PlanUpIs ==
    ASSUME rows \subseteq Numbers, NEW steps \in 0 .. LastMigration
    PROVE  /\ PlanUp(steps) \in Seq(Numbers)
           /\ \A i \in DOMAIN PlanUp(steps) :
                 i \in DOMAIN ByNumber(Numbers \ rows) /\ PlanUp(steps)[i] = ByNumber(Numbers \ rows)[i]
PROOF
<1> DEFINE s == ByNumber(Numbers \ rows)
           n == IF steps < Len(s) THEN steps ELSE Len(s)
<1>1. s \in Seq(Numbers) /\ Len(s) \in Nat /\ DOMAIN s = 1 .. Len(s)
  BY ByNumberIs, LenProperties
<1>2. PlanUp(steps) = IF steps = 0 THEN s ELSE SubSeq(s, 1, n)
  BY DEF PlanUp
<1> HIDE DEF s
<1>3. n \in 0 .. Len(s)
  BY <1>1, MigrationsAssumption
<1> HIDE DEF n
<1>4. SubSeq(s, 1, n) \in Seq(Numbers) /\ Len(SubSeq(s, 1, n)) = n /\ \A i \in 1 .. n : SubSeq(s, 1, n)[i] = s[i]
  BY <1>1, <1>3, FirstSteps
<1>5. DOMAIN SubSeq(s, 1, n) = 1 .. n
  BY <1>4, LenProperties
<1>6. PlanUp(steps) \in Seq(Numbers) /\ \A i \in DOMAIN PlanUp(steps) : i \in DOMAIN s /\ PlanUp(steps)[i] = s[i]
  BY <1>1, <1>2, <1>3, <1>4, <1>5
<1> QED BY <1>6 DEF s

(* A plan down lists what is recorded, from the highest.                     *)
LEMMA PlanDownIs ==
    ASSUME rows \subseteq Numbers, NEW steps \in 0 .. LastMigration
    PROVE  /\ PlanDown(steps) \in Seq(Numbers)
           /\ \A i \in DOMAIN PlanDown(steps) :
                 i \in 1 .. RowCount /\ PlanDown(steps)[i] = ByNumber(rows)[RowCount - i + 1]
PROOF
<1> DEFINE s == ByNumber(rows)
           t == Reverse(s)
           n == IF steps < Len(t) THEN steps ELSE Len(t)
<1>1. s \in Seq(Numbers) /\ Len(s) = RowCount /\ RowCount \in Nat
  BY ByNumberIs, NumbersFinite DEF RowCount
<1>2. PlanDown(steps) = SubSeq(t, 1, n)
  BY DEF PlanDown
<1>3. \A i \in 1 .. Len(s) : s[i] \in Numbers
  BY <1>1, ElementOfSeq
<1> HIDE DEF s
<1>4. t = [i \in 1 .. RowCount |-> s[RowCount - i + 1]]
  BY <1>1 DEF Reverse
<1> HIDE DEF t
<1>5. t \in [1 .. RowCount -> Numbers]
  <2>1. \A i \in 1 .. RowCount : RowCount - i + 1 \in 1 .. RowCount
    BY <1>1
  <2> QED BY <1>1, <1>3, <1>4, <2>1
<1>6. t \in Seq(Numbers)
  BY <1>1, <1>5, SeqDef
<1>7. Len(t) = RowCount
  BY <1>1, <1>5, <1>6, LenProperties
<1>8. n \in 0 .. Len(t)
  BY <1>1, <1>7, MigrationsAssumption
<1> HIDE DEF n
<1>9. SubSeq(t, 1, n) \in Seq(Numbers) /\ Len(SubSeq(t, 1, n)) = n /\ \A i \in 1 .. n : SubSeq(t, 1, n)[i] = t[i]
  BY <1>6, <1>8, FirstSteps
<1>10. DOMAIN SubSeq(t, 1, n) = 1 .. n
  BY <1>9, LenProperties
<1>11. \A i \in 1 .. n : i \in 1 .. RowCount /\ t[i] = s[RowCount - i + 1]
  BY <1>1, <1>4, <1>7, <1>8
<1>12. PlanDown(steps) \in Seq(Numbers) /\ \A i \in DOMAIN PlanDown(steps) :
          i \in 1 .. RowCount /\ PlanDown(steps)[i] = s[RowCount - i + 1]
  BY <1>2, <1>9, <1>10, <1>11
<1> QED BY <1>12 DEF s

-----------------------------------------------------------------------------
(* An empty database satisfies the invariant.                                *)
LEMMA MigrationsInvInit == MigrationsInit => MigrationsInv
PROOF
<1> SUFFICES ASSUME MigrationsInit PROVE MigrationsInv
  OBVIOUS
<1>1. <<>> \in Seq(Numbers)
  BY EmptySeq
<1>2. \A r \in Runners : runner[r] = [stage |-> "none", up |-> TRUE, plan |-> <<>>, done |-> {}]
  BY DEF MigrationsInit
<1>3. RunnersTyped
  BY <1>1 DEF MigrationsInit, RunnersTyped
<1>4. SchemaTyped /\ HandsWereThere /\ UnrecordedIsHandMade
  BY DEF MigrationsInit, SchemaTyped, HandsWereThere, UnrecordedIsHandMade
<1>5. DoneWasApplied /\ ConflictsAreReal /\ OneRunnerListsEach /\ PlansUpFollow /\ PlansDownFollow
  BY <1>2 DEF DoneWasApplied, ConflictsAreReal, OneRunnerListsEach, PlansUpFollow, PlansDownFollow
<1>6. RowsInOrder
  <2>1. rows = {} /\ objects = {} /\ handMade = {}
    BY DEF MigrationsInit
  <2>2. RowCount = 0
    BY <2>1, FS_EmptySet DEF RowCount
  <2> QED BY <2>1, <2>2 DEF RowsInOrder
<1> QED BY <1>3, <1>4, <1>5, <1>6 DEF MigrationsInv, InOrder

(* A runner that does nothing to the schema: what it stands at, and its plan.*)
LEMMA RunnerMoves ==
    ASSUME MigrationsInv, NEW r \in Runners, UNCHANGED <<rows, objects, handMade, applications, byHand>>,
           DOMAIN runner' = Runners, \A s \in Runners \ {r} : runner'[s] = runner[s],
           DOMAIN runner'[r] = {"stage", "up", "plan", "done"}, runner'[r].plan \in Seq(Numbers),
           runner'[r].done = runner[r].done, runner'[r].stage = "conflict" => byHand > 0,
           InOrder'
    PROVE  MigrationsInv'
PROOF
<1>1. RunnersTyped'
  <2>1. \A s \in Runners : /\ DOMAIN runner'[s] = {"stage", "up", "plan", "done"}
                            /\ runner'[s].plan \in Seq(Numbers) /\ runner'[s].done \in SUBSET Marks
    BY DEF MigrationsInv, RunnersTyped
  <2> QED BY <2>1 DEF RunnersTyped
<1>2. \A s \in Runners : runner'[s].done = runner[s].done
  OBVIOUS
<1>3. DoneWasApplied' /\ OneRunnerListsEach'
  BY <1>2 DEF MigrationsInv, DoneWasApplied, OneRunnerListsEach
<1>4. ConflictsAreReal'
  BY DEF MigrationsInv, ConflictsAreReal
<1>5. SchemaTyped' /\ HandsWereThere' /\ UnrecordedIsHandMade'
  BY DEF MigrationsInv, SchemaTyped, HandsWereThere, UnrecordedIsHandMade
<1> QED BY <1>1, <1>3, <1>4, <1>5 DEF MigrationsInv

(* A runner that runs no longer is in nobody's way.                          *)
LEMMA RunnerStops ==
    ASSUME MigrationsInv, NEW r \in Runners, UNCHANGED <<rows, objects, handMade, applications, byHand, downOverlapped>>,
           DOMAIN runner' = Runners, \A s \in Runners \ {r} : runner'[s] = runner[s],
           DOMAIN runner'[r] = {"stage", "up", "plan", "done"}, runner'[r].plan \in Seq(Numbers),
           runner'[r].done = runner[r].done, runner'[r].stage # "running",
           runner'[r].stage = "conflict" => byHand > 0
    PROVE  MigrationsInv'
PROOF
<1>1. InOrder'
  <2> SUFFICES ASSUME ~downOverlapped PROVE RowsInOrder' /\ PlansUpFollow' /\ PlansDownFollow'
    BY DEF InOrder
  <2>1. RowsInOrder /\ PlansUpFollow /\ PlansDownFollow /\ RowCount' = RowCount
    BY DEF MigrationsInv, InOrder, RowCount
  <2>2. RowsInOrder' /\ PlansUpFollow'
    BY <2>1 DEF RowsInOrder, PlansUpFollow
  <2>3. ASSUME NEW s \in Runners, runner'[s].stage = "running", ~runner'[s].up
        PROVE  /\ RunnersRunning' = {s}
               /\ \A i \in DOMAIN runner'[s].plan : runner'[s].plan[i] = RowCount' - i + 1
    <3>1. s # r /\ runner'[s] = runner[s]
      BY <2>3
    <3>2. RunnersRunning = {s} /\ RunnersRunning' \subseteq RunnersRunning /\ s \in RunnersRunning'
      BY <2>1, <2>3, <3>1 DEF PlansDownFollow, RunnersRunning
    <3> QED BY <2>1, <2>3, <3>1, <3>2 DEF PlansDownFollow
  <2> QED BY <2>2, <2>3 DEF PlansDownFollow
<1> QED BY <1>1, RunnerMoves

(* A runner that plans keeps the invariant.                                  *)
LEMMA PlansKeeps ==
    ASSUME MigrationsInv, NEW r \in Runners, NEW up \in BOOLEAN, NEW steps \in 0 .. LastMigration, Plans(r, up, steps)
    PROVE  MigrationsInv'
PROOF
<1> DEFINE plan == IF up THEN PlanUp(steps) ELSE PlanDown(steps)
<1>1. /\ runner[r].stage = "none" /\ UNCHANGED <<rows, objects, handMade, applications, byHand>>
      /\ downOverlapped' = (downOverlapped \/ Overlaps(up))
      /\ runner' = [runner EXCEPT ![r].stage = "running", ![r].up = up, ![r].plan = plan]
  BY DEF Plans
<1>2. rows \subseteq Numbers /\ RunnersTyped
  BY DEF MigrationsInv, SchemaTyped
<1>3. plan \in Seq(Numbers)
  BY <1>2, PlanUpIs, PlanDownIs
<1> HIDE DEF plan
<1>4. /\ DOMAIN runner' = Runners /\ \A s \in Runners \ {r} : runner'[s] = runner[s]
      /\ DOMAIN runner'[r] = {"stage", "up", "plan", "done"} /\ runner'[r].plan = plan
      /\ runner'[r].done = runner[r].done /\ runner'[r].stage = "running" /\ runner'[r].up = up
  BY <1>1, <1>2 DEF RunnersTyped
<1>5. InOrder'
  <2> SUFFICES ASSUME ~downOverlapped' PROVE RowsInOrder' /\ PlansUpFollow' /\ PlansDownFollow'
    BY DEF InOrder
  <2>1. RowsInOrder /\ PlansUpFollow /\ PlansDownFollow /\ RowCount' = RowCount /\ ~Overlaps(up)
    BY <1>1 DEF MigrationsInv, InOrder, RowCount
  <2>2. RowCount \in Nat /\ rows = 1 .. RowCount
    BY <1>2, <2>1, NumbersFinite DEF RowsInOrder, RowCount
  <2>3. up => \A i \in DOMAIN plan : plan[i] = plan[1] + i - 1 /\ plan[1] <= RowCount + 1
    <3> SUFFICES ASSUME up, NEW i \in DOMAIN plan PROVE plan[i] = plan[1] + i - 1 /\ plan[1] <= RowCount + 1
      OBVIOUS
    <3>1. RowCount <= LastMigration
      BY <1>2, <2>2, MigrationsAssumption DEF Numbers
    <3>2. Numbers \ rows = RowCount + 1 .. LastMigration
      BY <2>2, MigrationsAssumption DEF Numbers
    <3>3. /\ Len(ByNumber(Numbers \ rows)) = LastMigration - RowCount
          /\ \A k \in 1 .. LastMigration - RowCount : ByNumber(Numbers \ rows)[k] = RowCount + k
      <4> DEFINE a == RowCount + 1
      <4>1. a \in Numbers \cup {LastMigration + 1} /\ LastMigration \in Numbers \cup {0} /\ a <= LastMigration + 1
        BY <2>2, <3>1, MigrationsAssumption DEF Numbers
      <4>2. a .. LastMigration \subseteq Numbers
        BY <3>2
      <4> HIDE DEF a
      <4>3. /\ Len(ByNumber(a .. LastMigration)) = LastMigration - a + 1
            /\ \A k \in 1 .. LastMigration - a + 1 : ByNumber(a .. LastMigration)[k] = a + k - 1
        BY <4>1, <4>2, ByNumberCounts
      <4>4. LastMigration - a + 1 = LastMigration - RowCount
        BY <2>2, MigrationsAssumption DEF a
      <4>5. \A k \in 1 .. LastMigration - RowCount : a + k - 1 = RowCount + k
        BY <2>2, MigrationsAssumption DEF a
      <4>6. ByNumber(Numbers \ rows) = ByNumber(a .. LastMigration)
        BY <3>2 DEF a
      <4> QED BY <4>3, <4>4, <4>5, <4>6
    <3>4. \A k \in DOMAIN plan : k \in 1 .. LastMigration - RowCount /\ plan[k] = RowCount + k
      <4>1. \A k \in DOMAIN plan :
              k \in DOMAIN ByNumber(Numbers \ rows) /\ plan[k] = ByNumber(Numbers \ rows)[k]
        BY <1>2, PlanUpIs DEF plan
      <4>2. DOMAIN ByNumber(Numbers \ rows) = 1 .. Len(ByNumber(Numbers \ rows))
        BY ByNumberIs, LenProperties
      <4> QED BY <3>3, <4>1, <4>2
    <3>5. 1 \in DOMAIN plan /\ i \in Int
      BY <1>3, LenProperties
    <3> QED BY <2>2, <3>4, <3>5
  <2>4. ~up => \A i \in DOMAIN plan : plan[i] = RowCount - i + 1
    <3> SUFFICES ASSUME ~up, NEW i \in DOMAIN plan PROVE plan[i] = RowCount - i + 1
      OBVIOUS
    <3>1. i \in 1 .. RowCount /\ plan[i] = ByNumber(rows)[RowCount - i + 1]
      BY <1>2, PlanDownIs DEF plan
    <3>2. 1 \in Numbers /\ RowCount \in Numbers
      BY <1>2, <2>2, <3>1
    <3>3. \A k \in 1 .. RowCount - 1 + 1 : ByNumber(1 .. RowCount)[k] = 1 + k - 1
      <4>1. 1 <= RowCount + 1 /\ 1 .. RowCount \subseteq Numbers
        BY <1>2, <2>2
      <4> QED BY <3>2, <4>1, ByNumberCounts
    <3> QED BY <2>2, <3>1, <3>3
  <2>5. ASSUME NEW s \in Runners, runner'[s].stage = "running", runner'[s].up, NEW i \in DOMAIN runner'[s].plan
        PROVE  runner'[s].plan[i] = runner'[s].plan[1] + i - 1 /\ runner'[s].plan[1] <= RowCount' + 1
    <3>1. CASE s = r
      BY <1>4, <2>1, <2>3, <2>5, <3>1
    <3>2. CASE s # r
      BY <1>4, <2>1, <2>5, <3>2 DEF PlansUpFollow
    <3> QED BY <3>1, <3>2
  <2>6. ASSUME NEW s \in Runners, runner'[s].stage = "running", ~runner'[s].up
        PROVE  /\ RunnersRunning' = {s}
               /\ \A i \in DOMAIN runner'[s].plan : runner'[s].plan[i] = RowCount' - i + 1
    <3>1. CASE s = r
      <4>1. ~up
        BY <1>4, <2>6, <3>1
      <4>2. RunnersRunning = {}
        BY <2>1, <4>1 DEF Overlaps
      <4>3. RunnersRunning' = {r}
        BY <1>4, <4>2 DEF RunnersRunning
      <4> QED BY <1>4, <2>1, <2>4, <3>1, <4>1, <4>3
    <3>2. CASE s # r
      <4>1. s \in RunnersRunning /\ ~runner[s].up
        BY <1>4, <2>6, <3>2 DEF RunnersRunning
      <4>2. FALSE
        BY <2>1, <4>1 DEF Overlaps
      <4> QED BY <4>2
    <3> QED BY <3>1, <3>2
  <2>7. RowsInOrder'
    BY <1>1, <2>1 DEF RowsInOrder
  <2> QED BY <2>5, <2>6, <2>7 DEF PlansUpFollow, PlansDownFollow
<1> QED BY <1>1, <1>3, <1>4, <1>5, RunnerMoves

(* So does one that fails.                                                   *)
LEMMA RunnerFailsKeeps ==
    ASSUME MigrationsInv, NEW r \in Runners, NEW how \in {"conflict", "failed"}, RunnerFails(r, how),
           UNCHANGED <<byHand, downOverlapped>>, how = "conflict" => byHand > 0
    PROVE  MigrationsInv'
PROOF
<1>1. runner' = [runner EXCEPT ![r].stage = how] /\ UNCHANGED <<rows, objects, handMade, applications>>
  BY DEF RunnerFails
<1>2. RunnersTyped
  BY DEF MigrationsInv
<1>3. /\ DOMAIN runner' = Runners /\ \A s \in Runners \ {r} : runner'[s] = runner[s]
      /\ DOMAIN runner'[r] = {"stage", "up", "plan", "done"} /\ runner'[r].plan = runner[r].plan
      /\ runner'[r].done = runner[r].done /\ runner'[r].stage = how
  BY <1>1, <1>2 DEF RunnersTyped
<1>4. runner'[r].plan \in Seq(Numbers)
  BY <1>2, <1>3 DEF RunnersTyped
<1> QED BY <1>1, <1>3, <1>4, RunnerStops

(* So does one that ends or dies.                                            *)
LEMMA EndsKeeps == ASSUME MigrationsInv, NEW r \in Runners, RunnerEnds(r) \/ RunnerDies(r) PROVE MigrationsInv'
PROOF
<1>1. UNCHANGED <<rows, objects, handMade, applications, byHand, downOverlapped>> /\ RunnersTyped
  BY DEF RunnerEnds, RunnerDies, MigrationsInv
<1>2. /\ DOMAIN runner' = Runners /\ \A s \in Runners \ {r} : runner'[s] = runner[s]
      /\ DOMAIN runner'[r] = {"stage", "up", "plan", "done"} /\ runner'[r].plan \in {runner[r].plan, <<>>}
      /\ runner'[r].done = runner[r].done /\ runner'[r].stage \in {"ended", "dead"}
  BY <1>1 DEF RunnersTyped, RunnerEnds, RunnerDies
<1>3. runner'[r].plan \in Seq(Numbers)
  BY <1>1, <1>2, EmptySeq DEF RunnersTyped
<1> QED BY <1>1, <1>2, <1>3, RunnerStops

(* The rows are counted.                                                     *)
LEMMA RowsAreCounted == ASSUME SchemaTyped PROVE RowCount \in Nat /\ Numbers \subseteq Nat \ {0}
PROOF
<1>1. RowCount \in Nat
  BY NumbersFinite DEF SchemaTyped, RowCount
<1> QED BY <1>1, MigrationsAssumption DEF Numbers

(* A plan is done from its head.                                             *)
LEMMA HeadOfPlan ==
    ASSUME RunnersTyped, NEW r \in Runners, runner[r].plan # <<>>
    PROVE  /\ NextInPlan(r) \in Numbers /\ NextInPlan(r) = runner[r].plan[1] /\ 1 \in DOMAIN runner[r].plan
           /\ Tail(runner[r].plan) \in Seq(Numbers)
           /\ \A i \in DOMAIN Tail(runner[r].plan) :
                 i \in Nat /\ i + 1 \in DOMAIN runner[r].plan /\ Tail(runner[r].plan)[i] = runner[r].plan[i + 1]
           /\ DOMAIN Tail(runner[r].plan) # {} => 1 \in DOMAIN Tail(runner[r].plan)
PROOF
<1> DEFINE s == runner[r].plan
<1>1. s \in Seq(Numbers) /\ s # <<>>
  BY DEF RunnersTyped
<1> HIDE DEF s
<1>2. Len(s) \in Nat \ {0} /\ DOMAIN s = 1 .. Len(s) /\ \A i \in 1 .. Len(s) : s[i] \in Numbers
  BY <1>1, LenProperties, ElementOfSeq, EmptySeq
<1>3. /\ Head(s) = s[1] /\ Tail(s) \in Seq(Numbers) /\ Len(Tail(s)) = Len(s) - 1
      /\ \A i \in 1 .. Len(Tail(s)) : Tail(s)[i] = s[i + 1]
  BY <1>1, HeadTailProperties
<1>4. DOMAIN Tail(s) = 1 .. Len(s) - 1
  BY <1>3, LenProperties
<1>5. \A i \in DOMAIN Tail(s) : i \in Nat /\ i + 1 \in DOMAIN s /\ Tail(s)[i] = s[i + 1]
  BY <1>2, <1>3, <1>4
<1>6. Head(s) \in Numbers /\ 1 \in DOMAIN s
  BY <1>2, <1>3
<1>7. DOMAIN Tail(s) # {} => 1 \in DOMAIN Tail(s)
  BY <1>2, <1>4
<1> QED BY <1>3, <1>5, <1>6, <1>7 DEF s, NextInPlan

(* What doing the next of a plan does to the runner, written out.            *)
LEMMA DoesNextIs ==
    ASSUME RunnersTyped, NEW r \in Runners, runner[r].plan # <<>>, NEW what \in SUBSET Marks, DoesNext(r, what)
    PROVE  /\ DOMAIN runner' = Runners /\ \A s \in Runners \ {r} : runner'[s] = runner[s]
           /\ DOMAIN runner'[r] = {"stage", "up", "plan", "done"} /\ runner'[r].plan = Tail(runner[r].plan)
           /\ runner'[r].done = runner[r].done \cup what /\ runner'[r].stage = runner[r].stage
           /\ runner'[r].up = runner[r].up /\ RunnersTyped'
PROOF
<1>1. /\ DOMAIN runner' = Runners /\ \A s \in Runners \ {r} : runner'[s] = runner[s]
      /\ DOMAIN runner'[r] = {"stage", "up", "plan", "done"} /\ runner'[r].plan = Tail(runner[r].plan)
      /\ runner'[r].done = runner[r].done \cup what /\ runner'[r].stage = runner[r].stage
      /\ runner'[r].up = runner[r].up
  BY DEF RunnersTyped, DoesNext
<1>2. \A s \in Runners :
         /\ DOMAIN runner'[s] = {"stage", "up", "plan", "done"}
         /\ runner'[s].plan \in Seq(Numbers) /\ runner'[s].done \in SUBSET Marks
  <2>1. Tail(runner[r].plan) \in Seq(Numbers) /\ runner[r].done \in SUBSET Marks
    BY HeadOfPlan DEF RunnersTyped
  <2> QED BY <1>1, <2>1 DEF RunnersTyped
<1> QED BY <1>1, <1>2 DEF RunnersTyped

(* A migration applied keeps the invariant.                                  *)
LEMMA UpKeeps == ASSUME MigrationsInv, NEW r \in Runners, UpStep(r) PROVE MigrationsInv'
PROOF
<1> DEFINE m == NextInPlan(r)
<1>1. /\ runner[r].stage = "running" /\ runner[r].plan # <<>> /\ runner[r].up
      /\ UNCHANGED <<byHand, downOverlapped>> /\ RunnersTyped /\ SchemaTyped
  BY DEF UpStep, RunnerReady, MigrationsInv
<1>2. /\ m \in Numbers /\ m = runner[r].plan[1] /\ 1 \in DOMAIN runner[r].plan
      /\ \A i \in DOMAIN Tail(runner[r].plan) :
            i \in Nat /\ i + 1 \in DOMAIN runner[r].plan /\ Tail(runner[r].plan)[i] = runner[r].plan[i + 1]
  BY <1>1, HeadOfPlan
<1> HIDE DEF m
<1>3. ~downOverlapped => /\ RowsInOrder /\ PlansUpFollow /\ PlansDownFollow
                         /\ m \in Nat /\ RowCount \in Nat /\ m <= RowCount + 1 /\ rows = 1 .. RowCount
  <2>1. m \in Nat /\ RowCount \in Nat
    BY <1>1, <1>2, RowsAreCounted
  <2> QED BY <1>1, <1>2, <2>1 DEF MigrationsInv, InOrder, PlansUpFollow, RowsInOrder
(* No plan down is under way beside this one. *)
<1>4. ~downOverlapped => \A s \in Runners : runner[s].stage = "running" => runner[s].up
  <2> SUFFICES ASSUME ~downOverlapped, NEW s \in Runners, runner[s].stage = "running", ~runner[s].up PROVE FALSE
    OBVIOUS
  <2>1. RunnersRunning = {s}
    BY <1>3 DEF PlansDownFollow
  <2> QED BY <1>1, <2>1 DEF RunnersRunning
<1>5. CASE m \in rows
  <2>1. DoesNext(r, {}) /\ UNCHANGED <<rows, objects, handMade, applications>>
    BY <1>5 DEF UpStep, AppliedByNow, m
  <2>2. /\ DOMAIN runner' = Runners /\ \A s \in Runners \ {r} : runner'[s] = runner[s]
        /\ DOMAIN runner'[r] = {"stage", "up", "plan", "done"} /\ runner'[r].plan = Tail(runner[r].plan)
        /\ runner'[r].done = runner[r].done /\ runner'[r].stage = "running"
        /\ runner'[r].up /\ RunnersTyped'
    <3>1. {} \in SUBSET Marks /\ runner[r].done \cup {} = runner[r].done
      OBVIOUS
    <3> QED BY <1>1, <2>1, <3>1, DoesNextIs
  <2>3. InOrder'
    <3> SUFFICES ASSUME ~downOverlapped PROVE RowsInOrder' /\ PlansUpFollow' /\ PlansDownFollow'
      BY <1>1 DEF InOrder
    <3>1. RowCount' = RowCount /\ RowsInOrder'
      BY <1>3, <2>1 DEF RowCount, RowsInOrder
    <3>2. ASSUME NEW s \in Runners, runner'[s].stage = "running", runner'[s].up, NEW i \in DOMAIN runner'[s].plan
          PROVE  runner'[s].plan[i] = runner'[s].plan[1] + i - 1 /\ runner'[s].plan[1] <= RowCount' + 1
      <4>1. CASE s = r
        <5>1. /\ i \in Nat /\ i + 1 \in DOMAIN runner[r].plan /\ runner'[r].plan[i] = runner[r].plan[i + 1]
              /\ runner[r].plan[i + 1] = m + (i + 1) - 1
          BY <1>1, <1>2, <1>3, <2>2, <3>2, <4>1 DEF PlansUpFollow
        <5>2. 1 \in DOMAIN Tail(runner[r].plan)
          BY <1>1, <2>2, <3>2, <4>1, HeadOfPlan
        <5>3. runner'[r].plan[1] = m + (1 + 1) - 1
          BY <1>1, <1>2, <1>3, <2>2, <5>2 DEF PlansUpFollow
        <5>4. m <= RowCount
          BY <1>3, <1>5
        <5> QED BY <1>3, <3>1, <4>1, <5>1, <5>3, <5>4
      <4>2. CASE s # r
        BY <1>3, <2>2, <3>1, <3>2, <4>2 DEF PlansUpFollow
      <4> QED BY <4>1, <4>2
    <3>3. \A s \in Runners : runner'[s].stage = "running" => runner'[s].up
      BY <1>4, <2>2
    <3> QED BY <3>1, <3>2, <3>3 DEF PlansUpFollow, PlansDownFollow
  <2> QED BY <1>1, <2>1, <2>2, <2>3, RunnerMoves DEF RunnersTyped
<1>6. CASE m \notin rows /\ m \in objects
  <2>1. RunnerFails(r, "conflict")
    BY <1>6 DEF UpStep, AppliedByNow, m
  <2>2. byHand > 0
    BY <1>6 DEF MigrationsInv, UnrecordedIsHandMade, HandsWereThere
  <2> QED BY <1>1, <2>1, <2>2, RunnerFailsKeeps
<1>7. CASE m \notin rows /\ m \notin objects /\ ~HasTable(m)
  <2>1. RunnerFails(r, "failed")
    BY <1>7 DEF UpStep, AppliedByNow, m
  <2> QED BY <1>1, <2>1, RunnerFailsKeeps
<1>8. CASE m \notin rows /\ m \notin objects /\ HasTable(m)
  <2> DEFINE mark == <<m, applications[m] + 1>>
  <2>1. /\ rows' = rows \cup {m} /\ objects' = objects \cup {m} /\ UNCHANGED handMade
        /\ applications' = [applications EXCEPT ![m] = @ + 1] /\ DoesNext(r, {mark})
    BY <1>8 DEF UpStep, AppliedByNow, m
  <2>2. applications[m] \in Nat /\ mark \in Marks /\ mark[1] = m /\ mark[2] = applications[m] + 1
    BY <1>1, <1>2 DEF SchemaTyped, Marks
  <2> HIDE DEF mark
  <2>3. /\ DOMAIN runner' = Runners /\ \A s \in Runners \ {r} : runner'[s] = runner[s]
        /\ DOMAIN runner'[r] = {"stage", "up", "plan", "done"} /\ runner'[r].plan = Tail(runner[r].plan)
        /\ runner'[r].done = runner[r].done \cup {mark} /\ runner'[r].stage = "running"
        /\ runner'[r].up /\ RunnersTyped'
    BY <1>1, <2>1, <2>2, DoesNextIs
  <2>4. SchemaTyped' /\ HandsWereThere' /\ UnrecordedIsHandMade'
    <3>1. applications' \in [Numbers -> Nat]
      BY <1>1, <1>2, <2>1, <2>2 DEF SchemaTyped
    <3> QED BY <1>1, <1>2, <2>1, <3>1 DEF MigrationsInv, SchemaTyped, HandsWereThere, UnrecordedIsHandMade
  <2>5. \A s \in Runners : \A d \in runner[s].done : d \in Marks /\ d[1] \in Numbers /\ d[2] \in Nat /\ d # mark
    <3> SUFFICES ASSUME NEW s \in Runners, NEW d \in runner[s].done
                 PROVE  d \in Marks /\ d[1] \in Numbers /\ d[2] \in Nat /\ d # mark
      OBVIOUS
    <3>1. d \in Marks /\ d[1] \in Numbers /\ d[2] \in Nat
      BY <1>1 DEF RunnersTyped, Marks
    <3>2. d[2] <= applications[d[1]]
      BY DEF MigrationsInv, DoneWasApplied
    <3> QED BY <2>2, <3>1, <3>2
  <2>6. DoneWasApplied'
    <3> SUFFICES ASSUME NEW s \in Runners, NEW d \in runner'[s].done PROVE d[2] <= applications'[d[1]]
      BY DEF DoneWasApplied
    <3>1. CASE d \in runner[s].done
      <4>1. d[1] \in Numbers /\ d[2] \in Nat /\ d[2] <= applications[d[1]]
        BY <2>5, <3>1 DEF MigrationsInv, DoneWasApplied
      <4>2. applications'[d[1]] \in {applications[d[1]], applications[d[1]] + 1} /\ applications[d[1]] \in Nat
        BY <1>1, <1>2, <2>1, <4>1 DEF SchemaTyped
      <4> QED BY <4>1, <4>2
    <3>2. CASE d = mark
      BY <1>1, <1>2, <2>1, <2>2, <3>2 DEF SchemaTyped
    <3> QED BY <2>3, <3>1, <3>2
  <2>7. ConflictsAreReal' /\ OneRunnerListsEach'
    <3>1. ConflictsAreReal'
      BY <1>1, <2>3 DEF MigrationsInv, ConflictsAreReal
    <3>2. \A s \in Runners : runner'[s].done = IF s = r THEN runner[s].done \cup {mark} ELSE runner[s].done
      BY <2>3
    <3>3. OneRunnerListsEach'
      BY <2>5, <3>2 DEF MigrationsInv, OneRunnerListsEach
    <3> QED BY <3>1, <3>3
  <2>8. InOrder'
    <3> SUFFICES ASSUME ~downOverlapped PROVE RowsInOrder' /\ PlansUpFollow' /\ PlansDownFollow'
      BY <1>1 DEF InOrder
    <3>1. m = RowCount + 1 /\ rows' = 1 .. RowCount + 1 /\ RowCount + 1 \in Nat
      <4>1. m >= 1 /\ m > RowCount
        BY <1>2, <1>3, <1>8, MigrationsAssumption DEF Numbers
      <4> QED BY <1>3, <2>1, <4>1
    <3>2. RowCount' = RowCount + 1
      BY <3>1, Initial DEF RowCount
    <3>3. RowsInOrder'
      BY <1>1, <1>3, <1>8, <2>1, <3>1, <3>2 DEF RowsInOrder, SchemaTyped
    <3>4. ASSUME NEW s \in Runners, runner'[s].stage = "running", runner'[s].up, NEW i \in DOMAIN runner'[s].plan
          PROVE  runner'[s].plan[i] = runner'[s].plan[1] + i - 1 /\ runner'[s].plan[1] <= RowCount' + 1
      <4>1. CASE s = r
        <5>1. /\ i \in Nat /\ i + 1 \in DOMAIN runner[r].plan /\ runner'[r].plan[i] = runner[r].plan[i + 1]
              /\ runner[r].plan[i + 1] = m + (i + 1) - 1
          BY <1>1, <1>2, <1>3, <2>3, <3>4, <4>1 DEF PlansUpFollow
        <5>2. 1 \in DOMAIN Tail(runner[r].plan)
          BY <1>1, <2>3, <3>4, <4>1, HeadOfPlan
        <5>3. runner'[r].plan[1] = m + (1 + 1) - 1
          BY <1>1, <1>2, <1>3, <2>3, <5>2 DEF PlansUpFollow
        <5> QED BY <1>3, <3>1, <3>2, <4>1, <5>1, <5>3
      <4>2. CASE s # r
        <5>1. /\ runner'[s].plan = runner[s].plan /\ runner[s].plan[i] = runner[s].plan[1] + i - 1
              /\ runner[s].plan[1] <= RowCount + 1
          BY <1>3, <2>3, <3>4, <4>2 DEF PlansUpFollow
        <5>2. runner[s].plan[1] \in Int
          <6>1. runner[s].plan \in Seq(Numbers) /\ i \in DOMAIN runner[s].plan
            BY <1>1, <3>4, <5>1 DEF RunnersTyped
          <6>2. 1 \in 1 .. Len(runner[s].plan)
            BY <6>1, LenProperties
          <6>3. runner[s].plan[1] \in Numbers
            BY <6>1, <6>2, ElementOfSeq
          <6> QED BY <6>3, MigrationsAssumption DEF Numbers
        <5> QED BY <1>3, <3>2, <5>1, <5>2
      <4> QED BY <4>1, <4>2
    <3>5. \A s \in Runners : runner'[s].stage = "running" => runner'[s].up
      BY <1>4, <2>3
    <3> QED BY <3>3, <3>4, <3>5 DEF PlansUpFollow, PlansDownFollow
  <2> QED BY <2>3, <2>4, <2>6, <2>7, <2>8 DEF MigrationsInv
<1> QED BY <1>5, <1>6, <1>7, <1>8

(* What goes with an object is altered by later numbers.                     *)
LEMMA WithColumnsAreLater ==
    ASSUME NEW m \in Numbers PROVE m \in WithColumns(m) /\ \A k \in WithColumns(m) : k >= m
BY MigrationsAssumption DEF WithColumns, Numbers

(* So does one taken back.                                                   *)
LEMMA DownKeeps == ASSUME MigrationsInv, NEW r \in Runners, DownStep(r) PROVE MigrationsInv'
PROOF
<1> DEFINE m == NextInPlan(r)
<1>1. /\ runner[r].stage = "running" /\ runner[r].plan # <<>> /\ ~runner[r].up
      /\ UNCHANGED <<byHand, downOverlapped>> /\ RunnersTyped /\ SchemaTyped
  BY DEF DownStep, RunnerReady, MigrationsInv
<1>2. /\ m \in Numbers /\ m = runner[r].plan[1] /\ 1 \in DOMAIN runner[r].plan
      /\ \A i \in DOMAIN Tail(runner[r].plan) :
            i \in Nat /\ i + 1 \in DOMAIN runner[r].plan /\ Tail(runner[r].plan)[i] = runner[r].plan[i + 1]
  BY <1>1, HeadOfPlan
<1> HIDE DEF m
<1>3. CASE HasTable(m) /\ (m \in objects \/ m \in IfExists)
  <2>1. /\ rows' = rows \ {m} /\ objects' = objects \ WithColumns(m) /\ handMade' = handMade \ WithColumns(m)
        /\ DoesNext(r, {}) /\ UNCHANGED applications
    BY <1>3 DEF DownStep, m
  <2>2. /\ DOMAIN runner' = Runners /\ \A s \in Runners \ {r} : runner'[s] = runner[s]
        /\ DOMAIN runner'[r] = {"stage", "up", "plan", "done"} /\ runner'[r].plan = Tail(runner[r].plan)
        /\ runner'[r].done = runner[r].done /\ runner'[r].stage = "running"
        /\ ~runner'[r].up /\ RunnersTyped'
    <3>1. {} \in SUBSET Marks /\ runner[r].done \cup {} = runner[r].done
      OBVIOUS
    <3> QED BY <1>1, <2>1, <3>1, DoesNextIs
  <2>3. m \in WithColumns(m) /\ \A k \in WithColumns(m) : k >= m
    BY <1>2, WithColumnsAreLater
  <2>4. SchemaTyped' /\ HandsWereThere' /\ UnrecordedIsHandMade'
    BY <1>1, <2>1, <2>3 DEF MigrationsInv, SchemaTyped, HandsWereThere, UnrecordedIsHandMade
  <2>5. \A s \in Runners : runner'[s].done = runner[s].done
    BY <2>2
  <2>6. DoneWasApplied' /\ OneRunnerListsEach'
    BY <2>1, <2>5 DEF MigrationsInv, DoneWasApplied, OneRunnerListsEach
  <2>7. ConflictsAreReal'
    BY <1>1, <2>2 DEF MigrationsInv, ConflictsAreReal
  <2>8. InOrder'
    <3> SUFFICES ASSUME ~downOverlapped PROVE RowsInOrder' /\ PlansUpFollow' /\ PlansDownFollow'
      BY <1>1 DEF InOrder
    <3>1. /\ RowsInOrder /\ RunnersRunning = {r} /\ m = RowCount - 1 + 1 /\ rows = 1 .. RowCount
          /\ \A i \in DOMAIN runner[r].plan : runner[r].plan[i] = RowCount - i + 1
      BY <1>1, <1>2 DEF MigrationsInv, InOrder, PlansDownFollow, RowsInOrder
    <3>2. RowCount \in Nat /\ m = RowCount /\ m \in Nat \ {0}
      <4>1. RowCount \in Nat /\ m \in Nat \ {0}
        BY <1>1, <1>2, RowsAreCounted
      <4> QED BY <3>1, <4>1
    <3>3. rows' = 1 .. RowCount - 1 /\ RowCount - 1 \in Nat
      BY <2>1, <3>1, <3>2
    <3>4. RowCount' = RowCount - 1
      BY <3>3, Initial DEF RowCount
    <3>5. rows' \subseteq objects' /\ handMade' \cap rows' = {}
      <4>1. \A k \in rows' : k \in rows /\ k \notin WithColumns(m)
        BY <2>1, <2>3, <3>2, <3>3
      <4> QED BY <2>1, <3>1, <4>1 DEF RowsInOrder
    <3>6. RunnersRunning' = {r}
      BY <2>2, <3>1 DEF RunnersRunning
    <3>7. ASSUME NEW i \in DOMAIN runner'[r].plan PROVE runner'[r].plan[i] = RowCount' - i + 1
      <4>1. i \in Nat /\ runner'[r].plan[i] = RowCount - (i + 1) + 1
        BY <1>2, <2>2, <3>1, <3>7
      <4> QED BY <3>2, <3>4, <4>1
    <3>8. \A s \in Runners : runner'[s].stage = "running" => s = r
      BY <3>6 DEF RunnersRunning
    <3> QED BY <2>2, <3>3, <3>4, <3>5, <3>6, <3>7, <3>8 DEF RowsInOrder, PlansUpFollow, PlansDownFollow
  <2> QED BY <2>2, <2>4, <2>6, <2>7, <2>8 DEF MigrationsInv
<1>4. CASE ~(HasTable(m) /\ (m \in objects \/ m \in IfExists))
  <2>1. RunnerFails(r, "failed")
    BY <1>4 DEF DownStep, m
  <2> QED BY <1>1, <2>1, RunnerFailsKeeps
<1> QED BY <1>3, <1>4

(* What hands do leaves the runners and the applications alone.              *)
LEMMA HandsKeep ==
    ASSUME MigrationsInv, UNCHANGED <<runner, applications>>, SchemaTyped', HandsWereThere', UnrecordedIsHandMade',
           byHand > 0 => byHand' > 0, InOrder'
    PROVE  MigrationsInv'
PROOF
<1>1. RunnersTyped' /\ DoneWasApplied' /\ OneRunnerListsEach'
  BY DEF MigrationsInv, RunnersTyped, DoneWasApplied, OneRunnerListsEach
<1>2. ConflictsAreReal'
  BY DEF MigrationsInv, ConflictsAreReal
<1> QED BY <1>1, <1>2 DEF MigrationsInv

(* What nobody runs beside, nor puts out of order, stays in order.           *)
LEMMA OrderStays ==
    ASSUME MigrationsInv, UNCHANGED <<runner, rows, downOverlapped>>, ~downOverlapped => RowsInOrder'
    PROVE  InOrder'
PROOF
<1> SUFFICES ASSUME ~downOverlapped PROVE RowsInOrder' /\ PlansUpFollow' /\ PlansDownFollow'
  BY DEF InOrder
<1>1. PlansUpFollow /\ PlansDownFollow /\ RowCount' = RowCount /\ RunnersRunning' = RunnersRunning
  BY DEF MigrationsInv, InOrder, RowCount, RunnersRunning
<1>2. PlansUpFollow' /\ PlansDownFollow'
  BY <1>1 DEF PlansUpFollow, PlansDownFollow
<1> QED BY <1>2

(* So does an object made or dropped by hand.                                *)
LEMMA ByHandKeeps ==
    ASSUME MigrationsInv, NEW m \in Numbers, MakesByHand(m) \/ DropsByHand(m) PROVE MigrationsInv'
PROOF
<1>1. UNCHANGED <<runner, rows, applications, downOverlapped>> /\ SchemaTyped
  BY DEF MakesByHand, DropsByHand, MigrationsInv
<1>2. m \in WithColumns(m) /\ \A k \in WithColumns(m) : k >= m
  BY WithColumnsAreLater
<1>3. CASE MakesByHand(m)
  <2>1. /\ SchemaTyped' /\ HandsWereThere' /\ UnrecordedIsHandMade' /\ byHand' > 0
    <3>1. byHand' = byHand + 1 /\ objects' = objects \cup {m} /\ handMade' = handMade \cup {m} /\ byHand \in Nat
      BY <1>1, <1>3 DEF MakesByHand, SchemaTyped
    <3> QED BY <1>1, <3>1 DEF MigrationsInv, SchemaTyped, HandsWereThere, UnrecordedIsHandMade
  <2>2. ~downOverlapped => RowsInOrder'
    <3> SUFFICES ASSUME ~downOverlapped PROVE RowsInOrder'
      OBVIOUS
    <3>1. RowsInOrder /\ m \notin rows
      BY <1>3 DEF MigrationsInv, InOrder, RowsInOrder, MakesByHand
    <3> QED BY <1>1, <1>3, <3>1 DEF RowsInOrder, MakesByHand, RowCount
  <2>3. InOrder'
    BY <1>1, <2>2, OrderStays
  <2> QED BY <1>1, <2>1, <2>3, HandsKeep
<1>4. CASE DropsByHand(m)
  <2>1. objects' = objects \ WithColumns(m) /\ handMade' = handMade \ WithColumns(m) /\ m \in handMade
        /\ byHand' = byHand
    BY <1>4 DEF DropsByHand
  <2>2. SchemaTyped' /\ HandsWereThere' /\ UnrecordedIsHandMade'
    BY <1>1, <2>1 DEF MigrationsInv, SchemaTyped, HandsWereThere, UnrecordedIsHandMade
  <2>3. ~downOverlapped => RowsInOrder'
    <3> SUFFICES ASSUME ~downOverlapped PROVE RowsInOrder'
      OBVIOUS
    <3>1. RowsInOrder /\ rows = 1 .. RowCount /\ m \notin 1 .. RowCount /\ RowCount' = RowCount
      BY <1>1, <2>1 DEF MigrationsInv, InOrder, RowsInOrder, RowCount
    <3>2. RowCount \in Nat /\ m \in Nat \ {0} /\ Numbers \subseteq Nat
      BY <1>1, RowsAreCounted
    <3>3. m > RowCount
      BY <3>1, <3>2
    <3>4. \A k \in rows : k \notin WithColumns(m)
      BY <1>2, <3>1, <3>2, <3>3
    <3> QED BY <1>1, <2>1, <3>1, <3>4 DEF RowsInOrder
  <2>4. InOrder'
    BY <1>1, <2>3, OrderStays
  <2> QED BY <1>1, <2>1, <2>2, <2>4, HandsKeep
<1> QED BY <1>3, <1>4

(* So does a row written by hand.                                            *)
LEMMA RecordsKeeps == ASSUME MigrationsInv, NEW m \in Numbers, RecordsByHand(m) PROVE MigrationsInv'
PROOF
<1>1. /\ m \in handMade /\ 1 .. m - 1 \subseteq rows /\ downOverlapped' = (downOverlapped \/ Overlaps(TRUE))
      /\ rows' = rows \cup {m} /\ handMade' = handMade \ {m}
      /\ UNCHANGED <<objects, runner, applications, byHand>> /\ SchemaTyped
  BY DEF RecordsByHand, MigrationsInv
<1>2. SchemaTyped' /\ HandsWereThere' /\ UnrecordedIsHandMade'
  BY <1>1 DEF MigrationsInv, SchemaTyped, HandsWereThere, UnrecordedIsHandMade
<1>3. InOrder'
  <2> SUFFICES ASSUME ~downOverlapped' PROVE RowsInOrder' /\ PlansUpFollow' /\ PlansDownFollow'
    BY DEF InOrder
  <2>1. RowsInOrder /\ PlansUpFollow /\ ~Overlaps(TRUE) /\ rows = 1 .. RowCount /\ m \notin rows /\ m \in objects
    BY <1>1 DEF MigrationsInv, InOrder, RowsInOrder, SchemaTyped
  <2>2. RowCount \in Nat /\ m \in Nat \ {0} /\ Numbers \subseteq Int
    BY <1>1, RowsAreCounted
  <2>3. m = RowCount + 1
    <3>1. m > RowCount
      BY <2>1, <2>2
    <3>2. ~(m > RowCount + 1)
      <4> SUFFICES ASSUME m > RowCount + 1 PROVE FALSE
        OBVIOUS
      <4>1. RowCount + 1 \in 1 .. m - 1
        BY <2>2
      <4>2. RowCount + 1 \in 1 .. RowCount
        BY <1>1, <2>1, <4>1
      <4> QED BY <2>2, <4>2
    <3> QED BY <2>2, <3>1, <3>2
  <2>4. rows' = 1 .. RowCount + 1 /\ RowCount' = RowCount + 1
    <3>1. rows' = 1 .. RowCount + 1 /\ RowCount + 1 \in Nat
      BY <1>1, <2>1, <2>2, <2>3
    <3> QED BY <3>1, Initial DEF RowCount
  <2>5. RowsInOrder'
    BY <1>1, <2>1, <2>4 DEF RowsInOrder
  <2>6. ASSUME NEW s \in Runners, runner'[s].stage = "running", runner'[s].up, NEW i \in DOMAIN runner'[s].plan
        PROVE  runner'[s].plan[i] = runner'[s].plan[1] + i - 1 /\ runner'[s].plan[1] <= RowCount' + 1
    <3>1. /\ runner'[s].plan = runner[s].plan /\ runner[s].plan[i] = runner[s].plan[1] + i - 1
          /\ runner[s].plan[1] <= RowCount + 1
      BY <1>1, <2>1, <2>6 DEF PlansUpFollow
    <3>2. runner[s].plan[1] \in Int
      <4>1. runner[s].plan \in Seq(Numbers) /\ i \in DOMAIN runner[s].plan
        BY <2>6, <3>1 DEF MigrationsInv, RunnersTyped
      <4>2. 1 \in 1 .. Len(runner[s].plan)
        BY <4>1, LenProperties
      <4>3. runner[s].plan[1] \in Numbers
        BY <4>1, <4>2, ElementOfSeq
      <4> QED BY <2>2, <4>3
    <3> QED BY <2>2, <2>4, <3>1, <3>2
  <2>7. \A s \in Runners : runner'[s].stage = "running" => runner'[s].up
    BY <1>1, <2>1 DEF Overlaps, RunnersRunning
  <2> QED BY <2>5, <2>6, <2>7 DEF PlansUpFollow, PlansDownFollow
<1> QED BY <1>1, <1>2, <1>3, HandsKeep

(* Every step of a runner or of a hand keeps it.                             *)
LEMMA MigrationsStep == ASSUME MigrationsInv, [MigrationsNext]_migrationVars PROVE MigrationsInv'
PROOF
<1>1. CASE UNCHANGED migrationVars
  <2>1. UNCHANGED <<rows, objects, handMade, runner, applications, byHand, downOverlapped>>
    BY <1>1 DEF migrationVars
  <2>2. SchemaTyped' /\ HandsWereThere' /\ UnrecordedIsHandMade' /\ (~downOverlapped => RowsInOrder')
    BY <2>1 DEF MigrationsInv, SchemaTyped, HandsWereThere, UnrecordedIsHandMade, InOrder, RowsInOrder, RowCount
  <2> QED BY <2>1, <2>2, OrderStays, HandsKeep
<1>2. ASSUME NEW r \in Runners, NEW up \in BOOLEAN, NEW steps \in 0 .. LastMigration, Plans(r, up, steps)
      PROVE  MigrationsInv'
  BY <1>2, PlansKeeps
<1>3. ASSUME NEW r \in Runners, UpStep(r) \/ DownStep(r) \/ RunnerEnds(r) \/ RunnerDies(r) PROVE MigrationsInv'
  BY <1>3, UpKeeps, DownKeeps, EndsKeeps
<1>4. ASSUME NEW m \in Numbers, MakesByHand(m) \/ DropsByHand(m) \/ RecordsByHand(m) PROVE MigrationsInv'
  BY <1>4, ByHandKeeps, RecordsKeeps
<1> QED BY <1>1, <1>2, <1>3, <1>4 DEF MigrationsNext

(* schema_migrations and the schema agree, however many runners and hands
   come between a plan and its steps: an object nobody recorded was made by
   hand, a conflict is about a hand-made one, one runner lists each
   application, and while no down had company what is recorded exists
   without a gap.                                                            *)
THEOREM SchemaMatchesItsRecord == MigrationsSpec => []MigrationsHold
BY MigrationsInvInit, MigrationsInvHolds, MigrationsStep, PTL DEF MigrationsSpec
=============================================================================
