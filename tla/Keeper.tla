-------------------------------- MODULE Keeper --------------------------------
(* The keeper service (services/keeper/src/run.ts): a loop of ticks and      *)
(* expiry sweeps over a mirror the indexer writes and a chain that moves     *)
(* between any two of its awaits.  What it keeps in memory dies with the     *)
(* process; what it writes to keeper_job_state does not.                     *)
EXTENDS Integers, FiniteSets

CONSTANTS
    KeeperJobs,
    ProofGrace,        \* PROOF_GRACE_SECONDS
    GiveUpAfter,       \* RETRY_GIVE_UP_AFTER
    LongestDelay,      \* RETRY_MAX_SECONDS; the base delay is one unit
    ChallengeEnd, ResolveBy, ExpiredAt,   \* the jobs' deadlines
    MaxMishaps,        \* bound on failures, crashes and other parties' moves
    KeeperMaxTime      \* bound on the clock

ASSUME KeeperAssumption ==
    /\ {ProofGrace, LongestDelay, MaxMishaps, ChallengeEnd, ResolveBy, ExpiredAt, KeeperMaxTime} \subseteq Nat
    /\ GiveUpAfter \in Nat \ {0}
    /\ ChallengeEnd <= ResolveBy
    /\ ResolveBy <= ExpiredAt /\ ExpiredAt + ProofGrace < KeeperMaxTime

VARIABLES
    kTime, chainJob, mirror,          \* the chain, and the indexer's copy of it
    kGaveUp, kHold, kExpiry, kSkips,  \* keeper_job_state, and the skipped rows of keeper_actions
    kMode, kRetry, kSkipped,          \* the process: its loop, retries, journaledSkips
    kNow, kListed, kRead, kStep,      \* the tick under way
    kRefusedSince,                    \* (history) first tick of the current run of refusals
    kMishaps

chainVars == <<kTime, chainJob, mirror>>
tableVars == <<kGaveUp, kHold, kExpiry, kSkips>>
tickVars == <<kMode, kNow, kListed, kRead>>
keeperVars == <<chainVars, tableVars, kMode, kRetry, kSkipped, kNow, kListed,
                kRead, kStep, kRefusedSince, kMishaps>>

NoHold == [reason |-> "none", since |-> 0]
NoRetry == [attempts |-> 0, next |-> 0, gaveUp |-> FALSE]
NotNoted == -1
Idle == [j \in KeeperJobs |-> "none"]
NothingRead == [j \in KeeperJobs |-> [disputed |-> FALSE, outcome |-> "none"]]
Copied(c) == [status |-> c.status, disputed |-> c.disputed, bondSettled |-> c.bondSettled]

(* What an earlier life of the process may have left in the tables is a
   choice here.                                                              *)
KeeperInit ==
    /\ kTime = 0
    /\ \E disputed \in BOOLEAN, status \in {"submitted", "completed"} :
          /\ disputed => status = "submitted"
          /\ chainJob = [j \in KeeperJobs |->
                 [status |-> status, disputed |-> disputed, outcome |-> "none",
                  proof |-> "fit", bondSettled |-> FALSE, recorded |-> FALSE]]
    /\ mirror = [j \in KeeperJobs |-> Copied(chainJob[j])]
    /\ kGaveUp \in [KeeperJobs -> BOOLEAN]
    /\ kHold = [j \in KeeperJobs |-> NoHold]
    /\ kExpiry = [j \in KeeperJobs |-> [marked |-> FALSE, attempts |-> 0, next |-> 0, gaveUp |-> FALSE]]
    /\ kSkips \in [KeeperJobs -> {[marked |-> FALSE, rows |-> 0], [marked |-> TRUE, rows |-> 1]}]
    /\ kMode = "down"
    /\ kRetry = [j \in KeeperJobs |-> NoRetry]
    /\ kSkipped = {}
    /\ kNow = 0 /\ kListed = {} /\ kStep = Idle
    /\ kRead = NothingRead
    /\ kRefusedSince = [j \in KeeperJobs |-> NotNoted]
    /\ kMishaps = 0

Mishap == kMishaps < MaxMishaps /\ kMishaps' = kMishaps + 1

-----------------------------------------------------------------------------
(* The chain and its other users.                                            *)
Earlier(t) == IF t > 0 THEN t - 1 ELSE t
TimePassesBy ==
    /\ kTime < KeeperMaxTime
    /\ kTime' = kTime + 1
    /\ UNCHANGED <<kNow, kHold, kRetry, kExpiry, kRefusedSince>>
(* Past the last deadline only differences count: the clock stands and the
   stamps age.  A pass then ends before its own stamp reaches the deadlines
   or the grace.                                                             *)
StampsAge ==
    /\ kTime = KeeperMaxTime
    /\ kMode \in {"down", "idle", "ticked"} \/ (kNow > ExpiredAt /\ kNow > ProofGrace)
    /\ kNow' = Earlier(kNow)
    /\ kHold' = [j \in KeeperJobs |-> [kHold[j] EXCEPT !.since = Earlier(@)]]
    /\ kRetry' = [j \in KeeperJobs |-> [kRetry[j] EXCEPT !.next = Earlier(@)]]
    /\ kExpiry' = [j \in KeeperJobs |-> [kExpiry[j] EXCEPT !.next = Earlier(@)]]
    /\ kRefusedSince' = [j \in KeeperJobs |-> Earlier(kRefusedSince[j])]
    /\ UNCHANGED kTime
KeeperClock ==
    /\ TimePassesBy \/ StampsAge
    /\ UNCHANGED <<chainJob, mirror, kGaveUp, kSkips, kMode, kListed, kRead, kSkipped, kStep, kMishaps>>

MirrorCatchesUp(j) ==
    /\ mirror' = [mirror EXCEPT ![j] = Copied(chainJob[j])]
    /\ UNCHANGED <<kTime, chainJob, tableVars, tickVars, kRetry, kSkipped, kStep, kRefusedSince, kMishaps>>

Open(j) == chainJob[j].status = "submitted"
(* The client disputes, the panel votes, the client rebinds its proof, a
   refund is claimed, another keeper finalizes.                              *)
OthersMove(j) ==
    /\ Mishap
    /\ \/ /\ Open(j) /\ ~chainJob[j].disputed /\ kTime < ChallengeEnd
          /\ chainJob' = [chainJob EXCEPT ![j].disputed = TRUE]
       \/ /\ Open(j) /\ chainJob[j].disputed /\ chainJob[j].outcome = "none" /\ kTime < ResolveBy
          /\ chainJob' = [chainJob EXCEPT ![j].outcome = "complete"]
       \/ /\ Open(j) /\ chainJob[j].disputed /\ chainJob[j].outcome = "none" /\ kTime < ResolveBy
          /\ chainJob' = [chainJob EXCEPT ![j].outcome = "reject", ![j].status = "rejected", ![j].bondSettled = TRUE]
       \/ /\ Open(j)
          /\ \E p \in {"fit", "missing", "refused"} \ {chainJob[j].proof} :
                chainJob' = [chainJob EXCEPT ![j].proof = p]
       \/ /\ Open(j) /\ kTime >= ExpiredAt
          /\ chainJob' = [chainJob EXCEPT ![j].status = "expired"]
       \/ /\ Open(j) /\ ~chainJob[j].disputed /\ kTime >= ChallengeEnd /\ chainJob[j].proof # "missing"
          /\ chainJob' = [chainJob EXCEPT ![j].status = "completed"]
       \/ /\ chainJob[j].status = "expired" /\ ~chainJob[j].recorded
          /\ chainJob' = [chainJob EXCEPT ![j].recorded = TRUE]
    /\ UNCHANGED <<kTime, mirror, tableVars, tickVars, kRetry, kSkipped, kStep, kRefusedSince>>

(* The operator reopens a job; the running process does not notice.          *)
ClearGiveUp(j) ==
    /\ Mishap /\ kGaveUp[j]
    /\ kGaveUp' = [kGaveUp EXCEPT ![j] = FALSE]
    /\ UNCHANGED <<chainVars, kHold, kExpiry, kSkips, tickVars, kRetry, kSkipped, kStep, kRefusedSince>>

-----------------------------------------------------------------------------
(* The process.  restoreGiveUps reads the persisted give-ups before the first
   tick.                                                                     *)
PassForgotten == kNow' = 0 /\ kListed' = {} /\ kRead' = NothingRead /\ kStep' = Idle
Crash ==
    /\ Mishap /\ kMode # "down"
    /\ kMode' = "down"
    /\ kRetry' = [j \in KeeperJobs |-> NoRetry]
    /\ kSkipped' = {}
    /\ PassForgotten
    /\ UNCHANGED <<chainVars, tableVars, kRefusedSince>>

Restored(j) == [attempts |-> GiveUpAfter, next |-> 0, gaveUp |-> TRUE]
(* Faulty: the give-ups of an earlier life are not read back.                *)
RestoreNothing ==
    /\ kMode = "down"
    /\ kMode' = "idle"
    /\ UNCHANGED <<chainVars, tableVars, kRetry, kSkipped, kNow, kListed, kRead, kStep, kRefusedSince, kMishaps>>
RestoreGiveUps ==
    /\ kMode = "down"
    /\ kMode' = "idle"
    /\ kRetry' = [j \in KeeperJobs |-> IF kGaveUp[j] THEN Restored(j) ELSE NoRetry]
    /\ UNCHANGED <<chainVars, tableVars, kSkipped, kNow, kListed, kRead, kStep, kRefusedSince, kMishaps>>

Step(j, s) == kStep' = [kStep EXCEPT ![j] = s]
AllAre(set) == \A j \in KeeperJobs : kStep[j] \in set
AtMode(m) == kMode = m
GoTo(m) == kMode' = m /\ UNCHANGED <<kNow, kListed, kRead>>
AfterPass == IF kMode = "sweep" THEN "idle" ELSE "ticked"
EndPass == kMode' = AfterPass /\ PassForgotten

(* listFinalizable and listDisputedSubmitted; one gas price per tick decides
   which undisputed rows are worth asking the chain about.                   *)
Finalizable(j) == mirror[j].status = "submitted" /\ ~mirror[j].disputed /\ kTime >= ChallengeEnd
DisputedSubmitted(j) == mirror[j].status = "submitted" /\ mirror[j].disputed
Listable == {j \in KeeperJobs : Finalizable(j) \/ DisputedSubmitted(j)}
FirstStep(j, dear) ==
    IF j \notin Listable THEN "none"
    ELSE IF dear /\ Finalizable(j) THEN "journalSkip" ELSE "readRecord"
TickStarts ==
    /\ AtMode("idle")
    /\ kMode' = "read" /\ kNow' = kTime /\ kListed' = Listable
    /\ \/ kStep' = [j \in KeeperJobs |-> FirstStep(j, FALSE)] /\ UNCHANGED kMishaps
       \/ Mishap /\ kStep' = [j \in KeeperJobs |-> FirstStep(j, TRUE)]
    /\ UNCHANGED <<chainVars, kRead, tableVars, kRetry, kSkipped, kRefusedSince>>

(* journalUnprofitableOnce: a mark in the table, then one row in the journal. *)
MarkSkip(j) ==
    /\ kStep[j] = "journalSkip"
    /\ Step(j, IF j \in kSkipped \/ kSkips[j].marked THEN "none" ELSE "appendSkip")
    /\ kSkipped' = kSkipped \cup {j}
    /\ kSkips' = [kSkips EXCEPT ![j].marked = @ \/ j \notin kSkipped]
    /\ UNCHANGED <<chainVars, kGaveUp, kHold, kExpiry, tickVars, kRetry, kRefusedSince, kMishaps>>

AppendSkip(j) ==
    /\ kStep[j] = "appendSkip"
    /\ Step(j, "none")
    /\ kSkips' = [kSkips EXCEPT ![j].rows = @ + 1]
    /\ UNCHANGED <<chainVars, kGaveUp, kHold, kExpiry, tickVars, kRetry, kSkipped, kRefusedSince, kMishaps>>

(* candidateFromChain: the record first, the dispute after another await.    *)
ReadRecord(j) ==
    /\ kStep[j] = "readRecord"
    /\ Step(j, IF Open(j) THEN "readDispute" ELSE "none")
    /\ UNCHANGED <<chainVars, tableVars, tickVars, kRetry, kSkipped, kRefusedSince, kMishaps>>

ReadDispute(j) ==
    /\ kStep[j] = "readDispute"
    /\ Step(j, "decide")
    /\ kRead' = [kRead EXCEPT ![j] = [disputed |-> chainJob[j].disputed, outcome |-> chainJob[j].outcome]]
    /\ UNCHANGED <<chainVars, tableVars, kMode, kNow, kListed, kRetry, kSkipped, kRefusedSince, kMishaps>>

(* forgetJobsThatLeft: a hold ends with the job's last listing.              *)
Forget ==
    /\ AtMode("read") /\ AllAre({"none", "decide"})
    /\ GoTo("act")
    /\ kHold' = [j \in KeeperJobs |-> IF j \in kListed THEN kHold[j] ELSE NoHold]
    /\ kRefusedSince' = [j \in KeeperJobs |-> IF j \in kListed THEN kRefusedSince[j] ELSE NotNoted]
    /\ UNCHANGED <<chainVars, kGaveUp, kExpiry, kSkips, kRetry, kSkipped, kStep, kMishaps>>

-----------------------------------------------------------------------------
(* noteFailure: in memory first, then the journal and, at the limit, the
   table; the database may refuse, and then the tick ends there.             *)
Least(a, b) == IF a < b THEN a ELSE b
Delay(n) == Least(2^(n - 1), LongestDelay)
Failed(r) == [attempts |-> r.attempts + 1, next |-> kNow + Delay(r.attempts + 1),
              gaveUp |-> r.attempts + 1 >= GiveUpAfter]
NoteFailure(j) ==
    /\ kRetry' = [kRetry EXCEPT ![j] = Failed(@)]
    /\ Step(j, "none")
    /\ kGaveUp' = [kGaveUp EXCEPT ![j] = @ \/ Failed(kRetry[j]).gaveUp]
    /\ UNCHANGED tickVars
NoteFailureUnwritten(j) ==
    /\ kRetry' = [kRetry EXCEPT ![j] = Failed(@)]
    /\ EndPass
    /\ UNCHANGED kGaveUp

Waiting(j) == kRetry[j].gaveUp \/ (kRetry[j].attempts > 0 /\ kNow < kRetry[j].next)

(* decide(), then the retry state.                                           *)
Decision(j) ==
    IF kRead[j].disputed
    THEN IF kRead[j].outcome = "none"
         THEN IF kNow >= ResolveBy THEN "lapse" ELSE "none"
         ELSE IF kRead[j].outcome = "reject" THEN "none" ELSE "screen"
    ELSE IF kNow < ChallengeEnd THEN "none" ELSE "screen"
Decide(j) ==
    /\ AtMode("act") /\ kStep[j] = "decide"
    /\ \A k \in KeeperJobs : kStep[k] \notin {"lapse", "lapsed"}
    /\ Step(j, IF Waiting(j) THEN "none" ELSE Decision(j))
    /\ UNCHANGED <<chainVars, tableVars, tickVars, kRetry, kSkipped, kRefusedSince, kMishaps>>

(* payeeScreening: together for all that will be sent, each its own outcome.  *)
Screen(j) ==
    /\ kStep[j] = "screen" /\ AllAre({"none", "screen", "noProof"})
    /\ \/ Step(j, "noProof") /\ UNCHANGED <<tickVars, kRetry, kGaveUp, kMishaps>>
       \/ Mishap /\ Step(j, "none") /\ UNCHANGED <<tickVars, kRetry, kGaveUp>>
       \/ Mishap /\ (NoteFailure(j) \/ NoteFailureUnwritten(j))
    /\ UNCHANGED <<chainVars, kHold, kExpiry, kSkips, kSkipped, kRefusedSince>>

Sending == {"stale", "send", "sent"}
InTurn == AllAre({"none", "noProof"} \cup Sending) /\ Cardinality({j \in KeeperJobs : kStep[j] \in Sending}) <= 1
OthersAwait(j) == InTurn /\ \A k \in KeeperJobs \ {j} : kStep[k] \notin Sending

(* keeperJobState.hold keeps the first moment of one reason.                 *)
(* Faulty: every refusal starts the wait again.                              *)
HeldAfresh(h, why) == [reason |-> why, since |-> kNow]
Held(h, why) == [reason |-> why, since |-> IF h.reason = why THEN h.since ELSE kNow]
Hold(j, why) == kHold' = [kHold EXCEPT ![j] = Held(@, why)]
Forgotten(j) == kRefusedSince' = [kRefusedSince EXCEPT ![j] = NotNoted]

(* The noProof rule: no grace.  A rule that cannot be examined is skipped.   *)
ExamineProof(j) ==
    /\ kStep[j] = "noProof" /\ OthersAwait(j)
    /\ \/ /\ chainJob[j].proof = "missing"
          /\ Hold(j, "noProof") /\ Step(j, "none") /\ Forgotten(j)
          /\ UNCHANGED kMishaps
       \/ /\ chainJob[j].proof # "missing"
          /\ Step(j, "stale")
          /\ UNCHANGED <<kHold, kRefusedSince, kMishaps>>
       \/ /\ Mishap /\ Step(j, "stale")
          /\ UNCHANGED <<kHold, kRefusedSince>>
    /\ UNCHANGED <<chainVars, kGaveUp, kExpiry, kSkips, tickVars, kRetry, kSkipped>>

(* The proofStale rule: the module would refuse the release.                 *)
ExamineRelease(j) ==
    /\ kStep[j] = "stale"
    /\ \/ /\ chainJob[j].proof # "fit"
          /\ Hold(j, "proofStale")
          /\ Step(j, IF kNow - Held(kHold[j], "proofStale").since >= ProofGrace THEN "send" ELSE "none")
          /\ kRefusedSince' = [kRefusedSince EXCEPT ![j] = IF @ = NotNoted THEN kNow ELSE @]
          /\ UNCHANGED kMishaps
       \/ /\ chainJob[j].proof = "fit" \/ kMishaps < MaxMishaps
          /\ kMishaps' = IF chainJob[j].proof = "fit" THEN kMishaps ELSE kMishaps + 1
          /\ kHold' = [kHold EXCEPT ![j] = NoHold]
          /\ Step(j, "send") /\ Forgotten(j)
    /\ UNCHANGED <<chainVars, kGaveUp, kExpiry, kSkips, tickVars, kRetry, kSkipped>>

(* finalize or finalizeDecided, as the contracts answer it.                  *)
Settleable(j) ==
    /\ Open(j) /\ chainJob[j].proof # "missing"
    /\ IF kRead[j].disputed THEN chainJob[j].disputed /\ chainJob[j].outcome \in {"complete", "lapsed"}
                            ELSE ~chainJob[j].disputed /\ kTime >= ChallengeEnd
Settled(j) == chainJob' = [chainJob EXCEPT ![j].status = "completed", ![j].bondSettled = @ \/ chainJob[j].disputed]
Send(j) ==
    /\ kStep[j] = "send"
    /\ \/ Settleable(j) /\ Settled(j) /\ Step(j, "sent")
          /\ UNCHANGED <<kGaveUp, kHold, tickVars, kRetry, kRefusedSince, kMishaps>>
       \/ /\ Open(j) /\ chainJob[j].proof = "missing" /\ kRead[j].disputed = chainJob[j].disputed
          /\ Hold(j, "noProof") /\ kRetry' = [kRetry EXCEPT ![j] = NoRetry]
          /\ Step(j, "none") /\ Forgotten(j)
          /\ UNCHANGED <<chainJob, kGaveUp, tickVars, kMishaps>>
       \/ /\ ~Settleable(j) /\ ~(Open(j) /\ chainJob[j].proof = "missing")
          /\ NoteFailure(j)
          /\ UNCHANGED <<chainJob, kHold, kRefusedSince, kMishaps>>
       \/ /\ Mishap     \* the transport fails, or only the answer is lost
          /\ \/ Settleable(j) /\ Settled(j)
             \/ UNCHANGED chainJob
          /\ NoteFailure(j) \/ NoteFailureUnwritten(j)
          /\ UNCHANGED <<kHold, kRefusedSince>>
       \/ /\ Mishap     \* a node that is behind answers WindowOpen
          /\ Step(j, "none")
          /\ UNCHANGED <<chainJob, kGaveUp, kHold, tickVars, kRetry, kRefusedSince>>
    /\ UNCHANGED <<kTime, mirror, kExpiry, kSkips, kSkipped>>

(* The journal row, the end of the hold, the end of the retries; a database
   that refuses turns the success into a failed attempt.                     *)
BookSend(j) ==
    /\ kStep[j] = "sent"
    /\ \/ /\ kHold' = [kHold EXCEPT ![j] = NoHold] /\ Forgotten(j)
          /\ kRetry' = [kRetry EXCEPT ![j] = NoRetry]
          /\ Step(j, "none")
          /\ UNCHANGED <<kGaveUp, tickVars, kMishaps>>
       \/ /\ Mishap
          /\ NoteFailure(j) \/ NoteFailureUnwritten(j)
          /\ UNCHANGED <<kHold, kRefusedSince>>
    /\ UNCHANGED <<chainVars, kExpiry, kSkips, kSkipped>>

(* lapse, sent while the other jobs are still being decided.                 *)
Lapse(j) ==
    /\ kStep[j] = "lapse"
    /\ \/ /\ chainJob[j].outcome = "none"
          /\ chainJob' = [chainJob EXCEPT ![j].outcome = "lapsed"]
          /\ Step(j, "lapsed")
          /\ UNCHANGED <<kGaveUp, tickVars, kRetry, kMishaps>>
       \/ /\ chainJob[j].outcome # "none"
          /\ NoteFailure(j)
          /\ UNCHANGED <<chainJob, kMishaps>>
       \/ /\ Mishap
          /\ \/ chainJob[j].outcome = "none" /\ chainJob' = [chainJob EXCEPT ![j].outcome = "lapsed"]
             \/ UNCHANGED chainJob
          /\ NoteFailure(j) \/ NoteFailureUnwritten(j)
       \/ /\ Mishap     \* a node that is behind answers NotLapsed
          /\ Step(j, "none")
          /\ UNCHANGED <<chainJob, kGaveUp, tickVars, kRetry>>
    /\ UNCHANGED <<kTime, mirror, kHold, kExpiry, kSkips, kSkipped, kRefusedSince>>

(* What a lapse or a settled bond leaves to do: journal, end the retries.    *)
Book(j) ==
    /\ kStep[j] \in {"lapsed", "bonded"}
    /\ \/ /\ kRetry' = [kRetry EXCEPT ![j] = NoRetry]
          /\ Step(j, "none")
          /\ UNCHANGED <<kGaveUp, tickVars, kMishaps>>
       \/ Mishap /\ (NoteFailure(j) \/ NoteFailureUnwritten(j))
    /\ UNCHANGED <<chainVars, kHold, kExpiry, kSkips, kSkipped, kRefusedSince>>

(* settleBondsOfExpiredJobs: the last part of a tick.                        *)
BondRow(j) == mirror[j].status = "expired" /\ mirror[j].disputed /\ ~mirror[j].bondSettled
ListBonds ==
    /\ AtMode("act") /\ AllAre({"none"})
    /\ GoTo("bonds")
    /\ kStep' = [j \in KeeperJobs |-> IF BondRow(j) THEN "bond" ELSE "none"]
    /\ UNCHANGED <<chainVars, tableVars, kRetry, kSkipped, kRefusedSince, kMishaps>>

KeeperSettlesBond(j) ==
    /\ kStep[j] = "bond"
    /\ \/ /\ Waiting(j) \/ chainJob[j].bondSettled
          /\ Step(j, "none")
          /\ UNCHANGED <<chainJob, kGaveUp, tickVars, kRetry, kMishaps>>
       \/ /\ ~Waiting(j) /\ ~chainJob[j].bondSettled
          /\ \/ /\ chainJob' = [chainJob EXCEPT ![j].bondSettled = TRUE]
                /\ Step(j, "bonded")
                /\ UNCHANGED <<kGaveUp, tickVars, kRetry, kMishaps>>
             \/ /\ Mishap
                /\ chainJob' \in {chainJob, [chainJob EXCEPT ![j].bondSettled = TRUE]}
                /\ NoteFailure(j) \/ NoteFailureUnwritten(j)
    /\ UNCHANGED <<kTime, mirror, kHold, kExpiry, kSkips, kSkipped, kRefusedSince>>

TickEnds ==
    /\ AtMode("bonds") /\ AllAre({"none"})
    /\ EndPass
    /\ UNCHANGED <<chainVars, tableVars, kRetry, kSkipped, kRefusedSince, kMishaps>>

(* Any await outside the sends may throw: the tick is over, the loop goes on. *)
PassFails ==
    /\ Mishap
    /\ kMode \in {"read", "act", "bonds", "sweep"}
    /\ AllAre({"none", "journalSkip", "appendSkip", "readRecord", "readDispute", "decide",
               "screen", "noProof", "stale", "bond", "sweep"})
    /\ EndPass
    /\ UNCHANGED <<chainVars, tableVars, kRetry, kSkipped, kRefusedSince>>

-----------------------------------------------------------------------------
(* sweepExpiries: between ticks, its whole retry state in the table.         *)
ExpiryRow(j) ==
    /\ mirror[j].status = "expired"
    /\ ~kExpiry[j].marked /\ ~kExpiry[j].gaveUp /\ kExpiry[j].next <= kTime
SweepStarts ==
    /\ AtMode("ticked")
    /\ kMode' = "sweep" /\ kNow' = kTime /\ kListed' = {}
    /\ kStep' = [j \in KeeperJobs |-> IF ExpiryRow(j) THEN "sweep" ELSE "none"]
    /\ UNCHANGED <<chainVars, kRead, tableVars, kRetry, kSkipped, kRefusedSince, kMishaps>>

(* The sweep is not due after every tick.                                    *)
Rest ==
    /\ AtMode("ticked")
    /\ kMode' = "idle"
    /\ UNCHANGED <<chainVars, tableVars, kRetry, kSkipped, kNow, kListed, kRead, kStep, kRefusedSince, kMishaps>>

ExpiryFailed(e) == [e EXCEPT !.attempts = @ + 1, !.next = kNow + Delay(e.attempts + 1),
                             !.gaveUp = e.attempts + 1 >= GiveUpAfter]
NoteExpiryFailure(j) ==
    \/ kExpiry' = [kExpiry EXCEPT ![j] = ExpiryFailed(@)] /\ Step(j, "none") /\ UNCHANGED tickVars
    \/ kExpiry' = [kExpiry EXCEPT ![j].attempts = @ + 1] /\ EndPass
    \/ UNCHANGED kExpiry /\ EndPass

RecordExpiry(j) ==
    /\ kStep[j] = "sweep"
    /\ \/ /\ chainJob' = [chainJob EXCEPT ![j].recorded = TRUE]
          /\ Step(j, "recorded")
          /\ UNCHANGED <<kExpiry, tickVars, kMishaps>>
       \/ /\ Mishap /\ ~chainJob[j].recorded
          /\ chainJob' \in {chainJob, [chainJob EXCEPT ![j].recorded = TRUE]}
          /\ NoteExpiryFailure(j)
    /\ UNCHANGED <<kTime, mirror, kGaveUp, kHold, kSkips, kRetry, kSkipped, kRefusedSince>>

MarkExpiry(j) ==
    /\ kStep[j] = "recorded"
    /\ \/ kExpiry' = [kExpiry EXCEPT ![j].marked = TRUE] /\ Step(j, "none") /\ UNCHANGED <<tickVars, kMishaps>>
       \/ Mishap /\ NoteExpiryFailure(j)
    /\ UNCHANGED <<chainVars, kGaveUp, kHold, kSkips, kRetry, kSkipped, kRefusedSince>>

SweepEnds ==
    /\ AtMode("sweep") /\ AllAre({"none"})
    /\ EndPass
    /\ UNCHANGED <<chainVars, tableVars, kRetry, kSkipped, kRefusedSince, kMishaps>>

-----------------------------------------------------------------------------
TickStep(j) ==
    \/ MarkSkip(j) \/ AppendSkip(j) \/ ReadRecord(j) \/ ReadDispute(j)
    \/ Decide(j) \/ Screen(j) \/ ExamineProof(j) \/ ExamineRelease(j) \/ Send(j) \/ BookSend(j)
    \/ Lapse(j) \/ Book(j) \/ KeeperSettlesBond(j)
SweepStep(j) == RecordExpiry(j) \/ MarkExpiry(j)
LoopStep ==
    \/ RestoreGiveUps \/ TickStarts \/ Rest \/ Forget \/ ListBonds \/ TickEnds \/ SweepEnds
    \/ \E j \in KeeperJobs : TickStep(j) \/ SweepStep(j)
KeeperNext ==
    \/ KeeperClock \/ Crash \/ PassFails \/ SweepStarts \/ LoopStep
    \/ \E j \in KeeperJobs : MirrorCatchesUp(j) \/ OthersMove(j) \/ ClearGiveUp(j)

KeeperSpec == KeeperInit /\ [][KeeperNext]_keeperVars

-----------------------------------------------------------------------------
(* Types: the process counts at most GiveUpAfter attempts, and a job waits
   for one reason at a time.  (The sweep's counter may pass the limit: it is
   written before the give-up it leads to.)                                  *)
KeeperTypeOK ==
    /\ kTime \in 0..KeeperMaxTime /\ kMishaps \in 0..MaxMishaps
    /\ \A j \in KeeperJobs :
          /\ chainJob[j].status \in {"submitted", "completed", "rejected", "expired"}
          /\ kRetry[j].attempts \in 0..GiveUpAfter
          /\ kExpiry[j].attempts \in Nat
          /\ kHold[j].reason \in {"none", "noProof", "proofStale"}
    /\ kMode \in {"down", "idle", "ticked", "read", "act", "bonds", "sweep"}

(* "A job the keeper gave up on stays given up across a restart: it is
   skipped before any attempt" (services/keeper/README.md): while the table
   says so, no process sends anything for the job, be it finalize, lapse or
   settleBond, whichever life wrote the row.                                 *)
GivenUpIsLeftAlone ==
    \A j \in KeeperJobs : kGaveUp[j] => kStep[j] \notin {"screen", "send", "sent", "lapse", "lapsed", "bonded"}

(* A release the module would refuse pays the client back and the provider
   nothing: it is sent only once the keeper has seen it refused for the whole
   grace, without a break, restarts and other holds included.                *)
GraceIsKept ==
    \A j \in KeeperJobs :
        kStep[j] = "send" /\ kRefusedSince[j] # NotNoted => kNow - kRefusedSince[j] >= ProofGrace

(* One skipped row per unprofitable job, in any number of process lives
   (square#331).                                                             *)
SkippedOnce == \A j \in KeeperJobs : kSkips[j].rows <= 1

(* The sweep stops asking about a job only when the hook carries its expiry. *)
ExpiryMarkIsTrue == \A j \in KeeperJobs : kExpiry[j].marked => chainJob[j].recorded

(* What the keeper remembers, in memory and in its tables, is what it acts
   on, over any number of lives (run.ts and @squareops/data).                *)
KeeperSafety == KeeperTypeOK /\ GivenUpIsLeftAlone /\ GraceIsKept /\ SkippedOnce /\ ExpiryMarkIsTrue

(* Left to the keeper alone, a submission past its window ends, unless the
   client withholds a decidable proof, the keeper gave up, or the mirror and
   the chain say it already left: the refused proof only until its grace.    *)
SubmissionSettles ==
    \A j \in KeeperJobs :
        [](Open(j) => <>(~Open(j) \/ chainJob[j].proof = "missing" \/ kRetry[j].gaveUp
                         \/ chainJob[j].outcome = "reject"))

(* A bond whose job expired under its dispute is settled without anybody
   asking, unless the keeper gave the job up.                                *)
ExpiredBondSettles ==
    \A j \in KeeperJobs :
        chainJob[j].status = "expired" /\ chainJob[j].disputed ~> chainJob[j].bondSettled \/ kRetry[j].gaveUp

(* An expiry reaches the hook, or the sweep says it gave up.                 *)
ExpiryIsRecorded ==
    \A j \in KeeperJobs : chainJob[j].status = "expired" ~> chainJob[j].recorded \/ kExpiry[j].gaveUp

(* A job the keeper is told of comes to its end through the keeper alone: the
   submission, the bond and the record of an expiry.                         *)
KeeperFinishes == SubmissionSettles /\ ExpiredBondSettles /\ ExpiryIsRecorded
=============================================================================
