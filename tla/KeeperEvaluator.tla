-------------------------- MODULE KeeperEvaluator --------------------------
(***************************************************************************)
(* The optimistic evaluator: contracts/src/KeeperEvaluator.sol.  A         *)
(* submission nobody disputes within the challenge window is completed by  *)
(* whoever calls finalize; a disputed one waits for the arbitration.       *)
(*                                                                         *)
(* The hook's answers (is there a decidable proof, who is paid and what    *)
(* part) are parameters here; Settlement.tla gives them.  The arbitration  *)
(* half of a transaction is in Arbitration.tla.                            *)
(***************************************************************************)
EXTENDS SquareJob, Sequences

CONSTANTS
    KE,              \* this contract's address
    WindowChoices,   \* [challenge, dispute, grace] the owner may configure
    MaxWindows       \* bound: window versions ever pushed

WindowShape == [challenge : Nat \ {0}, dispute : Nat \ {0}, grace : Nat \ {0}]

ASSUME KeeperAssumption ==
    /\ KE \in Accounts
    /\ KE \notin Clients    \* the contract never calls createJob
    /\ WindowChoices \subseteq WindowShape
    /\ MaxWindows \in Nat \ {0}

VARIABLES
    windows,         \* _windows: versions by the time they take effect
    arbitrationSet,  \* _arbitration is not the zero address
    disputeRefs      \* _disputes of this contract

keeperVars == <<windows, arbitrationSet, disputeRefs>>

Window == [effectiveFrom : Nat, challenge : Nat \ {0}, dispute : Nat \ {0}, grace : Nat \ {0}]

Versioned(w, t) ==
    [effectiveFrom |-> t, challenge |-> w.challenge, dispute |-> w.dispute, grace |-> w.grace]

KeeperInit ==
    /\ \E w \in WindowChoices : windows = <<Versioned(w, 0)>>
    /\ arbitrationSet = FALSE
    /\ disputeRefs = [j \in Jobs |-> [disputedAt |-> 0, resolved |-> FALSE]]

CurrentWindow == windows[Len(windows)]

(* Faulty: the latest configuration applies to every job.                   *)
WindowForIsCurrent(t) == CurrentWindow

(* The newest version that was in effect at time t, the first if none was.  *)
WindowFor(t) ==
    LET inEffect == {i \in DOMAIN windows : windows[i].effectiveFrom <= t}
    IN  IF inEffect = {} THEN windows[1]
        ELSE windows[CHOOSE i \in inEffect : \A k \in inEffect : k <= i]

KeeperHorizon == CurrentWindow.challenge + CurrentWindow.dispute + CurrentWindow.grace

ChallengeEndsAt(j) == jobs[j].submittedAt + WindowFor(jobs[j].submittedAt).challenge

Disputed(j) == disputeRefs[j].disputedAt # 0

IsDisputed(j) == Disputed(j) /\ ~disputeRefs[j].resolved

SubmittedToKeeper(j) == jobs[j].evaluator = KE /\ jobs[j].status = "Submitted"

(* proofState answers that let a release be decided; a hook that does not
   answer, or does not resolve payouts, reads as NotGated.                  *)
DecidableProof(state) == state \in {"NotGated", "Decidable"}

-----------------------------------------------------------------------------

PushWindow(w) ==
    /\ Len(windows) < MaxWindows
    /\ windows' = Append(windows, Versioned(w, now))
    /\ UNCHANGED <<vars, arbitrationSet, disputeRefs>>

ConfigureWindows(challenge, dispute) ==
    PushWindow([challenge |-> challenge, dispute |-> dispute, grace |-> CurrentWindow.grace])

SetFinalizeGrace(grace) ==
    PushWindow([challenge |-> CurrentWindow.challenge, dispute |-> CurrentWindow.dispute,
                grace |-> grace])

SetArbitration ==
    /\ ~arbitrationSet
    /\ arbitrationSet' = TRUE
    /\ UNCHANGED <<vars, windows, disputeRefs>>

(* Faulty: a dispute does not stop the window's end.                        *)
FinalizeDisputed(j, caller, state, payee, bps) ==
    /\ SubmittedToKeeper(j)
    /\ now >= ChallengeEndsAt(j)
    /\ DecidableProof(state)
    /\ CompleteAndForward(j, KE, payee, bps, caller)
    /\ UNCHANGED keeperVars

(* Anyone may call; the caller is paid what the ledger holds for KE.        *)
Finalize(j, caller, state, payee, bps) ==
    /\ SubmittedToKeeper(j)
    /\ ~Disputed(j)
    /\ now >= ChallengeEndsAt(j)
    /\ DecidableProof(state)
    /\ CompleteAndForward(j, KE, payee, bps, caller)
    /\ UNCHANGED keeperVars

(* The evaluator's half of dispute(); Arbitration!Open is the other half.   *)
RaiseDispute(j, caller) ==
    /\ SubmittedToKeeper(j)
    /\ caller = jobs[j].client
    /\ ~Disputed(j)
    /\ arbitrationSet
    /\ now < ChallengeEndsAt(j)
    /\ disputeRefs' = [disputeRefs EXCEPT ![j] = [disputedAt |-> now, resolved |-> FALSE]]
    /\ UNCHANGED <<vars, windows, arbitrationSet>>

ResolveBy(j) == now + WindowFor(jobs[j].submittedAt).dispute

Resolve(j) ==
    /\ IsDisputed(j)
    /\ disputeRefs' = [disputeRefs EXCEPT ![j].resolved = TRUE]
    /\ UNCHANGED <<windows, arbitrationSet>>

(* applyRejection, called by the arbitration when a vote decides Reject.    *)
RejectionApplies(j) == IsDisputed(j) /\ InEscrow(j) /\ jobs[j].evaluator = KE

ApplyRejection(j) == Resolve(j) /\ Reject(j, KE)

(* Faulty: a lapse is not taken for a decision.                             *)
CompleteVotedOnly(j, caller, outcome, decidedBps, state, payee, bps) ==
    /\ Resolve(j)
    /\ outcome = "Complete"
    /\ decidedBps = BPS \/ jobs[j].hookResolvesPayout
    /\ DecidableProof(state)
    /\ CompleteAndForward(j, KE, payee, bps, caller)

(* finalizeDecided up to the bond, under the decision the arbitration holds.
   A split needs a hook that resolves payouts to carry it.                  *)
CompleteDecided(j, caller, outcome, decidedBps, state, payee, bps) ==
    /\ Resolve(j)
    /\ outcome \in {"Complete", "Lapsed"}
    /\ decidedBps = BPS \/ jobs[j].hookResolvesPayout
    /\ DecidableProof(state)
    /\ CompleteAndForward(j, KE, payee, bps, caller)
=============================================================================
