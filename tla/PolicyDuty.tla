------------------------------ MODULE PolicyDuty ------------------------------
(* The institution's release duty (packages/policy/src: duty.ts, release.ts, *)
(* state.ts): one wallet's jobs, tracked in memory and in a file, found again*)
(* on the chain after a restart, proved when their release is near and       *)
(* cranked when it is possible.  finalize is permissionless, so others crank *)
(* too; every release moves the day's counter the next proof names.  Each    *)
(* await of a tick is a step here, and the chain moves between any two.      *)
(* A job pays one unit; the reads of one releaseFacts are one read.          *)
EXTENDS Integers

CONSTANTS
    DutyJobs,
    Forbidden,        \* jobs whose capability the mandate does not allow
    Sold,             \* jobs whose claim may be sold
    Disputable,       \* jobs that may be disputed
    Unscreened,       \* jobs whose payee starts without a screening record
    Designated,       \* jobs whose payee a screening designates
    LateHires,        \* jobs funded while the run goes on
    Filed,            \* jobs the state file holds at the start
    CeilingUnits,     \* max_daily_spend, in units
    Tolerance,        \* the module's timestamp tolerance
    CloseAt,          \* the end of the challenge windows
    DutyExpiry,       \* the jobs' expiredAt
    Midnights,        \* the times at which the registry's day rolls over
    DutyMaxTime, MaxDutyMishaps

ASSUME DutyAssumption ==
    /\ {CeilingUnits, Tolerance, CloseAt, DutyExpiry, DutyMaxTime, MaxDutyMishaps} \subseteq Nat
    /\ CeilingUnits > 0 /\ Midnights \subseteq Nat
    /\ (Forbidden \cup Sold \cup Disputable \cup Unscreened \cup Designated \cup LateHires \cup Filed) \subseteq DutyJobs

RefreshAfter == Tolerance \div 2

VARIABLES
    dTime,        \* the chain's clock
    daySpent,     \* PolicyRegistry.spentToday of the wallet
    deal,         \* job -> the job on chain
    tracked,      \* job -> the category the duty holds: "no" is not tracked
    dutyFile,     \* the same, as the state file has it
    dutyMode,     \* "down", "loaded", "idle", "tick"
    scanned,      \* the discovery of this life went through
    todo,         \* jobs the tick has still to attend
    at,           \* the job in hand: its await, its facts, the proof made of them
    dutyMishaps

onChain == <<dTime, daySpent, deal>>
memory == <<tracked, dutyFile, dutyMode, scanned, todo, at>>
dutyVars == <<onChain, memory, dutyMishaps>>

Unproved == [compliant |-> FALSE, spent |-> -1, terms |-> "none", made |-> 0]
Nothing == [job |-> "none"]
Untracked == [j \in DutyJobs |-> "no"]

(* A start finds jobs of an earlier life, in the file or only on the chain.  *)
DutyInit ==
    /\ dTime = 0 /\ daySpent = 0
    /\ deal = [j \in DutyJobs |->
                 [status |-> IF j \in LateHires THEN "open" ELSE "submitted", dispute |-> "no", terms |-> "agreed",
                  screening |-> IF j \in Unscreened THEN "none" ELSE "clean", proof |-> Unproved, paid |-> FALSE]]
    /\ tracked = Untracked
    /\ dutyFile = [j \in DutyJobs |-> IF j \in Filed THEN "bought" ELSE "no"]
    /\ dutyMode = "down" /\ scanned = FALSE
    /\ todo = {} /\ at = Nothing
    /\ dutyMishaps = 0

DutyMishap == dutyMishaps < MaxDutyMishaps /\ dutyMishaps' = dutyMishaps + 1
Luck == UNCHANGED dutyMishaps

Distance(s, t) == IF s < t THEN t - s ELSE s - t
Escrowed(j) == deal[j].status \in {"funded", "submitted"}

-----------------------------------------------------------------------------
(* The chain, moved by others.                                               *)

DutyClock ==
    /\ dTime < DutyMaxTime
    /\ dTime' = dTime + 1
    /\ daySpent' = IF dTime + 1 \in Midnights THEN 0 ELSE daySpent
    /\ UNCHANGED <<deal, memory>> /\ Luck

OthersDo(j) == UNCHANGED <<dTime, daySpent, memory>> /\ Luck

ProviderSubmits(j) ==
    /\ deal[j].status = "funded" /\ dTime < CloseAt
    /\ deal' = [deal EXCEPT ![j].status = "submitted"]
    /\ OthersDo(j)

ClaimSold(j) ==
    /\ j \in Sold /\ deal[j].status = "submitted" /\ deal[j].terms = "agreed" /\ deal[j].dispute = "no"
    /\ deal' = [deal EXCEPT ![j].terms = "sold"]
    /\ OthersDo(j)

DisputeOpens(j) ==
    /\ j \in Disputable /\ deal[j].status = "submitted" /\ deal[j].dispute = "no" /\ dTime < CloseAt
    /\ deal' = [deal EXCEPT ![j].dispute = "open"]
    /\ OthersDo(j)

(* Arbiters split the net or reject the job. *)
PanelDecides(j) ==
    /\ deal[j].status = "submitted" /\ deal[j].dispute = "open"
    /\ \/ deal' = [deal EXCEPT ![j].dispute = "decided", ![j].terms = "split"]
       \/ deal' = [deal EXCEPT ![j].status = "rejected"]
    /\ OthersDo(j)

Screened(j) ==
    /\ deal[j].screening = "none"
    /\ deal' = [deal EXCEPT ![j].screening = IF j \in Designated THEN "designated" ELSE "clean"]

(* The module's verdict on a proof, and with the hook's the payment. *)
ModuleTakes(proof) ==
    /\ proof.compliant /\ proof.spent = daySpent /\ daySpent < CeilingUnits
    /\ Distance(dTime, proof.made) <= Tolerance
Verified(j) == ModuleTakes(deal[j].proof) /\ deal[j].proof.terms = deal[j].terms

Crankable(j) ==
    /\ deal[j].status = "submitted"
    /\ deal[j].dispute = "decided" \/ (deal[j].dispute = "no" /\ dTime >= CloseAt)
    /\ deal[j].proof # Unproved

Crank(j) ==
    /\ Crankable(j)
    /\ deal' = [deal EXCEPT ![j].status = "completed", ![j].paid = Verified(j) /\ deal[j].screening = "clean"]
    /\ daySpent' = IF Verified(j) THEN daySpent + 1 ELSE daySpent
    /\ UNCHANGED dTime

OthersCrank(j) == Crank(j) /\ UNCHANGED memory /\ Luck

-----------------------------------------------------------------------------
(* What is tracked, and the file it is written to on every change.           *)

Persist ==
    \/ dutyFile' = tracked' /\ Luck
    \/ DutyMishap /\ UNCHANGED dutyFile

(* A hire's fund transaction; track() follows it unless the process is gone. *)
HireFunds(j) ==
    /\ deal[j].status = "open"
    /\ deal' = [deal EXCEPT ![j].status = "funded"]
    /\ \/ dutyMode = "down" /\ UNCHANGED <<tracked, dutyFile>> /\ Luck
       \/ dutyMode = "idle" /\ tracked' = [tracked EXCEPT ![j] = "bought"] /\ Persist
    /\ UNCHANGED <<dTime, daySpent, dutyMode, scanned, todo, at>>

RecoverFile ==
    /\ dutyMode = "down"
    /\ \/ tracked' = dutyFile /\ dutyMode' = "loaded" /\ Luck
       \/ DutyMishap /\ dutyMode' = "idle" /\ UNCHANGED tracked
    /\ UNCHANGED <<onChain, dutyFile, scanned, todo, at>>

(* Faulty: what the file holds is taken for all there is. *)
DiscoveredOnce(j) == Escrowed(j) /\ tracked[j] = "no" /\ \A k \in DutyJobs : tracked[k] = "no"
Discovered(j) == Escrowed(j) /\ tracked[j] = "no"
Discover ==
    /\ dutyMode = "loaded" /\ dutyMode' = "idle"
    /\ \/ /\ tracked' = [j \in DutyJobs |-> IF Discovered(j) THEN "unknown" ELSE tracked[j]]
          /\ scanned' = TRUE
          /\ IF tracked' = Untracked THEN UNCHANGED dutyFile /\ Luck ELSE Persist
       \/ /\ DutyMishap
          /\ \E found \in SUBSET {j \in DutyJobs : Discovered(j)} :
                tracked' = [j \in DutyJobs |-> IF j \in found THEN "unknown" ELSE tracked[j]]
          /\ UNCHANGED <<dutyFile, scanned>>
    /\ UNCHANGED <<onChain, todo, at>>

DutyCrash ==
    /\ DutyMishap /\ dutyMode # "down"
    /\ dutyMode' = "down" /\ scanned' = FALSE /\ tracked' = Untracked
    /\ todo' = {} /\ at' = Nothing
    /\ UNCHANGED <<onChain, dutyFile>>

-----------------------------------------------------------------------------
(* The tick: every tracked job is attended in turn.                          *)

DutyTickStarts ==
    /\ dutyMode = "idle" /\ dutyMode' = "tick"
    /\ todo' = {j \in DutyJobs : tracked[j] # "no"}
    /\ UNCHANGED <<onChain, tracked, dutyFile, scanned, at>> /\ Luck

DutyTickEnds ==
    /\ dutyMode = "tick" /\ todo = {} /\ at = Nothing
    /\ dutyMode' = "idle"
    /\ UNCHANGED <<onChain, tracked, dutyFile, scanned, todo, at>> /\ Luck

FactsOf(j) ==
    [status |-> deal[j].status, dispute |-> deal[j].dispute, terms |-> deal[j].terms, spent |-> daySpent, now |-> dTime]

(* proofState *)
Current(proof, facts) ==
    /\ proof.compliant /\ proof.terms = facts.terms /\ proof.spent = facts.spent
    /\ Distance(facts.now, proof.made) <= RefreshAfter

ReleaseIsNear(facts) ==
    /\ facts.status = "submitted"
    /\ IF facts.dispute = "no" THEN CloseAt - facts.now <= RefreshAfter ELSE facts.dispute = "decided"

(* Faulty: whatever is bound after the window is cranked. *)
CrankIsDueAnyhow(facts, proof, refusal) ==
    /\ facts.status = "submitted"
    /\ IF facts.dispute = "no" THEN CloseAt <= facts.now ELSE facts.dispute = "decided"
CrankIsDue(facts, proof, refusal) ==
    /\ facts.status = "submitted"
    /\ IF facts.dispute = "no" THEN CloseAt <= facts.now ELSE facts.dispute = "decided"
    /\ refusal \/ Current(proof, facts)

InHand(await) == at # Nothing /\ at.await = await
Await(await) == at' = [at EXCEPT !.await = await] /\ UNCHANGED <<todo, dutyMode, scanned>>
LeaveJob(j) == todo' = todo \ {j} /\ at' = Nothing /\ UNCHANGED <<dutyMode, scanned>>
Keep == UNCHANGED <<tracked, dutyFile>>
Untrack(j) == tracked' = [tracked EXCEPT ![j] = "no"] /\ Persist

(* Cranking is the next await, or there is nothing left to do this tick. *)
GoOn(j, facts, proof, refusal) ==
    IF CrankIsDue(facts, proof, refusal)
    THEN at' = [job |-> j, await |-> "payee", facts |-> facts, proof |-> Unproved, refusal |-> refusal]
         /\ UNCHANGED <<todo, dutyMode, scanned>>
    ELSE LeaveJob(j)

Attend(j) ==
    /\ dutyMode = "tick" /\ at = Nothing /\ j \in todo
    /\ LET facts == FactsOf(j)
           bound == deal[j].proof
       IN  \/ ~Escrowed(j) /\ LeaveJob(j) /\ Untrack(j)
           \/ Escrowed(j) /\ ~ReleaseIsNear(facts) /\ LeaveJob(j) /\ Keep /\ Luck
           \/ /\ Escrowed(j) /\ ReleaseIsNear(facts)
              /\ IF Current(bound, facts)
                 THEN GoOn(j, facts, bound, FALSE)
                 ELSE at' = [job |-> j, await |-> "prove", facts |-> facts, proof |-> Unproved, refusal |-> FALSE]
                      /\ UNCHANGED <<todo, dutyMode, scanned>>
              /\ Keep /\ Luck
    /\ UNCHANGED onChain

(* A job only the chain knew takes the first category the policy allows.     *)
MandateForbids(j) == j \in Forbidden /\ tracked[j] = "bought"
DayIsFull(facts) == facts.spent >= CeilingUnits
ProofFor(facts, verdict) == [compliant |-> verdict, spent |-> facts.spent, terms |-> facts.terms, made |-> facts.now]
NameCategory(j) ==
    IF tracked[j] = "unknown" THEN tracked' = [tracked EXCEPT ![j] = "guessed"] /\ Persist ELSE Keep /\ Luck

(* Faulty: a full day is waited out, also past the expiry. *)
LastWordOnlyOfMandate(j, facts) == MandateForbids(j)
LastWord(j, facts) == MandateForbids(j) \/ DutyExpiry - facts.now <= RefreshAfter

Prove ==
    /\ InHand("prove")
    /\ LET j     == at.job
           facts == at.facts
       IN  \/ /\ ~MandateForbids(j) /\ ~DayIsFull(facts)
              /\ at' = [at EXCEPT !.await = "preview", !.proof = ProofFor(facts, TRUE)]
              /\ UNCHANGED <<todo, dutyMode, scanned>> /\ Keep /\ Luck
           \/ /\ MandateForbids(j) \/ DayIsFull(facts)
              /\ IF LastWord(j, facts) THEN Await("refuse") ELSE LeaveJob(j)
              /\ NameCategory(j)
    /\ UNCHANGED onChain

Preview ==
    /\ InHand("preview")
    /\ IF ModuleTakes(at.proof) THEN Await("bind") ELSE LeaveJob(at.job)
    /\ Keep /\ Luck /\ UNCHANGED onChain

SetProof(j, proof) ==
    IF Escrowed(j)
    THEN deal' = [deal EXCEPT ![j].proof = proof] /\ Await("reread") /\ NameCategory(j)
    ELSE UNCHANGED deal /\ LeaveJob(j) /\ Keep /\ Luck

Bind == InHand("bind") /\ SetProof(at.job, at.proof) /\ UNCHANGED <<dTime, daySpent>>

BindRefusal ==
    /\ InHand("refuse")
    /\ LET no == ProofFor(at.facts, FALSE)
       IN  IF Escrowed(at.job)
           THEN /\ deal' = [deal EXCEPT ![at.job].proof = no]
                /\ at' = [at EXCEPT !.await = "reread", !.proof = no, !.refusal = TRUE]
                /\ UNCHANGED <<todo, dutyMode, scanned>>
           ELSE UNCHANGED deal /\ LeaveJob(at.job)
    /\ Keep /\ Luck /\ UNCHANGED <<dTime, daySpent>>

DutyRereads ==
    /\ InHand("reread")
    /\ GoOn(at.job, FactsOf(at.job), at.proof, at.refusal)
    /\ Keep /\ Luck /\ UNCHANGED onChain

(* payeeCleared: a payee without a record is screened, or the job is held. *)
PayeeCleared ==
    /\ InHand("payee")
    /\ \/ deal[at.job].screening # "none" /\ Await("send") /\ UNCHANGED deal
       \/ deal[at.job].screening = "none" /\ LeaveJob(at.job) /\ UNCHANGED deal
       \/ Screened(at.job) /\ Await("send")
    /\ Keep /\ Luck /\ UNCHANGED <<dTime, daySpent>>

(* finalize or finalizeDecided; what another hand did first is read back. *)
DutySends ==
    /\ InHand("send")
    /\ \/ Crank(at.job) /\ Untrack(at.job)
       \/ ~Crankable(at.job) /\ ~Escrowed(at.job) /\ UNCHANGED onChain /\ Untrack(at.job)
       \/ ~Crankable(at.job) /\ Escrowed(at.job) /\ UNCHANGED onChain /\ Keep /\ Luck
    /\ LeaveJob(at.job)

(* A read, a proof or a transaction that throws: the tick goes on with the next job. *)
Throws ==
    /\ at # Nothing /\ DutyMishap
    /\ IF at.await \in {"bind", "refuse"} /\ Escrowed(at.job)
       THEN \/ UNCHANGED deal
            \/ deal' = [deal EXCEPT ![at.job].proof = IF at.await = "bind" THEN at.proof ELSE ProofFor(at.facts, FALSE)]
       ELSE UNCHANGED deal
    /\ LeaveJob(at.job) /\ Keep /\ UNCHANGED <<dTime, daySpent>>

DutyStep ==
    \/ RecoverFile \/ Discover \/ DutyTickStarts \/ DutyTickEnds
    \/ \E j \in DutyJobs : Attend(j)
    \/ Prove \/ Preview \/ Bind \/ BindRefusal \/ DutyRereads \/ PayeeCleared \/ DutySends

DutyNext ==
    \/ DutyClock \/ DutyCrash \/ Throws \/ DutyStep
    \/ \E j \in DutyJobs :
          \/ ProviderSubmits(j) \/ ClaimSold(j) \/ DisputeOpens(j) \/ PanelDecides(j)
          \/ OthersCrank(j) \/ HireFunds(j)

DutySpec == DutyInit /\ [][DutyNext]_dutyVars

-----------------------------------------------------------------------------
(* A restart forgets nothing: once the scan of this life went through, every
   job of this wallet that is in escrow is tracked, whatever the file held,
   failed to take or still lists (square#348).                               *)
NothingIsForgotten ==
    (dutyMode \in {"idle", "tick"} /\ scanned) => \A j \in DutyJobs : Escrowed(j) => tracked[j] # "no"

(* The duty's own crank pays the provider, unless the refusal was bound on
   purpose, the payee is designated, or what the proof names moved after the
   duty last read it: half the tolerance is there for the send.              *)
OwnCrankPays ==
    [][InHand("send") /\ at' = Nothing /\ deal[at.job].status = "submitted" /\ deal'[at.job].status = "completed" =>
          \/ deal'[at.job].paid
          \/ at.refusal \/ deal[at.job].screening = "designated"
          \/ daySpent # at.facts.spent \/ deal[at.job].terms # at.facts.terms
          \/ dTime - at.facts.now > Tolerance - RefreshAfter]_dutyVars

NotFound(j) == dutyMode \in {"idle", "tick"} /\ ~scanned /\ tracked[j] = "no"

(* A tracked submission leaves escrow by the duty alone, paid or with the
   mandate's refusal, restarts included, unless it waits for arbiters or for a
   screening, or a start could neither read the file nor scan the chain.     *)
DutyFinishes ==
    \A j \in DutyJobs :
        (deal[j].status = "submitted" /\ tracked[j] # "no")
            ~> (~Escrowed(j) \/ deal[j].dispute = "open" \/ deal[j].screening = "none" \/ NotFound(j))
=============================================================================
