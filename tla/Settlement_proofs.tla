-------------------------- MODULE Settlement_proofs --------------------------
(***************************************************************************)
(* Theorems about the composed contracts, for every number of jobs,        *)
(* accounts, arbiters, thresholds, window versions and splits that the     *)
(* assumptions of the modules admit.                                       *)
(***************************************************************************)
EXTENDS Settlement, SquareJob_proofs, WellFoundedInduction

-----------------------------------------------------------------------------
(* How the records of one job fit together.                                 *)

PastFunding == {"Submitted", "Completed", "Rejected", "Expired"}

(* The evaluator's reference, the arbitration's dispute and the job.        *)
DisputeFits(k) ==
    /\ Opened(k) <=> Disputed(k)
    /\ Opened(k) => /\ jobs[k].evaluator = KE /\ jobs[k].status \in PastFunding
                    /\ disputes[k].disputer \in Accounts
    /\ ~Opened(k) => approvals[k] = {} /\ disputes[k].outcome = "None"
    /\ disputes[k].outcome = "Reject" => jobs[k].status = "Rejected"
    /\ Opened(k) /\ jobs[k].status \in {"Completed", "Rejected"} =>
         disputeRefs[k].resolved /\ disputes[k].bondSettled /\ disputes[k].outcome # "None"
    /\ disputeRefs[k].resolved => jobs[k].status \in {"Completed", "Rejected"}
    /\ disputes[k].outcome = "Lapsed" => now >= disputes[k].resolveBy

(* The members of a set who cast a ballot for a resolution.                 *)
BackersAmong(members, ballots, resolution) == {a \in members : <<a, resolution>> \in ballots}

BackersOf(k, resolution) == BackersAmong(SetOf(k).members, approvals[k], resolution)

(* The ballots, the dispute's arbiter set and its outcome.                  *)
VotesFit(k) ==
    /\ Opened(k) => disputes[k].setVersion \in 1 .. Len(arbiterSets)
    /\ \A v \in approvals[k] : v[1] \in disputes[k].voted /\ v[1] \in SetOf(k).members
    /\ \A v, w \in approvals[k] : v[1] = w[1] => v = w
    /\ disputes[k].outcome \in {"Complete", "Reject"} =>
         Cardinality(BackersOf(k, <<disputes[k].outcome, disputes[k].providerBps>>))
            >= SetOf(k).threshold

(* The listing, the job and what was paid.                                  *)
PayoutFits(k) ==
    /\ jobs[k].status # "None" /\ jobs[k].evaluator = KE => jobs[k].settlementHorizon > 0
    /\ jobs[k].status = "Completed" /\ OnMarket(k) =>
         /\ jobs[k].payee = PayeeOf(k)
         /\ jobs[k].evaluator = KE =>
              jobs[k].providerBps \in {0, IF Opened(k) THEN disputes[k].providerBps ELSE BPS}
    /\ listings[k].status \in {"Listed", "Sold"} =>
         /\ jobs[k].status \in PastFunding
         /\ InEscrow(k) =>
              listings[k].faceValue = NetPayout(k) /\ listings[k].price < listings[k].faceValue

JobFits(k) == DisputeFits(k) /\ VotesFit(k) /\ PayoutFits(k)

-----------------------------------------------------------------------------
(* The shape of what the kernel does not keep.                              *)

(* Each version is made of configured windows and none is of a time to come. *)
WindowsFit ==
    /\ windows \in Seq(Window) /\ Len(windows) \in 1 .. MaxWindows
    /\ \A i \in 1 .. Len(windows) :
         /\ windows[i].effectiveFrom <= now
         /\ \E v, w \in WindowChoices : /\ windows[i].challenge = v.challenge
                                        /\ windows[i].dispute = v.dispute
                                        /\ windows[i].grace = w.grace

KeeperType ==
    /\ WindowsFit
    /\ arbitrationSet \in BOOLEAN
    /\ disputeRefs \in [Jobs -> [disputedAt : Nat, resolved : BOOLEAN]]

PanelType ==
    /\ arbiterSets \in Seq(ArbiterSets) /\ Len(arbiterSets) <= MaxVersions
    /\ bondParameters \in BondParameters

VoteType ==
    /\ disputes \in [Jobs -> DisputeRecord]
    /\ approvals \in [Jobs -> SUBSET (Accounts \X Resolutions)]

BondType == bondWithdrawable \in [Accounts -> Nat] /\ bondBalance \in Nat

MarketType ==
    /\ listings \in [Jobs -> ListingRecord]
    /\ buyerRoots \in [Clients -> BuyerLists \cup {{}}]

StackType == KeeperType /\ PanelType /\ VoteType /\ BondType /\ MarketType /\ checks \in CheckChoices

AllJobsFit == \A k \in Jobs : JobFits(k)

StackInv == IInv /\ StackType /\ AllJobsFit /\ BondsBacked

-----------------------------------------------------------------------------
(* What a step does to one job, told by the records before and after.       *)

SameSides(k) ==
    /\ disputes'[k] = disputes[k] /\ disputeRefs'[k] = disputeRefs[k]
    /\ approvals'[k] = approvals[k] /\ listings'[k] = listings[k]

Untouched(k) == jobs'[k] = jobs[k] /\ SameSides(k)

(* Time does not go back and an arbiter set, once installed, stays.         *)
Later ==
    /\ now' >= now
    /\ \A i \in 1 .. Len(arbiterSets) :
         i \in 1 .. Len(arbiterSets') /\ arbiterSets'[i] = arbiterSets[i]

(* The kernel's own calls: before submission anything but a completion...   *)
EarlyMove(k) ==
    /\ jobs[k].status \in {"None", "Open", "Funded"}
    /\ jobs'[k].status \in {"Open", "Funded", "Submitted", "Rejected", "Expired"}
    /\ jobs'[k].evaluator = KE => jobs'[k].settlementHorizon > 0

SameDeal(k) ==
    /\ jobs'[k].evaluator = jobs[k].evaluator /\ jobs'[k].provider = jobs[k].provider
    /\ jobs'[k].hook = jobs[k].hook /\ jobs'[k].hookResolvesPayout = jobs[k].hookResolvesPayout
    /\ jobs'[k].settlementHorizon = jobs[k].settlementHorizon
    /\ jobs'[k].submittedAt = jobs[k].submittedAt

(* ...and after it an end, which for a job of the evaluator is an expiry of
   a payout that does not resolve.                                          *)
LateMove(k) ==
    /\ jobs[k].status = "Submitted"
    /\ SameDeal(k)
    /\ \/ /\ jobs'[k].status = "Completed" /\ jobs[k].evaluator # KE
          /\ OnMarket(k) => jobs'[k].payee = PayeeOf(k)
       \/ jobs'[k].status = "Rejected" /\ jobs[k].evaluator # KE
       \/ /\ jobs'[k].status = "Expired"
          /\ jobs[k].settlementHorizon = 0 \/ (jobs[k].hookResolvesPayout /\ ~OnMarket(k))

KernelMove(k) == jobs'[k] = jobs[k] \/ EarlyMove(k) \/ LateMove(k)

(* A job of the evaluator ends as its dispute, its window or its hook says. *)
EndsAsDecided(k) ==
    SubmittedToKeeper(k) =>
        /\ jobs'[k].submittedAt = jobs[k].submittedAt
        /\ jobs'[k].status = "Completed" =>
             IF Disputed(k) THEN \/ disputes[k].outcome = "Complete"
                                 \/ disputes[k].outcome = "Lapsed" /\ now >= disputes[k].resolveBy
             ELSE now >= ChallengeEndsAt(k)
        /\ jobs'[k].status = "Rejected" => disputes'[k].outcome = "Reject"
        /\ jobs'[k].status = "Expired" => jobs[k].hookResolvesPayout /\ ~OnMarket(k)

(* The versions only grow, by one that takes effect now.                    *)
WindowsGrow ==
    \/ windows' = windows
    \/ \E w \in Window : w.effectiveFrom = now /\ windows' = Append(windows, w)

(* All that is shown of a step.                                             *)
Sound ==
    /\ [Next]_vars
    /\ WindowsGrow
    /\ StackType'
    /\ \A k \in Jobs : JobFits(k)' /\ EndsAsDecided(k)
    /\ BondsBacked'

-----------------------------------------------------------------------------
(* Two facts that are not about the contracts.                              *)

(* A set of indices that is not empty has a greatest one.                   *)
LEMMA HasMaximum ==
    ASSUME NEW n \in Nat, NEW S, S \subseteq 1 .. n, S # {}
    PROVE  \E i \in S : \A k \in S : k <= i
PROOF
<1> DEFINE above(i) == {k \in 1 .. n : k > i}
           T == {above(i) : i \in S}
           R == StrictSubsetOrdering(1 .. n)
           F == FiniteSubsetsOf(1 .. n)
<1>1. IsWellFoundedOn(R, F)
  BY FS_StrictSubsetOrderingWellFounded
<1>2. IsFiniteSet(1 .. n)
  BY FS_Interval
<1>3. T \subseteq F /\ T # {}
  <2>1. F = SUBSET (1 .. n)
    BY <1>2, FS_FiniteSubsetsOfFinite
  <2> HIDE DEF F
  <2> QED BY <2>1
<1>4. PICK x \in T : \A y \in T : ~ (<<y, x>> \in R)
  <2> HIDE DEF T, R, F
  <2> QED BY <1>1, <1>3, WFMin
<1>5. PICK i \in S : x = above(i)
  BY <1>4
<1>6. ASSUME NEW k \in S, ~(k <= i) PROVE FALSE
  <2>1. above(k) \in T /\ i \in 1 .. n /\ k \in 1 .. n
    OBVIOUS
  <2>2. k \in above(i) /\ k \notin above(k) /\ above(k) \subseteq above(i)
    BY <1>6, <2>1
  <2>3. <<above(k), x>> \in R
    BY <1>5, <2>2 DEF StrictSubsetOrdering
  <2> QED BY <1>4, <2>1, <2>3
<1> QED BY <1>6

(* As many ballots for a resolution as arbiters who cast one.               *)
LEMMA BallotsAreBackers ==
    ASSUME NEW M, NEW R, NEW B, B \subseteq M \X R, IsFiniteSet(M), NEW r
    PROVE  Cardinality(BackersAmong(M, B, r)) = Cardinality(Backers(B, r))
PROOF
<1> DEFINE who == {a \in M : <<a, r>> \in B}
           cast == {b \in B : b[2] = r}
           f == [a \in who |-> <<a, r>>]
<1>1. IsFiniteSet(who)
  BY FS_Subset
<1>2. f \in [who -> cast]
  OBVIOUS
<1>3. \A a, c \in who : f[a] = f[c] => a = c
  OBVIOUS
<1>4. \A b \in cast : \E a \in who : f[a] = b
  <2> SUFFICES ASSUME NEW b \in cast PROVE \E a \in who : f[a] = b
    OBVIOUS
  <2>1. b = <<b[1], b[2]>> /\ b[1] \in M /\ b[2] = r
    OBVIOUS
  <2>2. b[1] \in who /\ f[b[1]] = b
    BY <2>1
  <2> QED BY <2>2
<1>5. f \in Bijection(who, cast)
  BY <1>2, <1>3, <1>4 DEF Bijection, Injection, Surjection, IsInjective
<1>6. ExistsBijection(who, cast)
  BY <1>5 DEF ExistsBijection
<1> HIDE DEF who, cast
<1>7. Cardinality(cast) = Cardinality(who)
  BY <1>1, <1>6, FS_Bijection
<1> QED BY <1>7 DEF who, cast, BackersAmong, Backers

-----------------------------------------------------------------------------
(* The windows.                                                             *)

Newest(S) == CHOOSE i \in S : \A k \in S : k <= i

(* WindowFor as a function of the versions.                                 *)
InForce(versions, t) ==
    LET inEffect == {i \in DOMAIN versions : versions[i].effectiveFrom <= t}
    IN  IF inEffect = {} THEN versions[1] ELSE versions[Newest(inEffect)]

(* There is a version in force at every time.                               *)
LEMMA WindowForType ==
    ASSUME WindowsFit, NEW t \in Nat
    PROVE  WindowFor(t) \in Window
PROOF
<1> DEFINE inEffect == {i \in DOMAIN windows : windows[i].effectiveFrom <= t}
           newest == CHOOSE i \in inEffect : \A k \in inEffect : k <= i
<1>1. /\ windows \in Seq(Window) /\ Len(windows) \in Nat /\ 1 \in 1 .. Len(windows)
      /\ DOMAIN windows = 1 .. Len(windows)
      /\ \A i \in 1 .. Len(windows) : windows[i] \in Window
  BY KeeperAssumption DEF WindowsFit
<1>2. inEffect \subseteq 1 .. Len(windows)
  BY <1>1
<1>3. inEffect # {} => newest \in 1 .. Len(windows)
  <2> SUFFICES ASSUME inEffect # {} PROVE newest \in inEffect
    BY <1>2
  <2> HIDE DEF inEffect
  <2>1. \E i \in inEffect : \A k \in inEffect : k <= i
    BY <1>1, <1>2, HasMaximum
  <2> QED BY <2>1
<1>4. WindowFor(t) = IF inEffect = {} THEN windows[1] ELSE windows[newest]
  BY DEF WindowFor
<1> HIDE DEF inEffect, newest
<1> QED BY <1>1, <1>3, <1>4

(* A version pushed later than a time does not change what was in force then. *)
LEMMA PushKeepsThePast ==
    ASSUME NEW versions \in Seq(Window), Len(versions) >= 1, NEW w \in Window,
           NEW t \in Nat, t < w.effectiveFrom
    PROVE  InForce(Append(versions, w), t) = InForce(versions, t)
PROOF
<1> DEFINE longer == Append(versions, w)
           then == {i \in DOMAIN versions : versions[i].effectiveFrom <= t}
           thence == {i \in DOMAIN longer : longer[i].effectiveFrom <= t}
<1>1. /\ Len(versions) \in Nat /\ DOMAIN versions = 1 .. Len(versions)
      /\ DOMAIN longer = 1 .. (Len(versions) + 1)
      /\ \A i \in 1 .. Len(versions) : longer[i] = versions[i]
      /\ longer[Len(versions) + 1] = w /\ 1 \in 1 .. Len(versions)
  OBVIOUS
<1>2. ~(w.effectiveFrom <= t)
  BY DEF Window
<1> HIDE DEF longer
<1>3. thence = then
  <2>1. \A i \in DOMAIN longer : i \in DOMAIN versions \/ i = Len(versions) + 1
    BY <1>1
  <2> QED BY <1>1, <1>2, <2>1
<1>4. then # {} => Newest(then) \in then
  <2> SUFFICES ASSUME then # {} PROVE \E i \in then : \A k \in then : k <= i
    BY DEF Newest
  <2>1. then \subseteq 1 .. Len(versions)
    BY <1>1
  <2> HIDE DEF then
  <2> QED BY <1>1, <2>1, HasMaximum
<1>5. InForce(versions, t) = IF then = {} THEN versions[1] ELSE versions[Newest(then)]
  BY DEF InForce
<1>6. InForce(longer, t) = IF thence = {} THEN longer[1] ELSE longer[Newest(thence)]
  BY DEF InForce
<1>7. then # {} => Newest(then) \in 1 .. Len(versions)
  BY <1>1, <1>4
<1> HIDE DEF then, thence
<1> QED BY <1>1, <1>3, <1>5, <1>6, <1>7 DEF longer

(* Each version has the time it takes effect.                               *)
LEMMA VersionTimes ==
    ASSUME WindowsFit
    PROVE  \A i \in 1 .. Len(windows) : windows[i].effectiveFrom \in Nat
PROOF
<1>1. \A i \in 1 .. Len(windows) : windows[i] \in Window
  BY DEF WindowsFit
<1>2. \A w \in Window : w.effectiveFrom \in Nat
  BY DEF Window
<1> QED BY <1>1, <1>2

(* The windows stay fit, grow or stand still, as time passes.               *)
LEMMA GrowthKeepsWindows ==
    ASSUME WindowsFit, now \in Nat, now' \in Nat, now' >= now,
           \/ windows' = windows
           \/ /\ Len(windows) < MaxWindows
              /\ \E v, w \in WindowChoices :
                   windows' = Append(windows, Versioned([challenge |-> v.challenge,
                                 dispute |-> v.dispute, grace |-> w.grace], now))
    PROVE  WindowsFit' /\ WindowsGrow
PROOF
<1>1. CASE windows' = windows
  <2>1. \A i \in 1 .. Len(windows) : windows[i].effectiveFrom \in Nat
    BY VersionTimes
  <2> QED BY <1>1, <2>1 DEF WindowsFit, WindowsGrow
<1>2. CASE /\ Len(windows) < MaxWindows
           /\ \E v, w \in WindowChoices :
                windows' = Append(windows, Versioned([challenge |-> v.challenge,
                              dispute |-> v.dispute, grace |-> w.grace], now))
  <2>1. PICK v \in WindowChoices, w \in WindowChoices :
               windows' = Append(windows, Versioned([challenge |-> v.challenge,
                             dispute |-> v.dispute, grace |-> w.grace], now))
    BY <1>2
  <2> DEFINE new == Versioned([challenge |-> v.challenge, dispute |-> v.dispute,
                               grace |-> w.grace], now)
  <2>2. /\ new \in Window /\ new.effectiveFrom = now
        /\ new.challenge = v.challenge /\ new.dispute = v.dispute /\ new.grace = w.grace
    BY KeeperAssumption DEF Versioned, Window, WindowShape
  <2>3. windows' = Append(windows, new)
    BY <2>1
  <2> HIDE DEF new
  <2>4. /\ windows \in Seq(Window) /\ Len(windows) \in Nat /\ Len(windows) >= 1
        /\ MaxWindows \in Nat
    BY KeeperAssumption DEF WindowsFit
  <2>5. /\ windows' \in Seq(Window) /\ Len(windows') = Len(windows) + 1
        /\ windows'[Len(windows) + 1] = new
        /\ \A i \in 1 .. Len(windows) : windows'[i] = windows[i]
    BY <2>2, <2>3, <2>4
  <2>6. Len(windows') \in 1 .. MaxWindows
    BY <1>2, <2>4, <2>5
  <2>7. \A i \in 1 .. Len(windows') : i \in 1 .. Len(windows) \/ i = Len(windows) + 1
    BY <2>4, <2>5
  <2>8. \A i \in 1 .. Len(windows) : windows[i].effectiveFrom \in Nat
    BY VersionTimes
  <2>9. ASSUME NEW i \in 1 .. Len(windows')
        PROVE  /\ windows'[i].effectiveFrom <= now'
               /\ \E p, q \in WindowChoices : /\ windows'[i].challenge = p.challenge
                                              /\ windows'[i].dispute = p.dispute
                                              /\ windows'[i].grace = q.grace
    <3>1. CASE i \in 1 .. Len(windows)
      BY <2>5, <2>8, <3>1 DEF WindowsFit
    <3>2. CASE i = Len(windows) + 1
      BY <2>2, <2>5, <3>2
    <3> QED BY <2>7, <3>1, <3>2
  <2>10. WindowsGrow
    BY <2>2, <2>3 DEF WindowsGrow
  <2>11. WindowsFit'
    BY <2>5, <2>6, <2>9 DEF WindowsFit
  <2> QED BY <2>10, <2>11
<1> QED BY <1>1, <1>2

(* The window in force now, and the horizon the kernel is told.             *)
LEMMA CurrentWindowFits ==
    ASSUME WindowsFit
    PROVE  /\ \E v, w \in WindowChoices : /\ CurrentWindow.challenge = v.challenge
                                          /\ CurrentWindow.dispute = v.dispute
                                          /\ CurrentWindow.grace = w.grace
           /\ KeeperHorizon \in Horizons /\ KeeperHorizon > 0
PROOF
<1>1. Len(windows) \in 1 .. Len(windows) /\ windows[Len(windows)] \in Window
  BY KeeperAssumption DEF WindowsFit
<1>2. PICK v \in WindowChoices, w \in WindowChoices :
             /\ CurrentWindow.challenge = v.challenge
             /\ CurrentWindow.dispute = v.dispute
             /\ CurrentWindow.grace = w.grace
  BY <1>1 DEF WindowsFit, CurrentWindow
<1>3. /\ v.challenge \in Nat \ {0} /\ v.dispute \in Nat \ {0} /\ w.grace \in Nat \ {0}
  BY KeeperAssumption DEF WindowShape
<1>4. v.challenge + v.dispute + w.grace \in Horizons /\ v.challenge + v.dispute + w.grace > 0
  BY <1>3, SettlementAssumption
<1> QED BY <1>2, <1>4 DEF KeeperHorizon

-----------------------------------------------------------------------------
(* What a step leaves alone stays in agreement.                             *)

SameVotes(k) ==
    /\ Opened(k)' = Opened(k)
    /\ disputes'[k].setVersion = disputes[k].setVersion
    /\ disputes'[k].voted = disputes[k].voted
    /\ disputes'[k].outcome = disputes[k].outcome
    /\ disputes'[k].providerBps = disputes[k].providerBps
    /\ approvals'[k] = approvals[k]

(* An installed arbiter set stays what a dispute was opened under.          *)
LEMMA VotesRest ==
    ASSUME NEW k \in Jobs, VotesFit(k), Later, Opened(k) \/ approvals[k] = {},
           ~Opened(k) => disputes[k].outcome = "None",
           SameVotes(k)
    PROVE  VotesFit(k)'
PROOF
<1>1. CASE ~Opened(k)
  BY <1>1 DEF VotesFit, SameVotes
<1>2. CASE Opened(k)
  <2>1. /\ disputes[k].setVersion \in 1 .. Len(arbiterSets')
        /\ SetOf(k)' = SetOf(k)
    BY <1>2 DEF VotesFit, Later, SetOf, SameVotes
  <2>2. \A r : BackersOf(k, r)' = BackersOf(k, r)
    BY <2>1 DEF BackersOf, SameVotes
  <2> QED BY <1>2, <2>1, <2>2 DEF VotesFit, SameVotes, BackersOf
<1> QED BY <1>1, <1>2

(* A job no record of which changes.                                        *)
LEMMA RestKeepsFits ==
    ASSUME StackInv, IInv', NEW k \in Jobs, Untouched(k), Later
    PROVE  JobFits(k)' /\ EndsAsDecided(k)
PROOF
<1>1. DisputeFits(k) /\ VotesFit(k) /\ PayoutFits(k)
  BY DEF StackInv, AllJobsFit, JobFits
<1>2. VotesFit(k)'
  BY <1>1, VotesRest DEF DisputeFits, Untouched, SameSides, SameVotes, Opened
<1>3. DisputeFits(k)'
  <2>1. disputes[k].resolveBy \in Nat /\ now \in Nat /\ now' \in Nat /\ now' >= now
    BY DEF StackInv, StackType, VoteType, DisputeRecord, IInv, TypeOK, Later
  <2> QED BY <1>1, <2>1 DEF DisputeFits, Untouched, SameSides, Opened, Disputed
<1>4. PayoutFits(k)'
  BY <1>1 DEF PayoutFits, Untouched, SameSides, OnMarket, PayeeOf, Opened, InEscrow,
              NetPayout, SnapshotFees, NetOf, Portion
<1>5. EndsAsDecided(k)
  BY DEF EndsAsDecided, SubmittedToKeeper, Untouched
<1> QED BY <1>2, <1>3, <1>4, <1>5 DEF JobFits

(* A job that only the kernel's own calls touch.                            *)
LEMMA KernelMoveKeepsFits ==
    ASSUME StackInv, IInv', NEW k \in Jobs, KernelMove(k), SameSides(k), Later
    PROVE  JobFits(k)' /\ EndsAsDecided(k)
PROOF
<1>1. DisputeFits(k) /\ VotesFit(k) /\ PayoutFits(k)
  BY DEF StackInv, AllJobsFit, JobFits
<1>2. VotesFit(k)'
  BY <1>1, VotesRest DEF DisputeFits, SameSides, SameVotes, Opened
<1>3. disputes[k].resolveBy \in Nat /\ now \in Nat /\ now' \in Nat /\ now' >= now
  BY DEF StackInv, StackType, VoteType, DisputeRecord, IInv, TypeOK, Later
<1>4. CASE jobs'[k] = jobs[k]
  BY <1>4, RestKeepsFits DEF Untouched
<1>5. CASE EarlyMove(k)
  <2>1. /\ jobs[k].status \notin PastFunding /\ jobs'[k].status # "Completed"
        /\ jobs'[k].status # "None" /\ ~SubmittedToKeeper(k)
    BY <1>5 DEF EarlyMove, PastFunding, SubmittedToKeeper
  <2>2. ~Opened(k) /\ ~Disputed(k) /\ disputes[k].outcome = "None" /\ approvals[k] = {}
        /\ ~disputeRefs[k].resolved
    BY <1>1, <1>5, <2>1 DEF DisputeFits, EarlyMove
  <2>3. listings[k].status \notin {"Listed", "Sold"}
    BY <1>1, <2>1 DEF PayoutFits
  <2>4. DisputeFits(k)'
    BY <2>2 DEF DisputeFits, SameSides, Opened, Disputed
  <2>5. PayoutFits(k)'
    BY <1>5, <2>1, <2>3 DEF PayoutFits, SameSides, EarlyMove
  <2> QED BY <1>2, <2>1, <2>4, <2>5 DEF JobFits, EndsAsDecided
<1>6. CASE LateMove(k)
  <2>1. /\ jobs[k].status = "Submitted" /\ SameDeal(k)
        /\ jobs'[k].status \in {"Completed", "Rejected", "Expired"}
    BY <1>6 DEF LateMove
  <2>2. OnMarket(k)' = OnMarket(k) /\ PayeeOf(k)' = PayeeOf(k) /\ ~InEscrow(k)'
    BY <2>1 DEF OnMarket, PayeeOf, SameDeal, SameSides, InEscrow
  <2>3. jobs[k].evaluator # KE => ~Opened(k)
    BY <1>1 DEF DisputeFits
  <2>4. jobs'[k].status # "Expired" => jobs[k].evaluator # KE
    BY <1>6 DEF LateMove
  <2>5. ~disputeRefs[k].resolved /\ disputes[k].outcome # "Reject"
    BY <1>1, <2>1 DEF DisputeFits
  <2>6. DisputeFits(k)'
    <3>1. Opened(k)' = Opened(k) /\ Disputed(k)' = Disputed(k)
      BY DEF SameSides, Opened, Disputed
    <3>2. jobs'[k].status \in PastFunding /\ jobs'[k].evaluator = jobs[k].evaluator
      BY <2>1 DEF PastFunding, SameDeal
    <3> QED BY <1>1, <1>3, <2>1, <2>3, <2>4, <2>5, <3>1, <3>2 DEF DisputeFits, SameSides
  <2>7. PayoutFits(k)'
    <3>1. jobs'[k].status \in PastFunding /\ jobs[k].status # "None"
      BY <2>1 DEF PastFunding
    <3>2. /\ jobs'[k].evaluator = jobs[k].evaluator
          /\ jobs'[k].settlementHorizon = jobs[k].settlementHorizon
      BY <2>1 DEF SameDeal
    <3>3. jobs'[k].status = "Completed" /\ OnMarket(k) => jobs'[k].payee = PayeeOf(k)
      BY <1>6 DEF LateMove
    <3>4. jobs[k].evaluator = KE => jobs[k].settlementHorizon > 0
      BY <1>1, <3>1 DEF PayoutFits
    <3> QED BY <2>2, <2>4, <3>1, <3>2, <3>3, <3>4 DEF PayoutFits
  <2>8. EndsAsDecided(k)
    <3>1. jobs[k].settlementHorizon > 0 => jobs[k].settlementHorizon # 0
      BY DEF StackInv, IInv, TypeOK, JobRecord
    <3>2. jobs[k].evaluator = KE => jobs[k].settlementHorizon > 0
      BY <1>1, <2>1 DEF PayoutFits
    <3> QED BY <1>6, <2>1, <2>4, <3>1, <3>2 DEF EndsAsDecided, SubmittedToKeeper, LateMove, SameDeal
  <2> QED BY <1>2, <2>6, <2>7, <2>8 DEF JobFits
<1> QED BY <1>4, <1>5, <1>6 DEF KernelMove

(* A step that leaves the bonds and their ledger alone.                     *)
LEMMA BondsRest ==
    ASSUME BondsBacked, UNCHANGED <<bondWithdrawable, bondBalance>>,
           \A k \in Jobs : /\ Opened(k)' = Opened(k)
                           /\ disputes'[k].bond = disputes[k].bond
                           /\ disputes'[k].bondSettled = disputes[k].bondSettled
    PROVE  BondsBacked'
PROOF
<1>1. UnsettledBonds' = UnsettledBonds
  BY DEF UnsettledBonds
<1> QED BY <1>1 DEF BondsBacked, Total, Coins

-----------------------------------------------------------------------------
(* The bonds.                                                               *)

(* The amount of each unsettled bond is a natural number.                   *)
LEMMA UnsettledType ==
    ASSUME disputes \in [Jobs -> DisputeRecord]
    PROVE  UnsettledBonds \in [Jobs -> Nat]
BY DEF UnsettledBonds, DisputeRecord

(* One bond changing changes the total by the difference.                   *)
LEMMA UnsettledUpdate ==
    ASSUME VoteType, VoteType', NEW j \in Jobs,
           \A k \in Jobs : k # j => disputes'[k] = disputes[k]
    PROVE  /\ Total(UnsettledBonds)' + UnsettledBonds[j] = Total(UnsettledBonds) + UnsettledBonds'[j]
           /\ Total(UnsettledBonds) \in Nat /\ Total(UnsettledBonds)' \in Nat
PROOF
<1>1. UnsettledBonds \in [Jobs -> Nat]
  BY UnsettledType DEF VoteType
<1>2. UnsettledBonds' \in [Jobs -> Nat]
  BY DEF UnsettledBonds, VoteType, DisputeRecord
<1>3. IsFiniteSet(Jobs)
  BY FS_Interval, ConstantsAssumption DEF Jobs
<1>4. \A k \in Jobs : k # j => UnsettledBonds'[k] = UnsettledBonds[k]
  BY DEF UnsettledBonds, Opened
<1>5. Total(UnsettledBonds') + UnsettledBonds[j] = Total(UnsettledBonds) + UnsettledBonds'[j]
  BY <1>1, <1>2, <1>3, <1>4, TotalUpdate
<1>6. Total(UnsettledBonds') \in Nat /\ Total(UnsettledBonds) \in Nat
  BY <1>1, <1>2, <1>3, TotalType
<1>7. Total(UnsettledBonds)' = Total(UnsettledBonds')
  BY DEF Total, Coins
<1> QED BY <1>5, <1>6, <1>7

(* A bond pulled in is owed to somebody.                                    *)
LEMMA BondTaken ==
    ASSUME VoteType, VoteType', BondType, BondsBacked, NEW j \in Jobs, ~Opened(j),
           \A k \in Jobs : k # j => disputes'[k] = disputes[k],
           NEW b \in Nat, disputes'[j].bond = b, bondBalance' = bondBalance + b,
           UNCHANGED bondWithdrawable
    PROVE  BondsBacked'
PROOF
<1>1. UnsettledBonds[j] = 0 /\ UnsettledBonds'[j] \in {0, b}
  BY DEF UnsettledBonds
<1>2. Total(bondWithdrawable) \in Nat /\ bondBalance \in Nat
  BY TotalType, ConstantsAssumption DEF BondType
<1>3. Total(bondWithdrawable)' = Total(bondWithdrawable)
  BY DEF Total, Coins
<1> QED BY <1>1, <1>2, <1>3, UnsettledUpdate DEF BondsBacked

(* A bond settled goes to one account's balance, once.                      *)
LEMMA BondCredited ==
    ASSUME VoteType, VoteType', BondType, BondsBacked, NEW j \in Jobs, Opened(j),
           ~disputes[j].bondSettled, disputes'[j].bondSettled,
           \A k \in Jobs : k # j => disputes'[k] = disputes[k],
           NEW a \in Accounts, bondWithdrawable' = Credit(bondWithdrawable, a, disputes[j].bond),
           UNCHANGED bondBalance
    PROVE  BondType' /\ BondsBacked'
PROOF
<1>1. disputes[j].bond \in Nat
  BY DEF VoteType, DisputeRecord
<1>2. UnsettledBonds[j] = disputes[j].bond /\ UnsettledBonds'[j] = 0
  BY DEF UnsettledBonds
<1>3. /\ bondWithdrawable' \in [Accounts -> Nat]
      /\ Total(bondWithdrawable') = Total(bondWithdrawable) + disputes[j].bond
  BY <1>1, CreditTotal DEF BondType
<1>4. Total(bondWithdrawable) \in Nat /\ bondBalance \in Nat
  BY TotalType, ConstantsAssumption DEF BondType
<1>5. Total(bondWithdrawable)' = Total(bondWithdrawable')
  BY DEF Total, Coins
<1>6. BondsBacked'
  BY <1>1, <1>2, <1>3, <1>4, <1>5, UnsettledUpdate DEF BondsBacked
<1> QED BY <1>3, <1>4, <1>6 DEF BondType

(* A withdrawal takes tokens and balance together, or the balance alone.    *)
LEMMA BondWithdrawn ==
    ASSUME VoteType, BondType, BondsBacked, NEW caller \in Accounts, NEW leaves \in BOOLEAN,
           NEW amount \in Nat, BondWithdrawTo(caller, leaves, amount)
    PROVE  BondType' /\ BondsBacked'
PROOF
<1>1. /\ amount <= bondWithdrawable[caller] /\ bondWithdrawable \in [Accounts -> Nat]
      /\ bondWithdrawable' = [bondWithdrawable EXCEPT ![caller] = @ - amount]
  BY DEF BondWithdrawTo, BondType
<1>2. /\ bondWithdrawable' \in [Accounts -> Nat]
      /\ Total(bondWithdrawable') = Total(bondWithdrawable) - amount
      /\ amount <= Total(bondWithdrawable)
  BY <1>1, DebitTotal
<1>3. UnsettledBonds' = UnsettledBonds
  BY DEF BondWithdrawTo, UnsettledBonds, Opened
<1>4. Total(bondWithdrawable) \in Nat /\ bondBalance \in Nat /\ Total(UnsettledBonds) \in Nat
  <2>1. UnsettledBonds \in [Jobs -> Nat]
    BY UnsettledType DEF VoteType
  <2>2. IsFiniteSet(Jobs)
    BY FS_Interval, ConstantsAssumption DEF Jobs
  <2> QED BY <1>1, <2>1, <2>2, TotalType, ConstantsAssumption DEF BondType
<1>5. bondBalance' \in {bondBalance, bondBalance - amount}
  BY DEF BondWithdrawTo
<1>6. Total(bondWithdrawable)' = Total(bondWithdrawable') /\ Total(UnsettledBonds)' = Total(UnsettledBonds)
  BY <1>3 DEF Total, Coins
<1>7. BondsBacked'
  BY <1>2, <1>4, <1>5, <1>6 DEF BondsBacked
<1>8. bondBalance' \in Nat
  BY <1>2, <1>4, <1>5 DEF BondsBacked
<1> QED BY <1>2, <1>7, <1>8 DEF BondType

-----------------------------------------------------------------------------
(* The calls on the kernel.                                                 *)

(* A transaction of the kernel that reaches no other contract is sound if it
   moves each job as the kernel's calls do.                                 *)
LEMMA OffKernelKeeps ==
    ASSUME StackInv, [Next]_vars, UNCHANGED OffKernel, now' >= now,
           \A k \in Jobs : KernelMove(k)
    PROVE  Sound
PROOF
<1>1. IInv' /\ IInv /\ StackType /\ BondsBacked
  BY NextKeepsIInv DEF StackInv
<1>2. Later
  BY DEF Later, OffKernel, arbitrationVars
<1>3. ASSUME NEW k \in Jobs PROVE JobFits(k)' /\ EndsAsDecided(k)
  <2>1. SameSides(k) /\ KernelMove(k)
    BY DEF SameSides, OffKernel, keeperVars, arbitrationVars, marketVars
  <2> QED BY <1>1, <1>2, <2>1, KernelMoveKeepsFits
<1>4. WindowsFit' /\ WindowsGrow
  <2>1. windows' = windows /\ now \in Nat /\ now' \in Nat
    BY <1>1 DEF IInv, TypeOK, OffKernel, keeperVars
  <2>2. WindowsFit
    BY <1>1 DEF StackType, KeeperType
  <2> QED BY <2>1, <2>2, GrowthKeepsWindows
<1>5. StackType'
  <2>1. KeeperType'
    BY <1>1, <1>4 DEF StackType, KeeperType, OffKernel, keeperVars
  <2>2. PanelType' /\ VoteType' /\ BondType'
    BY <1>1 DEF StackType, PanelType, VoteType, BondType, OffKernel, arbitrationVars
  <2>3. MarketType' /\ checks' \in CheckChoices
    BY <1>1 DEF StackType, MarketType, OffKernel, marketVars
  <2> QED BY <2>1, <2>2, <2>3 DEF StackType
<1>6. BondsBacked'
  BY <1>1, BondsRest DEF OffKernel, arbitrationVars, Opened
<1> QED BY <1>3, <1>4, <1>5, <1>6 DEF Sound

(* A call that writes no job of the kernel.                                 *)
LEMMA JobsRest ==
    ASSUME UNCHANGED jobs
    PROVE  \A k \in Jobs : KernelMove(k)
BY DEF KernelMove

(* createJob: the next id, and the evaluator's horizon where it is asked.   *)
LEMMA CreateMoves ==
    ASSUME StackInv, NEW client \in Clients, NEW evaluator \in Evaluators,
           NEW provider \in Providers \cup {NoAccount}, NEW expiredAt \in Deadlines,
           NEW hook \in Hooks \cup {NoHook},
           NEW horizon \in (IF evaluator = KE THEN {KeeperHorizon} ELSE Horizons),
           CreateJob(client, provider, evaluator, expiredAt, hook, horizon)
    PROVE  Next /\ \A k \in Jobs : KernelMove(k)
PROOF
<1>1. horizon \in Horizons /\ (evaluator = KE => horizon > 0)
  BY CurrentWindowFits DEF StackInv, StackType, KeeperType
<1>2. Next
  BY <1>1 DEF Next, CreateNext
<1>3. ASSUME NEW k \in Jobs PROVE KernelMove(k)
  <2>1. jobs \in [Jobs -> JobRecord] /\ jobCounter \in Nat
    BY DEF StackInv, IInv, TypeOK
  <2>2. CASE k # jobCounter + 1
    BY <2>1, <2>2 DEF CreateJob, KernelMove
  <2>3. CASE k = jobCounter + 1
    <3>1. jobs[k].status = "None"
      BY <2>1, <2>3 DEF StackInv, IInv, JobsWellFormed
    <3>2. /\ jobs'[k].status = "Open" /\ jobs'[k].evaluator = evaluator
          /\ jobs'[k].settlementHorizon = horizon
      BY <2>1, <2>3 DEF CreateJob, BlankJob
    <3> QED BY <1>1, <3>1, <3>2 DEF KernelMove, EarlyMove
  <2> QED BY <2>2, <2>3
<1> QED BY <1>2, <1>3

(* The calls that are about no job yet or none at all.                      *)
LEMMA KernelCallsAreSound ==
    ASSUME StackInv, KernelCalls
    PROVE  Sound
PROOF
<1>0. now \in Nat /\ now' = now => now' >= now
  OBVIOUS
<1>1. UNCHANGED OffKernel /\ now \in Nat
  BY DEF KernelCalls, StackInv, IInv, TypeOK
<1>2. CASE OwnerNext
  <2>1. UNCHANGED jobs /\ now' = now
    BY <1>2 DEF OwnerNext, SetFees, Skim, SetHookWhitelist
  <2> QED BY <1>0, <1>1, <1>2, <2>1, JobsRest, OffKernelKeeps DEF Next
<1>3. CASE \E client \in Clients, evaluator \in Evaluators, provider \in Providers \cup {NoAccount},
              expiredAt \in Deadlines, hook \in Hooks \cup {NoHook} :
              \E horizon \in (IF evaluator = KE THEN {KeeperHorizon} ELSE Horizons) :
                 CreateJob(client, provider, evaluator, expiredAt, hook, horizon)
  <2>1. PICK client \in Clients, evaluator \in Evaluators, provider \in Providers \cup {NoAccount},
              expiredAt \in Deadlines, hook \in Hooks \cup {NoHook} :
              \E horizon \in (IF evaluator = KE THEN {KeeperHorizon} ELSE Horizons) :
                 CreateJob(client, provider, evaluator, expiredAt, hook, horizon)
    BY <1>3
  <2>2. PICK horizon \in (IF evaluator = KE THEN {KeeperHorizon} ELSE Horizons) :
                 CreateJob(client, provider, evaluator, expiredAt, hook, horizon)
    BY <2>1
  <2>3. Next /\ \A k \in Jobs : KernelMove(k)
    BY <2>2, CreateMoves
  <2>4. now' = now
    BY <2>2 DEF CreateJob
  <2> QED BY <1>0, <1>1, <2>3, <2>4, OffKernelKeeps
<1>4. CASE \E amount \in Donations : Donate(amount)
  <2>1. UNCHANGED jobs /\ now' = now /\ Next
    BY <1>4 DEF Donate, Next
  <2> QED BY <1>0, <1>1, <2>1, JobsRest, OffKernelKeeps
<1>5. CASE \E caller \in People, to \in Recipients, amount \in Withdrawals :
              WithdrawTo(caller, to, amount)
  <2>1. UNCHANGED jobs /\ now' = now
    BY <1>5 DEF WithdrawTo
  <2>2. Next
    BY <1>5 DEF Next, WithdrawNext, People
  <2> QED BY <1>0, <1>1, <2>1, <2>2, JobsRest, OffKernelKeeps
<1>6. CASE Tick
  <2>1. UNCHANGED jobs /\ now' >= now /\ Next
    BY <1>1, <1>6 DEF Tick, Next
  <2> QED BY <1>1, <2>1, JobsRest, OffKernelKeeps
<1> QED BY <1>2, <1>3, <1>4, <1>5, <1>6 DEF KernelCalls

(* A call on one job leaves the others.                                     *)
LEMMA OneJobMoves ==
    ASSUME NEW j \in Jobs, KernelMove(j), \A k \in Jobs : k # j => jobs'[k] = jobs[k]
    PROVE  \A k \in Jobs : KernelMove(k)
BY DEF KernelMove

(* The calls before submission: the job keeps its evaluator, whose horizon
   was asked when the job was created.                                      *)
LEMMA EarlyCallMoves ==
    ASSUME StackInv, NEW j \in Jobs,
           \/ \E caller, provider : SetProvider(j, caller, provider)
           \/ \E caller, amount : SetBudget(j, caller, amount)
           \/ \E caller, amount : Fund(j, caller, amount)
           \/ \E caller : Submit(j, caller)
           \/ \E caller : RejectOpen(j, caller)
    PROVE  /\ \A k \in Jobs : KernelMove(k)
           /\ now' = now
PROOF
<1>1. jobs \in [Jobs -> JobRecord] /\ jobs[j] \in JobRecord
  BY DEF StackInv, IInv, TypeOK
<1>2. jobs[j].status # "None" /\ jobs[j].evaluator = KE => jobs[j].settlementHorizon > 0
  BY DEF StackInv, AllJobsFit, JobFits, PayoutFits
<1> DEFINE Edited == /\ jobs[j].status \in {"Open", "Funded"}
                     /\ jobs'[j].status \in {"Open", "Funded", "Submitted", "Rejected"}
                     /\ jobs'[j].evaluator = jobs[j].evaluator
                     /\ jobs'[j].settlementHorizon = jobs[j].settlementHorizon
                     /\ \A k \in Jobs : k # j => jobs'[k] = jobs[k]
                     /\ now' = now
<1>3. ASSUME NEW caller, NEW provider, SetProvider(j, caller, provider) PROVE Edited
  BY <1>1, <1>3 DEF SetProvider, JobRecord
<1>4. ASSUME NEW caller, NEW amount, SetBudget(j, caller, amount) PROVE Edited
  BY <1>1, <1>4 DEF SetBudget, JobRecord
<1>5. ASSUME NEW caller, NEW amount, Fund(j, caller, amount) PROVE Edited
  BY <1>1, <1>5 DEF Fund, JobRecord
<1>6. ASSUME NEW caller, Submit(j, caller) PROVE Edited
  BY <1>1, <1>6 DEF Submit, JobRecord
<1>7. ASSUME NEW caller, RejectOpen(j, caller) PROVE Edited
  BY <1>1, <1>7 DEF RejectOpen, JobRecord
<1>8. Edited
  <2> HIDE DEF Edited
  <2> QED BY <1>3, <1>4, <1>5, <1>6, <1>7
<1>9. KernelMove(j)
  BY <1>2, <1>8 DEF KernelMove, EarlyMove
<1> QED BY <1>8, <1>9, OneJobMoves

(* complete() by an evaluator that is not the keeper's contract pays whom the
   hook says.                                                               *)
LEMMA CompleteMoves ==
    ASSUME StackInv, NEW j \in Jobs, NEW caller \in People, NEW asked, NEW payee, NEW bps,
           HookPays(j, asked, payee, bps), Complete(j, caller, payee, bps)
    PROVE  /\ \A k \in Jobs : KernelMove(k)
           /\ now' = now
PROOF
<1>1. jobs \in [Jobs -> JobRecord] /\ jobs[j] \in JobRecord
  BY DEF StackInv, IInv, TypeOK
<1>2. /\ jobs[j].status = "Submitted" /\ jobs[j].evaluator = caller /\ caller # KE
      /\ jobs' = [jobs EXCEPT ![j].status = "Completed", ![j].payee = payee,
                              ![j].providerBps = bps]
      /\ now' = now
  BY DEF Complete, Settle, People
<1>3. /\ jobs'[j].status = "Completed" /\ jobs'[j].payee = payee /\ SameDeal(j)
      /\ \A k \in Jobs : k # j => jobs'[k] = jobs[k]
  BY <1>1, <1>2 DEF JobRecord, SameDeal
<1>4. OnMarket(j) => payee = PayeeOf(j)
  BY DEF HookPays
<1>5. KernelMove(j)
  BY <1>2, <1>3, <1>4 DEF KernelMove, LateMove
<1> QED BY <1>2, <1>3, <1>5, OneJobMoves

(* reject() by such an evaluator, and claimRefund() by anybody.             *)
LEMMA RefundMoves ==
    ASSUME StackInv, NEW j \in Jobs,
           \/ \E caller \in People : Reject(j, caller)
           \/ \E answers \in ProbeAnswers(j) : ClaimRefund(j, answers)
    PROVE  /\ \A k \in Jobs : KernelMove(k)
           /\ now' = now
PROOF
<1>1. jobs \in [Jobs -> JobRecord] /\ jobs[j] \in JobRecord
  BY DEF StackInv, IInv, TypeOK
<1>2. jobs[j].status # "None" /\ jobs[j].evaluator = KE => jobs[j].settlementHorizon > 0
  BY DEF StackInv, AllJobsFit, JobFits, PayoutFits
<1>3. InEscrow(j)
  BY DEF Reject, ClaimRefund
<1>4. PICK status \in {"Rejected", "Expired"} : Refund(j, status)
  BY DEF Reject, ClaimRefund
<1>5. /\ jobs'[j].status = status /\ SameDeal(j)
      /\ \A k \in Jobs : k # j => jobs'[k] = jobs[k]
      /\ now' = now
  BY <1>1, <1>4 DEF Refund, JobRecord, SameDeal
<1>6. CASE jobs[j].status = "Funded"
  BY <1>2, <1>5, <1>6, OneJobMoves DEF KernelMove, EarlyMove, SameDeal
<1>7. CASE jobs[j].status = "Submitted" /\ \E caller \in People : Reject(j, caller)
  <2>1. jobs[j].evaluator # KE
    BY <1>7 DEF Reject, People
  <2>2. jobs'[j].status = "Rejected"
    BY <1>1, <1>7 DEF Reject, Refund, JobRecord
  <2>3. KernelMove(j)
    BY <1>5, <1>7, <2>1, <2>2 DEF KernelMove, LateMove
  <2> QED BY <1>5, <2>3, OneJobMoves
<1>8. CASE jobs[j].status = "Submitted" /\ \E answers \in ProbeAnswers(j) : ClaimRefund(j, answers)
  <2>1. jobs[j].settlementHorizon = 0 \/ (jobs[j].hookResolvesPayout /\ ~OnMarket(j))
    BY <1>8 DEF ClaimRefund, RefundOpen, PayoutResolvable, ProbeAnswers
  <2>2. jobs'[j].status = "Expired"
    BY <1>1, <1>8 DEF ClaimRefund, Refund, JobRecord
  <2>3. KernelMove(j)
    BY <1>5, <1>8, <2>1, <2>2 DEF KernelMove, LateMove
  <2> QED BY <1>5, <2>3, OneJobMoves
<1> QED BY <1>3, <1>6, <1>7, <1>8 DEF InEscrow

(* A refused release pays nothing, which is a split a hook may answer.      *)
LEMMA AskedSplits == Splits \cup {0, BPS} = Splits \cup {BPS}
BY SettlementAssumption

(* The calls on one job that stay in the kernel.                            *)
LEMMA JobCallsAreSound ==
    ASSUME StackInv, NEW j \in Jobs, JobCalls(j)
    PROVE  Sound
PROOF
<1>0. UNCHANGED OffKernel /\ now \in Nat /\ People \subseteq Accounts
  BY DEF JobCalls, StackInv, IInv, TypeOK, People
<1>1. SUFFICES /\ Next /\ now' = now
               /\ \A k \in Jobs : KernelMove(k)
  BY <1>0, <1>1, OffKernelKeeps
<1> DEFINE Goal == JobNext(j) /\ now' = now /\ \A k \in Jobs : KernelMove(k)
<1>2. ASSUME NEW caller \in People, NEW provider \in Providers, SetProvider(j, caller, provider)
      PROVE  Goal
  <2>1. JobNext(j)
    BY <1>0, <1>2 DEF JobNext
  <2> QED BY <1>2, <2>1, EarlyCallMoves
<1>3. ASSUME NEW caller \in People, NEW amount \in Budgets, SetBudget(j, caller, amount)
      PROVE  Goal
  <2>1. JobNext(j)
    BY <1>0, <1>3 DEF JobNext
  <2> QED BY <1>3, <2>1, EarlyCallMoves
<1>4. ASSUME NEW caller \in People, NEW amount \in Budgets, Fund(j, caller, amount)
      PROVE  Goal
  <2>1. JobNext(j)
    BY <1>0, <1>4 DEF JobNext
  <2> QED BY <1>4, <2>1, EarlyCallMoves
<1>5. ASSUME NEW caller \in People, NEW proof \in Proofs \cup {NoProof},
             SetComplianceProof(j, caller, proof)
      PROVE  Goal
  <2>1. JobNext(j)
    BY <1>0, <1>5 DEF JobNext
  <2>2. UNCHANGED jobs /\ now' = now
    BY <1>5 DEF SetComplianceProof
  <2> QED BY <2>1, <2>2, JobsRest
<1>6. ASSUME NEW caller \in People, Submit(j, caller)
      PROVE  Goal
  <2>1. JobNext(j)
    BY <1>0, <1>6 DEF JobNext
  <2> QED BY <1>6, <2>1, EarlyCallMoves
<1>7. ASSUME NEW caller \in People, NEW asked \in Splits \cup {0, BPS},
             NEW bps \in Splits \cup {0, BPS}, NEW payee \in Payees,
             HookPays(j, asked, payee, bps), Complete(j, caller, payee, bps)
      PROVE  Goal
  <2>1. bps \in Splits \cup {BPS} /\ caller \in Accounts
    BY <1>0, AskedSplits
  <2>2. JobNext(j)
    BY <1>7, <2>1 DEF JobNext
  <2> QED BY <1>7, <2>2, CompleteMoves
<1>8. ASSUME NEW caller \in People, RejectOpen(j, caller)
      PROVE  Goal
  <2>1. JobNext(j)
    BY <1>0, <1>8 DEF JobNext
  <2> QED BY <1>8, <2>1, EarlyCallMoves
<1>9. ASSUME NEW caller \in People, Reject(j, caller)
      PROVE  Goal
  <2>1. JobNext(j)
    BY <1>0, <1>9 DEF JobNext
  <2> QED BY <1>9, <2>1, RefundMoves
<1>10. ASSUME NEW answers \in ProbeAnswers(j), ClaimRefund(j, answers)
       PROVE  Goal
  <2>1. answers \in BOOLEAN
    BY DEF ProbeAnswers
  <2>2. JobNext(j)
    BY <1>10, <2>1 DEF JobNext
  <2> QED BY <1>10, <2>2, RefundMoves
<1>11. Goal
  <2> HIDE DEF Goal
  <2> QED BY <1>2, <1>3, <1>4, <1>5, <1>6, <1>7, <1>8, <1>9, <1>10 DEF JobCalls
<1> QED BY <1>11 DEF Next

-----------------------------------------------------------------------------
(* The calls that write no job and no dispute.                              *)

(* Such a call is sound if its own contract's storage stays in shape.       *)
LEMMA AsideKeeps ==
    ASSUME StackInv, UNCHANGED vars, Later, \A k \in Jobs : SameSides(k),
           WindowsGrow, StackType', BondsBacked'
    PROVE  Sound
PROOF
<1>1. IInv'
  BY NextKeepsIInv DEF StackInv
<1>2. UNCHANGED jobs
  BY DEF vars
<1>3. ASSUME NEW k \in Jobs PROVE JobFits(k)' /\ EndsAsDecided(k)
  <2>1. Untouched(k)
    BY <1>2 DEF Untouched
  <2> QED BY <1>1, <2>1, RestKeepsFits
<1> QED BY <1>3 DEF Sound

(* The storage a call does not write keeps its shape.                       *)
LEMMA TypesRest ==
    ASSUME StackInv
    PROVE  /\ UNCHANGED <<now, keeperVars>> => KeeperType' /\ WindowsGrow
           /\ UNCHANGED <<arbiterSets, bondParameters>> => PanelType'
           /\ UNCHANGED <<disputes, approvals>> => VoteType'
           /\ UNCHANGED <<bondWithdrawable, bondBalance>> => BondType'
           /\ UNCHANGED <<disputes, bondWithdrawable, bondBalance>> => BondsBacked'
           /\ UNCHANGED marketVars => MarketType'
PROOF
<1>1. UNCHANGED <<now, keeperVars>> => KeeperType' /\ WindowsGrow
  BY DEF StackInv, StackType, KeeperType, WindowsFit, WindowsGrow, keeperVars
<1>2. UNCHANGED <<arbiterSets, bondParameters>> => PanelType'
  BY DEF StackInv, StackType, PanelType
<1>3. UNCHANGED <<disputes, approvals>> => VoteType'
  BY DEF StackInv, StackType, VoteType
<1>4. UNCHANGED <<bondWithdrawable, bondBalance>> => BondType'
  BY DEF StackInv, StackType, BondType
<1>5. UNCHANGED <<disputes, bondWithdrawable, bondBalance>> => BondsBacked'
  BY BondsRest DEF StackInv, Opened
<1>6. UNCHANGED marketVars => MarketType'
  BY DEF StackInv, StackType, MarketType, marketVars
<1> QED BY <1>1, <1>2, <1>3, <1>4, <1>5, <1>6

(* The evaluator's owner pushes a version or wires the arbitration.         *)
LEMMA KeeperOwnerCallsAreSound ==
    ASSUME StackInv, KeeperOwnerCalls
    PROVE  Sound
PROOF
<1>1. UNCHANGED <<arbitrationVars, marketVars, checks>> /\ UNCHANGED vars
      /\ UNCHANGED disputeRefs
  BY DEF KeeperOwnerCalls, ConfigureWindows, SetFinalizeGrace, PushWindow, SetArbitration
<1>2. WindowsFit /\ now \in Nat /\ now' = now
  BY <1>1 DEF StackInv, StackType, KeeperType, IInv, TypeOK, vars
<1>3. \/ windows' = windows
      \/ /\ Len(windows) < MaxWindows
         /\ \E v, w \in WindowChoices :
              windows' = Append(windows, Versioned([challenge |-> v.challenge,
                            dispute |-> v.dispute, grace |-> w.grace], now))
  <2>1. PICK v \in WindowChoices, w \in WindowChoices :
               /\ CurrentWindow.challenge = v.challenge /\ CurrentWindow.dispute = v.dispute
               /\ CurrentWindow.grace = w.grace
    BY <1>2, CurrentWindowFits
  <2>2. ASSUME NEW c \in WindowChoices, ConfigureWindows(c.challenge, c.dispute)
        PROVE  /\ Len(windows) < MaxWindows
               /\ windows' = Append(windows, Versioned([challenge |-> c.challenge,
                                dispute |-> c.dispute, grace |-> w.grace], now))
    BY <2>1, <2>2 DEF ConfigureWindows, PushWindow
  <2>3. ASSUME NEW c \in WindowChoices, SetFinalizeGrace(c.grace)
        PROVE  /\ Len(windows) < MaxWindows
               /\ windows' = Append(windows, Versioned([challenge |-> v.challenge,
                                dispute |-> v.dispute, grace |-> c.grace], now))
    BY <2>1, <2>3 DEF SetFinalizeGrace, PushWindow
  <2>4. SetArbitration => windows' = windows
    BY DEF SetArbitration
  <2> QED BY <2>2, <2>3, <2>4 DEF KeeperOwnerCalls
<1>4. WindowsFit' /\ WindowsGrow
  <2>1. now' \in Nat /\ now' >= now
    BY <1>2
  <2> QED BY <1>2, <1>3, <2>1, GrowthKeepsWindows
<1>5. KeeperType'
  <2>1. arbitrationSet' \in BOOLEAN
    BY DEF KeeperOwnerCalls, ConfigureWindows, SetFinalizeGrace, PushWindow, SetArbitration,
           StackInv, StackType, KeeperType
  <2> QED BY <1>1, <1>4, <2>1 DEF StackInv, StackType, KeeperType
<1>6. StackType' /\ BondsBacked'
  <2>1. UNCHANGED <<arbiterSets, bondParameters, disputes, approvals, bondWithdrawable, bondBalance>>
    BY <1>1 DEF arbitrationVars
  <2>2. PanelType' /\ VoteType' /\ BondType' /\ BondsBacked' /\ MarketType'
    BY <1>1, <2>1, TypesRest
  <2>3. checks' \in CheckChoices
    BY <1>1 DEF StackInv, StackType
  <2> QED BY <1>5, <2>2, <2>3 DEF StackType
<1>7. Later /\ \A k \in Jobs : SameSides(k)
  BY <1>1, <1>2 DEF Later, SameSides, arbitrationVars, marketVars
<1> QED BY <1>1, <1>4, <1>6, <1>7, AsideKeeps

(* The arbitration's owner installs a set or sets the bond.                 *)
LEMMA ArbitrationOwnerCallsAreSound ==
    ASSUME StackInv, ArbitrationOwnerCalls
    PROVE  Sound
PROOF
<1>1. /\ UNCHANGED <<vars, keeperVars, marketVars, checks, disputes, approvals>>
      /\ UNCHANGED <<bondWithdrawable, bondBalance>>
  BY DEF ArbitrationOwnerCalls, SetArbiters, SetBondParameters
<1>2. now \in Nat /\ now' = now /\ arbiterSets \in Seq(ArbiterSets) /\ MaxVersions \in Nat
  BY <1>1, ArbitrationAssumption DEF StackInv, StackType, PanelType, IInv, TypeOK, vars
<1>3. PanelType' /\ Later
  <2>1. CASE \E p \in BondParameters : SetBondParameters(p)
    BY <1>2, <2>1 DEF SetBondParameters, StackInv, StackType, PanelType, Later
  <2>2. ASSUME NEW s \in ArbiterSets, SetArbiters(s) PROVE PanelType' /\ Later
    <3>1. /\ arbiterSets' = Append(arbiterSets, s) /\ bondParameters' = bondParameters
          /\ Len(arbiterSets) < MaxVersions
      BY <2>2 DEF SetArbiters
    <3>2. /\ arbiterSets' \in Seq(ArbiterSets) /\ Len(arbiterSets') = Len(arbiterSets) + 1
          /\ Len(arbiterSets) \in Nat
          /\ \A i \in 1 .. Len(arbiterSets) : arbiterSets'[i] = arbiterSets[i]
      BY <1>2, <3>1
    <3>3. Len(arbiterSets') <= MaxVersions
      BY <1>2, <3>1, <3>2
    <3> QED BY <1>2, <3>1, <3>2, <3>3 DEF PanelType, Later, StackInv, StackType
  <2> QED BY <2>1, <2>2 DEF ArbitrationOwnerCalls
<1>4. StackType' /\ WindowsGrow /\ BondsBacked'
  <2>1. KeeperType' /\ WindowsGrow /\ VoteType' /\ BondType' /\ BondsBacked' /\ MarketType'
    BY <1>1, <1>2, TypesRest
  <2>2. checks' \in CheckChoices
    BY <1>1 DEF StackInv, StackType
  <2> QED BY <1>3, <2>1, <2>2 DEF StackType
<1>5. \A k \in Jobs : SameSides(k)
  BY <1>1 DEF SameSides, keeperVars, marketVars
<1> QED BY <1>1, <1>3, <1>4, <1>5, AsideKeeps

(* A bond balance is withdrawn.                                             *)
LEMMA BondWithdrawCallsAreSound ==
    ASSUME StackInv, BondWithdrawCalls
    PROVE  Sound
PROOF
<1>1. PICK caller \in People, leaves \in BOOLEAN, amount \in Withdrawals :
             BondWithdrawTo(caller, leaves, amount)
  BY DEF BondWithdrawCalls
<1>2. caller \in Accounts /\ amount \in Nat
  BY ConstantsAssumption DEF People
<1>3. BondType' /\ BondsBacked'
  BY <1>1, <1>2, BondWithdrawn DEF StackInv, StackType
<1>4. UNCHANGED <<vars, keeperVars, arbiterSets, bondParameters, disputes, approvals, marketVars, checks>>
  BY <1>1 DEF BondWithdrawTo, BondWithdrawCalls
<1>5. now \in Nat /\ now' = now
  BY <1>4 DEF StackInv, IInv, TypeOK, vars
<1>6. StackType' /\ WindowsGrow
  <2>1. KeeperType' /\ WindowsGrow /\ PanelType' /\ VoteType' /\ MarketType'
    BY <1>4, <1>5, TypesRest
  <2>2. checks' \in CheckChoices
    BY <1>4 DEF StackInv, StackType
  <2> QED BY <1>3, <2>1, <2>2 DEF StackType
<1>7. Later /\ \A k \in Jobs : SameSides(k)
  BY <1>4, <1>5 DEF Later, SameSides, keeperVars, marketVars
<1> QED BY <1>3, <1>4, <1>6, <1>7, AsideKeeps

(* The hook's owner installs or removes a check.                            *)
LEMMA CheckCallsAreSound ==
    ASSUME StackInv, NEW on \in BOOLEAN, SetComplianceModule(on) \/ SetScreening(on)
    PROVE  Sound
PROOF
<1>1. UNCHANGED <<vars, keeperVars, arbitrationVars, marketVars>> /\ checks' \in CheckChoices
  BY DEF SetComplianceModule, SetScreening, SetChecks
<1>2. UNCHANGED <<arbiterSets, bondParameters, disputes, approvals, bondWithdrawable, bondBalance>>
  BY <1>1 DEF arbitrationVars
<1>3. now \in Nat /\ now' = now
  BY <1>1 DEF StackInv, IInv, TypeOK, vars
<1>4. StackType' /\ WindowsGrow /\ BondsBacked'
  <2>1. /\ KeeperType' /\ WindowsGrow /\ PanelType' /\ VoteType' /\ BondType' /\ BondsBacked'
        /\ MarketType'
    BY <1>1, <1>2, <1>3, TypesRest
  <2> QED BY <1>1, <2>1 DEF StackType
<1>5. Later /\ \A k \in Jobs : SameSides(k)
  BY <1>1, <1>2, <1>3 DEF Later, SameSides, keeperVars, marketVars
<1> QED BY <1>1, <1>4, <1>5, AsideKeeps

-----------------------------------------------------------------------------
(* The market.                                                              *)

(* What a job in escrow pays out is an amount.                              *)
LEMMA NetPayoutType ==
    ASSUME StackInv, NEW k \in Jobs, jobs[k].status # "Open"
    PROVE  NetPayout(k) \in Nat
PROOF
<1>1. /\ jobs[k] \in JobRecord
      /\ jobs[k].platformFeeBP + jobs[k].evaluatorFeeBP <= MaxTotalFeeBP
  BY DEF StackInv, IInv, TypeOK, JobsWellFormed
<1> DEFINE b == jobs[k].budget
           p == jobs[k].platformFeeBP
           e == jobs[k].evaluatorFeeBP
<1>2. /\ b \in Nat /\ p \in 0 .. BPS /\ e \in 0 .. BPS /\ p + e <= BPS
      /\ p \in Nat /\ e \in Nat
  BY <1>1, ConstantsAssumption DEF JobRecord
<1>3. NetPayout(k) = b - Portion(b, p) - Portion(b, e)
  BY DEF NetPayout, NetOf, SnapshotFees
<1> HIDE DEF b, p, e
<1>4. Portion(b, p) \in Nat /\ Portion(b, e) \in Nat /\ Portion(b, p) + Portion(b, e) <= b
  BY <1>2, PortionBounds, TwoPortionsFit
<1> QED BY <1>2, <1>3, <1>4

(* A call that writes one listing.                                          *)
LEMMA ListingKeeps ==
    ASSUME StackInv, NEW j \in Jobs,
           UNCHANGED <<vars, keeperVars, arbitrationVars, checks, buyerRoots>>,
           NEW l \in ListingRecord, listings' = [listings EXCEPT ![j] = l],
           PayoutFits(j)'
    PROVE  Sound
PROOF
<1>1. IInv' /\ now \in Nat /\ now' = now /\ UNCHANGED jobs
  BY NextKeepsIInv DEF StackInv, IInv, TypeOK, vars
<1>2. Later
  BY <1>1 DEF Later, arbitrationVars
<1>3. listings \in [Jobs -> ListingRecord]
  BY DEF StackInv, StackType, MarketType
<1>4. ASSUME NEW k \in Jobs PROVE JobFits(k)' /\ EndsAsDecided(k)
  <2>1. CASE k # j
    <3>1. Untouched(k)
      BY <1>1, <1>3, <2>1 DEF Untouched, SameSides, keeperVars, arbitrationVars
    <3> QED BY <1>1, <1>2, <3>1, RestKeepsFits
  <2>2. CASE k = j
    <3>1. DisputeFits(k) /\ VotesFit(k)
      BY DEF StackInv, AllJobsFit, JobFits
    <3>2. DisputeFits(k)'
      BY <1>1, <3>1 DEF DisputeFits, Opened, Disputed, keeperVars, arbitrationVars
    <3>3. VotesFit(k)'
      BY <1>2, <3>1, VotesRest DEF DisputeFits, arbitrationVars, SameVotes, Opened
    <3>4. EndsAsDecided(k)
      BY <1>1 DEF EndsAsDecided, SubmittedToKeeper
    <3> QED BY <2>2, <3>2, <3>3, <3>4 DEF JobFits
  <2> QED BY <2>1, <2>2
<1>5. UNCHANGED <<arbiterSets, bondParameters, disputes, approvals, bondWithdrawable, bondBalance>>
  BY DEF arbitrationVars
<1>6. KeeperType' /\ WindowsGrow /\ PanelType' /\ VoteType' /\ BondType' /\ BondsBacked'
  BY <1>1, <1>5, TypesRest
<1>7. MarketType' /\ checks' \in CheckChoices
  BY <1>3 DEF StackInv, StackType, MarketType
<1> QED BY <1>4, <1>6, <1>7 DEF Sound, StackType

(* A listing can only be made and bought while the job is submitted, and
   only an unsold one can be cancelled.                                     *)
LEMMA MarketCallsAreSound ==
    ASSUME StackInv, MarketCalls
    PROVE  Sound
PROOF
<1>1. /\ listings \in [Jobs -> ListingRecord]
      /\ \A k \in Jobs : PayoutFits(k) /\ jobs[k] \in JobRecord
  BY DEF StackInv, StackType, MarketType, AllJobsFit, JobFits, IInv, TypeOK
<1>2. UNCHANGED <<arbitrationVars, checks>>
  BY DEF MarketCalls
<1>3. ASSUME NEW j \in Jobs, NEW caller \in People, NEW price \in Prices, List(j, caller, price)
      PROVE  Sound
  <2> DEFINE l == [status |-> "Listed", seller |-> caller, buyer |-> NoAccount,
                   price |-> price, faceValue |-> NetPayout(j)]
  <2>1. /\ jobs[j].status = "Submitted" /\ 0 < price /\ price < NetPayout(j)
        /\ listings' = [listings EXCEPT ![j] = l]
        /\ UNCHANGED <<vars, keeperVars, buyerRoots>>
    BY <1>3 DEF List, LiveJob
  <2>2. l \in ListingRecord
    <3>1. NetPayout(j) \in Nat /\ price \in Nat /\ caller \in Accounts
      BY <2>1, NetPayoutType, MarketAssumption DEF People
    <3> QED BY <3>1 DEF ListingRecord
  <2>3. /\ listings'[j].status = "Listed" /\ listings'[j].faceValue = NetPayout(j)
        /\ listings'[j].price = price
    BY <1>1, <2>1
  <2>4. jobs' = jobs /\ NetPayout(j)' = NetPayout(j)
    BY <2>1 DEF vars, NetPayout, SnapshotFees, NetOf, Portion
  <2>5. PayoutFits(j)'
    BY <1>1, <2>1, <2>3, <2>4 DEF PayoutFits, PastFunding
  <2> HIDE DEF l
  <2> QED BY <1>2, <2>1, <2>2, <2>5, ListingKeeps
<1>4. ASSUME NEW j \in Jobs, NEW caller \in People, NEW price \in Prices, Buy(j, caller, price)
      PROVE  Sound
  <2> DEFINE l == [listings[j] EXCEPT !.status = "Sold", !.buyer = caller]
  <2>1. /\ jobs[j].status = "Submitted" /\ listings[j].status = "Listed"
        /\ listings' = [listings EXCEPT ![j].status = "Sold", ![j].buyer = caller]
        /\ UNCHANGED <<vars, keeperVars, buyerRoots>>
    BY <1>4 DEF Buy, LiveJob
  <2>2. l \in ListingRecord /\ listings' = [listings EXCEPT ![j] = l]
    <3>1. caller \in Accounts
      BY DEF People
    <3> QED BY <1>1, <2>1, <3>1 DEF ListingRecord
  <2>3. /\ listings'[j].status = "Sold" /\ listings'[j].faceValue = listings[j].faceValue
        /\ listings'[j].price = listings[j].price
    BY <1>1, <2>1 DEF ListingRecord
  <2>4. jobs' = jobs /\ NetPayout(j)' = NetPayout(j)
    BY <2>1 DEF vars, NetPayout, SnapshotFees, NetOf, Portion
  <2>5. PayoutFits(j)'
    <3>1. InEscrow(j)
      BY <2>1 DEF InEscrow
    <3> QED BY <1>1, <2>1, <2>3, <2>4, <3>1 DEF PayoutFits, PastFunding
  <2> HIDE DEF l
  <2> QED BY <1>2, <2>1, <2>2, <2>5, ListingKeeps
<1>5. ASSUME NEW j \in Jobs, NEW caller \in People, Cancel(j, caller)
      PROVE  Sound
  <2> DEFINE l == [listings[j] EXCEPT !.status = "Cancelled"]
  <2>1. /\ listings[j].status = "Listed"
        /\ listings' = [listings EXCEPT ![j].status = "Cancelled"]
        /\ UNCHANGED <<vars, keeperVars, buyerRoots>>
    BY <1>5 DEF Cancel
  <2>2. l \in ListingRecord /\ listings' = [listings EXCEPT ![j] = l]
    BY <1>1, <2>1 DEF ListingRecord
  <2>3. listings'[j].status = "Cancelled"
    BY <1>1, <2>1 DEF ListingRecord
  <2>4. jobs' = jobs /\ UNCHANGED disputes
    BY <1>2, <2>1 DEF vars, arbitrationVars
  <2>5. PayeeOf(j)' = PayeeOf(j) /\ OnMarket(j)' = OnMarket(j) /\ Opened(j)' = Opened(j)
    BY <2>1, <2>3, <2>4 DEF PayeeOf, OnMarket, Opened
  <2>6. PayoutFits(j)'
    BY <1>1, <2>3, <2>4, <2>5 DEF PayoutFits
  <2> HIDE DEF l
  <2> QED BY <1>2, <2>1, <2>2, <2>6, ListingKeeps
<1>6. ASSUME NEW client \in Clients, NEW approved \in BuyerLists, SetBuyerRoot(client, approved)
      PROVE  Sound
  <2>1. UNCHANGED <<vars, keeperVars, listings>> /\ now \in Nat /\ now' = now
    BY <1>6 DEF SetBuyerRoot, StackInv, IInv, TypeOK, vars
  <2>2. UNCHANGED <<arbiterSets, bondParameters, disputes, approvals, bondWithdrawable, bondBalance>>
    BY <1>2 DEF arbitrationVars
  <2>3. KeeperType' /\ WindowsGrow /\ PanelType' /\ VoteType' /\ BondType' /\ BondsBacked'
    BY <2>1, <2>2, TypesRest
  <2>4. MarketType' /\ checks' \in CheckChoices
    BY <1>2, <1>6, <2>1 DEF SetBuyerRoot, StackInv, StackType, MarketType
  <2>5. Later /\ \A k \in Jobs : SameSides(k)
    BY <2>1, <2>2 DEF Later, SameSides, keeperVars
  <2> QED BY <2>1, <2>3, <2>4, <2>5, AsideKeeps DEF StackType
<1> QED BY <1>3, <1>4, <1>5, <1>6 DEF MarketCalls

-----------------------------------------------------------------------------
(* The dispute, the vote and the release.                                   *)

(* A call about one job is sound if that job's records agree after it.      *)
LEMMA OneJobKeeps ==
    ASSUME StackInv, [Next]_vars, Later, NEW j \in Jobs,
           \A k \in Jobs : k # j => Untouched(k), JobFits(j)', EndsAsDecided(j),
           KeeperType', WindowsGrow, VoteType', BondType', BondsBacked',
           UNCHANGED <<arbiterSets, bondParameters, marketVars, checks>>
    PROVE  Sound
PROOF
<1>1. IInv'
  BY NextKeepsIInv DEF StackInv
<1>2. ASSUME NEW k \in Jobs PROVE JobFits(k)' /\ EndsAsDecided(k)
  BY <1>1, RestKeepsFits
<1>3. PanelType' /\ MarketType' /\ checks' \in CheckChoices
  BY TypesRest DEF StackInv, StackType
<1> QED BY <1>2, <1>3 DEF Sound, StackType

(* What every call may take as given about its job.                         *)
LEMMA JobGiven ==
    ASSUME StackInv, NEW j \in Jobs
    PROVE  /\ jobs \in [Jobs -> JobRecord] /\ jobs[j] \in JobRecord
           /\ disputes \in [Jobs -> DisputeRecord] /\ disputes[j] \in DisputeRecord
           /\ approvals \in [Jobs -> SUBSET (Accounts \X Resolutions)]
           /\ disputeRefs \in [Jobs -> [disputedAt : Nat, resolved : BOOLEAN]]
           /\ DisputeFits(j) /\ VotesFit(j) /\ PayoutFits(j)
           /\ now \in Nat /\ VoteType /\ BondType /\ KeeperType /\ BondsBacked
           /\ People \subseteq Accounts
BY DEF StackInv, IInv, TypeOK, StackType, VoteType, KeeperType, AllJobsFit, JobFits, People

(* complete() by the evaluator, with its fee forwarded: what it writes.     *)
LEMMA ForwardStep ==
    ASSUME StackInv, NEW j \in Jobs, NEW caller \in People, NEW payee \in Payees,
           NEW bps \in Splits \cup {0, BPS}, CompleteAndForward(j, KE, payee, bps, caller)
    PROVE  /\ Next /\ now' = now
           /\ jobs[j].status = "Submitted" /\ jobs[j].evaluator = KE
           /\ jobs'[j].status = "Completed" /\ jobs'[j].payee = payee
           /\ jobs'[j].providerBps = bps /\ SameDeal(j)
           /\ \A k \in Jobs : k # j => jobs'[k] = jobs[k]
PROOF
<1>1. KE \in Accounts /\ caller \in Accounts /\ bps \in Splits \cup {BPS}
  BY KeeperAssumption, AskedSplits DEF People
<1>2. Next
  BY <1>1 DEF Next, JobNext
<1>3. /\ jobs[j].status = "Submitted" /\ jobs[j].evaluator = KE /\ now' = now
      /\ jobs' = [jobs EXCEPT ![j].status = "Completed", ![j].payee = payee,
                              ![j].providerBps = bps]
  BY DEF CompleteAndForward, Settle
<1>4. jobs \in [Jobs -> JobRecord]
  BY JobGiven
<1>5. /\ jobs'[j].status = "Completed" /\ jobs'[j].payee = payee
      /\ jobs'[j].providerBps = bps /\ SameDeal(j)
      /\ \A k \in Jobs : k # j => jobs'[k] = jobs[k]
  BY <1>3, <1>4 DEF JobRecord, SameDeal
<1> QED BY <1>2, <1>3, <1>5

(* The payout of a job completed by the evaluator, as its hook answered.    *)
LEMMA ReleasePays ==
    ASSUME StackInv, NEW j \in Jobs, NEW asked, NEW payee, NEW bps,
           HookPays(j, asked, payee, bps), SameDeal(j), UNCHANGED listings,
           jobs[j].status = "Submitted",
           jobs'[j].status = "Completed", jobs'[j].payee = payee, jobs'[j].providerBps = bps,
           Opened(j)' = Opened(j), disputes'[j].providerBps = disputes[j].providerBps,
           asked = IF Opened(j) THEN disputes[j].providerBps ELSE BPS
    PROVE  PayoutFits(j)'
PROOF
<1>1. PayoutFits(j)
  BY JobGiven
<1>2. OnMarket(j)' = OnMarket(j) /\ PayeeOf(j)' = PayeeOf(j) /\ ~InEscrow(j)'
  BY DEF OnMarket, PayeeOf, SameDeal, InEscrow
<1>3. OnMarket(j) => payee = PayeeOf(j) /\ bps \in {0, asked}
  BY DEF HookPays
<1>4. jobs'[j].evaluator = KE => jobs'[j].settlementHorizon > 0
  BY <1>1 DEF PayoutFits, SameDeal
<1> QED BY <1>2, <1>3, <1>4 DEF PayoutFits, PastFunding

(* finalize: nobody disputed and the window is over.                        *)
LEMMA FinalizeCallIsSound ==
    ASSUME StackInv, NEW j \in Jobs, FinalizeCall(j)
    PROVE  Sound
PROOF
<1>1. PICK caller \in People, payee \in Payees, bps \in Splits \cup {0, BPS} :
             HookPays(j, BPS, payee, bps) /\ Finalize(j, caller, ProofState(j), payee, bps)
  BY DEF FinalizeCall, Settles
<1>2. /\ ~Disputed(j) /\ now >= ChallengeEndsAt(j) /\ UNCHANGED keeperVars
      /\ CompleteAndForward(j, KE, payee, bps, caller)
      /\ UNCHANGED <<arbitrationVars, marketVars, checks>>
  BY <1>1 DEF Finalize, FinalizeCall
<1>3. /\ Next /\ now' = now
      /\ jobs[j].status = "Submitted" /\ jobs[j].evaluator = KE
      /\ jobs'[j].status = "Completed" /\ jobs'[j].payee = payee
      /\ jobs'[j].providerBps = bps /\ SameDeal(j)
      /\ \A k \in Jobs : k # j => jobs'[k] = jobs[k]
  BY <1>2, ForwardStep
<1>4. UNCHANGED <<arbiterSets, bondParameters, disputes, approvals, bondWithdrawable, bondBalance>>
      /\ UNCHANGED <<disputeRefs, listings>>
  BY <1>2 DEF arbitrationVars, keeperVars, marketVars
<1>5. DisputeFits(j) /\ VotesFit(j) /\ now \in Nat
  BY JobGiven
<1>6. Later /\ \A k \in Jobs : k # j => Untouched(k)
  BY <1>3, <1>4, <1>5 DEF Later, Untouched, SameSides
<1>7. ~Opened(j) /\ Opened(j)' = Opened(j) /\ Disputed(j)' = Disputed(j)
  BY <1>2, <1>4, <1>5 DEF DisputeFits, Opened, Disputed
<1>8. VotesFit(j)'
  BY <1>4, <1>5, <1>6, <1>7, VotesRest DEF SameVotes, DisputeFits
<1>9. DisputeFits(j)'
  BY <1>2, <1>3, <1>4, <1>5, <1>7 DEF DisputeFits
<1>10. PayoutFits(j)'
  BY <1>1, <1>3, <1>4, <1>7, ReleasePays
<1>11. EndsAsDecided(j)
  BY <1>2, <1>3 DEF EndsAsDecided, SameDeal
<1>12. KeeperType' /\ WindowsGrow /\ VoteType' /\ BondType' /\ BondsBacked'
  BY <1>2, <1>3, <1>4, TypesRest
<1> QED
  BY <1>2, <1>3, <1>4, <1>6, <1>8, <1>9, <1>10, <1>11, <1>12, OneJobKeeps DEF JobFits

(* Marking a bond settled changes nothing else of a dispute.                *)
LEMMA SettledFields ==
    ASSUME NEW d \in DisputeRecord
    PROVE  LET e == [d EXCEPT !.bondSettled = TRUE]
           IN  /\ e \in DisputeRecord /\ e.bondSettled = TRUE
               /\ e.disputer = d.disputer /\ e.bond = d.bond /\ e.disputedAt = d.disputedAt
               /\ e.resolveBy = d.resolveBy /\ e.setVersion = d.setVersion /\ e.voted = d.voted
               /\ e.outcome = d.outcome /\ e.providerBps = d.providerBps
BY DEF DisputeRecord

(* The bond of a job is credited: to whom it is owed, and only that.        *)
LEMMA SettleBondStep ==
    ASSUME StackInv, NEW j \in Jobs, Opened(j), NEW a \in Accounts, SettleBondOf(j, a)
    PROVE  /\ VoteType' /\ BondType' /\ BondsBacked'
           /\ SameVotes(j) /\ disputes'[j].bondSettled
           /\ disputes'[j].disputer = disputes[j].disputer
           /\ disputes'[j].resolveBy = disputes[j].resolveBy
           /\ \A k \in Jobs : k # j => disputes'[k] = disputes[k]
           /\ UNCHANGED <<arbiterSets, bondParameters, approvals>>
PROOF
<1> DEFINE e == [disputes[j] EXCEPT !.bondSettled = TRUE]
<1>1. /\ disputes \in [Jobs -> DisputeRecord] /\ disputes[j] \in DisputeRecord
      /\ VoteType /\ BondType /\ BondsBacked
  BY JobGiven
<1>2. /\ disputes' = [disputes EXCEPT ![j] = e] /\ ~disputes[j].bondSettled
      /\ bondWithdrawable' = Credit(bondWithdrawable, a, disputes[j].bond)
      /\ UNCHANGED <<arbiterSets, bondParameters, approvals, bondBalance>>
  BY DEF SettleBondOf
<1>3. /\ e \in DisputeRecord /\ e.bondSettled = TRUE
      /\ e.disputer = disputes[j].disputer /\ e.disputedAt = disputes[j].disputedAt
      /\ e.resolveBy = disputes[j].resolveBy /\ e.setVersion = disputes[j].setVersion
      /\ e.voted = disputes[j].voted /\ e.outcome = disputes[j].outcome
      /\ e.providerBps = disputes[j].providerBps
  BY <1>1, SettledFields
<1> HIDE DEF e
<1>4. /\ disputes'[j] = e /\ disputes' \in [Jobs -> DisputeRecord]
      /\ \A k \in Jobs : k # j => disputes'[k] = disputes[k]
  BY <1>1, <1>2, <1>3
<1>5. VoteType'
  BY <1>1, <1>2, <1>4 DEF VoteType
<1>6. SameVotes(j)
  BY <1>2, <1>3, <1>4 DEF SameVotes, Opened
<1>7. BondType' /\ BondsBacked'
  BY <1>1, <1>2, <1>3, <1>4, <1>5, BondCredited
<1> QED BY <1>2, <1>3, <1>4, <1>5, <1>6, <1>7

(* settleBond: an expired job's, since a completed one has settled its own. *)
LEMMA SettleBondCallIsSound ==
    ASSUME StackInv, NEW j \in Jobs, SettleBondCall(j)
    PROVE  Sound
PROOF
<1>1. /\ Opened(j) /\ jobs[j].status \in {"Expired", "Completed"} /\ ~disputes[j].bondSettled
      /\ SettleBondOf(j, BondPayee(disputes[j], jobs[j]))
      /\ UNCHANGED <<vars, keeperVars, marketVars, checks>>
  BY DEF SettleBondCall, SettleBond, BondIsDue, SettleBondOf
<1>2. /\ DisputeFits(j) /\ VotesFit(j) /\ PayoutFits(j) /\ now \in Nat
      /\ jobs[j] \in JobRecord
  BY JobGiven
<1>3. jobs[j].status = "Expired"
  BY <1>1, <1>2 DEF DisputeFits
<1>4. BondPayee(disputes[j], jobs[j]) \in Accounts
  BY <1>1, <1>2 DEF BondPayee, DisputeFits, JobRecord
<1>5. /\ VoteType' /\ BondType' /\ BondsBacked' /\ SameVotes(j) /\ disputes'[j].bondSettled
      /\ disputes'[j].disputer = disputes[j].disputer
      /\ disputes'[j].resolveBy = disputes[j].resolveBy
      /\ \A k \in Jobs : k # j => disputes'[k] = disputes[k]
      /\ UNCHANGED <<arbiterSets, bondParameters, approvals>>
  BY <1>1, <1>4, SettleBondStep
<1>6. UNCHANGED <<jobs, disputeRefs, listings>> /\ now' = now
  BY <1>1 DEF vars, keeperVars, marketVars
<1>7. Later /\ \A k \in Jobs : k # j => Untouched(k)
  BY <1>2, <1>5, <1>6 DEF Later, Untouched, SameSides
<1>8. VotesFit(j)'
  BY <1>1, <1>2, <1>5, <1>7, VotesRest
<1>9. DisputeFits(j)'
  BY <1>1, <1>2, <1>3, <1>5, <1>6 DEF DisputeFits, SameVotes, Disputed
<1>10. PayoutFits(j)'
  BY <1>2, <1>3, <1>6 DEF PayoutFits, InEscrow
<1>11. EndsAsDecided(j)
  BY <1>3 DEF EndsAsDecided, SubmittedToKeeper
<1>12. KeeperType' /\ WindowsGrow
  BY <1>1, <1>6, TypesRest
<1> QED
  BY <1>1, <1>5, <1>7, <1>8, <1>9, <1>10, <1>11, <1>12, OneJobKeeps DEF JobFits

(* The evaluator marks its reference resolved.                              *)
LEMMA ResolveStep ==
    ASSUME StackInv, NEW j \in Jobs, Resolve(j), now' = now
    PROVE  /\ KeeperType' /\ WindowsGrow
           /\ Disputed(j) /\ ~disputeRefs[j].resolved
           /\ Disputed(j)' /\ disputeRefs'[j].resolved
           /\ \A k \in Jobs : k # j => disputeRefs'[k] = disputeRefs[k]
PROOF
<1>1. disputeRefs \in [Jobs -> [disputedAt : Nat, resolved : BOOLEAN]] /\ KeeperType /\ now \in Nat
  BY JobGiven
<1>2. /\ Disputed(j) /\ ~disputeRefs[j].resolved /\ UNCHANGED <<windows, arbitrationSet>>
      /\ disputeRefs' = [disputeRefs EXCEPT ![j].resolved = TRUE]
  BY DEF Resolve, IsDisputed
<1>3. /\ disputeRefs' \in [Jobs -> [disputedAt : Nat, resolved : BOOLEAN]]
      /\ disputeRefs'[j].resolved = TRUE
      /\ disputeRefs'[j].disputedAt = disputeRefs[j].disputedAt
      /\ \A k \in Jobs : k # j => disputeRefs'[k] = disputeRefs[k]
  BY <1>1, <1>2
<1>4. KeeperType' /\ WindowsGrow
  BY <1>1, <1>2, <1>3 DEF KeeperType, WindowsFit, WindowsGrow
<1> QED BY <1>2, <1>3, <1>4 DEF Disputed

(* finalizeDecided: the release, the reference and the bond, together.      *)
LEMMA FinalizeDecidedCallIsSound ==
    ASSUME StackInv, NEW j \in Jobs, FinalizeDecidedCall(j)
    PROVE  Sound
PROOF
<1>1. PICK caller \in People, payee \in Payees, bps \in Splits \cup {0, BPS} :
             /\ HookPays(j, disputes[j].providerBps, payee, bps)
             /\ FinalizeDecided(j, caller, ProofState(j), payee, bps)
  BY DEF FinalizeDecidedCall, Settles
<1>2. /\ Resolve(j) /\ disputes[j].outcome \in {"Complete", "Lapsed"}
      /\ CompleteAndForward(j, KE, payee, bps, caller)
      /\ SettleBondOf(j, BondPayee(disputes[j], jobs'[j]))
      /\ Opened(j)
      /\ UNCHANGED <<marketVars, checks>>
  BY <1>1 DEF FinalizeDecided, CompleteDecided, BondIsDue, FinalizeDecidedCall
<1>3. /\ Next /\ now' = now
      /\ jobs[j].status = "Submitted" /\ jobs[j].evaluator = KE
      /\ jobs'[j].status = "Completed" /\ jobs'[j].payee = payee
      /\ jobs'[j].providerBps = bps /\ SameDeal(j)
      /\ \A k \in Jobs : k # j => jobs'[k] = jobs[k]
  BY <1>2, ForwardStep
<1>4. DisputeFits(j) /\ VotesFit(j) /\ PayoutFits(j) /\ now \in Nat
  BY JobGiven
<1>5. BondPayee(disputes[j], jobs'[j]) \in Accounts
  <2>1. disputes[j].disputer \in Accounts /\ payee \in Accounts /\ payee # NoAccount
    BY <1>2, <1>4, ConstantsAssumption DEF DisputeFits
  <2> QED BY <1>3, <2>1 DEF BondPayee
<1>6. /\ VoteType' /\ BondType' /\ BondsBacked' /\ SameVotes(j) /\ disputes'[j].bondSettled
      /\ disputes'[j].disputer = disputes[j].disputer
      /\ disputes'[j].resolveBy = disputes[j].resolveBy
      /\ \A k \in Jobs : k # j => disputes'[k] = disputes[k]
      /\ UNCHANGED <<arbiterSets, bondParameters, approvals>>
  <2> DEFINE owed == BondPayee(disputes[j], jobs'[j])
  <2>1. owed \in Accounts /\ SettleBondOf(j, owed)
    BY <1>2, <1>5
  <2> HIDE DEF owed
  <2> QED BY <1>2, <2>1, SettleBondStep
<1>7. /\ KeeperType' /\ WindowsGrow
      /\ Disputed(j) /\ Disputed(j)' /\ disputeRefs'[j].resolved
      /\ \A k \in Jobs : k # j => disputeRefs'[k] = disputeRefs[k]
  BY <1>2, <1>3, ResolveStep
<1>8. UNCHANGED listings
  BY <1>2 DEF marketVars
<1>9. Later /\ \A k \in Jobs : k # j => Untouched(k)
  BY <1>3, <1>4, <1>6, <1>7, <1>8 DEF Later, Untouched, SameSides
<1>10. VotesFit(j)'
  BY <1>2, <1>4, <1>6, <1>9, VotesRest
<1>11. DisputeFits(j)'
  <2>1. jobs'[j].evaluator = KE /\ jobs'[j].status \in PastFunding
    BY <1>3 DEF SameDeal, PastFunding
  <2> QED BY <1>2, <1>3, <1>4, <1>6, <1>7, <2>1 DEF DisputeFits, SameVotes
<1>12. PayoutFits(j)'
  BY <1>1, <1>2, <1>3, <1>6, <1>8, ReleasePays DEF SameVotes
<1>13. EndsAsDecided(j)
  BY <1>2, <1>3, <1>4, <1>7 DEF EndsAsDecided, SameDeal, DisputeFits
<1> QED
  BY <1>2, <1>3, <1>6, <1>7, <1>9, <1>10, <1>11, <1>12, <1>13, OneJobKeeps DEF JobFits

(* A vote and a decision change the voters and the outcome of a dispute.    *)
LEMMA VotedFields ==
    ASSUME NEW d \in DisputeRecord, NEW arbiter \in Accounts
    PROVE  LET e == Voted(d, arbiter)
           IN  /\ e \in DisputeRecord /\ e.voted = d.voted \cup {arbiter}
               /\ e.disputer = d.disputer /\ e.bond = d.bond /\ e.disputedAt = d.disputedAt
               /\ e.resolveBy = d.resolveBy /\ e.setVersion = d.setVersion
               /\ e.outcome = d.outcome /\ e.providerBps = d.providerBps
               /\ e.bondSettled = d.bondSettled
PROOF
<1> DEFINE both == d.voted \cup {arbiter}
<1>1. both \in SUBSET Accounts
  BY DEF DisputeRecord
<1>2. Voted(d, arbiter) = [d EXCEPT !.voted = both]
  BY DEF Voted
<1> HIDE DEF both
<1>3. LET e == [d EXCEPT !.voted = both]
      IN  /\ e \in DisputeRecord /\ e.voted = both
          /\ e.disputer = d.disputer /\ e.bond = d.bond /\ e.disputedAt = d.disputedAt
          /\ e.resolveBy = d.resolveBy /\ e.setVersion = d.setVersion
          /\ e.outcome = d.outcome /\ e.providerBps = d.providerBps
          /\ e.bondSettled = d.bondSettled
  BY <1>1 DEF DisputeRecord
<1> QED BY <1>2, <1>3 DEF both

(* The outcome a decision writes.                                           *)
LEMMA DecidedFields ==
    ASSUME NEW d, d \in DisputeRecord, NEW outcome, outcome \in {"Complete", "Reject", "Lapsed"},
           NEW bps, bps \in 0 .. BPS
    PROVE  LET e == Decided(d, outcome, bps)
           IN  /\ e \in DisputeRecord /\ e.outcome = outcome /\ e.providerBps = bps
               /\ e.disputer = d.disputer /\ e.bond = d.bond /\ e.disputedAt = d.disputedAt
               /\ e.resolveBy = d.resolveBy /\ e.setVersion = d.setVersion
               /\ e.voted = d.voted /\ e.bondSettled = d.bondSettled
PROOF
<1> DEFINE o == [d EXCEPT !.outcome = outcome]
<1>1. /\ o \in DisputeRecord /\ o.outcome = outcome
      /\ o.disputer = d.disputer /\ o.bond = d.bond /\ o.disputedAt = d.disputedAt
      /\ o.resolveBy = d.resolveBy /\ o.setVersion = d.setVersion
      /\ o.voted = d.voted /\ o.bondSettled = d.bondSettled
  BY DEF DisputeRecord
<1>2. Decided(d, outcome, bps) = [o EXCEPT !.providerBps = bps]
  BY DEF Decided, DisputeRecord
<1> HIDE DEF o
<1>3. LET e == [o EXCEPT !.providerBps = bps]
      IN  /\ e \in DisputeRecord /\ e.outcome = o.outcome /\ e.providerBps = bps
          /\ e.disputer = o.disputer /\ e.bond = o.bond /\ e.disputedAt = o.disputedAt
          /\ e.resolveBy = o.resolveBy /\ e.setVersion = o.setVersion
          /\ e.voted = o.voted /\ e.bondSettled = o.bondSettled
  BY <1>1 DEF DisputeRecord
<1> QED BY <1>1, <1>2, <1>3

(* A call that only decides or votes on a dispute: the job stays as it is,
   the bond where it is.                                                    *)
LEMMA DisputeWriteKeeps ==
    ASSUME StackInv, NEW j \in Jobs, Opened(j), UNCHANGED <<vars, keeperVars, marketVars, checks>>,
           UNCHANGED <<arbiterSets, bondParameters, bondWithdrawable, bondBalance>>,
           NEW d \in DisputeRecord, disputes' = [disputes EXCEPT ![j] = d],
           d.disputer = disputes[j].disputer, d.bond = disputes[j].bond,
           d.disputedAt = disputes[j].disputedAt, d.resolveBy = disputes[j].resolveBy,
           d.bondSettled = disputes[j].bondSettled,
           disputes[j].outcome = "None", jobs[j].status \in PastFunding \ {"Completed", "Rejected"},
           d.outcome # "Reject", d.outcome = "Lapsed" => now >= d.resolveBy,
           NEW A \in SUBSET (Accounts \X Resolutions), approvals' = [approvals EXCEPT ![j] = A],
           VotesFit(j)'
    PROVE  Sound
PROOF
<1>1. /\ disputes \in [Jobs -> DisputeRecord] /\ approvals \in [Jobs -> SUBSET (Accounts \X Resolutions)]
      /\ DisputeFits(j) /\ PayoutFits(j) /\ now \in Nat /\ BondsBacked
  BY JobGiven
<1>2. /\ disputes' \in [Jobs -> DisputeRecord] /\ disputes'[j] = d
      /\ \A k \in Jobs : k # j => disputes'[k] = disputes[k]
      /\ approvals' \in [Jobs -> SUBSET (Accounts \X Resolutions)]
      /\ \A k \in Jobs : k # j => approvals'[k] = approvals[k]
  BY <1>1
<1>3. UNCHANGED <<jobs, disputeRefs, listings>> /\ now' = now
  BY DEF vars, keeperVars, marketVars
<1>4. Later /\ \A k \in Jobs : k # j => Untouched(k)
  BY <1>1, <1>2, <1>3 DEF Later, Untouched, SameSides
<1>5. Opened(j)' /\ \A k \in Jobs : Opened(k)' = Opened(k)
  BY <1>2 DEF Opened
<1>6. DisputeFits(j)'
  BY <1>1, <1>2, <1>3, <1>5 DEF DisputeFits, Disputed
<1>7. PayoutFits(j)'
  BY <1>1, <1>3 DEF PayoutFits, InEscrow, NetPayout, SnapshotFees, NetOf, Portion
<1>8. EndsAsDecided(j)
  BY <1>3 DEF EndsAsDecided, SubmittedToKeeper
<1>9. \A k \in Jobs : /\ disputes'[k].bond = disputes[k].bond
                      /\ disputes'[k].bondSettled = disputes[k].bondSettled
  BY <1>2
<1>10. BondsBacked'
  BY <1>1, <1>5, <1>9, BondsRest
<1>11. VoteType' /\ KeeperType' /\ WindowsGrow /\ BondType'
  BY <1>2, <1>3, TypesRest DEF VoteType
<1> QED BY <1>4, <1>6, <1>7, <1>8, <1>10, <1>11, OneJobKeeps DEF JobFits

(* lapse: nobody decided in time.                                           *)
LEMMA LapseCallIsSound ==
    ASSUME StackInv, NEW j \in Jobs, LapseCall(j)
    PROVE  Sound
PROOF
<1> DEFINE d == Decided(disputes[j], "Lapsed", BPS)
<1>1. /\ Opened(j) /\ disputes[j].outcome = "None" /\ now >= disputes[j].resolveBy
      /\ disputes' = [disputes EXCEPT ![j] = d]
      /\ UNCHANGED <<vars, keeperVars, marketVars, checks, arbiterSets, bondParameters, approvals,
                     bondWithdrawable, bondBalance>>
  BY DEF LapseCall, Lapse
<1>2. /\ disputes[j] \in DisputeRecord /\ disputes \in [Jobs -> DisputeRecord]
      /\ approvals \in [Jobs -> SUBSET (Accounts \X Resolutions)]
      /\ DisputeFits(j) /\ VotesFit(j)
  BY JobGiven
<1>3. BPS \in 0 .. BPS
  BY ConstantsAssumption
<1>4. /\ d \in DisputeRecord /\ d.outcome = "Lapsed"
      /\ d.disputer = disputes[j].disputer /\ d.bond = disputes[j].bond
      /\ d.disputedAt = disputes[j].disputedAt /\ d.resolveBy = disputes[j].resolveBy
      /\ d.setVersion = disputes[j].setVersion /\ d.voted = disputes[j].voted
      /\ d.bondSettled = disputes[j].bondSettled
  BY <1>2, <1>3, DecidedFields
<1> HIDE DEF d
<1>5. disputes'[j] = d
  BY <1>1, <1>2
<1>6. jobs[j].status \in PastFunding \ {"Completed", "Rejected"}
  BY <1>1, <1>2 DEF DisputeFits
<1>7. VotesFit(j)'
  BY <1>1, <1>2, <1>4, <1>5 DEF VotesFit, Opened, SetOf
<1>8. approvals' = [approvals EXCEPT ![j] = approvals[j]]
      /\ approvals[j] \in SUBSET (Accounts \X Resolutions)
  BY <1>1, <1>2
<1> QED BY <1>1, <1>4, <1>6, <1>7, <1>8, DisputeWriteKeeps

(* A resolution is an outcome and a share.                                  *)
LEMMA ResolutionShape ==
    ASSUME NEW r \in Resolutions
    PROVE  /\ r = <<r[1], r[2]>> /\ r[1] \in {"Complete", "Reject"} /\ r[2] \in 0 .. BPS
           /\ r[1] = "Reject" => r[2] = 0
BY ConstantsAssumption DEF Resolutions

(* A ballot counts once, for an arbiter of the dispute's set; and when it
   carries, as many arbiters stand behind the resolution as the set asks.   *)
LEMMA BallotKeepsVotes ==
    ASSUME StackInv, NEW j \in Jobs, NEW arbiter \in People, NEW r \in Resolutions,
           MayVote(j, arbiter, r), UNCHANGED arbiterSets, Opened(j)',
           disputes'[j].setVersion = disputes[j].setVersion,
           disputes'[j].voted = disputes[j].voted \cup {arbiter},
           approvals'[j] = ApprovalsAfter(j, arbiter, r),
           \/ disputes'[j].outcome = "None"
           \/ /\ Carried(j, arbiter, r)
              /\ disputes'[j].outcome = r[1] /\ disputes'[j].providerBps = r[2]
    PROVE  VotesFit(j)' /\ ApprovalsAfter(j, arbiter, r) \in SUBSET (Accounts \X Resolutions)
PROOF
<1> DEFINE A == ApprovalsAfter(j, arbiter, r)
           M == SetOf(j).members
           C == Carried(j, arbiter, r)
<1>1. /\ Opened(j) /\ arbiter \in M /\ arbiter \notin disputes[j].voted
  BY DEF MayVote
<1>2. /\ VotesFit(j) /\ arbiter \in Accounts
      /\ approvals \in [Jobs -> SUBSET (Accounts \X Resolutions)]
  BY JobGiven
<1>3. disputes[j].setVersion \in 1 .. Len(arbiterSets)
  BY <1>1, <1>2 DEF VotesFit
<1>4. IsFiniteSet(M)
  <2>1. SetOf(j) \in ArbiterSets
    BY <1>3 DEF SetOf, StackInv, StackType, PanelType
  <2> QED BY <2>1, ArbitrationAssumption
<1>5. A = approvals[j] \cup {<<arbiter, r>>}
  BY DEF ApprovalsAfter
<1>6. A \in SUBSET (Accounts \X Resolutions)
  BY <1>2, <1>5
<1>7. SetOf(j)' = SetOf(j)
  BY DEF SetOf
<1>8. \A v \in A : v[1] \in disputes'[j].voted /\ v[1] \in M
  BY <1>1, <1>2, <1>5 DEF VotesFit
<1>9. \A v, w \in A : v[1] = w[1] => v = w
  <2>1. \A v \in approvals[j] : v[1] # arbiter
    BY <1>1, <1>2 DEF VotesFit
  <2> QED BY <1>2, <1>5, <2>1 DEF VotesFit
<1>10. C => Cardinality(BackersAmong(M, A, r)) >= SetOf(j).threshold
  <2>1. A \subseteq M \X Resolutions
    BY <1>6, <1>8
  <2>2. Cardinality(BackersAmong(M, A, r)) = Cardinality(Backers(A, r))
    <3> HIDE DEF A, M
    <3> QED BY <1>4, <2>1, BallotsAreBackers
  <2>3. C <=> Cardinality(Backers(A, r)) >= SetOf(j).threshold
    BY DEF Carried
  <2> HIDE DEF A, M, C
  <2> QED BY <2>2, <2>3
<1>11. BackersOf(j, r)' = BackersAmong(M, A, r)
  BY <1>7 DEF BackersOf
<1>12. disputes'[j].outcome \in {"Complete", "Reject"} =>
         Cardinality(BackersOf(j, <<disputes[j].outcome, disputes[j].providerBps>>)')
            >= SetOf(j).threshold
  <2> SUFFICES ASSUME disputes'[j].outcome \in {"Complete", "Reject"}
               PROVE  Cardinality(BackersOf(j, <<disputes[j].outcome, disputes[j].providerBps>>)')
                        >= SetOf(j).threshold
    OBVIOUS
  <2>1. C /\ disputes'[j].outcome = r[1] /\ disputes'[j].providerBps = r[2]
    OBVIOUS
  <2>2. <<disputes'[j].outcome, disputes'[j].providerBps>> = r
    BY <2>1, ResolutionShape
  <2>3. BackersOf(j, <<disputes[j].outcome, disputes[j].providerBps>>)'
          = BackersAmong(M, A, r)
    BY <1>7, <2>2 DEF BackersOf
  <2> HIDE DEF A, M, C
  <2> QED BY <1>10, <2>1, <2>3
<1>13. VotesFit(j)'
  <2>1. disputes'[j].setVersion \in 1 .. Len(arbiterSets')
    BY <1>3
  <2>2. approvals'[j] = A
    OBVIOUS
  <2> HIDE DEF A
  <2> QED BY <1>7, <1>8, <1>9, <1>12, <2>1, <2>2 DEF VotesFit
<1> QED BY <1>6, <1>13

(* A vote that decides nothing yet.                                         *)
LEMMA VotePendingIsSound ==
    ASSUME StackInv, NEW j \in Jobs, NEW arbiter \in People, NEW r \in Resolutions,
           VotePending(j, arbiter, r), UNCHANGED <<marketVars, checks>>
    PROVE  Sound
PROOF
<1> DEFINE d == Voted(disputes[j], arbiter)
           A == ApprovalsAfter(j, arbiter, r)
<1>1. /\ disputes[j] \in DisputeRecord /\ disputes \in [Jobs -> DisputeRecord]
      /\ approvals \in [Jobs -> SUBSET (Accounts \X Resolutions)]
      /\ DisputeFits(j) /\ arbiter \in Accounts
  BY JobGiven
<1>2. /\ MayVote(j, arbiter, r)
      /\ disputes' = [disputes EXCEPT ![j] = d] /\ approvals' = [approvals EXCEPT ![j] = A]
      /\ UNCHANGED <<vars, keeperVars, arbiterSets, bondParameters, bondWithdrawable, bondBalance>>
  BY DEF VotePending
<1>3. Opened(j) /\ disputes[j].outcome = "None" /\ InEscrow(j)
  BY <1>2 DEF MayVote
<1>4. /\ d \in DisputeRecord /\ d.voted = disputes[j].voted \cup {arbiter}
      /\ d.disputer = disputes[j].disputer /\ d.bond = disputes[j].bond
      /\ d.disputedAt = disputes[j].disputedAt /\ d.resolveBy = disputes[j].resolveBy
      /\ d.setVersion = disputes[j].setVersion /\ d.outcome = disputes[j].outcome
      /\ d.bondSettled = disputes[j].bondSettled
  BY <1>1, VotedFields
<1> HIDE DEF d
<1>5. disputes'[j] = d /\ approvals'[j] = A
  BY <1>1, <1>2
<1>6. Opened(j)'
  BY <1>3, <1>4, <1>5 DEF Opened
<1>7. VotesFit(j)' /\ A \in SUBSET (Accounts \X Resolutions)
  BY <1>2, <1>3, <1>4, <1>5, <1>6, BallotKeepsVotes
<1>8. jobs[j].status \in PastFunding \ {"Completed", "Rejected"}
  BY <1>1, <1>3 DEF DisputeFits, InEscrow
<1> HIDE DEF A
<1>9. d.outcome # "Reject" /\ d.outcome # "Lapsed"
  BY <1>3, <1>4
<1> QED BY <1>2, <1>3, <1>4, <1>7, <1>8, <1>9, DisputeWriteKeeps

(* The vote that decides for the provider's side.                           *)
LEMMA VoteCompletesIsSound ==
    ASSUME StackInv, NEW j \in Jobs, NEW arbiter \in People, NEW r \in Resolutions,
           VoteCompletes(j, arbiter, r), UNCHANGED <<marketVars, checks>>
    PROVE  Sound
PROOF
<1> DEFINE e == Voted(disputes[j], arbiter)
           bps == r[2]
           d == Decided(e, "Complete", bps)
           A == ApprovalsAfter(j, arbiter, r)
<1>1. /\ disputes[j] \in DisputeRecord /\ disputes \in [Jobs -> DisputeRecord]
      /\ approvals \in [Jobs -> SUBSET (Accounts \X Resolutions)]
      /\ DisputeFits(j) /\ arbiter \in Accounts
  BY JobGiven
<1>2. /\ MayVote(j, arbiter, r) /\ Carried(j, arbiter, r) /\ r[1] = "Complete"
      /\ disputes' = [disputes EXCEPT ![j] = d] /\ approvals' = [approvals EXCEPT ![j] = A]
      /\ UNCHANGED <<vars, keeperVars, arbiterSets, bondParameters, bondWithdrawable, bondBalance>>
  BY DEF VoteCompletes
<1>3. Opened(j) /\ disputes[j].outcome = "None" /\ InEscrow(j)
  BY <1>2 DEF MayVote
<1>4. /\ e \in DisputeRecord /\ e.voted = disputes[j].voted \cup {arbiter}
      /\ e.disputer = disputes[j].disputer /\ e.bond = disputes[j].bond
      /\ e.disputedAt = disputes[j].disputedAt /\ e.resolveBy = disputes[j].resolveBy
      /\ e.setVersion = disputes[j].setVersion /\ e.bondSettled = disputes[j].bondSettled
  BY <1>1, VotedFields
<1>5. bps \in 0 .. BPS
  BY ResolutionShape
<1> HIDE DEF e, bps
<1>6. /\ d \in DisputeRecord /\ d.outcome = "Complete" /\ d.providerBps = bps
      /\ d.disputer = e.disputer /\ d.bond = e.bond /\ d.disputedAt = e.disputedAt
      /\ d.resolveBy = e.resolveBy /\ d.setVersion = e.setVersion
      /\ d.voted = e.voted /\ d.bondSettled = e.bondSettled
  BY <1>4, <1>5, DecidedFields
<1> HIDE DEF d
<1>7. disputes'[j] = d /\ approvals'[j] = A
  BY <1>1, <1>2
<1>8. Opened(j)'
  BY <1>3, <1>4, <1>6, <1>7 DEF Opened
<1>9. VotesFit(j)' /\ A \in SUBSET (Accounts \X Resolutions)
  <2>1. disputes'[j].outcome = r[1] /\ disputes'[j].providerBps = r[2]
    BY <1>2, <1>6, <1>7 DEF bps
  <2> QED BY <1>2, <1>4, <1>6, <1>7, <1>8, <2>1, BallotKeepsVotes
<1>10. jobs[j].status \in PastFunding \ {"Completed", "Rejected"}
  BY <1>1, <1>3 DEF DisputeFits, InEscrow
<1> HIDE DEF A
<1>11. /\ d.disputer = disputes[j].disputer /\ d.bond = disputes[j].bond
       /\ d.disputedAt = disputes[j].disputedAt /\ d.resolveBy = disputes[j].resolveBy
       /\ d.bondSettled = disputes[j].bondSettled
       /\ d.outcome # "Reject" /\ d.outcome # "Lapsed"
  BY <1>4, <1>6
<1> QED BY <1>2, <1>3, <1>6, <1>9, <1>10, <1>11, DisputeWriteKeeps

(* The vote that rejects: the job is refunded and the bond returned with it. *)
LEMMA VoteRejectsIsSound ==
    ASSUME StackInv, NEW j \in Jobs, NEW arbiter \in People, NEW r \in Resolutions,
           VoteRejects(j, arbiter, r), UNCHANGED <<marketVars, checks>>
    PROVE  Sound
PROOF
<1> DEFINE v == Voted(disputes[j], arbiter)
           o == Decided(v, "Reject", 0)
           d == [o EXCEPT !.bondSettled = TRUE]
           A == ApprovalsAfter(j, arbiter, r)
<1>1. /\ disputes[j] \in DisputeRecord /\ disputes \in [Jobs -> DisputeRecord]
      /\ approvals \in [Jobs -> SUBSET (Accounts \X Resolutions)]
      /\ jobs \in [Jobs -> JobRecord] /\ jobs[j] \in JobRecord
      /\ DisputeFits(j) /\ PayoutFits(j) /\ arbiter \in Accounts /\ now \in Nat
      /\ VoteType /\ BondType /\ BondsBacked
  BY JobGiven
<1>2. /\ MayVote(j, arbiter, r) /\ Carried(j, arbiter, r) /\ r[1] = "Reject"
      /\ disputes' = [disputes EXCEPT ![j] = d] /\ approvals' = [approvals EXCEPT ![j] = A]
      /\ ~disputes[j].bondSettled
      /\ bondWithdrawable' = Credit(bondWithdrawable, disputes[j].disputer, disputes[j].bond)
      /\ UNCHANGED <<arbiterSets, bondParameters, bondBalance>>
  BY DEF VoteRejects
<1>3. Opened(j) /\ disputes[j].outcome = "None" /\ InEscrow(j)
  BY <1>2 DEF MayVote
<1>4. /\ v \in DisputeRecord /\ v.voted = disputes[j].voted \cup {arbiter}
      /\ v.disputer = disputes[j].disputer /\ v.disputedAt = disputes[j].disputedAt
      /\ v.setVersion = disputes[j].setVersion
  BY <1>1, VotedFields
<1> HIDE DEF v
<1>5. 0 \in 0 .. BPS
  BY ConstantsAssumption
<1>6. /\ o \in DisputeRecord /\ o.outcome = "Reject" /\ o.providerBps = 0
      /\ o.disputer = v.disputer /\ o.disputedAt = v.disputedAt
      /\ o.setVersion = v.setVersion /\ o.voted = v.voted
  BY <1>4, <1>5, DecidedFields
<1> HIDE DEF o
<1>7. /\ d \in DisputeRecord /\ d.bondSettled = TRUE /\ d.outcome = "Reject" /\ d.providerBps = 0
      /\ d.disputer = disputes[j].disputer /\ d.disputedAt = disputes[j].disputedAt
      /\ d.setVersion = disputes[j].setVersion /\ d.voted = disputes[j].voted \cup {arbiter}
  BY <1>4, <1>6, SettledFields
<1> HIDE DEF d
<1>8. /\ disputes'[j] = d /\ disputes' \in [Jobs -> DisputeRecord]
      /\ \A k \in Jobs : k # j => disputes'[k] = disputes[k]
      /\ approvals'[j] = A
      /\ \A k \in Jobs : k # j => approvals'[k] = approvals[k]
  BY <1>1, <1>2, <1>7
<1>9. Opened(j)'
  BY <1>3, <1>7, <1>8 DEF Opened
<1>10. VotesFit(j)' /\ A \in SUBSET (Accounts \X Resolutions)
  <2>1. disputes'[j].outcome = r[1] /\ disputes'[j].providerBps = r[2]
    BY <1>2, <1>7, <1>8, ResolutionShape
  <2> QED BY <1>2, <1>7, <1>8, <1>9, <2>1, BallotKeepsVotes
<1>11. VoteType'
  <2> HIDE DEF A
  <2> QED BY <1>1, <1>2, <1>8, <1>10 DEF VoteType
<1>12. Resolve(j) /\ Reject(j, KE)
  <2>1. RejectionApplies(j)
    BY <1>1, <1>3 DEF RejectionApplies, IsDisputed, DisputeFits, InEscrow
  <2> QED BY <2>1 DEF VoteRejects, ApplyRejection
<1>13. /\ jobs' = [jobs EXCEPT ![j].status = "Rejected"] /\ now' = now
  BY <1>12 DEF Reject, Refund
<1>14. /\ jobs'[j].status = "Rejected" /\ SameDeal(j)
       /\ \A k \in Jobs : k # j => jobs'[k] = jobs[k]
  BY <1>1, <1>13 DEF JobRecord, SameDeal
<1>15. Next
  BY <1>12, KeeperAssumption DEF Next, JobNext
<1>16. /\ KeeperType' /\ WindowsGrow /\ Disputed(j)' /\ disputeRefs'[j].resolved
       /\ \A k \in Jobs : k # j => disputeRefs'[k] = disputeRefs[k]
  BY <1>12, <1>13, ResolveStep
<1>17. UNCHANGED listings
  BY DEF marketVars
<1>18. Later /\ \A k \in Jobs : k # j => Untouched(k)
  BY <1>1, <1>2, <1>8, <1>13, <1>14, <1>16, <1>17 DEF Later, Untouched, SameSides
<1>19. disputes[j].disputer \in Accounts /\ jobs[j].evaluator = KE
  BY <1>1, <1>3 DEF DisputeFits
<1>20. BondType' /\ BondsBacked'
  <2> DEFINE who == disputes[j].disputer
  <2>1. who \in Accounts /\ bondWithdrawable' = Credit(bondWithdrawable, who, disputes[j].bond)
    BY <1>2, <1>19
  <2> HIDE DEF who
  <2> QED BY <1>1, <1>2, <1>3, <1>7, <1>8, <1>11, <2>1, BondCredited
<1>21. DisputeFits(j)'
  <2>1. jobs'[j].evaluator = KE /\ jobs'[j].status \in PastFunding
    BY <1>14, <1>19 DEF SameDeal, PastFunding
  <2> QED BY <1>7, <1>8, <1>9, <1>14, <1>16, <1>19, <2>1 DEF DisputeFits
<1>22. PayoutFits(j)'
  <2>1. jobs[j].status # "None" /\ ~InEscrow(j)' /\ jobs'[j].status \in PastFunding
    BY <1>3, <1>14 DEF InEscrow, PastFunding
  <2> QED BY <1>1, <1>14, <2>1 DEF PayoutFits, SameDeal
<1>23. EndsAsDecided(j)
  BY <1>7, <1>8, <1>14 DEF EndsAsDecided, SameDeal
<1> QED
  BY <1>2, <1>10, <1>11, <1>15, <1>16, <1>18, <1>20, <1>21, <1>22, <1>23, OneJobKeeps DEF JobFits

(* A vote of any kind.                                                      *)
LEMMA VoteCallIsSound ==
    ASSUME StackInv, NEW j \in Jobs, VoteCall(j)
    PROVE  Sound
PROOF
<1>1. PICK arbiter \in People, r \in Resolutions : Vote(j, arbiter, r)
  BY DEF VoteCall
<1>2. UNCHANGED <<marketVars, checks>>
  BY DEF VoteCall
<1> QED
  BY <1>1, <1>2, VotePendingIsSound, VoteCompletesIsSound, VoteRejectsIsSound DEF Vote

(* A bond is an amount.                                                     *)
LEMMA BondForType ==
    ASSUME StackInv, NEW budget \in Nat
    PROVE  BondFor(budget) \in Nat
PROOF
<1>1. bondParameters.bps \in 0 .. BPS /\ bondParameters.min \in Nat
  BY ArbitrationAssumption DEF StackInv, StackType, PanelType
<1>2. Portion(budget, bondParameters.bps) \in 0 .. budget
  BY <1>1, PortionBounds
<1> QED BY <1>1, <1>2 DEF BondFor

(* dispute: both contracts write their record, the bond comes in.           *)
LEMMA DisputeCallIsSound ==
    ASSUME StackInv, NEW j \in Jobs, DisputeCall(j)
    PROVE  Sound
PROOF
<1>1. PICK caller \in People : DisputeJob(j, caller)
  BY DEF DisputeCall
<1> DEFINE b == BondFor(jobs[j].budget)
           by == ResolveBy(j)
           n == Len(arbiterSets)
           d == [NoDispute EXCEPT !.disputer = caller, !.bond = b, !.disputedAt = now,
                                  !.resolveBy = by, !.setVersion = n]
           ref == [disputedAt |-> now, resolved |-> FALSE]
<1>2. /\ SubmittedToKeeper(j) /\ ~Disputed(j) /\ ~Opened(j) /\ arbiterSets # <<>>
      /\ disputeRefs' = [disputeRefs EXCEPT ![j] = ref]
      /\ disputes' = [disputes EXCEPT ![j] = d]
      /\ bondBalance' = bondBalance + b
      /\ UNCHANGED <<vars, windows, arbitrationSet, arbiterSets, bondParameters, approvals,
                     bondWithdrawable, marketVars, checks>>
  BY <1>1 DEF DisputeJob, RaiseDispute, Open, DisputeCall
<1>3. /\ disputes \in [Jobs -> DisputeRecord] /\ approvals \in [Jobs -> SUBSET (Accounts \X Resolutions)]
      /\ disputeRefs \in [Jobs -> [disputedAt : Nat, resolved : BOOLEAN]]
      /\ jobs[j] \in JobRecord /\ DisputeFits(j) /\ VotesFit(j) /\ PayoutFits(j)
      /\ caller \in Accounts /\ now \in Nat
      /\ VoteType /\ BondType /\ BondsBacked /\ KeeperType
  BY JobGiven
<1>4. b \in Nat
  BY <1>3, BondForType DEF JobRecord
<1>5. by \in Nat
  <2>1. WindowFor(jobs[j].submittedAt) \in Window
    BY <1>3, WindowForType DEF JobRecord, KeeperType
  <2> QED BY <1>3, <2>1 DEF ResolveBy, Window
<1>6. n \in 1 .. Len(arbiterSets) /\ n \in 0 .. MaxVersions
  <2>1. arbiterSets \in Seq(ArbiterSets) /\ Len(arbiterSets) <= MaxVersions
    BY DEF StackInv, StackType, PanelType
  <2>2. n \in Nat /\ n # 0
    BY <1>2, <2>1
  <2> QED BY <2>1, <2>2, ArbitrationAssumption
<1> HIDE DEF b, by, n
<1>7. /\ d \in DisputeRecord
      /\ d.disputer = caller /\ d.bond = b /\ d.disputedAt = now /\ d.resolveBy = by
      /\ d.setVersion = n /\ d.voted = {} /\ d.outcome = "None" /\ d.bondSettled = FALSE
  <2> DEFINE first == [NoDispute EXCEPT !.disputer = caller, !.bond = b]
             second == [first EXCEPT !.disputedAt = now, !.resolveBy = by]
  <2>1. /\ NoDispute \in DisputeRecord /\ NoDispute.voted = {} /\ NoDispute.outcome = "None"
        /\ NoDispute.bondSettled = FALSE
    <3>1. 0 \in 0 .. BPS /\ 0 \in 0 .. MaxVersions
      BY ConstantsAssumption, ArbitrationAssumption
    <3> QED BY <3>1 DEF NoDispute, DisputeRecord
  <2>2. /\ first \in DisputeRecord /\ first.disputer = caller /\ first.bond = b
        /\ first.voted = {} /\ first.outcome = "None" /\ first.bondSettled = FALSE
    BY <1>3, <1>4, <2>1 DEF DisputeRecord
  <2>3. d = [second EXCEPT !.setVersion = n]
    OBVIOUS
  <2> HIDE DEF first
  <2>4. /\ second \in DisputeRecord /\ second.disputer = caller /\ second.bond = b
        /\ second.disputedAt = now /\ second.resolveBy = by
        /\ second.voted = {} /\ second.outcome = "None" /\ second.bondSettled = FALSE
    BY <1>3, <1>5, <2>2 DEF DisputeRecord
  <2> HIDE DEF second, d
  <2> QED BY <1>6, <2>3, <2>4 DEF DisputeRecord
<1> HIDE DEF d
<1>8. /\ disputes'[j] = d /\ disputes' \in [Jobs -> DisputeRecord]
      /\ \A k \in Jobs : k # j => disputes'[k] = disputes[k]
  BY <1>2, <1>3, <1>7
<1>9. /\ disputeRefs'[j] = ref
       /\ disputeRefs' \in [Jobs -> [disputedAt : Nat, resolved : BOOLEAN]]
       /\ \A k \in Jobs : k # j => disputeRefs'[k] = disputeRefs[k]
  BY <1>2, <1>3
<1>10. UNCHANGED <<jobs, listings>> /\ now' = now
  BY <1>2 DEF vars, marketVars
<1>11. VoteType'
  BY <1>2, <1>3, <1>8 DEF VoteType
<1>12. BondType' /\ BondsBacked'
  <2>1. disputes'[j].bond = b
    BY <1>7, <1>8
  <2>2. BondsBacked'
    BY <1>2, <1>3, <1>4, <1>8, <1>11, <2>1, BondTaken
  <2> QED BY <1>2, <1>3, <1>4, <2>2 DEF BondType
<1>13. KeeperType' /\ WindowsGrow
  BY <1>2, <1>3, <1>9, <1>10 DEF KeeperType, WindowsFit, WindowsGrow
<1>14. Later /\ \A k \in Jobs : k # j => Untouched(k)
  BY <1>2, <1>3, <1>8, <1>9, <1>10 DEF Later, Untouched, SameSides
<1>15. approvals[j] = {} /\ approvals'[j] = {}
  BY <1>2, <1>3 DEF DisputeFits
<1>16. VotesFit(j)'
  BY <1>2, <1>6, <1>7, <1>8, <1>15 DEF VotesFit
<1>17. DisputeFits(j)'
  BY <1>2, <1>3, <1>7, <1>8, <1>9, <1>10, <1>15
     DEF DisputeFits, Opened, Disputed, SubmittedToKeeper, PastFunding
<1>18. PayoutFits(j)'
  <2>1. jobs[j].status = "Submitted"
    BY <1>2 DEF SubmittedToKeeper
  <2> QED BY <1>3, <1>10, <2>1 DEF PayoutFits, InEscrow, NetPayout, SnapshotFees, NetOf, Portion
<1>19. EndsAsDecided(j)
  BY <1>2, <1>10 DEF EndsAsDecided, SubmittedToKeeper
<1> QED
  BY <1>2, <1>11, <1>12, <1>13, <1>14, <1>16, <1>17, <1>18, <1>19, OneJobKeeps DEF JobFits

-----------------------------------------------------------------------------
(* The stack.                                                               *)

(* A step that changes nothing is sound.                                    *)
LEMMA StutterIsSound ==
    ASSUME StackInv, UNCHANGED settlementVars
    PROVE  Sound
PROOF
<1>1. /\ UNCHANGED vars /\ UNCHANGED <<now, keeperVars>> /\ UNCHANGED marketVars
      /\ UNCHANGED <<arbiterSets, bondParameters, disputes, approvals, bondWithdrawable, bondBalance>>
      /\ UNCHANGED <<disputeRefs, listings, checks>>
  BY DEF settlementVars, vars, keeperVars, arbitrationVars, marketVars
<1>2. KeeperType' /\ WindowsGrow /\ PanelType' /\ VoteType' /\ BondType' /\ BondsBacked' /\ MarketType'
  BY <1>1, TypesRest
<1>3. StackType'
  BY <1>1, <1>2 DEF StackInv, StackType
<1>4. Later /\ \A k \in Jobs : SameSides(k)
  BY <1>1 DEF Later, SameSides, StackInv, IInv, TypeOK
<1> QED BY <1>1, <1>2, <1>3, <1>4, AsideKeeps

(* Every transaction of the stack is sound.                                 *)
LEMMA StepIsSound == StackInv /\ [SettlementNext]_settlementVars => Sound
PROOF
<1> SUFFICES ASSUME StackInv, [SettlementNext]_settlementVars PROVE Sound
  OBVIOUS
<1>1. CASE KernelCalls
  BY <1>1, KernelCallsAreSound
<1>2. CASE KeeperOwnerCalls
  BY <1>2, KeeperOwnerCallsAreSound
<1>3. CASE ArbitrationOwnerCalls
  BY <1>3, ArbitrationOwnerCallsAreSound
<1>4. CASE BondWithdrawCalls
  BY <1>4, BondWithdrawCallsAreSound
<1>5. CASE MarketCalls
  BY <1>5, MarketCallsAreSound
<1>6. ASSUME NEW on \in BOOLEAN, SetComplianceModule(on) \/ SetScreening(on) PROVE Sound
  BY <1>6, CheckCallsAreSound
<1>7. ASSUME NEW j \in Jobs, JobCalls(j) PROVE Sound
  BY <1>7, JobCallsAreSound
<1>8. ASSUME NEW j \in Jobs, FinalizeCall(j) PROVE Sound
  BY <1>8, FinalizeCallIsSound
<1>9. ASSUME NEW j \in Jobs, DisputeCall(j) PROVE Sound
  BY <1>9, DisputeCallIsSound
<1>10. ASSUME NEW j \in Jobs, FinalizeDecidedCall(j) PROVE Sound
  BY <1>10, FinalizeDecidedCallIsSound
<1>11. ASSUME NEW j \in Jobs, VoteCall(j) PROVE Sound
  BY <1>11, VoteCallIsSound
<1>12. ASSUME NEW j \in Jobs, LapseCall(j) PROVE Sound
  BY <1>12, LapseCallIsSound
<1>13. ASSUME NEW j \in Jobs, SettleBondCall(j) PROVE Sound
  BY <1>13, SettleBondCallIsSound
<1>14. CASE UNCHANGED settlementVars
  BY <1>14, StutterIsSound
<1> QED
  BY <1>1, <1>2, <1>3, <1>4, <1>5, <1>6, <1>7, <1>8, <1>9, <1>10, <1>11, <1>12, <1>13, <1>14
     DEF SettlementNext

(* The deployment: one version of the windows, no dispute, no listing.      *)
LEMMA StackStarts == SettlementInit => StackInv
PROOF
<1> SUFFICES ASSUME SettlementInit PROVE StackInv
  OBVIOUS
<1>1. IInv
  BY InitIInv DEF SettlementInit
<1>2. KeeperType
  <2>1. PICK w \in WindowChoices : windows = <<Versioned(w, 0)>>
    BY DEF SettlementInit, KeeperInit
  <2> DEFINE first == Versioned(w, 0)
  <2>2. /\ first \in Window /\ first.effectiveFrom = 0
        /\ first.challenge = w.challenge /\ first.dispute = w.dispute /\ first.grace = w.grace
    BY KeeperAssumption DEF Versioned, Window, WindowShape
  <2>3. windows = <<first>>
    BY <2>1
  <2> HIDE DEF first
  <2>4. windows \in Seq(Window) /\ Len(windows) = 1 /\ windows[1] = first
    BY <2>2, <2>3
  <2>5. now = 1 /\ \A i \in 1 .. Len(windows) : i = 1
    BY <2>4 DEF SettlementInit, Init
  <2>6. WindowsFit
    BY <2>2, <2>4, <2>5, KeeperAssumption DEF WindowsFit
  <2> QED BY <2>6 DEF KeeperType, SettlementInit, KeeperInit
<1>3. PanelType
  BY ArbitrationAssumption DEF PanelType, SettlementInit, ArbitrationInit
<1>4. /\ disputes = [j \in Jobs |-> NoDispute] /\ approvals = [j \in Jobs |-> {}]
      /\ disputeRefs = [j \in Jobs |-> [disputedAt |-> 0, resolved |-> FALSE]]
      /\ listings = [j \in Jobs |-> NoListing] /\ jobs = [j \in Jobs |-> BlankJob]
      /\ bondWithdrawable = [a \in Accounts |-> 0] /\ bondBalance = 0
  BY DEF SettlementInit, ArbitrationInit, KeeperInit, MarketInit, Init
<1>5. NoDispute \in DisputeRecord
  <2>1. 0 \in 0 .. BPS /\ 0 \in 0 .. MaxVersions
    BY ConstantsAssumption, ArbitrationAssumption
  <2> QED BY <2>1 DEF NoDispute, DisputeRecord
<1>6. VoteType /\ BondType
  BY <1>4, <1>5 DEF VoteType, BondType
<1>7. MarketType /\ checks \in CheckChoices
  BY <1>4 DEF MarketType, NoListing, ListingRecord, SettlementInit, MarketInit
<1>8. ASSUME NEW k \in Jobs PROVE JobFits(k)
  <2>1. /\ ~Opened(k) /\ ~Disputed(k) /\ disputes[k].outcome = "None" /\ approvals[k] = {}
        /\ ~disputeRefs[k].resolved
    BY <1>4 DEF NoDispute, Opened, Disputed
  <2>2. jobs[k].status = "None" /\ listings[k].status = "None"
    BY <1>4 DEF BlankJob, NoListing
  <2> QED BY <2>1, <2>2 DEF JobFits, DisputeFits, VotesFit, PayoutFits
<1>9. BondsBacked
  <2>1. UnsettledBonds = [j \in Jobs |-> 0]
    BY <1>4 DEF UnsettledBonds, Opened, NoDispute
  <2>2. Total(UnsettledBonds) = 0 /\ Total(bondWithdrawable) = 0
    BY <1>4, <2>1, TotalZero
  <2> QED BY <1>4, <2>2 DEF BondsBacked
<1> QED BY <1>1, <1>2, <1>3, <1>6, <1>7, <1>8, <1>9 DEF StackInv, StackType, AllJobsFit

(* The inductive invariant of the composed contracts.                       *)
THEOREM StackInvHolds == SettlementSpec => []StackInv
PROOF
<1>1. StackInv /\ [SettlementNext]_settlementVars => StackInv'
  <2> SUFFICES ASSUME StackInv, [SettlementNext]_settlementVars PROVE StackInv'
    OBVIOUS
  <2>1. Sound
    BY StepIsSound
  <2>2. IInv'
    BY <2>1, NextKeepsIInv DEF StackInv, Sound
  <2>3. AllJobsFit'
    BY <2>1 DEF Sound, AllJobsFit
  <2> QED BY <2>1, <2>2, <2>3 DEF StackInv, Sound
<1> QED BY <1>1, StackStarts, PTL DEF SettlementSpec

(* The stack refines the kernel: whatever evaluator, arbitration, market and
   hook do to it, the kernel offers to anybody.                             *)
THEOREM KernelIsImplemented == SettlementSpec => Spec
PROOF
<1>1. SettlementInit => Init
  BY DEF SettlementInit
<1>2. StackInv /\ [SettlementNext]_settlementVars => [Next]_vars
  BY StepIsSound DEF Sound
<1> QED BY <1>1, <1>2, StackInvHolds, PTL DEF SettlementSpec, Spec

(* With every contract at work, the kernel's totals are the sums they stand
   for and its tokens cover what it owes.                                   *)
THEOREM StackIsSolvent == SettlementSpec => [](Books /\ Solvent)
PROOF
<1>1. StackInv => Books /\ Solvent
  BY DEF StackInv, IInv
<1> QED BY <1>1, StackInvHolds, PTL

(* With every contract at work each budget is taken in once and given up
   once and whole, the net a job pays out stays what it was at funding, the
   rates move only as announced, and a submission has its horizon.          *)
THEOREM StackKeepsTheEscrow ==
    SettlementSpec => EscrowSpec /\ NetIsPromised /\ FeesAreAnnounced /\ []HorizonFits
BY KernelIsImplemented, ImplementsEscrow, NetIsKept, FeesMoveAsAnnounced, HorizonAlwaysFits, PTL

(* Every contract's storage keeps its shape.                                *)
THEOREM StackTypeCorrect == SettlementSpec => []SettlementTypeOK
PROOF
<1>1. StackInv => SettlementTypeOK
  BY DEF StackInv, IInv, StackType, KeeperType, WindowsFit, PanelType, VoteType, BondType,
         MarketType, SettlementTypeOK
<1> QED BY <1>1, StackInvHolds, PTL

(* The arbitration holds every bond it has not settled and every balance it
   owes.                                                                    *)
THEOREM BondsAreBacked == SettlementSpec => []BondsBacked
PROOF
<1>1. StackInv => BondsBacked
  BY DEF StackInv
<1> QED BY <1>1, StackInvHolds, PTL

(* A dispute is decided by a threshold of its own panel, and evaluator,
   arbitration and kernel agree on what became of the job.                  *)
THEOREM DisputesFollowTheVote == SettlementSpec => []DisputesAreDecided
PROOF
<1>1. StackInv => DecisionIsTheVote
  BY DEF StackInv, AllJobsFit, JobFits, VotesFit, DecisionIsTheVote, BackersOf, BackersAmong, SetOf
<1>2. StackInv => DisputeAndJobAgree
  BY DEF StackInv, AllJobsFit, JobFits, DisputeFits, DisputeAndJobAgree
<1> QED BY <1>1, <1>2, StackInvHolds, PTL DEF DisputesAreDecided

(* A released job paid its claim's holder the part that was decided, and a
   listing shows the net the kernel will split.                             *)
THEOREM PayeesGetTheirDue == SettlementSpec => []PayeeGetsItsDue
PROOF
<1>1. StackInv => PayeeGetsItsDue
  <2> SUFFICES ASSUME StackInv PROVE PayeeGetsItsDue
    OBVIOUS
  <2>1. \A k \in Jobs : PayoutFits(k)
    BY DEF StackInv, AllJobsFit, JobFits
  <2>2. SplitIsDecided
    BY <2>1 DEF PayoutFits, SplitIsDecided
  <2>3. PayoutFollowsSale
    BY <2>1 DEF PayoutFits, PayoutFollowsSale, PayeeOf
  <2>4. FaceValueHolds
    BY <2>1 DEF PayoutFits, FaceValueHolds
  <2> QED BY <2>2, <2>3, <2>4 DEF PayeeGetsItsDue
<1> QED BY <1>1, StackInvHolds, PTL

(* A job under the evaluator leaves Submitted only as its dispute's decision,
   its window's silence or its hook's failure says.                         *)
THEOREM TheDecisionSettles == SettlementSpec => OnlyTheDecisionSettles
PROOF
<1> DEFINE Ends == \A j \in Jobs : SubmittedToKeeper(j) =>
        /\ jobs'[j].status = "Completed" =>
             IF Disputed(j) THEN \/ disputes[j].outcome = "Complete"
                                 \/ disputes[j].outcome = "Lapsed" /\ now >= disputes[j].resolveBy
             ELSE now >= ChallengeEndsAt(j)
        /\ jobs'[j].status = "Rejected" => disputes'[j].outcome = "Reject"
        /\ jobs'[j].status = "Expired" => jobs[j].hookResolvesPayout /\ ~OnMarket(j)
<1>1. Sound => Ends
  BY DEF Sound, EndsAsDecided
<1>2. StackInv /\ [SettlementNext]_settlementVars => [Ends]_settlementVars
  BY <1>1, StepIsSound
<1> QED BY <1>2, StackInvHolds, PTL DEF SettlementSpec, OnlyTheDecisionSettles

(* Once the block of a submission has passed, no configuration and no other
   step moves the end of its challenge window.                              *)
THEOREM WindowsAreKept == SettlementSpec => WindowIsKept
PROOF
<1> DEFINE Kept == \A j \in Jobs : SubmittedToKeeper(j) /\ now > jobs[j].submittedAt =>
                       ChallengeEndsAt(j)' = ChallengeEndsAt(j)
<1>1. StackInv /\ Sound => Kept
  <2> SUFFICES ASSUME StackInv, Sound, NEW j \in Jobs, SubmittedToKeeper(j),
                      now > jobs[j].submittedAt
               PROVE  ChallengeEndsAt(j)' = ChallengeEndsAt(j)
    OBVIOUS
  <2> DEFINE t == jobs[j].submittedAt
  <2>1. jobs'[j].submittedAt = t
    BY DEF Sound, EndsAsDecided
  <2>2. t \in Nat /\ now \in Nat /\ windows \in Seq(Window) /\ Len(windows) >= 1
    <3>1. jobs[j] \in JobRecord /\ now \in Nat /\ KeeperType
      BY JobGiven
    <3>2. MaxWindows \in Nat
      BY KeeperAssumption
    <3> QED BY <3>1, <3>2 DEF JobRecord, KeeperType, WindowsFit
  <2>3. InForce(windows', t) = InForce(windows, t)
    <3>1. CASE windows' = windows
      BY <3>1
    <3>2. CASE \E w \in Window : w.effectiveFrom = now /\ windows' = Append(windows, w)
      <4>1. PICK w \in Window : w.effectiveFrom = now /\ windows' = Append(windows, w)
        BY <3>2
      <4>2. t < w.effectiveFrom
        BY <2>2, <4>1
      <4> HIDE DEF t
      <4>3. InForce(Append(windows, w), t) = InForce(windows, t)
        BY <2>2, <4>2, PushKeepsThePast
      <4> QED BY <4>1, <4>3
    <3> QED BY <3>1, <3>2 DEF Sound, WindowsGrow
  <2>4. ChallengeEndsAt(j) = t + InForce(windows, t).challenge
    BY DEF ChallengeEndsAt, WindowFor, InForce, Newest
  <2>5. ChallengeEndsAt(j)' = t + InForce(windows', t).challenge
    BY <2>1 DEF ChallengeEndsAt, WindowFor, InForce, Newest
  <2> HIDE DEF t
  <2> QED BY <2>3, <2>4, <2>5
<1>2. StackInv /\ [SettlementNext]_settlementVars => [Kept]_settlementVars
  BY <1>1, StepIsSound
<1> QED BY <1>2, StackInvHolds, PTL DEF SettlementSpec, WindowIsKept
=============================================================================
