---------------------------- MODULE ComplianceGate ----------------------------
(***************************************************************************)
(* The compliance gate on a release: contracts/src/SquareHook.sol,         *)
(* ComplianceModule.sol and PolicyRegistry.sol around the kernel.          *)
(*                                                                         *)
(* complete() asks the job's hook twice.  resolvePayout decides the split  *)
(* and may write nothing; beforeAction marks the proof and advances the    *)
(* client's day, and its failure is swallowed.  Both read the same state   *)
(* in one transaction.  The owners of hook, module and registry may        *)
(* rotate any of them, one call at a time, between any two releases.       *)
(*                                                                         *)
(* The claim market's sale and the screening registry's verdict answer     *)
(* freely; every job here is under a SquareHook.                           *)
(***************************************************************************)
EXTENDS SquareJob

CONSTANTS
    Modules, NoModule,          \* compliance modules over one policy registry
    Commitments, NoCommitment,  \* policy commitments; NoCommitment is bytes32(0)
    DailyLimits,                \* public ceilings a client may set
    Tolerances,                 \* timestamp tolerances a module may be given
    Wired,                      \* the hook and module pairs the deployment wires up
    Rotated,                    \* bound: the modules the owners rewire afterwards
    Screenings,                 \* bound: whether the hooks' owner may install screening
    Resales,                    \* accounts that may buy a claim before it is paid
    DayLength                   \* block time units in a calendar day

(* What a proof says, as far as the gate tells statements apart.  `copy` is
   the encoding: a valid proof can be re-randomised into other bytes with the
   same signals.  `here` is that token and receipt hash are this chain's.   *)
Statement ==
    [compliant : BOOLEAN, policy : Commitments, recipient : Accounts, amount : Nat,
     spentBefore : Nat, timestamp : Nat, here : BOOLEAN]

ProofForm == [signals : Statement, verifies : BOOLEAN, copy : Nat]

ASSUME GateAssumption ==
    /\ NoModule \notin Modules /\ NoCommitment \notin Commitments
    /\ Proofs \subseteq ProofForm
    /\ DailyLimits \subseteq Nat /\ Tolerances \subseteq Nat
    /\ Wired \subseteq Hooks \X Modules /\ Rotated \subseteq Modules
    /\ \A v, w \in Wired : v[1] = w[1] <=> v[2] = w[2]
    /\ Screenings \subseteq BOOLEAN /\ Resales \subseteq Payees
    /\ 0 \in Splits    \* a refusal
    /\ DayLength \in Nat \ {0}
    /\ ResolvingHooks = Hooks

VARIABLES
    policies,          \* PolicyRegistry._policies: commitment and daily limit
    spend,             \* PolicyRegistry._spend
    spenders,          \* PolicyRegistry._spenders
    moduleHook,        \* ComplianceModule._hook, of each module
    tolerance,         \* ComplianceModule._timestampTolerance
    consumed,          \* ComplianceModule._consumed
    installed,         \* SquareHook._complianceModule, of each hook
    screens,           \* SquareHook._screening: whether a registry is installed
    pinned,            \* SquareHook._commitmentAtFund
    soldTo,            \* the claim market's buyer of a job, if any
    cleared,           \* the accounts the screening registry clears
    released           \* history: the module and day of each job's release

registryVars == <<policies, spend, spenders>>
moduleVars   == <<moduleHook, tolerance, consumed>>
hookVars     == <<installed, screens, pinned>>
outsideVars  == <<soldTo, cleared>>
gateVars     == <<vars, registryVars, moduleVars, hookVars, outsideVars, released>>

NotReleased == [module |-> NoModule, day |-> 0]

WiredHook(m) == IF \E h \in Hooks : <<h, m>> \in Wired
                THEN CHOOSE h \in Hooks : <<h, m>> \in Wired ELSE NoHook

WiredModule(h) == IF \E m \in Modules : <<h, m>> \in Wired
                  THEN CHOOSE m \in Modules : <<h, m>> \in Wired ELSE NoModule

(* The policy registry lists the wired modules, each module knows its hook
   and each hook its module; clients and screeners have done nothing yet.   *)
GateInit ==
    /\ Init
    /\ policies = [c \in Clients |-> [commitment |-> NoCommitment, dailyLimit |-> 0]]
    /\ spend = [c \in Clients |-> [day |-> 0, spent |-> 0]]
    /\ spenders = {w[2] : w \in Wired}
    /\ moduleHook = [m \in Modules |-> WiredHook(m)]
    /\ tolerance \in [Modules -> Tolerances]
    /\ consumed = [m \in Modules |-> {}]
    /\ installed = [h \in Hooks |-> WiredModule(h)]
    /\ screens = [h \in Hooks |-> FALSE]
    /\ pinned = [j \in Jobs |-> NoCommitment]
    /\ soldTo = [j \in Jobs |-> NoAccount]
    /\ cleared = {}
    /\ released = [j \in Jobs |-> NotReleased]

-----------------------------------------------------------------------------
(* The policy registry.                                                     *)

Today == now \div DayLength

SpentToday(c) == IF spend[c].day = Today THEN spend[c].spent ELSE 0

(* Faulty: a new policy starts a new day.                                   *)
SetPolicyFresh(c, commitment, limit) ==
    /\ policies' = [policies EXCEPT ![c] = [commitment |-> commitment, dailyLimit |-> limit]]
    /\ spend' = [spend EXCEPT ![c].spent = 0]
    /\ UNCHANGED <<vars, spenders, moduleVars, hookVars, outsideVars, released>>

SetPolicy(c, commitment, limit) ==
    /\ policies' = [policies EXCEPT ![c] = [commitment |-> commitment, dailyLimit |-> limit]]
    /\ UNCHANGED <<vars, spend, spenders, moduleVars, hookVars, outsideVars, released>>

SetSpender(m, allowed) ==
    /\ spenders' = IF allowed THEN spenders \cup {m} ELSE spenders \ {m}
    /\ UNCHANGED <<vars, policies, spend, moduleVars, hookVars, outsideVars, released>>

(* recordSpend: books whatever the limit says; only a listed spender may.   *)
RecordSpend(c, amount) ==
    spend' = [spend EXCEPT ![c] = [day |-> Today, spent |-> SpentToday(c) + amount]]

-----------------------------------------------------------------------------
(* The compliance module.                                                   *)

SetHook(m, hook) ==
    /\ moduleHook' = [moduleHook EXCEPT ![m] = hook]
    /\ UNCHANGED <<vars, registryVars, tolerance, consumed, hookVars, outsideVars, released>>

SetTimestampTolerance(m, t) ==
    /\ tolerance' = [tolerance EXCEPT ![m] = t]
    /\ UNCHANGED <<vars, registryVars, moduleHook, consumed, hookVars, outsideVars, released>>

(* Faulty: the commitment of the day, for a job that was funded earlier.    *)
CommitmentForIsLive(j) == policies[jobs[j].client].commitment

CommitmentFor(j) ==
    IF pinned[j] # NoCommitment THEN pinned[j] ELSE policies[jobs[j].client].commitment

WithinWindow(m, stamp) == stamp + tolerance[m] >= now /\ stamp <= now + tolerance[m]

(* Faulty: whether the registry will book the spend is not asked.           *)
BindsUnlisted(m, j, payee, amount, s) ==
    /\ s.compliant
    /\ s.policy = CommitmentFor(j)
    /\ s.recipient = payee /\ s.amount = amount /\ s.here
    /\ s.spentBefore = SpentToday(jobs[j].client)
    /\ WithinWindow(m, s.timestamp)
    /\ s.spentBefore + amount <= policies[jobs[j].client].dailyLimit

(* The eight bindings, the public ceiling, and that the registry still      *)
(* lists the module.                                                        *)
Binds(m, j, payee, amount, s) ==
    /\ s.compliant
    /\ s.policy = CommitmentFor(j)
    /\ s.recipient = payee /\ s.amount = amount /\ s.here
    /\ s.spentBefore = SpentToday(jobs[j].client)
    /\ WithinWindow(m, s.timestamp)
    /\ s.spentBefore + amount <= policies[jobs[j].client].dailyLimit
    /\ m \in spenders

(* Faulty: the bytes are marked, not what they say.                         *)
MarkOfBytes(proof) == proof

(* What _consumed is keyed on.                                              *)
MarkOf(proof) == proof.signals

Verified(m, j, payee, amount) ==
    LET proof == complianceProofs[j]
    IN  /\ jobs[j].hook = moduleHook[m]
        /\ proof # NoProof /\ proof.verifies
        /\ MarkOf(proof) \notin consumed[m]
        /\ Binds(m, j, payee, amount, proof.signals)

(* checkRelease, called by `hook`: refused to any hook but the module's own; *)
(* the mark stays even where the registry then does not book.                *)
CheckRelease(m, j, payee, amount) ==
    IF jobs[j].hook = moduleHook[m] /\ Verified(m, j, payee, amount)
    THEN /\ consumed' = [consumed EXCEPT ![m] = @ \cup {MarkOf(complianceProofs[j])}]
         /\ IF m \in spenders THEN RecordSpend(jobs[j].client, amount) ELSE UNCHANGED spend
    ELSE UNCHANGED <<consumed, spend>>

-----------------------------------------------------------------------------
(* The hook.                                                                *)

SetComplianceModule(h, m) ==
    /\ installed' = [installed EXCEPT ![h] = m]
    /\ UNCHANGED <<vars, registryVars, moduleVars, screens, pinned, outsideVars, released>>

SetScreening(h, on) ==
    /\ screens' = [screens EXCEPT ![h] = on]
    /\ UNCHANGED <<vars, registryVars, moduleVars, installed, pinned, outsideVars, released>>

Gate(j) == installed[jobs[j].hook]

PayeeOf(j) == IF soldTo[j] # NoAccount THEN soldTo[j] ELSE jobs[j].provider

Asked(j, bps) == Portion(NetPayout(j), bps)

(* resolvePayout's split for the split asked: what is asked, or nothing.    *)
ResolvedSplit(j, bps) ==
    IF /\ Gate(j) # NoModule => Verified(Gate(j), j, PayeeOf(j), Asked(j, bps))
       /\ screens[jobs[j].hook] => PayeeOf(j) \in cleared
    THEN bps ELSE 0

(* A funding under a gate pins the client's policy, and is refused to a     *)
(* client without one; under screening, to parties that are not cleared.    *)
GatedFund(j, caller, expectedBudget) ==
    LET policy == policies[jobs[j].client].commitment
    IN  /\ Fund(j, caller, expectedBudget)
        /\ IF Gate(j) # NoModule
           THEN policy # NoCommitment /\ pinned' = [pinned EXCEPT ![j] = policy]
           ELSE UNCHANGED pinned
        /\ screens[jobs[j].hook] => {jobs[j].client, jobs[j].provider} \subseteq cleared
        /\ UNCHANGED <<registryVars, moduleVars, installed, screens, outsideVars, released>>

(* complete(): the split, then the check with the split that was asked for. *)
GatedComplete(j, caller, bps) ==
    /\ Complete(j, caller, PayeeOf(j), ResolvedSplit(j, bps))
    /\ IF Gate(j) # NoModule THEN CheckRelease(Gate(j), j, PayeeOf(j), Asked(j, bps))
       ELSE UNCHANGED <<consumed, spend>>
    /\ released' = [released EXCEPT ![j] = [module |-> Gate(j), day |-> Today]]
    /\ UNCHANGED <<policies, spenders, moduleHook, tolerance, hookVars, outsideVars>>

-----------------------------------------------------------------------------
(* The claim market and the screening registry, from outside.               *)

Sell(j, buyer) ==
    /\ jobs[j].status = "Submitted"
    /\ soldTo[j] = NoAccount
    /\ soldTo' = [soldTo EXCEPT ![j] = buyer]
    /\ UNCHANGED <<vars, registryVars, moduleVars, hookVars, cleared, released>>

Rescreen(a) ==
    /\ TRUE \in Screenings
    /\ cleared' = IF a \in cleared THEN cleared \ {a} ELSE cleared \cup {a}
    /\ UNCHANGED <<vars, registryVars, moduleVars, hookVars, soldTo, released>>

OffKernelVars == <<registryVars, moduleVars, hookVars, outsideVars, released>>

KernelCalls ==
    /\ \/ \E client \in Clients, evaluator \in Evaluators, provider \in Providers,
             expiredAt \in Deadlines, hook \in Hooks, horizon \in Horizons :
             CreateJob(client, provider, evaluator, expiredAt, hook, horizon)
       \/ Tick
    /\ UNCHANGED OffKernelVars

JobCalls(j) ==
    /\ \/ \E caller \in Accounts, amount \in Budgets : SetBudget(j, caller, amount)
       \/ \E caller \in Accounts, proof \in Proofs : SetComplianceProof(j, caller, proof)
       \/ \E caller \in Accounts : Submit(j, caller)
       \/ \E caller \in Accounts : RejectOpen(j, caller)
       \/ \E caller \in Accounts : Reject(j, caller)
       \/ ClaimRefund(j, TRUE)
    /\ UNCHANGED OffKernelVars

GateOwnerCalls ==
    \/ \E m \in Rotated, allowed \in BOOLEAN : SetSpender(m, allowed)
    \/ \E m \in Rotated, hook \in Hooks : SetHook(m, hook)
    \/ \E m \in Rotated, t \in Tolerances : SetTimestampTolerance(m, t)
    \/ \E h \in Hooks, m \in Rotated : SetComplianceModule(h, m) \/ SetComplianceModule(h, NoModule)
    \/ \E h \in Hooks, on \in Screenings : SetScreening(h, on)

GateNext ==
    \/ KernelCalls
    \/ GateOwnerCalls
    \/ \E c \in Clients, commitment \in Commitments, limit \in DailyLimits : SetPolicy(c, commitment, limit)
    \/ \E a \in Payees : Rescreen(a)
    \/ \E j \in Jobs :
         \/ JobCalls(j)
         \/ \E caller \in Accounts, amount \in Budgets : GatedFund(j, caller, amount)
         \/ \E caller \in Accounts, bps \in Splits \cup {BPS} : GatedComplete(j, caller, bps)
         \/ \E buyer \in Resales : Sell(j, buyer)

GateSpec == GateInit /\ [][GateNext]_gateVars

-----------------------------------------------------------------------------
(* Properties.                                                              *)

(* The shape of the gate's storage.                                         *)
GateTypeOK ==
    /\ policies \in [Clients -> [commitment : Commitments \cup {NoCommitment}, dailyLimit : Nat]]
    /\ spend \in [Clients -> [day : Nat, spent : Nat]]
    /\ spenders \subseteq Modules
    /\ moduleHook \in [Modules -> Hooks \cup {NoHook}]
    /\ tolerance \in [Modules -> Nat]
    /\ consumed \in [Modules -> SUBSET Statement]
    /\ installed \in [Hooks -> Modules \cup {NoModule}]
    /\ screens \in [Hooks -> BOOLEAN]
    /\ pinned \in [Jobs -> Commitments \cup {NoCommitment}]
    /\ soldTo \in [Jobs -> Accounts \cup {NoAccount}]
    /\ cleared \subseteq Accounts
    /\ released \in [Jobs -> [module : Modules \cup {NoModule}, day : Nat]]

Paid(j) == IF jobs[j].status = "Completed" THEN Asked(j, jobs[j].providerBps) ELSE 0

PaidToday(c) ==
    Total([j \in Jobs |-> IF /\ released[j].module # NoModule /\ released[j].day = Today
                             /\ jobs[j].client = c
                          THEN Paid(j) ELSE 0])

(* Nothing a gated release pays is missing from the client's day: rotating
   hook, module or spender in any order never pays what it cannot book.     *)
PaidIsBooked == \A c \in Clients : PaidToday(c) <= SpentToday(c)

(* What the gate paid out for a client on a calendar day is within the
   ceiling in force at the last of those payments, however often the policy
   was replaced in between.                                                 *)
CeilingHolds ==
    [][\A c \in Clients :
        PaidToday(c)' > PaidToday(c) => PaidToday(c)' <= policies[c].dailyLimit]_gateVars

(* No statement pays two jobs through one module, in whatever encoding and
   on whatever day it is presented.                                         *)
StatementPaysOnce ==
    \A j, k \in Jobs :
        /\ j # k
        /\ released[j].module = released[k].module /\ released[j].module # NoModule
        /\ Paid(j) > 0 /\ Paid(k) > 0
        => complianceProofs[j].signals # complianceProofs[k].signals

(* What a gated release pays is what its proof proved: this payee and this
   amount, under the policy the client had when it funded the job, whatever
   was sold, replaced or rewired between funding, proof and release.        *)
PaidAsProved ==
    \A j \in Jobs :
        released[j].module # NoModule /\ Paid(j) > 0 =>
            LET proof == complianceProofs[j]
                s     == proof.signals
            IN  /\ proof.verifies /\ s.compliant /\ s.here
                /\ s.recipient = jobs[j].payee /\ s.amount = Paid(j)
                /\ pinned[j] # NoCommitment => s.policy = pinned[j]

(* As a comment in ComplianceModule.sol states it: a release advances the
   client's day by exactly what the payee receives.                         *)
BookedIsPaid == \A c \in Clients : SpentToday(c) = PaidToday(c)

=============================================================================
