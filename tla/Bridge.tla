-------------------------------- MODULE Bridge --------------------------------
(* USDC into Arc over CCTP (packages/core/src/cctp/index.ts): a burn on the  *)
(* source chain, Circle's attestation, a mint on Arc.  Transfers of one      *)
(* wallet overlap over its one allowance; anyone may deliver an attested     *)
(* message first; messages lapse and are signed again; any wait may fail     *)
(* with its transaction on the way, and whoever bridges goes on by the       *)
(* burn's hash.                                                              *)
EXTENDS Integers, FiniteSets

CONSTANTS
    Transfers,
    BurnAmounts,        \* amounts asked for
    AttesterFee,        \* maxFee, which the amount must exceed
    SourceFunds,        \* what the wallet holds on the source chain
    MaxLapses,          \* bound on expired attestations, of all transfers
    MaxBridgeMishaps    \* bound on waits and reads that fail

ASSUME BridgeAssumption ==
    BurnAmounts \cup {AttesterFee, SourceFunds, MaxLapses, MaxBridgeMishaps} \subseteq Nat

VARIABLES
    bridge,       \* the calls: stage, amount, what was told, number, message held
    purse,        \* the wallet on the source chain: balance and allowance to the messenger
    approvals,    \* transfers whose approval is on its way
    burnTx,       \* each transfer's burn
    circle,       \* the attestation of each burn: state, and how often it was signed
    deliveries,   \* receiveMessage transactions on their way
    mintedBy,     \* the call that minted, 0 for a relayer
    lapses, bridgeMishaps

bridgeVars == <<bridge, purse, approvals, burnTx, circle, deliveries, mintedBy, lapses, bridgeMishaps>>
bridgeChains == <<purse, approvals, burnTx, circle, deliveries, mintedBy, lapses>>

NotMinted == -1
ByRelayer == 0

BridgeInit ==
    /\ bridge = [t \in Transfers |->
                    [stage |-> "none", amount |-> 0, told |-> "nothing", call |-> 0, held |-> 0]]
    /\ purse = [balance |-> SourceFunds, allowance |-> 0]
    /\ approvals = {}
    /\ burnTx = [t \in Transfers |-> "none"]
    /\ circle = [t \in Transfers |-> [state |-> "unseen", signed |-> 0]]
    /\ deliveries = {}
    /\ mintedBy = [t \in Transfers |-> NotMinted]
    /\ lapses = 0 /\ bridgeMishaps = 0

BridgeAt(t, stage) == bridge[t].stage = stage
BridgeTo(t, stage) == bridge' = [bridge EXCEPT ![t].stage = stage]
BridgeTells(t, told) == bridge' = [bridge EXCEPT ![t].stage = "ended", ![t].told = told]
Smoothly == UNCHANGED bridgeMishaps
Misfortune == bridgeMishaps < MaxBridgeMishaps /\ bridgeMishaps' = bridgeMishaps + 1

-----------------------------------------------------------------------------
(* depositForBurn: the fee, the allowance, an approval when it is short ...  *)
BridgeStarts(t, amount) ==
    /\ BridgeAt(t, "none")
    /\ bridge' = [bridge EXCEPT ![t] = [bridge[t] EXCEPT !.amount = amount, !.call = 1,
                    !.stage = IF amount > AttesterFee THEN "checking" ELSE "ended",
                    !.told = IF amount > AttesterFee THEN bridge[t].told ELSE "refused"]]
    /\ UNCHANGED bridgeChains /\ Smoothly

ChecksAllowance(t) ==
    /\ BridgeAt(t, "checking")
    /\ IF purse.allowance < bridge[t].amount
       THEN BridgeTo(t, "approving") /\ approvals' = approvals \cup {t}
       ELSE BridgeTo(t, "simulating") /\ UNCHANGED approvals
    /\ UNCHANGED <<purse, burnTx, circle, deliveries, mintedBy, lapses>> /\ Smoothly

ApprovalMines(t) ==
    /\ t \in approvals
    /\ approvals' = approvals \ {t}
    /\ purse' = [purse EXCEPT !.allowance = bridge[t].amount]
    /\ UNCHANGED <<bridge, burnTx, circle, deliveries, mintedBy, lapses>> /\ Smoothly

ReadsApproval(t) ==
    /\ BridgeAt(t, "approving") /\ t \notin approvals
    /\ BridgeTo(t, "simulating")
    /\ UNCHANGED bridgeChains /\ Smoothly

(* ... then the burn, simulated, sent, mined and read.                       *)
BurnWouldPass(t) == bridge[t].amount <= purse.balance /\ bridge[t].amount <= purse.allowance
SendsBurn(t) ==
    /\ BridgeAt(t, "simulating")
    /\ IF BurnWouldPass(t)
       THEN BridgeTo(t, "burning") /\ burnTx' = [burnTx EXCEPT ![t] = "sent"]
       ELSE BridgeTells(t, "refused") /\ UNCHANGED burnTx
    /\ UNCHANGED <<purse, approvals, circle, deliveries, mintedBy, lapses>> /\ Smoothly

BurnMines(t) ==
    /\ burnTx[t] = "sent"
    /\ IF BurnWouldPass(t)
       THEN /\ burnTx' = [burnTx EXCEPT ![t] = "mined"]
            /\ purse' = [balance |-> purse.balance - bridge[t].amount,
                         allowance |-> purse.allowance - bridge[t].amount]
       ELSE burnTx' = [burnTx EXCEPT ![t] = "reverted"] /\ UNCHANGED purse
    /\ UNCHANGED <<bridge, approvals, circle, deliveries, mintedBy, lapses>> /\ Smoothly

ReadsBurnReceipt(t) ==
    /\ BridgeAt(t, "burning") /\ burnTx[t] # "sent"
    /\ IF burnTx[t] = "mined" THEN BridgeTo(t, "polling") ELSE BridgeTells(t, "refused")
    /\ UNCHANGED bridgeChains /\ Smoothly

-----------------------------------------------------------------------------
(* waitForAttestation: the message of the moment once it is complete, lapsed *)
(* or not; a poll that finds none and its sleep change nothing.              *)
PollFinds(t) ==
    /\ BridgeAt(t, "polling") /\ circle[t].signed > 0
    /\ bridge' = [bridge EXCEPT ![t].stage = "attested", ![t].held = circle[t].signed]
    /\ UNCHANGED bridgeChains /\ Smoothly
(* Nothing will ever be found for a burn that reverted: the deadline passes. *)
DeadlinePasses(t) ==
    /\ BridgeAt(t, "polling") /\ burnTx[t] = "reverted"
    /\ BridgeTells(t, "unknown")
    /\ UNCHANGED bridgeChains /\ Smoothly

(* receiveMessage: the nonce, a simulation, the transaction and its receipt. *)
ChecksNonce(t) ==
    /\ BridgeAt(t, "attested")
    /\ IF mintedBy[t] # NotMinted THEN BridgeTells(t, "alreadyReceived") ELSE BridgeTo(t, "delivering")
    /\ UNCHANGED bridgeChains /\ Smoothly

Delivery(t) == [transfer |-> t, call |-> bridge[t].call, message |-> bridge[t].held]
WouldMint(d) ==
    /\ mintedBy[d.transfer] = NotMinted
    /\ circle[d.transfer] = [state |-> "signed", signed |-> d.message]
Delivers(t) ==
    /\ BridgeAt(t, "delivering")
    /\ IF WouldMint(Delivery(t))
       THEN BridgeTo(t, "minting") /\ deliveries' = deliveries \cup {Delivery(t)}
       ELSE BridgeTells(t, "unknown") /\ UNCHANGED deliveries
    /\ UNCHANGED <<purse, approvals, burnTx, circle, mintedBy, lapses>> /\ Smoothly

DeliveryMines(d) ==
    /\ d \in deliveries
    /\ deliveries' = deliveries \ {d}
    /\ mintedBy' = IF WouldMint(d) THEN [mintedBy EXCEPT ![d.transfer] = d.call] ELSE mintedBy
    /\ UNCHANGED <<bridge, purse, approvals, burnTx, circle, lapses>> /\ Smoothly

ReceiptSucceeded(t) == mintedBy[t] = bridge[t].call
ReadsMintReceipt(t) ==
    /\ BridgeAt(t, "minting") /\ Delivery(t) \notin deliveries
    /\ BridgeTells(t, IF ReceiptSucceeded(t) THEN "minted" ELSE "unknown")
    /\ UNCHANGED bridgeChains /\ Smoothly

(* A read or a wait fails, the deadline or the caller's signal ends a wait,  *)
(* with what was sent on its way.                                            *)
AwaitFails(t) ==
    /\ bridge[t].stage \in
            {"checking", "approving", "simulating", "burning", "polling", "attested", "delivering", "minting"}
    /\ BridgeTells(t, IF burnTx[t] = "none" THEN "refused" ELSE "unknown")
    /\ UNCHANGED bridgeChains /\ Misfortune

-----------------------------------------------------------------------------
(* Whoever bridges goes on by the burn's hash, a lapsed message once it is   *)
(* signed again (the comment on reattest).                                   *)
Recovers(t) ==
    /\ BridgeAt(t, "ended") /\ bridge[t].told = "unknown"
    /\ burnTx[t] # "reverted" /\ circle[t].state # "lapsed"
    /\ bridge' = [bridge EXCEPT ![t].stage = "polling", ![t].told = "nothing", ![t].call = @ + 1]
    /\ UNCHANGED bridgeChains /\ Smoothly

Reattests(t) ==
    /\ circle[t].state = "lapsed" /\ mintedBy[t] = NotMinted
    /\ circle' = [circle EXCEPT ![t] = [state |-> "signed", signed |-> @.signed + 1]]
    /\ UNCHANGED <<bridge, purse, approvals, burnTx, deliveries, mintedBy, lapses>> /\ Smoothly

(* Circle sees a burn and signs it; its message expires; others deliver.     *)
CircleSigns(t) ==
    /\ burnTx[t] = "mined" /\ circle[t].state = "unseen"
    /\ circle' = [circle EXCEPT ![t] = [state |-> "signed", signed |-> 1]]
    /\ UNCHANGED <<bridge, purse, approvals, burnTx, deliveries, mintedBy, lapses>> /\ Smoothly
MessageLapses(t) ==
    /\ lapses < MaxLapses /\ circle[t].state = "signed"
    /\ lapses' = lapses + 1
    /\ circle' = [circle EXCEPT ![t].state = "lapsed"]
    /\ UNCHANGED <<bridge, purse, approvals, burnTx, deliveries, mintedBy>> /\ Smoothly
RelayerDelivers(t) ==
    /\ circle[t].state = "signed" /\ mintedBy[t] = NotMinted
    /\ mintedBy' = [mintedBy EXCEPT ![t] = ByRelayer]
    /\ UNCHANGED <<bridge, purse, approvals, burnTx, circle, deliveries, lapses>> /\ Smoothly

BridgeStep(t) ==
    \/ ChecksAllowance(t) \/ ReadsApproval(t) \/ SendsBurn(t) \/ ReadsBurnReceipt(t)
    \/ PollFinds(t) \/ DeadlinePasses(t) \/ ChecksNonce(t) \/ Delivers(t) \/ ReadsMintReceipt(t)
    \/ Recovers(t)
(* The chains mine what they were sent, and Circle signs what it sees.       *)
OutsideStep(t) ==
    \/ ApprovalMines(t) \/ BurnMines(t) \/ \E d \in deliveries : d.transfer = t /\ DeliveryMines(d)
    \/ CircleSigns(t) \/ Reattests(t)

BridgeNext ==
    \E t \in Transfers :
        \/ \E amount \in BurnAmounts : BridgeStarts(t, amount)
        \/ BridgeStep(t) \/ OutsideStep(t)
        \/ AwaitFails(t) \/ MessageLapses(t) \/ RelayerDelivers(t)

BridgeSpec == BridgeInit /\ [][BridgeNext]_bridgeVars

-----------------------------------------------------------------------------
(* What a bridging call says is so: "minted" is its own mint, "alreadyReceived"
   somebody else's or an earlier call's, and a refusal has burned nothing
   (ReceiveMessageResult, depositForBurn).                                    *)
BridgeReportsAreTrue ==
    \A t \in Transfers :
        /\ bridge[t].told = "minted" => mintedBy[t] = bridge[t].call
        /\ bridge[t].told = "alreadyReceived" => mintedBy[t] \notin {NotMinted, bridge[t].call}
        /\ bridge[t].told = "refused" => burnTx[t] \in {"none", "reverted"}

(* A burn is not lost (reattest): with somebody who goes on by its hash it   *)
(* is minted, however many waits fail, messages lapse and deliveries race.   *)
EveryBurnIsMinted ==
    \A t \in Transfers : burnTx[t] = "mined" ~> mintedBy[t] # NotMinted

(* Each call comes to an end.                                                *)
EveryBridgeEnds ==
    \A t \in Transfers : bridge[t].stage # "none" ~> bridge[t].stage = "ended"
=============================================================================
