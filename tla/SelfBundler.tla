----------------------------- MODULE SelfBundler -----------------------------
(* The keeper's own bundler (packages/aa/src/selfBundler.ts): a user         *)
(* operation is prepared against the account's nonce, signed, simulated and  *)
(* sent as a transaction of the bundling wallet, each after an await.  Sends *)
(* overlap: two may read one account nonce, or one wallet nonce.  What is    *)
(* broadcast is public, and anyone may bundle it first.  Two sends' user     *)
(* operations are never the same one.  The EntryPoint, the node and viem's   *)
(* receipt wait, which follows a replacement, are external.                  *)
EXTENDS Integers, FiniteSets

CONSTANTS
    UserOps,  \* invocations of sendUserOperation, all of one account and key
    NoOp

ASSUME BundlerAssumption == NoOp \notin UserOps /\ IsFiniteSet(UserOps)

VARIABLES
    opNonce,      \* the account's nonce in the EntryPoint
    walletNonce,  \* transactions of the bundling wallet mined so far
    sending,      \* where each send stands, the nonces it read, what it told
    bundlerPool,  \* sends whose transaction is broadcast and not mined
    minedBy,      \* wallet nonce -> the send whose transaction took it
    opRan         \* how each operation ran: "no", "ok", "reverted", and in whose transaction

bundlerVars == <<opNonce, walletNonce, sending, bundlerPool, minedBy, opRan>>
bundlerChain == <<opNonce, walletNonce, bundlerPool, minedBy, opRan>>

BundlerInit ==
    /\ opNonce = 0 /\ walletNonce = 0
    /\ sending = [s \in UserOps |-> [at |-> "new", nonce |-> 0, wallet |-> 0, told |-> "none"]]
    /\ bundlerPool = {} /\ minedBy = [n \in {} |-> NoOp]
    /\ opRan = [s \in UserOps |-> [how |-> "no", in |-> NoOp]]

MovesOn(s, at) == sending' = [sending EXCEPT ![s].at = at]
Tells(s, what) == sending' = [sending EXCEPT ![s].at = "done", ![s].told = what]

-----------------------------------------------------------------------------
(* prepareUserOperation: refused when the call reverts in estimation.        *)
PrepareOperation(s) ==
    /\ sending[s].at = "new"
    /\ \/ sending' = [sending EXCEPT ![s].at = "prepared", ![s].nonce = opNonce]
       \/ Tells(s, "refused")
    /\ UNCHANGED bundlerChain

Valid(s) == sending[s].nonce = opNonce

(* The signed operation in an eth_call of handleOps.                         *)
Simulate(s) ==
    /\ sending[s].at = "prepared"
    /\ \/ Valid(s) /\ MovesOn(s, "simulated")
       \/ Tells(s, "rejected")
    /\ UNCHANGED bundlerChain

(* The wallet's nonce in the pending block. *)
Taken(n) == \E s \in bundlerPool : sending[s].wallet = n
Pending ==
    CHOOSE n \in walletNonce..walletNonce + Cardinality(bundlerPool) :
        ~Taken(n) /\ \A m \in walletNonce..n - 1 : Taken(m)

(* writeContract: the wallet's next nonce, then the broadcast.               *)
TakeWalletNonce(s) ==
    /\ sending[s].at = "simulated"
    /\ sending' = [sending EXCEPT ![s].at = "numbered", ![s].wallet = Pending]
    /\ UNCHANGED bundlerChain

Rivals(s) == {o \in bundlerPool : sending[o].wallet = sending[s].wallet}

(* A transaction of the same nonce is replaced, or stands and ours is refused. *)
BroadcastOperation(s) ==
    /\ sending[s].at = "numbered"
    /\ \/ /\ sending[s].wallet >= walletNonce
          /\ bundlerPool' = (bundlerPool \ Rivals(s)) \cup {s}
          /\ MovesOn(s, "sent") \/ Tells(s, "failed")
       \/ /\ sending[s].wallet < walletNonce \/ Rivals(s) # {}
          /\ Tells(s, "failed") /\ UNCHANGED bundlerPool
    /\ UNCHANGED <<opNonce, walletNonce, minedBy, opRan>>

Runs(s, bundler) ==
    /\ opNonce' = opNonce + 1
    /\ \E how \in {"ok", "reverted"} : opRan' = [opRan EXCEPT ![s] = [how |-> how, in |-> bundler]]

(* The wallet's next transaction: handleOps runs the operation or reverts.   *)
MineNext(s) ==
    /\ s \in bundlerPool /\ sending[s].wallet = walletNonce
    /\ walletNonce' = walletNonce + 1
    /\ minedBy' = [n \in 0..walletNonce |-> IF n = walletNonce THEN s ELSE minedBy[n]]
    /\ bundlerPool' = bundlerPool \ {s}
    /\ IF Valid(s) /\ opRan[s].how = "no" THEN Runs(s, s) ELSE UNCHANGED <<opNonce, opRan>>
    /\ UNCHANGED sending

OthersBundle(s) ==
    /\ s \in bundlerPool /\ Valid(s) /\ opRan[s].how = "no"
    /\ Runs(s, NoOp)
    /\ UNCHANGED <<walletNonce, sending, bundlerPool, minedBy>>

(* Faulty: the first event of the receipt is taken for the operation's. *)
EventOfAny(s, tx) == IF opRan[tx].in = tx THEN opRan[tx].how ELSE "none"
(* The receipt's UserOperationEvent with this operation's hash.              *)
EventOf(s, tx) == IF tx = s /\ opRan[s].in = s THEN opRan[s].how ELSE "none"

Receipt(s) ==
    /\ sending[s].at = "sent" /\ sending[s].wallet \in DOMAIN minedBy
    /\ LET event == EventOf(s, minedBy[sending[s].wallet])
       IN  Tells(s, CASE event = "ok" -> "success" [] event = "reverted" -> "reverted" [] OTHER -> "lost")
    /\ UNCHANGED bundlerChain

ReceiptTimesOut(s) ==
    /\ sending[s].at = "sent" /\ Tells(s, "lost")
    /\ UNCHANGED bundlerChain

SendStep(s) ==
    \/ PrepareOperation(s) \/ Simulate(s) \/ TakeWalletNonce(s) \/ BroadcastOperation(s)
    \/ Receipt(s) \/ ReceiptTimesOut(s)

BundlerNext == \E s \in UserOps : SendStep(s) \/ MineNext(s) \/ OthersBundle(s)

BundlerSpec == BundlerInit /\ [][BundlerNext]_bundlerVars

-----------------------------------------------------------------------------
(* What a send reports is what its own operation did, with nonces read twice,
   transactions replaced and operations bundled by others: a success or a
   revert ran that way, in a transaction of this wallet and once, and an
   operation reported refused or rejected never runs, now or later.          *)
ReportsAreTrue ==
    /\ \A s \in UserOps :
          /\ sending[s].told = "success" => opRan[s] = [how |-> "ok", in |-> s]
          /\ sending[s].told = "reverted" => opRan[s] = [how |-> "reverted", in |-> s]
          /\ sending[s].told \in {"refused", "rejected"} => opRan[s].how = "no" /\ s \notin bundlerPool
    /\ \A s, o \in UserOps : s # o /\ opRan[s].how # "no" /\ opRan[o].how # "no" => sending[s].nonce # sending[o].nonce

(* Every sendUserOperation returns or throws. *)
EverySendEnds == \A s \in UserOps : (sending[s].at # "new") ~> (sending[s].at = "done")
=============================================================================
