--------------------------------- MODULE X402 ---------------------------------
(* Paid requests (packages/x402): gateways that share one payment ledger     *)
(* (packages/data/src/repositories/x402Payments.ts), the chain that moves the*)
(* money, and the reconciler an operator schedules.  A payment authorization *)
(* is its nonce.  A step of a request is what happens between two awaits of  *)
(* the facilitator's hooks; a gateway may die at any of them.                *)
EXTENDS Integers, Sequences, FiniteSets, SequencesExt

CONSTANTS
    PaidRequests,      \* requests that may be presented
    Nonces,            \* authorizations, each good until its validBefore
    ValidBefore,       \* [Nonces -> Nat]
    ReceiptGrace,      \* receiptGraceSeconds
    PageLimit,         \* the reconciler's limit
    LastTime,          \* bound on the clock
    LeftOpen,          \* rows that gateways before these may have died over
    NoRow

PaymentRows ==
    [status : {"accepted", "settled", "failed"},
     reason : {"none", "reverted", "unconfirmed", "expired", "threw"}, hash : BOOLEAN]

ASSUME X402Assumption ==
    /\ Nonces # {} /\ ValidBefore \in [Nonces -> Nat]
    /\ LeftOpen \subseteq Nonces /\ IsFiniteSet(LeftOpen)
    /\ NoRow \notin PaymentRows
    /\ ReceiptGrace \in Nat /\ PageLimit \in Nat \ {0} /\ LastTime \in Nat

VARIABLES
    time,            \* the chain's block timestamp
    transfer,        \* per nonce, on chain: "none", "sent", "mined", "reverted", "dropped"
    row,             \* per nonce: the ledger's row
    unexamined,      \* accepted rows never examined, oldest first (last_checked_at null)
    examined,        \* rows examined and left open, longest ago first
    visit,           \* where each request is
    carries,         \* the nonce it presents
    report,          \* what settle() told the facilitator, until the hook has written it
    pass             \* the reconciler's page: the rows as listed, and its clock

x402Vars == <<time, transfer, row, unexamined, examined, visit, carries, report, pass>>
chainSide == <<time, transfer>>
ledger == <<row, unexamined, examined>>
visits == <<visit, carries, report>>

NoPass == [rows |-> <<>>, now |-> 0]

AcceptedRow == [status |-> "accepted", reason |-> "none", hash |-> FALSE]

(* A gateway may have died after its transfer went out.                      *)
X402Init ==
    /\ time = 0
    /\ \E left \in SUBSET LeftOpen :
          /\ \E sent \in SUBSET left : transfer = [n \in Nonces |-> IF n \in sent THEN "sent" ELSE "none"]
          /\ row = [n \in Nonces |-> IF n \in left THEN AcceptedRow ELSE NoRow]
          /\ unexamined \in SetToSeqs(left)
    /\ examined = <<>>
    /\ visit = [q \in PaidRequests |-> "new"]
    /\ carries = [q \in PaidRequests |-> CHOOSE n \in Nonces : TRUE]
    /\ report = [q \in PaidRequests |-> "none"]
    /\ pass = NoPass

-----------------------------------------------------------------------------
(* The repository: every mark requires the row to be accepted.               *)
Accepted(n) == row[n] # NoRow /\ row[n].status = "accepted"

(* A row is listed once. *)
Without(s, n) ==
    IF \E i \in DOMAIN s : s[i] = n THEN RemoveAt(s, CHOOSE i \in DOMAIN s : s[i] = n) ELSE s


Close(n, status, reason, hash) ==
    IF Accepted(n)
    THEN /\ row' = [row EXCEPT ![n] = [status |-> status, reason |-> reason, hash |-> @.hash \/ hash]]
         /\ unexamined' = Without(unexamined, n)
         /\ examined' = Without(examined, n)
    ELSE UNCHANGED ledger

MarkSettled(n) == Close(n, "settled", "none", TRUE)
MarkFailed(n, reason, hash) == Close(n, "failed", reason, hash)

MarkPending(n) ==
    /\ row' = IF Accepted(n) THEN [row EXCEPT ![n].hash = TRUE] ELSE row
    /\ UNCHANGED <<unexamined, examined>>

(* last_checked_at = now(): behind every row examined before.                *)
MarkChecked(n) ==
    /\ unexamined' = Without(unexamined, n)
    /\ examined' = IF Accepted(n) THEN Append(Without(examined, n), n) ELSE examined
    /\ UNCHANGED row


Inserts(q) == row[carries[q]] = NoRow

-----------------------------------------------------------------------------
(* A request through the facilitator's hooks.                                *)

GoesTo(q, where) == visit' = [visit EXCEPT ![q] = where]

(* onBeforeVerify: the allowlist, then has().                                *)
Present(q, n) ==
    /\ visit[q] = "new"
    /\ carries' = [carries EXCEPT ![q] = n]
    /\ \/ GoesTo(q, "refused")
       \/ row[n] = NoRow /\ time < ValidBefore[n] /\ GoesTo(q, "verifying")
    /\ UNCHANGED <<chainSide, ledger, report, pass>>

(* onAfterVerify: insertAccepted; losing the race refuses the request.       *)
AfterVerify(q) ==
    /\ visit[q] = "verifying"
    /\ IF Inserts(q)
       THEN /\ row' = [row EXCEPT ![carries[q]] = AcceptedRow]
            /\ unexamined' = Append(unexamined, carries[q])
            /\ GoesTo(q, "served")
       ELSE GoesTo(q, "refused") /\ UNCHANGED <<row, unexamined>>
    /\ UNCHANGED <<chainSide, examined, carries, report, pass>>

(* The handler has answered; an error answer is not settled.                 *)
AfterHandler(q) ==
    /\ visit[q] = "served"
    /\ GoesTo(q, "settling") \/ GoesTo(q, "over")
    /\ UNCHANGED <<chainSide, ledger, carries, report, pass>>

(* transferWithAuthorization goes out, or settle() throws before it does.    *)
Broadcast(q) ==
    /\ visit[q] = "settling"
    /\ \/ /\ transfer[carries[q]] = "none"
          /\ transfer' = [transfer EXCEPT ![carries[q]] = "sent"]
          /\ GoesTo(q, "confirming")
          /\ UNCHANGED report
       \/ /\ report' = [report EXCEPT ![q] = "threw"]
          /\ GoesTo(q, "reporting")
          /\ UNCHANGED transfer
    /\ UNCHANGED <<time, ledger, carries, pass>>

(* settle() returns what the receipt says, or settlement_pending without one.*)
Confirm(q) ==
    /\ visit[q] = "confirming"
    /\ \/ transfer[carries[q]] = "mined" /\ report' = [report EXCEPT ![q] = "success"]
       \/ transfer[carries[q]] = "reverted" /\ report' = [report EXCEPT ![q] = "reverted"]
       \/ report' = [report EXCEPT ![q] = "pending"]
    /\ GoesTo(q, "reporting")
    /\ UNCHANGED <<chainSide, ledger, carries, pass>>


(* onAfterSettle and onSettleFailure write the outcome.                      *)
AfterSettle(q) ==
    /\ visit[q] = "reporting"
    /\ \/ report[q] = "success" /\ MarkSettled(carries[q])
       \/ report[q] = "pending" /\ MarkPending(carries[q])
       \/ report[q] = "reverted" /\ MarkFailed(carries[q], "reverted", TRUE)
       \/ report[q] = "threw" /\ MarkFailed(carries[q], "threw", FALSE)
    /\ GoesTo(q, "over")
    /\ UNCHANGED <<chainSide, carries, report, pass>>

(* The gateway dies.                                                         *)
GatewayDies(q) ==
    /\ \/ visit[q] = "verifying" /\ GoesTo(q, "refused")
       \/ visit[q] \in {"served", "settling", "confirming", "reporting"} /\ GoesTo(q, "over")
    /\ UNCHANGED <<chainSide, ledger, carries, report, pass>>

-----------------------------------------------------------------------------
(* The chain: the token refuses a transfer from validBefore on.              *)
Mine(n) ==
    /\ transfer[n] = "sent"
    /\ \/ time < ValidBefore[n] /\ transfer' = [transfer EXCEPT ![n] = "mined"]
       \/ \E end \in {"reverted", "dropped"} : transfer' = [transfer EXCEPT ![n] = end]
    /\ UNCHANGED <<time, ledger, visits, pass>>

(* A transfer not included by its validBefore never pays.                    *)
TimePasses ==
    /\ time < LastTime
    /\ time' = time + 1
    /\ UNCHANGED <<transfer, ledger, visits, pass>>

-----------------------------------------------------------------------------
(* The reconciler.                                                           *)
Page ==
    LET open == unexamined \o examined
    IN  IF Len(open) <= PageLimit THEN open ELSE SubSeq(open, 1, PageLimit)

(* listUnsettled, then the clock, read once for the pass.                    *)
StartPass ==
    /\ pass.rows = <<>>
    /\ Page # <<>>
    /\ pass' = [rows |-> [i \in DOMAIN Page |-> [nonce |-> Page[i], hash |-> row[Page[i]].hash]],
                now  |-> time]
    /\ UNCHANGED <<chainSide, ledger, visits>>

(* What getTransactionReceipt may answer: a node may lag, for ReceiptGrace at
   most.                                                                     *)
Receipts(n) ==
    IF transfer[n] = "mined" /\ time >= ValidBefore[n] + ReceiptGrace THEN {"success"}
    ELSE CASE transfer[n] = "mined"    -> {"success", "unknown"}
           [] transfer[n] = "reverted" -> {"reverted", "unknown"}
           [] OTHER                    -> {"unknown"}

(* Faulty: an unreadable receipt is given up at validBefore.                 *)
PatienceOverEarly(n) == ValidBefore[n] <= pass.now

(* Faulty: an unreadable receipt is waited for without end.                  *)
PatienceNeverOver(n) == FALSE

PatienceOver(n) == ValidBefore[n] + ReceiptGrace <= pass.now

Resolve(n, hash, receipt) ==
    IF hash
    THEN CASE receipt = "success"  -> MarkSettled(n)
           [] receipt = "reverted" -> MarkFailed(n, "reverted", FALSE)
           [] receipt = "unknown"  -> IF PatienceOver(n) THEN MarkFailed(n, "unconfirmed", FALSE)
                                                         ELSE MarkChecked(n)
    ELSE IF ValidBefore[n] <= pass.now THEN MarkFailed(n, "expired", FALSE) ELSE MarkChecked(n)

ReconcileRow ==
    /\ pass.rows # <<>>
    /\ LET listed == Head(pass.rows)
       IN  \E receipt \in Receipts(listed.nonce) : Resolve(listed.nonce, listed.hash, receipt)
    /\ pass' = [pass EXCEPT !.rows = Tail(@)]
    /\ UNCHANGED <<chainSide, visits>>

PaymentStep(q) == AfterVerify(q) \/ AfterHandler(q) \/ Broadcast(q) \/ Confirm(q) \/ AfterSettle(q)

X402Next ==
    \/ \E q \in PaidRequests : GatewayDies(q) \/ PaymentStep(q) \/ \E n \in Nonces : Present(q, n)
    \/ \E n \in Nonces : Mine(n)
    \/ TimePasses \/ StartPass \/ ReconcileRow

X402Spec == X402Init /\ [][X402Next]_x402Vars

-----------------------------------------------------------------------------
(* One signed header buys one response, over all gateways and restarts: of
   the requests that carry one authorization at most one gets past verify.   *)
OneResponsePerAuthorization ==
    \A q, s \in PaidRequests :
        (q # s /\ carries[q] = carries[s])
            => ~({visit[q], visit[s]} \subseteq {"served", "settling", "confirming", "reporting", "over"})

(* The authoritative ledger never says settled of a payment the chain did not
   make, whoever wrote it: the facilitator, late, or the reconciler.         *)
SettledIsPaid == \A n \in Nonces : (row[n] # NoRow /\ row[n].status = "settled") => transfer[n] = "mined"

(* A broadcast transfer is written off only when it can no longer have paid:
   after the grace, or on a reverted receipt.                                *)
WrittenOffIsUnpaid ==
    \A n \in Nonces :
        (row[n] # NoRow /\ row[n].reason \in {"reverted", "unconfirmed"}) => transfer[n] # "mined"

(* The ledger of x402 payments tells what the chain did, whichever gateway or
   reconciler wrote the row, and a header it accepted is spent.              *)
LedgerIsTruthful == OneResponsePerAuthorization /\ SettledIsPaid /\ WrittenOffIsUnpaid

(* accepted is the only state a row can leave.                               *)
AcceptedIsTheOnlyOpenState ==
    [][\A n \in Nonces :
          (row[n] # NoRow /\ ~Accepted(n)) => row'[n] = row[n]]_x402Vars

(* Every payment is accounted for: with the reconciler running, an accepted
   row is closed whatever happened to its gateway, also behind a page full of
   rows that cannot be closed yet.                                           *)
EveryPaymentIsClosed == \A n \in Nonces : (row[n] # NoRow) ~> (row[n] # NoRow /\ ~Accepted(n))

(* packages/x402/README.md says of authorization_expired: "A transfer that was
   never sent can never be sent once validBefore passes, so that row is a
   genuine failure."  A genuine failure has not paid.                        *)
ExpiredIsGenuineFailure ==
    \A n \in Nonces : (row[n] # NoRow /\ row[n].reason = "expired") => transfer[n] # "mined"
=============================================================================
