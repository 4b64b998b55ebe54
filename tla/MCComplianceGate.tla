--------------------------- MODULE MCComplianceGate ---------------------------
(* Small instances of the gate for TLC.                                      *)
EXTENDS ComplianceGate

CONSTANTS alice, bob, carol, judge, squareHook, nextHook, gate

OneGate == {<<squareHook, gate>>}

NoFees == {[platform |-> 0, evaluator |-> 0]}
SomeFees == {[platform |-> 1, evaluator |-> 1]}

Proof(policy, recipient, amount, before, stamp, copy) ==
    [signals |-> [compliant |-> TRUE, policy |-> policy, recipient |-> recipient,
                  amount |-> amount, spentBefore |-> before, timestamp |-> stamp, here |-> TRUE],
     verifies |-> TRUE, copy |-> copy]

(* Proofs of one payment in two encodings, before and after another.        *)
Copies ==
    {Proof(p, bob, 2, before, stamp, copy) :
        p \in Commitments, before \in {0, 2}, stamp \in {1, 2}, copy \in {1, 2}}

(* One payment to the provider or to the buyer of its claim, beside proofs
   that do not verify or prove something else.                               *)
Sales ==
    LET sound == {Proof(p, payee, 2, 0, stamp, 1) :
                     p \in Commitments, payee \in {bob, carol}, stamp \in {1, 3}}
        first == Proof(CHOOSE p \in Commitments : TRUE, bob, 2, 0, 2, 1)
    IN  sound \cup {[first EXCEPT !.verifies = FALSE], [first EXCEPT !.signals.compliant = FALSE],
                    [first EXCEPT !.signals.here = FALSE], [first EXCEPT !.signals.amount = 1]}
=============================================================================
