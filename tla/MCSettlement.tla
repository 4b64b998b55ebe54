---------------------------- MODULE MCSettlement ----------------------------
(* Small instances of the composed contracts for TLC.                        *)
EXTENDS Settlement

CONSTANTS alice, bob, carol, dave, squareHook, otherHook, good, bad

NoFees == {[platform |-> 0, evaluator |-> 0]}
SomeFees == {[platform |-> 1, evaluator |-> 1]}

W(c, d, g) == [challenge |-> c, dispute |-> d, grace |-> g]
AnyFees == NoFees \cup SomeFees
OneWindow == {W(1, 1, 1)}
TwoWindows == {W(1, 1, 1), W(2, 1, 1)}
LongerDispute == {W(1, 1, 1), W(1, 3, 1)}

Pair == [members |-> {carol, dave}, threshold |-> 2]
Single == [members |-> {carol}, threshold |-> 1]
TwoSets == {Pair, Single}
OneSet == {Pair}

CarolOnly == {{carol}}

HalfBond == {[bps |-> 2, min |-> 1]}

NoChecks == {{}}
AllChecks == SUBSET {"compliance", "screening"}
Compliance == {{"compliance"}}
Screened == {{"compliance"}, {"compliance", "screening"}}
=============================================================================
