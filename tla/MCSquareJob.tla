----------------------------- MODULE MCSquareJob -----------------------------
(* Small instances of the kernel for TLC.                                    *)
EXTENDS SquareJob

CONSTANTS alice, bob, judge, hook

MCFees == {[platform |-> 0, evaluator |-> 0], [platform |-> 1, evaluator |-> 1]}
MCOneFee == {[platform |-> 1, evaluator |-> 1]}
=============================================================================
