------------------------------ MODULE MCDisputes ------------------------------
(* Two scenarios of the composed contracts in one run, told apart by the     *)
(* fees.  Where the platform charges, one job that carries the market's      *)
(* hook, under changing screening and replaced arbiter sets; where it does   *)
(* not, two plain jobs side by side, with withdrawals.                       *)
EXTENDS MCSettlement

FreeOfCharge == fees = [platform |-> 0, evaluator |-> 0]

DisputeRunInit ==
    /\ SettlementInit
    /\ checks = IF FreeOfCharge THEN {"compliance"} ELSE {"compliance", "screening"}

(* Nobody withdraws where the question is another one. *)
LedgersGrow ==
    \A a \in Accounts : withdrawable'[a] >= withdrawable[a] /\ bondWithdrawable'[a] >= bondWithdrawable[a]

OneHookedJob ==
    /\ jobCounter' <= 1
    /\ \A j \in 1 .. jobCounter' : jobs'[j].expiredAt # 4 /\ jobs'[j].hook = squareHook
    /\ now' <= 5
    /\ LedgersGrow

TwoPlainJobs ==
    /\ \A j \in Jobs : jobs'[j].hook = NoHook /\ jobs'[j].expiredAt <= 4
    /\ arbiterSets' \in {<<>>, <<Pair>>}
    /\ now' <= 5
    /\ UNCHANGED <<complianceProofs, feeVars, buyerRoots, checks>>

(* The steps this run takes. *)
InScenario == IF FreeOfCharge THEN TwoPlainJobs ELSE OneHookedJob

DisputeRunSpec == DisputeRunInit /\ [][SettlementNext]_settlementVars
=============================================================================
