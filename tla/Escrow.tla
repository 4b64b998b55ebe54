------------------------------- MODULE Escrow -------------------------------
(***************************************************************************)
(* What an escrow promises, without saying who decides or when.  A deposit *)
(* is held once; it is released once, all of it, into what is owed; only   *)
(* what is owed is withdrawn; only the surplus is skimmed.                 *)
(***************************************************************************)
EXTENDS Integers, Sums

CONSTANT Deals

VARIABLES
    phase,      \* of a deal: "new", "held" or "closed"
    held,       \* of a deal: the tokens in escrow
    owed,       \* released and not yet withdrawn, all accounts together
    vault       \* tokens the escrow has

Init ==
    /\ phase = [d \in Deals |-> "new"]
    /\ held = [d \in Deals |-> 0]
    /\ owed = 0 /\ vault = 0

Deposit(d) ==
    /\ phase[d] = "new"
    /\ phase' = [phase EXCEPT ![d] = "held"]
    /\ \E n \in 1 .. vault' : /\ held' = [held EXCEPT ![d] = n]
                              /\ vault' = vault + n
    /\ UNCHANGED owed

Abandon(d) ==
    /\ phase[d] = "new"
    /\ phase' = [phase EXCEPT ![d] = "closed"]
    /\ UNCHANGED <<held, owed, vault>>

(* The whole of the deal becomes owed; n of what is owed may leave in the
   same step.                                                               *)
Release(d) ==
    /\ phase[d] = "held"
    /\ phase' = [phase EXCEPT ![d] = "closed"]
    /\ held' = [held EXCEPT ![d] = 0]
    /\ \E n \in 0 .. owed + held[d] : /\ owed' = owed + held[d] - n
                                      /\ vault' = vault - n

(* A payment the escrow makes to itself leaves its tokens where they are.   *)
Withdraw ==
    /\ \E n \in 1 .. owed : owed' = owed - n /\ vault' \in {vault, vault - n}
    /\ UNCHANGED <<phase, held>>

Skim ==
    /\ owed + Total(held) <= vault' /\ vault' < vault
    /\ UNCHANGED <<phase, held, owed>>

Receive ==
    /\ vault' > vault
    /\ UNCHANGED <<phase, held, owed>>

Next ==
    \/ \E d \in Deals : Deposit(d) \/ Abandon(d) \/ Release(d)
    \/ Withdraw
    \/ Skim
    \/ Receive

Spec == Init /\ [][Next]_<<phase, held, owed, vault>>
=============================================================================
