-------------------------------- MODULE Sums --------------------------------
(***************************************************************************)
(* The total of a function from a finite set to the naturals, written as   *)
(* the number of its unit coins: <<a, i>> is the i-th coin of a.  The      *)
(* contracts keep running totals next to per-account and per-job amounts;  *)
(* this is the figure those totals are compared with.  A cardinality needs *)
(* no recursion, so the same definition is evaluated by TLC and reasoned   *)
(* about by TLAPS.                                                         *)
(***************************************************************************)
EXTENDS Naturals, FiniteSets

Coins(f) == UNION {{a} \X (1 .. f[a]) : a \in DOMAIN f}

Total(f) == Cardinality(Coins(f))
=============================================================================
