---------------------------- MODULE SumsTheorems ----------------------------
(* Facts about Total, the sum of a function from a finite set to Nat.       *)
EXTENDS Sums, Integers, FunctionTheorems, FiniteSetTheorems, TLAPS

(* A finite function into the naturals has finitely many unit coins.        *)
LEMMA CoinsFinite ==
    ASSUME NEW S, IsFiniteSet(S), NEW f \in [S -> Nat]
    PROVE  IsFiniteSet(Coins(f))
PROOF
<1> DEFINE coin == [a \in S |-> {a} \X (1 .. f[a])]
           piles == {{a} \X (1 .. f[a]) : a \in S}
<1>1. coin \in Surjection(S, piles)
  BY DEF Surjection
<1>2. IsFiniteSet(piles)
  BY <1>1, FS_Surjection
<1>3. ASSUME NEW a \in S PROVE IsFiniteSet({a} \X (1 .. f[a]))
  <2>1. f[a] \in Int /\ 1 \in Int
    OBVIOUS
  <2>2. IsFiniteSet({a}) /\ IsFiniteSet(1 .. f[a])
    BY <2>1, FS_Singleton, FS_Interval
  <2> QED BY <2>2, FS_Product
<1>4. IsFiniteSet(UNION piles)
  BY <1>2, <1>3, FS_UNION
<1>5. Coins(f) = UNION piles
  BY DEF Coins
<1> QED BY <1>4, <1>5

(* A total is a natural number.                                             *)
LEMMA TotalType ==
    ASSUME NEW S, IsFiniteSet(S), NEW f \in [S -> Nat]
    PROVE  Total(f) \in Nat
BY CoinsFinite, FS_CardinalityType DEF Total

(* The coins at one point of a function.                                    *)
LEMMA PileSize ==
    ASSUME NEW a, NEW n \in Nat
    PROVE  IsFiniteSet({a} \X (1 .. n)) /\ Cardinality({a} \X (1 .. n)) = n
PROOF
<1>1. IsFiniteSet({a}) /\ Cardinality({a}) = 1
  BY FS_Singleton
<1>2. IsFiniteSet(1 .. n) /\ Cardinality(1 .. n) = n
  BY FS_Interval
<1>3. /\ IsFiniteSet({a} \X (1 .. n))
      /\ Cardinality({a} \X (1 .. n)) = Cardinality({a}) * Cardinality(1 .. n)
  BY <1>1, <1>2, FS_Product
<1>4. 1 * n = n
  OBVIOUS
<1> QED BY <1>1, <1>2, <1>3, <1>4

(* Changing the value at one point changes the total by the difference.     *)
LEMMA TotalUpdate ==
    ASSUME NEW S, IsFiniteSet(S), NEW f \in [S -> Nat], NEW g \in [S -> Nat],
           NEW a \in S, \A b \in S : b # a => g[b] = f[b]
    PROVE  Total(g) + f[a] = Total(f) + g[a]
PROOF
<1> DEFINE rest == Coins(f) \ ({a} \X (1 .. f[a]))
<1>1. DOMAIN f = S /\ DOMAIN g = S
  OBVIOUS
<1>2. rest = UNION {{b} \X (1 .. f[b]) : b \in S \ {a}}
  BY <1>1 DEF Coins
<1>3. Coins(f) = rest \cup ({a} \X (1 .. f[a]))
  BY <1>1 DEF Coins
<1>4. Coins(g) = rest \cup ({a} \X (1 .. g[a]))
  <2>1. Coins(g) = UNION {{b} \X (1 .. g[b]) : b \in S}
    BY <1>1 DEF Coins
  <2>2. rest = UNION {{b} \X (1 .. g[b]) : b \in S \ {a}}
    BY <1>2
  <2> QED BY <2>1, <2>2
<1>5. IsFiniteSet(rest)
  BY CoinsFinite, FS_Difference
<1>6. /\ rest \cap ({a} \X (1 .. f[a])) = {}
      /\ rest \cap ({a} \X (1 .. g[a])) = {}
  BY <1>2
<1>7. \A m \in Nat : rest \cap ({a} \X (1 .. m)) = {} =>
        Cardinality(rest \cup ({a} \X (1 .. m))) = Cardinality(rest) + m
  <2> SUFFICES ASSUME NEW m \in Nat, rest \cap ({a} \X (1 .. m)) = {}
               PROVE  Cardinality(rest \cup ({a} \X (1 .. m))) = Cardinality(rest) + m
    OBVIOUS
  <2> DEFINE pile == {a} \X (1 .. m)
  <2>1. IsFiniteSet(pile) /\ Cardinality(pile) = m
    BY PileSize
  <2>2. Cardinality(rest \cup pile) =
          Cardinality(rest) + Cardinality(pile) - Cardinality(rest \cap pile)
    BY <1>5, <2>1, FS_Union
  <2>3. Cardinality(rest) \in Nat
    BY <1>5, FS_CardinalityType
  <2>4. Cardinality(rest \cap pile) = 0
    BY FS_EmptySet
  <2> HIDE DEF pile, rest
  <2>5. Cardinality(rest \cup pile) = Cardinality(rest) + m
    BY <2>1, <2>2, <2>3, <2>4
  <2> QED BY <2>5 DEF pile
<1>8. Cardinality(rest) \in Nat
  BY <1>5, FS_CardinalityType
<1>9. f[a] \in Nat /\ g[a] \in Nat
  OBVIOUS
<1>10. Total(f) = Cardinality(rest) + f[a] /\ Total(g) = Cardinality(rest) + g[a]
  <2> HIDE DEF rest
  <2> QED BY <1>3, <1>4, <1>6, <1>7, <1>9 DEF Total
<1> HIDE DEF rest
<1> QED BY <1>8, <1>9, <1>10

(* Each value is at most the total.                                         *)
LEMMA TotalBounds ==
    ASSUME NEW S, IsFiniteSet(S), NEW f \in [S -> Nat], NEW a \in S
    PROVE  f[a] <= Total(f)
PROOF
<1> DEFINE g == [f EXCEPT ![a] = 0]
<1>1. g \in [S -> Nat] /\ g[a] = 0 /\ \A b \in S : b # a => g[b] = f[b]
  OBVIOUS
<1>2. Total(g) \in Nat /\ Total(f) \in Nat
  BY <1>1, TotalType
<1> HIDE DEF g
<1>3. Total(g) + f[a] = Total(f) + g[a]
  BY <1>1, TotalUpdate
<1> QED BY <1>1, <1>2, <1>3

(* Nothing adds up to nothing.                                              *)
LEMMA TotalZero ==
    ASSUME NEW S
    PROVE  Total([a \in S |-> 0]) = 0
PROOF
<1>1. Coins([a \in S |-> 0]) = {}
  BY DEF Coins
<1> QED BY <1>1, FS_EmptySet DEF Total
=============================================================================
