--------------------------- MODULE Totals_proofs ----------------------------
(***************************************************************************)
(* Facts about sums.  A sum counts coins, so that they follow from facts   *)
(* about the cardinality of finite sets, without induction.                *)
(***************************************************************************)
EXTENDS Totals, Integers, Functions, FiniteSetTheorems, TLAPS

Slice(f, x) == {x} \X (1 .. f[x])

\* As many coins lie at x as f[x] says.
LEMMA SliceSize ==
  ASSUME NEW f, NEW x, f[x] \in Nat
  PROVE  IsFiniteSet(Slice(f, x)) /\ Cardinality(Slice(f, x)) = f[x]
<1> DEFINE one   == {x}
           coins == 1 .. f[x]
<1>1. IsFiniteSet(one) /\ Cardinality(one) = 1
  BY FS_Singleton
<1>2. IsFiniteSet(coins) /\ Cardinality(coins) = f[x]
  <2>1. 1 \in Int /\ f[x] \in Int
    OBVIOUS
  <2>2. /\ IsFiniteSet(coins)
        /\ Cardinality(coins) = IF 1 > f[x] THEN 0 ELSE f[x] - 1 + 1
    BY <2>1, FS_Interval
  <2> QED
    BY <2>2
<1>3. Slice(f, x) = one \X coins
  BY DEF Slice
<1> HIDE DEF one, coins
<1>4. /\ IsFiniteSet(one \X coins)
      /\ Cardinality(one \X coins) = Cardinality(one) * Cardinality(coins)
  BY <1>1, <1>2, FS_Product, Zenon
<1> QED
  BY <1>1, <1>2, <1>3, <1>4

\* Disjoint finite sets add up.
LEMMA DisjointUnion ==
  ASSUME NEW A, IsFiniteSet(A), NEW B, IsFiniteSet(B), A \cap B = {}
  PROVE  Cardinality(A \cup B) = Cardinality(A) + Cardinality(B)
<1>1. Cardinality(A \cup B) = Cardinality(A) + Cardinality(B) - Cardinality(A \cap B)
  BY FS_Union, Zenon
<1>2. Cardinality(A \cap B) = 0
  BY FS_EmptySet
<1>3. Cardinality(A) \in Nat /\ Cardinality(B) \in Nat
  BY FS_CardinalityType, Zenon
<1> QED
  BY <1>1, <1>2, <1>3

\* A sum over finitely many values is a number.
LEMMA CoinsFinite ==
  ASSUME NEW S, IsFiniteSet(S), NEW f \in [S -> Nat]
  PROVE  IsFiniteSet(Coins(f)) /\ Total(f) \in Nat
<1> DEFINE slices == {Slice(f, x) : x \in S}
           g      == [x \in S |-> Slice(f, x)]
<1>1. g \in Surjection(S, slices)
  BY DEF Surjection
<1>2. IsFiniteSet(slices)
  BY <1>1, FS_Surjection
<1>3. \A T \in slices : IsFiniteSet(T)
  BY SliceSize
<1>4. Coins(f) = UNION slices
  BY DEF Coins, Slice
<1> HIDE DEF slices, g
<1>5. IsFiniteSet(Coins(f))
  BY <1>2, <1>3, <1>4, FS_UNION
<1> QED
  BY <1>5, FS_CardinalityType DEF Total

Put(f, x, v) == [f EXCEPT ![x] = v]

\* Changing one value changes the sum by as much.
LEMMA TotalUpdate ==
  ASSUME NEW S, IsFiniteSet(S), NEW f \in [S -> Nat], NEW x \in S, NEW v \in Nat
  PROVE  Total(Put(f, x, v)) + f[x] = Total(f) + v
<1> DEFINE g    == [f EXCEPT ![x] = v]
           rest == {p \in Coins(f) : p[1] # x}
<1>1. g \in [S -> Nat] /\ g[x] = v /\ f[x] \in Nat
  OBVIOUS
<1>2. IsFiniteSet(Coins(f))
  BY CoinsFinite
<1>3. IsFiniteSet(rest) /\ Cardinality(rest) \in Nat
  BY <1>2, FS_Subset, FS_CardinalityType
<1>4. Coins(f) = rest \cup Slice(f, x) /\ rest \cap Slice(f, x) = {}
  BY DEF Coins, Slice
<1>5. Coins(g) = rest \cup Slice(g, x) /\ rest \cap Slice(g, x) = {}
  BY DEF Coins, Slice
<1> HIDE DEF g, rest
<1>6. Total(f) = Cardinality(rest) + f[x]
  <2>1. IsFiniteSet(Slice(f, x)) /\ Cardinality(Slice(f, x)) = f[x]
    BY <1>1, SliceSize
  <2>2. Cardinality(Coins(f)) = Cardinality(rest) + Cardinality(Slice(f, x))
    BY <1>3, <1>4, <2>1, DisjointUnion, Zenon
  <2> QED
    BY <2>1, <2>2 DEF Total
<1>7. Total(g) = Cardinality(rest) + v
  <2>1. IsFiniteSet(Slice(g, x)) /\ Cardinality(Slice(g, x)) = v
    BY <1>1, SliceSize
  <2>2. Cardinality(Coins(g)) = Cardinality(rest) + Cardinality(Slice(g, x))
    BY <1>3, <1>5, <2>1, DisjointUnion, Zenon
  <2> QED
    BY <2>1, <2>2 DEF Total
<1> QED
  BY <1>1, <1>3, <1>6, <1>7 DEF g, Put

\* A sum of nothing but zeros is zero.
LEMMA TotalZero ==
  ASSUME NEW S, NEW f \in [S -> Nat], \A x \in S : f[x] = 0
  PROVE  Total(f) = 0
<1>1. \A x \in S : 1 .. f[x] = {}
  OBVIOUS
<1>2. Coins(f) = {}
  BY <1>1 DEF Coins
<1> QED
  BY <1>2, FS_EmptySet DEF Total

\* No value is greater than the sum.
LEMMA TotalBound ==
  ASSUME NEW S, IsFiniteSet(S), NEW f \in [S -> Nat], NEW x \in S
  PROVE  f[x] <= Total(f)
<1>1. Put(f, x, 0) \in [S -> Nat]
  BY DEF Put
<1>2. Total(Put(f, x, 0)) \in Nat
  BY <1>1, CoinsFinite
<1>3. Total(f) \in Nat
  BY CoinsFinite
<1>4. Total(Put(f, x, 0)) + f[x] = Total(f) + 0
  BY TotalUpdate
<1>5. f[x] \in Nat
  OBVIOUS
<1> QED
  BY <1>2, <1>3, <1>4, <1>5

\* A sum whose values are among those of another, each at a place of its own,
\* is not greater.
LEMMA TotalEmbeds ==
  ASSUME NEW S, NEW T, IsFiniteSet(T), NEW f \in [S -> Nat], NEW g \in [T -> Nat],
         NEW h,
         \A x \in S : f[x] > 0 => h[x] \in T /\ f[x] <= g[h[x]],
         \A x, y \in S : f[x] > 0 /\ f[y] > 0 /\ h[x] = h[y] => x = y
  PROVE  Total(f) <= Total(g)
<1> DEFINE e == [p \in Coins(f) |-> <<h[p[1]], p[2]>>]
<1>1. \A p \in Coins(f) : \E x \in S : \E n \in 1 .. f[x] : p = <<x, n>>
  BY DEF Coins
<1>2. \A p \in Coins(f) : e[p] \in Coins(g)
  <2> SUFFICES ASSUME NEW p \in Coins(f) PROVE <<h[p[1]], p[2]>> \in Coins(g)
    OBVIOUS
  <2>1. PICK x \in S : \E n \in 1 .. f[x] : p = <<x, n>>
    BY <1>1
  <2>2. /\ f[x] \in Nat /\ f[x] > 0
        /\ p = <<x, p[2]>> /\ p[1] = x /\ p[2] \in 1 .. f[x]
    BY <2>1
  <2>3. h[x] \in T /\ f[x] <= g[h[x]] /\ g[h[x]] \in Nat
    BY <2>2
  <2>4. p[2] \in 1 .. g[h[x]]
    BY <2>2, <2>3
  <2>5. DOMAIN g = T
    OBVIOUS
  <2>6. <<h[x], p[2]>> \in {h[x]} \X (1 .. g[h[x]])
    BY <2>4
  <2> QED
    BY <2>2, <2>3, <2>5, <2>6 DEF Coins
<1>3. \A p, q \in Coins(f) : e[p] = e[q] => p = q
  <2> SUFFICES ASSUME NEW p \in Coins(f), NEW q \in Coins(f),
                      <<h[p[1]], p[2]>> = <<h[q[1]], q[2]>>
               PROVE  p = q
    OBVIOUS
  <2>1. PICK x \in S : \E n \in 1 .. f[x] : p = <<x, n>>
    BY <1>1
  <2>2. PICK y \in S : \E n \in 1 .. f[y] : q = <<y, n>>
    BY <1>1
  <2>3. /\ f[x] > 0 /\ f[y] > 0 /\ h[x] = h[y]
        /\ p = <<x, p[2]>> /\ q = <<y, q[2]>> /\ p[2] = q[2]
    BY <2>1, <2>2
  <2> QED
    BY <2>3
<1>4. e \in Injection(Coins(f), Coins(g))
  <2>1. e \in [Coins(f) -> Coins(g)]
    BY <1>2
  <2> QED
    BY <1>3, <2>1 DEF Injection, IsInjective
<1>5. IsFiniteSet(Coins(g))
  BY CoinsFinite
<1> QED
  BY <1>4, <1>5, FS_Injection DEF Total

\* A sum of smaller values is not greater.
LEMMA TotalMonotone ==
  ASSUME NEW S, IsFiniteSet(S), NEW f \in [S -> Nat], NEW g \in [S -> Nat],
         \A x \in S : f[x] <= g[x]
  PROVE  Total(f) <= Total(g)
<1> DEFINE h == [x \in S |-> x]
<1>1. \A x \in S : f[x] > 0 => h[x] \in S /\ f[x] <= g[h[x]]
  OBVIOUS
<1>2. \A x, y \in S : f[x] > 0 /\ f[y] > 0 /\ h[x] = h[y] => x = y
  OBVIOUS
<1> HIDE DEF h
<1> QED
  BY <1>1, <1>2, TotalEmbeds

\* A sum of values of k at most is at most k for each of them.
LEMMA TotalCap ==
  ASSUME NEW S, IsFiniteSet(S), NEW f \in [S -> Nat], NEW k \in Nat,
         \A x \in S : f[x] <= k
  PROVE  Total(f) <= Cardinality(S) * k
<1> DEFINE K == 1 .. k
<1>1. IsFiniteSet(K) /\ Cardinality(K) = k
  <2>1. 1 \in Int /\ k \in Int
    OBVIOUS
  <2>2. IsFiniteSet(K) /\ Cardinality(K) = IF 1 > k THEN 0 ELSE k - 1 + 1
    BY <2>1, FS_Interval
  <2> QED
    BY <2>2
<1>2. Coins(f) \subseteq S \X K
  BY DEF Coins
<1> HIDE DEF K
<1>3. /\ IsFiniteSet(S \X K)
      /\ Cardinality(S \X K) = Cardinality(S) * Cardinality(K)
  BY <1>1, FS_Product, Zenon
<1>4. Cardinality(Coins(f)) <= Cardinality(S \X K)
  BY <1>2, <1>3, FS_Subset
<1> QED
  BY <1>1, <1>3, <1>4 DEF Total

\* One more value adds itself to the sum.
LEMMA TotalExtend ==
  ASSUME NEW S, IsFiniteSet(S), NEW x, x \notin S,
         NEW f \in [S -> Nat], NEW g \in [S \cup {x} -> Nat],
         \A y \in S : g[y] = f[y]
  PROVE  Total(g) = Total(f) + g[x]
<1>1. IsFiniteSet(Coins(f))
  BY CoinsFinite
<1>2. g[x] \in Nat
  OBVIOUS
<1>3. IsFiniteSet(Slice(g, x)) /\ Cardinality(Slice(g, x)) = g[x]
  BY <1>2, SliceSize
<1>4. Coins(g) = Coins(f) \cup Slice(g, x)
  <2>1. DOMAIN g = S \cup {x} /\ DOMAIN f = S
    OBVIOUS
  <2>2. \A y \in S : {y} \X (1 .. g[y]) = {y} \X (1 .. f[y])
    OBVIOUS
  <2>3. Coins(g) = UNION {{y} \X (1 .. g[y]) : y \in S \cup {x}}
    BY <2>1 DEF Coins
  <2>4. Coins(f) = UNION {{y} \X (1 .. f[y]) : y \in S}
    BY <2>1 DEF Coins
  <2> QED
    BY <2>2, <2>3, <2>4 DEF Slice
<1>5. Coins(f) \cap Slice(g, x) = {}
  BY DEF Coins, Slice
<1> QED
  BY <1>1, <1>3, <1>4, <1>5, DisjointUnion, Zenon DEF Total
=============================================================================
