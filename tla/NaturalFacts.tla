----------------------------- MODULE NaturalFacts -----------------------------
(***************************************************************************)
(* Facts about natural numbers that the proofs of several components need: *)
(* the least of a set, induction over one, functions defined by recursion, *)
(* and the elements of a finite set by how many are below them.            *)
(***************************************************************************)
EXTENDS Integers, FiniteSetTheorems, TLAPS

\* A non-empty set of natural numbers has a least element.
LEMMA LeastNatural ==
  ASSUME NEW S \in SUBSET Nat, S # {}
  PROVE  \E x \in S : \A y \in S : x <= y
<1> DEFINE F == {0 .. x : x \in S}
           R == StrictSubsetOrdering(Nat)
<1>1. \A x \in S : 0 .. x \in FiniteSubsetsOf(Nat)
  BY FS_Interval DEF FiniteSubsetsOf
<1>2. F \subseteq FiniteSubsetsOf(Nat) /\ F # {}
  BY <1>1
<1>3. IsWellFoundedOn(R, FiniteSubsetsOf(Nat))
  BY FS_StrictSubsetOrderingWellFounded
<1>4. PICK U \in F : \A V \in F : ~ (<<V, U>> \in R)
  <2> HIDE DEF F, R
  <2> QED BY <1>2, <1>3, WFMin
<1>5. PICK x \in S : U = 0 .. x
  BY <1>4
<1>6. ASSUME NEW y \in S, y < x
      PROVE  FALSE
  <2>1. 0 .. y \in F /\ 0 .. y \subseteq U /\ 0 .. y # U
    BY <1>5, <1>6
  <2>2. U \in SUBSET Nat /\ 0 .. y \in SUBSET Nat
    BY <1>5
  <2>3. <<0 .. y, U>> \in R
    BY <2>1, <2>2 DEF StrictSubsetOrdering
  <2> QED BY <1>4, <2>1, <2>3
<1> QED BY <1>6

\* Induction: a set of natural numbers with zero and every number's successor has all.
LEMMA AllNaturals ==
  ASSUME NEW S \in SUBSET Nat, 0 \in S, \A n \in S : n + 1 \in S
  PROVE  S = Nat
<1> SUFFICES ASSUME Nat \ S # {} PROVE FALSE
  OBVIOUS
<1>1. PICK x \in Nat \ S : \A y \in Nat \ S : x <= y
  <2>1. Nat \ S \in SUBSET Nat
    OBVIOUS
  <2> QED BY <2>1, LeastNatural
<1>2. x - 1 \in Nat /\ ~(x <= x - 1) /\ x = (x - 1) + 1
  BY <1>1
<1>3. x - 1 \in S
  BY <1>1, <1>2
<1> QED BY <1>1, <1>2, <1>3

\* The first n + 1 values of the function that starts at w and goes on by next.
Beginnings(T, w, next, n) ==
  {g \in [0..n -> T] : g[0] = w /\ \A k \in 0..(n - 1) : g[k + 1] = next[g[k]]}

\* Recursion: a function on the natural numbers is given by its first value and by the
\* one that follows each.
LEMMA IteratesExist ==
  ASSUME NEW T, NEW w \in T, NEW next \in [T -> T]
  PROVE  \E f \in [Nat -> T] : f[0] = w /\ \A n \in Nat : f[n + 1] = next[f[n]]
<1> DEFINE P(n) == Beginnings(T, w, next, n)
           S == {n \in Nat : P(n) # {}}
           U == {n \in Nat : \A m \in Nat : \A g \in P(n), h \in P(n + m) : g[n] = h[n]}
           f == [n \in Nat |-> (CHOOSE g \in P(n) : TRUE)[n]]
<1>1. S = Nat
  <2>1. 0 \in S
    <3> DEFINE g == [k \in 0..0 |-> w]
    <3>1. g \in P(0)
      BY DEF Beginnings
    <3> QED BY <3>1
  <2>2. ASSUME NEW n \in S
        PROVE  n + 1 \in S
    <3>1. PICK g \in [0..n -> T] : g[0] = w /\ \A k \in 0..(n - 1) : g[k + 1] = next[g[k]]
      BY DEF Beginnings
    <3> DEFINE h == [k \in 0..(n + 1) |-> IF k = n + 1 THEN next[g[n]] ELSE g[k]]
    <3>2. h \in [0..(n + 1) -> T] /\ h[0] = w
      <4>1. \A k \in 0..(n + 1) : k \in 0..n \/ k = n + 1
        OBVIOUS
      <4>2. next[g[n]] \in T
        OBVIOUS
      <4>3. \A k \in 0..(n + 1) : h[k] \in T
        BY <3>1, <4>1, <4>2
      <4> QED BY <3>1, <4>3
    <3>3. ASSUME NEW k \in 0..n
          PROVE  h[k + 1] = next[h[k]]
      <4>1. h[k] = g[k] /\ k + 1 \in 0..(n + 1)
        OBVIOUS
      <4>2. CASE k = n
        BY <4>1, <4>2
      <4>3. CASE k # n
        <5>1. k \in 0..(n - 1) /\ k + 1 # n + 1
          BY <4>3
        <5> QED BY <3>1, <4>1, <5>1
      <4> QED BY <4>2, <4>3
    <3>4. h \in P(n + 1)
      <4>1. (n + 1) - 1 = n
        OBVIOUS
      <4> HIDE DEF h
      <4> QED BY <3>2, <3>3, <4>1 DEF Beginnings
    <3> HIDE DEF h, P
    <3> QED BY <3>4
  <2> HIDE DEF S
  <2> QED BY <2>1, <2>2, AllNaturals DEF S
<1>2. U = Nat
  <2>1. 0 \in U
    BY DEF Beginnings
  <2>2. ASSUME NEW n \in U
        PROVE  n + 1 \in U
    <3> SUFFICES ASSUME NEW m \in Nat, NEW g \in P(n + 1), NEW h \in P((n + 1) + m)
                 PROVE  g[n + 1] = h[n + 1]
      OBVIOUS
    <3>1. n \in 0..((n + 1) - 1) /\ n \in 0..(((n + 1) + m) - 1)
      OBVIOUS
    <3>2. g[n + 1] = next[g[n]] /\ h[n + 1] = next[h[n]]
      BY <3>1 DEF Beginnings
    <3> DEFINE e == [k \in 0..n |-> g[k]]
    <3>3. e \in P(n)
      <4>1. g \in [0..(n + 1) -> T] /\ g[0] = w
        BY DEF Beginnings
      <4>2. \A k \in 0..n : g[k + 1] = next[g[k]]
        BY DEF Beginnings
      <4>3. e \in [0..n -> T] /\ e[0] = w
        BY <4>1
      <4>4. \A k \in 0..(n - 1) : e[k + 1] = next[e[k]]
        BY <4>2
      <4> HIDE DEF e
      <4> QED BY <4>3, <4>4 DEF Beginnings
    <3>4. e[n] = g[n]
      OBVIOUS
    <3>5. e[n] = h[n]
      <4>1. (n + 1) + m = n + (m + 1) /\ m + 1 \in Nat
        OBVIOUS
      <4>2. h \in P(n + (m + 1))
        BY <4>1
      <4>3. e[n] = g[n] /\ (\A d \in P(n), c \in P(n + (m + 1)) : d[n] = c[n])
        BY <3>4, <4>1
      <4> HIDE DEF e, P
      <4> QED BY <3>3, <4>2, <4>3
    <3> QED BY <3>2, <3>4, <3>5
  <2> HIDE DEF U
  <2> QED BY <2>1, <2>2, AllNaturals DEF U
<1>3. \A n \in Nat : (CHOOSE g \in P(n) : TRUE) \in P(n)
  <2>1. \A n \in Nat : P(n) # {}
    BY <1>1
  <2> HIDE DEF P
  <2> QED BY <2>1
<1>4. \A n \in Nat : \A m \in Nat : \A h \in P(n + m) : f[n] = h[n]
  <2> SUFFICES ASSUME NEW n \in Nat, NEW m \in Nat, NEW h \in P(n + m) PROVE f[n] = h[n]
    OBVIOUS
  <2>1. n \in U
    BY <1>2
  <2> HIDE DEF P
  <2> QED BY <1>3, <2>1
<1>5. f \in [Nat -> T]
  <2>1. \A n \in Nat : (CHOOSE g \in P(n) : TRUE)[n] \in T
    <3> SUFFICES ASSUME NEW n \in Nat PROVE (CHOOSE g \in P(n) : TRUE)[n] \in T
      OBVIOUS
    <3>1. P(n) \subseteq [0..n -> T] /\ n \in 0..n
      BY DEF Beginnings
    <3> HIDE DEF P
    <3> QED BY <1>3, <3>1
  <2> HIDE DEF P
  <2> QED BY <2>1
<1>6. f[0] = w
  <2>1. PICK h \in P(0) : f[0] = h[0]
    <3>1. f[0] = (CHOOSE g \in P(0) : TRUE)[0]
      OBVIOUS
    <3> HIDE DEF f, P
    <3> QED BY <1>3, <3>1
  <2> HIDE DEF f
  <2> QED BY <2>1 DEF Beginnings
<1>7. ASSUME NEW n \in Nat
      PROVE  f[n + 1] = next[f[n]]
  <2>1. PICK h \in P(n + 1) : TRUE
    BY <1>3
  <2>2. f[n] = h[n]
    <3>1. 1 \in Nat
      OBVIOUS
    <3> HIDE DEF f, P
    <3> QED BY <1>4, <2>1, <3>1
  <2>3. f[n + 1] = h[n + 1]
    <3>1. 0 \in Nat /\ n + 1 \in Nat /\ (n + 1) + 0 = n + 1
      OBVIOUS
    <3> HIDE DEF f, P
    <3> QED BY <1>4, <2>1, <3>1
  <2>4. h[n + 1] = next[h[n]]
    <3>1. n \in 0..((n + 1) - 1)
      OBVIOUS
    <3> QED BY <3>1, <2>1 DEF Beginnings
  <2> HIDE DEF f, P
  <2> QED BY <2>2, <2>3, <2>4
<1> HIDE DEF f
<1> QED BY <1>5, <1>6, <1>7

\* How many elements of U are below i.
Rank(U, i) == Cardinality({x \in U : x < i})

\* Exactly one element of a set has each rank below the set's size.
LEMMA Ranks ==
  ASSUME NEW U \in SUBSET Nat, IsFiniteSet(U)
  PROVE  /\ Cardinality(U) \in Nat
         /\ \A i \in U : Rank(U, i) \in 0..(Cardinality(U) - 1)
         /\ \A i, k \in U : i < k => Rank(U, i) < Rank(U, k)
         /\ \A j \in 0..(Cardinality(U) - 1) : \E i \in U : Rank(U, i) = j
<1> DEFINE below(i) == {x \in U : x < i}
           f == [i \in U |-> Rank(U, i)]
           R == 0..(Cardinality(U) - 1)
<1>1. Cardinality(U) \in Nat
  BY FS_CardinalityType
<1>2. \A i \in U : IsFiniteSet(below(i)) /\ Rank(U, i) \in Nat
  <2> SUFFICES ASSUME NEW i \in U PROVE IsFiniteSet(below(i)) /\ Rank(U, i) \in Nat
    OBVIOUS
  <2>1. IsFiniteSet(below(i))
    BY FS_Subset
  <2> QED BY <2>1, FS_CardinalityType DEF Rank
<1>3. \A i \in U : Rank(U, i) < Cardinality(U)
  <2> SUFFICES ASSUME NEW i \in U PROVE Rank(U, i) < Cardinality(U)
    OBVIOUS
  <2>1. below(i) \in SUBSET U /\ below(i) # U
    OBVIOUS
  <2>2. Cardinality(below(i)) <= Cardinality(U) /\ Cardinality(below(i)) # Cardinality(U)
    <3> HIDE DEF below
    <3> QED BY <2>1, FS_Subset
  <2>3. Rank(U, i) = Cardinality(below(i))
    BY DEF Rank
  <2> HIDE DEF below
  <2> QED BY <1>1, <1>2, <2>2, <2>3
<1>4. ASSUME NEW i \in U, NEW k \in U, i < k
      PROVE  Rank(U, i) < Rank(U, k)
  <2>1. below(i) \in SUBSET below(k) /\ below(i) # below(k)
    <3>1. i \in below(k) /\ ~(i \in below(i))
      BY <1>4
    <3>2. \A x \in U : x < i => x < k
      BY <1>4
    <3>3. below(i) \subseteq below(k)
      BY <3>2
    <3> QED BY <3>1, <3>3
  <2>2. Cardinality(below(i)) <= Cardinality(below(k)) /\ Cardinality(below(i)) # Cardinality(below(k))
    <3>1. IsFiniteSet(below(k))
      BY <1>2
    <3> HIDE DEF below
    <3> QED BY <2>1, <3>1, FS_Subset
  <2>3. Rank(U, i) = Cardinality(below(i)) /\ Rank(U, k) = Cardinality(below(k))
    BY DEF Rank
  <2> HIDE DEF below
  <2> QED BY <1>2, <2>2, <2>3
<1>5. \A i \in U : Rank(U, i) \in R
  <2> SUFFICES ASSUME NEW i \in U PROVE Rank(U, i) \in R
    OBVIOUS
  <2>1. Rank(U, i) \in Nat /\ Rank(U, i) < Cardinality(U)
    BY <1>2, <1>3
  <2> QED BY <1>1, <2>1
<1>6. f \in Injection(U, R)
  <2>1. f \in [U -> R]
    BY <1>5
  <2>2. \A i, k \in U : f[i] = f[k] => i = k
    <3>1. ASSUME NEW i \in U, NEW k \in U, i < k PROVE f[i] # f[k]
      <4>1. Rank(U, i) < Rank(U, k) /\ Rank(U, i) \in Nat /\ Rank(U, k) \in Nat
        BY <1>2, <1>4, <3>1
      <4> QED BY <4>1
    <3>2. \A i, k \in U : i < k \/ k < i \/ i = k
      OBVIOUS
    <3> HIDE DEF f
    <3> QED BY <3>1, <3>2
  <2> HIDE DEF f, R
  <2> QED BY <2>1, <2>2 DEF Injection, IsInjective
<1>7. IsFiniteSet(R) /\ Cardinality(R) = Cardinality(U)
  <2>1. 0 \in Int /\ Cardinality(U) - 1 \in Int
    BY <1>1
  <2> QED BY <1>1, <2>1, FS_Interval
<1>8. f \in Surjection(U, R)
  <2> HIDE DEF f, R
  <2> QED BY <1>6, <1>7, FS_Injection
<1>9. \A j \in R : \E i \in U : Rank(U, i) = j
  <2>1. \A j \in R : \E i \in U : f[i] = j
    <3> HIDE DEF f, R
    <3> QED BY <1>8 DEF Surjection
  <2> QED BY <2>1
<1> QED BY <1>1, <1>4, <1>5, <1>9
=============================================================================
