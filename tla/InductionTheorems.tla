------------------------- MODULE InductionTheorems ------------------------
(***************************************************************************)
(* Induction and recursion over numbers, for the proofs about definitions  *)
(* that are recursive.                                                     *)
(*                                                                         *)
(* A property is given as the set of the numbers that have it, so that no  *)
(* lemma here has an operator as its parameter; they rest on the minimum   *)
(* that every set of numbers has.                                          *)
(***************************************************************************)
EXTENDS SequencesExt, FiniteSetTheorems, SequenceTheorems, WellFoundedInduction, TLAPS

(* What zero has, and the successor of each number that has it, all        *)
(* numbers have.                                                           *)
LEMMA Induction ==
  ASSUME NEW A, 0 \in A, \A n \in Nat : n \in A => n + 1 \in A
  PROVE  Nat \subseteq A
<1> DEFINE T == Nat \ A
           R == OpToRel(<, Nat)
<1>1. IsWellFoundedOn(R, Nat)
  BY NatLessThanWellFounded
<1>2. ASSUME T # {} PROVE FALSE
  <2> HIDE DEF R
  <2>1. PICK x \in T : \A y \in T : <<y, x>> \notin R
    BY <1>1, <1>2, WFMin
  <2>2. x \in Nat /\ x # 0 /\ x - 1 \in Nat /\ x - 1 < x
    BY <2>1
  <2>3. x - 1 \in T
    BY <2>2, <2>1
  <2>4. <<x - 1, x>> \in R
    BY <2>2 DEF R, OpToRel
  <2> QED
    BY <2>1, <2>3, <2>4
<1> QED
  BY <1>2

(* A set of numbers has a least one.                                       *)
LEMMA Least ==
  ASSUME NEW A, A \subseteq Nat, A # {}
  PROVE  \E x \in A : \A y \in A : x <= y
<1> DEFINE R == OpToRel(<, Nat)
<1>1. IsWellFoundedOn(R, Nat)
  BY NatLessThanWellFounded
<1> HIDE DEF R
<1>2. PICK x \in A : \A y \in A : <<y, x>> \notin R
  BY <1>1, WFMin
<1>3. ASSUME NEW y \in A
      PROVE  x <= y
  <2>1. x \in Nat /\ y \in Nat /\ <<y, x>> \notin R
    BY <1>2
  <2>2. ~ y < x
    BY <2>1 DEF R, OpToRel
  <2> QED
    BY <2>1, <2>2
<1> QED
  BY <1>3

(* f starts at s0, and each value gives the next: F[n] takes the one at n  *)
(* to the one after it.                                                    *)
Iterates(f, S, s0, F) ==
  f \in [Nat -> S] /\ f[0] = s0 /\ \A n \in Nat : f[n + 1] = F[n][f[n]]

(* There is such a function.                                               *)
LEMMA Recursion ==
  ASSUME NEW S, NEW s0 \in S, NEW F \in [Nat -> [S -> S]]
  PROVE  \E f : Iterates(f, S, s0, F)
<1> DEFINE G(n) == {g \in [0 .. n -> S] :
                      g[0] = s0 /\ \A i \in 0 .. n - 1 : g[i + 1] = F[i][g[i]]}
           A == {n \in Nat : G(n) # {}}
<1>1. 0 \in A
  <2>1. [i \in 0 .. 0 |-> s0] \in G(0)
    OBVIOUS
  <2> QED
    BY <2>1
<1>2. ASSUME NEW n \in Nat, n \in A
      PROVE  n + 1 \in A
  <2>1. PICK g : g \in G(n)
    BY <1>2
  <2> DEFINE h == [i \in 0 .. n + 1 |-> IF i = n + 1 THEN F[n][g[n]] ELSE g[i]]
  <2>2. F[n][g[n]] \in S
    BY <2>1
  <2>3. h \in [0 .. n + 1 -> S] /\ h[0] = s0
    BY <2>1, <2>2
  <2>4. \A i \in 0 .. n : h[i + 1] = F[i][h[i]]
    <3> SUFFICES ASSUME NEW i \in 0 .. n
                 PROVE  h[i + 1] = F[i][h[i]]
      OBVIOUS
    <3>1. i + 1 \in 0 .. n + 1 /\ i \in 0 .. n + 1 /\ h[i] = g[i]
      OBVIOUS
    <3>2. CASE i = n
      BY <3>1, <3>2
    <3>3. CASE i # n
      <4>1. i \in 0 .. n - 1 /\ h[i + 1] = g[i + 1]
        BY <3>3
      <4> QED
        BY <2>1, <3>1, <4>1
    <3> QED
      BY <3>2, <3>3
  <2>5. n + 1 - 1 = n
    OBVIOUS
  <2> HIDE DEF h
  <2>6. h \in G(n + 1)
    BY <2>3, <2>4, <2>5
  <2>7. G(n + 1) # {}
    BY <2>6
  <2> HIDE DEF G
  <2> QED
    BY <2>7
<1>3. Nat \subseteq A
  <2> HIDE DEF A
  <2> QED
    BY <1>1, <1>2, Induction
<1>4. ASSUME NEW n \in Nat, NEW g \in G(n), NEW h \in G(n + 1)
      PROVE  h[n] = g[n]
  <2> DEFINE B == {i \in Nat : i <= n => h[i] = g[i]}
  <2>1. 0 \in B
    OBVIOUS
  <2>2. ASSUME NEW i \in Nat, i \in B
        PROVE  i + 1 \in B
    <3> SUFFICES ASSUME i + 1 <= n
                 PROVE  h[i + 1] = g[i + 1]
      OBVIOUS
    <3>1. h[i] = g[i] /\ i \in 0 .. n - 1 /\ i \in 0 .. (n + 1) - 1
      BY <2>2
    <3> QED
      BY <3>1
  <2>3. Nat \subseteq B
    <3> HIDE DEF B
    <3> QED
      BY <2>1, <2>2, Induction
  <2> QED
    BY <2>3
<1> DEFINE a(n) == CHOOSE g : g \in G(n)
           f == [n \in Nat |-> a(n)[n]]
<1>5. \A n \in Nat : a(n) \in G(n)
  <2> HIDE DEF G
  <2> QED
    BY <1>3
<1> HIDE DEF a
<1>6. f \in [Nat -> S]
  <2>1. \A n \in Nat : a(n)[n] \in S
    <3> SUFFICES ASSUME NEW n \in Nat
                 PROVE  a(n)[n] \in S
      OBVIOUS
    <3>1. a(n) \in [0 .. n -> S]
      BY <1>5
    <3> QED
      BY <3>1
  <2> QED
    BY <2>1
<1>7. f[0] = s0
  BY <1>5
<1>8. ASSUME NEW n \in Nat
      PROVE  f[n + 1] = F[n][f[n]]
  <2>1. n + 1 \in Nat /\ a(n + 1) \in G(n + 1) /\ a(n) \in G(n)
    BY <1>5
  <2>2. a(n + 1)[n] = a(n)[n]
    BY <1>4, <2>1
  <2>3. a(n + 1)[n + 1] = F[n][a(n + 1)[n]]
    <3>1. n \in 0 .. (n + 1) - 1
      OBVIOUS
    <3> QED
      BY <2>1, <3>1
  <2> QED
    BY <2>1, <2>2, <2>3
<1>9. Iterates(f, S, s0, F)
  BY <1>6, <1>7, <1>8 DEF Iterates
<1> HIDE DEF f
<1> QED
  BY <1>9

(* The same for a function whose values are of different types: S[n] is    *)
(* that of the value at n, and F[n] takes one in S[n] to one in S[n + 1].  *)
LEMMA TypedRecursion ==
  ASSUME NEW S, NEW s0 \in S[0], NEW F,
         \A n \in Nat : \A v \in S[n] : F[n][v] \in S[n + 1]
  PROVE  \E f : /\ f = [n \in Nat |-> f[n]] /\ f[0] = s0
                /\ \A n \in Nat : f[n] \in S[n] /\ f[n + 1] = F[n][f[n]]
<1> DEFINE T == UNION {S[n] : n \in Nat}
           G == [n \in Nat |-> [v \in T |-> IF v \in S[n] THEN F[n][v] ELSE s0]]
<1>1. s0 \in T
  OBVIOUS
<1>2. G \in [Nat -> [T -> T]]
  <2> SUFFICES ASSUME NEW n \in Nat, NEW v \in T
               PROVE  (IF v \in S[n] THEN F[n][v] ELSE s0) \in T
    OBVIOUS
  <2>1. CASE v \in S[n]
    <3>1. F[n][v] \in S[n + 1] /\ n + 1 \in Nat
      BY <2>1
    <3> QED
      BY <2>1, <3>1
  <2> QED
    BY <1>1, <2>1
<1> HIDE DEF T
<1>3. PICK f : Iterates(f, T, s0, G)
  <2> HIDE DEF G
  <2> QED
    BY <1>1, <1>2, Recursion
<1> DEFINE A == {n \in Nat : f[n] \in S[n]}
<1>4. \A n \in Nat : n \in A => f[n + 1] = F[n][f[n]]
  BY <1>3 DEF Iterates
<1>5. Nat \subseteq A
  <2>1. 0 \in A
    BY <1>3 DEF Iterates
  <2>2. \A n \in Nat : n \in A => n + 1 \in A
    BY <1>4
  <2> HIDE DEF A
  <2> QED
    BY <2>1, <2>2, Induction
<1>6. f = [n \in Nat |-> f[n]]
  BY <1>3 DEF Iterates
<1> QED
  BY <1>3, <1>4, <1>5, <1>6 DEF Iterates

(* A sequence of sequences over S, flattened, is one over S.               *)
LEMMA FlattenType ==
  ASSUME NEW S, NEW s \in Seq(Seq(S))
  PROVE  FlattenSeq(s) \in Seq(S)
<1> DEFINE n == Len(s)
<1>1. CASE n = 0
  BY <1>1 DEF FlattenSeq
<1>2. CASE n # 0
  <2> DEFINE Flat(g) == g = [i \in 1 .. n |-> IF i = 1 THEN s[i] ELSE g[i - 1] \o s[i]]
             F == [m \in Nat |-> [t \in Seq(S) |-> IF m + 2 \in 1 .. n THEN t \o s[m + 2] ELSE t]]
  <2>1. n \in Nat /\ n \in 1 .. n /\ 1 \in 1 .. n /\ \A i \in 1 .. n : s[i] \in Seq(S)
    BY <1>2
  <2>2. F \in [Nat -> [Seq(S) -> Seq(S)]]
    BY <2>1
  <2>3. PICK f \in [Nat -> Seq(S)] : f[0] = s[1] /\ \A m \in Nat : f[m + 1] = F[m][f[m]]
    <3>1. s[1] \in Seq(S)
      BY <2>1
    <3> HIDE DEF F
    <3>2. PICK f : Iterates(f, Seq(S), s[1], F)
      BY <2>2, <3>1, Recursion
    <3> QED
      BY <3>2 DEF Iterates
  <2> DEFINE g == [i \in 1 .. n |-> f[i - 1]]
  <2>4. ASSUME NEW i \in 1 .. n
        PROVE  g[i] = IF i = 1 THEN s[i] ELSE g[i - 1] \o s[i]
    <3>1. CASE i = 1
      BY <2>3, <3>1
    <3>2. CASE i # 1
      <4>1. i - 2 \in Nat /\ i - 2 + 1 = i - 1 /\ i - 1 \in 1 .. n /\ i - 2 + 2 = i
        BY <2>1, <3>2
      <4>2. f[i - 2 + 1] = F[i - 2][f[i - 2]]
        BY <2>3, <4>1
      <4>3. f[i - 2] \in Seq(S)
        BY <2>3, <4>1
      <4>4. F[i - 2][f[i - 2]] = f[i - 2] \o s[i - 2 + 2]
        BY <4>1, <4>3
      <4>5. g[i] = f[i - 1] /\ g[i - 1] = f[i - 2]
        BY <4>1
      <4> QED
        BY <3>2, <4>1, <4>2, <4>4, <4>5
    <3> QED
      BY <3>1, <3>2
  <2>5. Flat(g)
    BY <2>4
  <2>6. PICK h : Flat(h) /\ FlattenSeq(s) = h[n]
    <3> DEFINE h == CHOOSE h : Flat(h)
    <3>1. FlattenSeq(s) = h[n]
      BY <1>2 DEF FlattenSeq
    <3>2. Flat(h)
      <4> HIDE DEF Flat, g
      <4> QED
        BY <2>5
    <3> QED
      BY <3>1, <3>2
  <2> DEFINE B == {i \in Nat : i + 1 <= n => h[i + 1] \in Seq(S)}
  <2>7. 0 \in B
    BY <2>1, <2>6
  <2>8. ASSUME NEW i \in Nat, i \in B
        PROVE  i + 1 \in B
    <3> SUFFICES ASSUME i + 1 + 1 <= n
                 PROVE  h[i + 1 + 1] \in Seq(S)
      OBVIOUS
    <3> HIDE DEF n, Flat, g, F, B
    <3>1. PICK k \in 1 .. n : k = i + 1 + 1
      BY <2>1
    <3>2. k # 1 /\ k - 1 = i + 1 /\ i + 1 <= n
      BY <2>1, <3>1
    <3>3. h[k - 1] \in Seq(S) /\ s[k] \in Seq(S)
      BY <2>1, <2>8, <3>2 DEF B
    <3>4. h[k] = h[k - 1] \o s[k]
      BY <2>6, <3>2 DEF Flat
    <3> QED
      BY <3>1, <3>3, <3>4, ConcatProperties
  <2>9. Nat \subseteq B
    <3> HIDE DEF B
    <3> QED
      BY <2>7, <2>8, Induction
  <2>10. n - 1 \in Nat /\ n - 1 + 1 = n
    BY <2>1, <1>2
  <2>11. n - 1 \in B
    BY <2>9, <2>10
  <2>12. h[n - 1 + 1] \in Seq(S)
    <3>1. n - 1 + 1 <= n
      BY <2>10
    <3> QED
      BY <2>11, <3>1
  <2> QED
    BY <2>6, <2>10, <2>12
<1> QED
  BY <1>1, <1>2

(* Counting, for each number in a finite set, those below it orders the    *)
(* set without gaps: every rank up to its size is that of one of them.     *)
LEMMA Ranks ==
  ASSUME NEW I \in SUBSET Nat, IsFiniteSet(I)
  PROVE  /\ \A i \in I : Cardinality({j \in I : j < i}) \in 0 .. Cardinality(I) - 1
         /\ \A i, k \in I : i < k => Cardinality({j \in I : j < i}) < Cardinality({j \in I : j < k})
         /\ \A r \in 0 .. Cardinality(I) - 1 : \E i \in I : Cardinality({j \in I : j < i}) = r
<1> DEFINE below(i) == {j \in I : j < i}
           n == Cardinality(I)
           f == [i \in I |-> Cardinality(below(i))]
<1>1. n \in Nat
  BY FS_CardinalityType
<1>2. ASSUME NEW i \in I
      PROVE  IsFiniteSet(below(i)) /\ Cardinality(below(i)) \in Nat /\ Cardinality(below(i)) < n
  <2>1. below(i) \in SUBSET I /\ below(i) # I
    OBVIOUS
  <2> QED
    BY <1>1, <2>1, FS_Subset, FS_CardinalityType
<1>3. ASSUME NEW i \in I, NEW k \in I, i < k
      PROVE  Cardinality(below(i)) < Cardinality(below(k))
  <2>1. below(i) \in SUBSET below(k) /\ i \in below(k) /\ i \notin below(i)
    <3>1. i \in Nat /\ k \in Nat /\ \A j \in I : j \in Nat
      OBVIOUS
    <3>2. \A j \in I : j < i => j < k
      BY <1>3, <3>1
    <3>3. ~ i < i
      BY <3>1
    <3> QED
      BY <1>3, <3>2, <3>3
  <2>2. below(i) # below(k)
    BY <2>1
  <2> QED
    BY <1>2, <2>1, <2>2, FS_Subset
<1>4. f \in Injection(I, 0 .. n - 1)
  <2>1. f \in [I -> 0 .. n - 1]
    BY <1>1, <1>2
  <2>2. \A i, k \in I : i # k => f[i] # f[k]
    BY <1>2, <1>3
  <2> QED
    BY <2>1, <2>2 DEF Injection, IsInjective
<1>5. IsFiniteSet(0 .. n - 1) /\ Cardinality(0 .. n - 1) = n
  <2>1. n - 1 \in Int /\ 0 \in Int /\ (n - 1) - 0 + 1 = n /\ (0 > n - 1 <=> n = 0)
    BY <1>1
  <2> HIDE DEF n
  <2> QED
    BY <2>1, FS_Interval
<1>6. f \in Surjection(I, 0 .. n - 1)
  <2> HIDE DEF f, n
  <2> QED
    BY <1>4, <1>5, FS_Injection DEF n
<1>7. \A r \in 0 .. n - 1 : \E i \in I : f[i] = r
  BY <1>6 DEF Surjection
<1> QED
  BY <1>1, <1>2, <1>3, <1>7
=============================================================================
