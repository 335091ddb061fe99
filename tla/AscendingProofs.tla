--------------------------- MODULE AscendingProofs ---------------------------
(***************************************************************************)
(* What the other proofs need of finite sets of numbers: induction, the    *)
(* largest element, and the ascending order.                               *)
(***************************************************************************)
EXTENDS Ascending, Integers, Sequences, SequencesExt, FunctionTheorems,
        FiniteSetTheorems, TLAPS

\* Induction over the numbers, for a set of them.
LEMMA NatSetInduction ==
  ASSUME NEW S, 0 \in S, \A n \in Nat : n \in S => n + 1 \in S
  PROVE  Nat \subseteq S
<1> DEFINE T == Nat \ S
<1>1. SUFFICES ASSUME T # {} PROVE FALSE
  OBVIOUS
<1>2. PICK x \in T : \A y \in T : ~ (<<y, x>> \in OpToRel(<, Nat))
  <2>1. T \subseteq Nat
    OBVIOUS
  <2> HIDE DEF T
  <2>2. QED
    BY <1>1, <2>1, NatLessThanWellFounded, WFMin
<1>3. \A y \in Nat : y < x => y \in S
  BY <1>2 DEF OpToRel
<1>4. x # 0 /\ x \in Nat
  OBVIOUS
<1>5. x - 1 \in Nat /\ x - 1 < x
  BY <1>4
<1>6. x - 1 \in S
  BY <1>3, <1>5
<1>7. (x - 1) + 1 \in S
  BY <1>5, <1>6
<1>8. QED
  BY <1>4, <1>7

\* A rule that has a next value for every value, and a function that follows it
\* from a base.
GoesOn(R, S, N) == \A n \in 1..N, x \in S : \E y \in S : <<n, x, y>> \in R

Followed(R, S, N, base) ==
  \E g \in [0..N -> S] : /\ g[0] = base
                         /\ \A n \in 1..N : <<n, g[n - 1], g[n]>> \in R

\* A function that goes on from its value at the number before exists.
LEMMA RecursionExists ==
  ASSUME NEW N \in Nat, NEW S, NEW base \in S, NEW R, GoesOn(R, S, N)
  PROVE  Followed(R, S, N, base)
<1> USE DEF GoesOn, Followed
<1> DEFINE Rule(g, m) == g[0] = base /\ \A n \in 1..m : <<n, g[n - 1], g[n]>> \in R
           T == {m \in Nat : m <= N => \E g \in [0..m -> S] : Rule(g, m)}
<1>1. 0 \in T
  <2>1. PICK g : g = [n \in 0..0 |-> base]
    OBVIOUS
  <2>2. g \in [0..0 -> S] /\ Rule(g, 0)
    BY <2>1
  <2>3. QED
    BY <2>2
<1>2. ASSUME NEW m \in Nat, m \in T
      PROVE  m + 1 \in T
  <2>1. SUFFICES ASSUME m + 1 <= N
                 PROVE  \E g \in [0..(m + 1) -> S] : Rule(g, m + 1)
    OBVIOUS
  <2>2. PICK g \in [0..m -> S] : Rule(g, m)
    BY <1>2, <2>1
  <2>3. PICK e \in S : <<m + 1, g[m], e>> \in R
    <3>1. g[m] \in S /\ m + 1 \in 1..N
      BY <2>1, <2>2
    <3>2. QED
      BY <3>1
  <2>4. PICK h : h = [n \in 0..(m + 1) |-> IF n = m + 1 THEN e ELSE g[n]]
    OBVIOUS
  <2>5. \A n \in 0..(m + 1) : n # m + 1 => n \in 0..m
    OBVIOUS
  <2>6. h \in [0..(m + 1) -> S] /\ h[0] = base
    BY <2>2, <2>3, <2>4, <2>5
  <2>7. ASSUME NEW n \in 1..(m + 1)
        PROVE  <<n, h[n - 1], h[n]>> \in R
    <3>1. CASE n = m + 1
      <4>1. h[n] = e /\ n - 1 = m /\ m \in 0..(m + 1) /\ m # m + 1
        BY <2>4, <3>1
      <4>2. h[m] = g[m]
        BY <2>4, <4>1
      <4>3. QED
        BY <2>3, <3>1, <4>1, <4>2
    <3>2. CASE n # m + 1
      <4>1. /\ n \in 1..m /\ n \in 0..(m + 1)
            /\ n - 1 \in 0..(m + 1) /\ n - 1 # m + 1
        BY <3>2
      <4>2. h[n] = g[n] /\ h[n - 1] = g[n - 1]
        BY <2>4, <3>2, <4>1
      <4>3. QED
        BY <2>2, <4>1, <4>2
    <3>3. QED
      BY <3>1, <3>2
  <2>8. QED
    BY <2>6, <2>7
<1>3. N \in T
  <2> HIDE DEF T
  <2>1. QED
    BY <1>1, <1>2, NatSetInduction
<1>4. QED
  BY <1>3

\* A set of numbers has a smallest one.
LEMMA SmallestExists ==
  ASSUME NEW S \in SUBSET Nat, S # {}
  PROVE  \E m \in S : \A i \in S : m <= i
<1>1. PICK m \in S : \A i \in S : ~ (<<i, m>> \in OpToRel(<, Nat))
  BY NatLessThanWellFounded, WFMin
<1>2. \A i \in S : ~ (i < m)
  BY <1>1 DEF OpToRel
<1>3. QED
  BY <1>2

\* A finite set of numbers has a largest one.
LEMMA LargestExists ==
  ASSUME NEW S \in SUBSET Nat, IsFiniteSet(S), S # {}
  PROVE  \E m \in S : \A i \in S : i <= m
<1> DEFINE N == {n \in Nat : \A U \in SUBSET S :
                   Cardinality(U) = n /\ U # {} => \E m \in U : \A i \in U : i <= m}
<1>1. 0 \in N
  <2>1. ASSUME NEW U \in SUBSET S, Cardinality(U) = 0
        PROVE  U = {}
    BY <2>1, FS_Subset, FS_EmptySet
  <2>2. QED
    BY <2>1
<1>2. ASSUME NEW n \in Nat, n \in N
      PROVE  n + 1 \in N
  <2>1. SUFFICES ASSUME NEW U \in SUBSET S, Cardinality(U) = n + 1, U # {}
                 PROVE  \E m \in U : \A i \in U : i <= m
    OBVIOUS
  <2>2. PICK x \in U : TRUE
    BY <2>1
  <2>3. IsFiniteSet(U)
    BY FS_Subset
  <2>4. Cardinality(U \ {x}) = (n + 1) - 1
    BY <2>1, <2>3, FS_RemoveElement
  <2>5. CASE U \ {x} = {}
    BY <2>5
  <2>6. CASE U \ {x} # {}
    <3>1. PICK m \in U \ {x} : \A i \in U \ {x} : i <= m
      <4>1. U \ {x} \in SUBSET S /\ Cardinality(U \ {x}) = n
        BY <2>4
      <4>2. QED
        BY <1>2, <2>6, <4>1
    <3>2. CASE x <= m
      BY <3>1, <3>2
    <3>3. CASE m < x
      <4>1. \A i \in U : i <= x
        BY <3>1, <3>3
      <4>2. QED
        BY <4>1
    <3>4. QED
      BY <3>2, <3>3
  <2>7. QED
    BY <2>5, <2>6
<1>3. Nat \subseteq N
  <2> HIDE DEF N
  <2>1. QED
    BY <1>1, <1>2, NatSetInduction
<1>4. Cardinality(S) \in N
  BY <1>3, FS_CardinalityType
<1>5. QED
  BY <1>4

\* Below is monotone, and strictly so on the elements.
LEMMA BelowLess ==
  ASSUME NEW S \in SUBSET Nat, IsFiniteSet(S), NEW i \in S, NEW j \in S
  PROVE  /\ Cardinality(Below(S, i)) \in 0..(Cardinality(S) - 1)
         /\ i < j => Cardinality(Below(S, i)) < Cardinality(Below(S, j))
<1>1. IsFiniteSet(Below(S, i)) /\ IsFiniteSet(Below(S, j))
  <2>1. Below(S, i) \in SUBSET S /\ Below(S, j) \in SUBSET S
    BY DEF Below
  <2>2. QED
    BY <2>1, FS_Subset
<1>2. Cardinality(Below(S, i)) \in Nat /\ Cardinality(Below(S, j)) \in Nat
  BY <1>1, FS_CardinalityType
<1>3. Cardinality(Below(S, i)) < Cardinality(S)
  <2>1. Below(S, i) \in SUBSET S /\ i \notin Below(S, i)
    BY DEF Below
  <2>2. Cardinality(Below(S, i)) <= Cardinality(S) /\ Cardinality(S) \in Nat
    BY <2>1, FS_Subset, FS_CardinalityType
  <2>3. Cardinality(Below(S, i)) # Cardinality(S)
    BY <2>1, FS_Subset
  <2>4. QED
    BY <1>2, <2>2, <2>3
<1>4. ASSUME i < j
      PROVE  Cardinality(Below(S, i)) < Cardinality(Below(S, j))
  <2>0. \A k \in S : k < i => k < j
    BY <1>4
  <2>1. Below(S, i) \in SUBSET Below(S, j)
    BY <2>0 DEF Below
  <2>2. i \in Below(S, j) /\ i \notin Below(S, i)
    BY <1>4 DEF Below
  <2>3. Cardinality(Below(S, i)) <= Cardinality(Below(S, j))
    BY <1>1, <2>1, FS_Subset
  <2>4. Cardinality(Below(S, i)) # Cardinality(Below(S, j))
    BY <1>1, <2>1, <2>2, FS_Subset
  <2>5. QED
    BY <1>2, <2>3, <2>4
<1>5. QED
  BY <1>2, <1>3, <1>4, FS_CardinalityType

\* Ascending(S) runs through S, each element once and in its order.
LEMMA AscendingOrder ==
  ASSUME NEW S \in SUBSET Nat, IsFiniteSet(S)
  PROVE  /\ Cardinality(S) \in Nat
         /\ Ascending(S) \in [1..Cardinality(S) -> S]
         /\ \A k \in 1..Cardinality(S) :
              Cardinality(Below(S, Ascending(S)[k])) = k - 1
         /\ \A i \in S : /\ Cardinality(Below(S, i)) + 1 \in 1..Cardinality(S)
                         /\ Ascending(S)[Cardinality(Below(S, i)) + 1] = i
<1> DEFINE n == Cardinality(S)
           g == [i \in S |-> Cardinality(Below(S, i))]
<1>1. n \in Nat /\ 0 \in Int /\ n - 1 \in Int
  BY FS_CardinalityType
<1>2. g \in [S -> 0..(n - 1)]
  BY BelowLess
<1>3. \A i, j \in S : g[i] = g[j] => i = j
  <2>1. ASSUME NEW i \in S, NEW j \in S, i < j
        PROVE  g[i] # g[j]
    <3>1. Cardinality(Below(S, i)) < Cardinality(Below(S, j))
      BY <2>1, BelowLess
    <3>2. Cardinality(Below(S, i)) \in 0..(n - 1) /\ Cardinality(Below(S, j)) \in 0..(n - 1)
      BY BelowLess
    <3>3. QED
      BY <1>1, <3>1, <3>2
  <2>2. ASSUME NEW i \in S, NEW j \in S, g[i] = g[j]
        PROVE  i = j
    <3>1. i < j \/ j < i \/ i = j
      OBVIOUS
    <3>2. QED
      BY <2>1, <2>2, <3>1
  <2>3. QED
    BY <2>2
<1>4. g \in Injection(S, 0..(n - 1))
  BY <1>2, <1>3 DEF Injection, IsInjective
<1>5. IsFiniteSet(0..(n - 1)) /\ Cardinality(0..(n - 1)) = n
  BY <1>1, FS_Interval
<1>6. g \in Surjection(S, 0..(n - 1))
  BY <1>4, <1>5, FS_Injection
<1>7. \A k \in 0..(n - 1) : \E i \in S : g[i] = k
  <2> HIDE DEF g, n
  <2>1. QED
    BY <1>6, Fun_SurjectionProperties
<1>8. ASSUME NEW k \in 1..n
      PROVE  /\ Ascending(S)[k] \in S
             /\ Cardinality(Below(S, Ascending(S)[k])) = k - 1
  <2>1. k - 1 \in 0..(n - 1)
    BY <1>1
  <2>2. \E i \in S : Cardinality(Below(S, i)) = k - 1
    BY <1>7, <2>1
  <2>3. QED
    BY <2>2 DEF Ascending
<1>9. Ascending(S) \in [1..n -> S]
  <2>1. Ascending(S) = [k \in 1..n |-> Ascending(S)[k]]
    BY DEF Ascending
  <2>2. QED
    BY <1>8, <2>1
<1>10. ASSUME NEW i \in S
       PROVE  /\ Cardinality(Below(S, i)) + 1 \in 1..n
              /\ Ascending(S)[Cardinality(Below(S, i)) + 1] = i
  <2>1. PICK k \in 1..n : k = Cardinality(Below(S, i)) + 1
    BY <1>1, BelowLess
  <2>2. Cardinality(Below(S, Ascending(S)[k])) = Cardinality(Below(S, i))
    <3>1. Cardinality(Below(S, i)) \in 0..(n - 1)
      BY BelowLess
    <3>2. QED
      BY <1>1, <1>8, <2>1, <3>1
  <2>3. Ascending(S)[k] = i
    BY <1>3, <1>8, <2>2
  <2>4. QED
    BY <2>1, <2>3
<1>11. QED
  BY <1>1, <1>8, <1>9, <1>10

\* It is sorted, and no element comes twice.
LEMMA AscendingSorted ==
  ASSUME NEW S \in SUBSET Nat, IsFiniteSet(S),
         NEW k \in 1..Cardinality(S), NEW l \in 1..Cardinality(S)
  PROVE  Ascending(S)[k] < Ascending(S)[l] <=> k < l
<1>1. Cardinality(S) \in Nat
  BY FS_CardinalityType
<1>2. PICK i \in S : i = Ascending(S)[k] /\ Cardinality(Below(S, i)) = k - 1
  BY AscendingOrder
<1>3. PICK j \in S : j = Ascending(S)[l] /\ Cardinality(Below(S, j)) = l - 1
  BY AscendingOrder
<1>4. i < j => k - 1 < l - 1
  BY <1>2, <1>3, BelowLess
<1>5. j < i => l - 1 < k - 1
  BY <1>2, <1>3, BelowLess
<1>6. i = j => k - 1 = l - 1
  BY <1>2, <1>3
<1>7. i < j \/ j < i \/ i = j
  OBVIOUS
<1>8. QED
  BY <1>1, <1>2, <1>3, <1>4, <1>5, <1>6, <1>7

\* A number above all others comes last, and the others keep their places.
LEMMA AscendingAbove ==
  ASSUME NEW S \in SUBSET Nat, IsFiniteSet(S), NEW n \in Nat, \A i \in S : i < n
  PROVE  /\ S \cup {n} \in SUBSET Nat /\ IsFiniteSet(S \cup {n})
         /\ Cardinality(S) \in Nat /\ Cardinality(S \cup {n}) = Cardinality(S) + 1
         /\ \A k \in 1..Cardinality(S) : Ascending(S \cup {n})[k] = Ascending(S)[k]
         /\ Ascending(S \cup {n})[Cardinality(S) + 1] = n
<1>1. PICK T \in SUBSET Nat : T = S \cup {n}
  OBVIOUS
<1>2. /\ IsFiniteSet(T) /\ Cardinality(S) \in Nat
      /\ Cardinality(T) = Cardinality(S) + 1
  BY <1>1, FS_AddElement, FS_CardinalityType
<1>3. \A i \in T : Ascending(T)[Cardinality(Below(T, i)) + 1] = i
  BY <1>2, AscendingOrder
<1>4. ASSUME NEW k \in 1..Cardinality(S)
      PROVE  Ascending(T)[k] = Ascending(S)[k]
  <2>1. PICK i \in S : i = Ascending(S)[k] /\ Cardinality(Below(S, i)) = k - 1
    BY AscendingOrder
  <2>2. Below(T, i) = Below(S, i)
    BY <1>1 DEF Below
  <2>3. Ascending(T)[k - 1 + 1] = i
    BY <1>1, <1>3, <2>1, <2>2
  <2>4. k - 1 + 1 = k
    BY <1>2
  <2>5. QED
    BY <2>1, <2>3, <2>4
<1>5. Ascending(T)[Cardinality(S) + 1] = n
  <2>1. \A j \in T : j < n <=> j \in S
    BY <1>1
  <2>2. Below(T, n) = S
    BY <1>1, <2>1 DEF Below
  <2>3. QED
    BY <1>1, <1>3, <2>2
<1>6. QED
  BY <1>1, <1>2, <1>4, <1>5

\* A part of a sequence of T is a sequence of T, and has only elements of it.
LEMMA SubSequenceType ==
  ASSUME NEW T, NEW s \in Seq(T), NEW I \in SUBSET DOMAIN s
  PROVE  /\ SubSequence(s, I) \in Seq(T)
         /\ Len(SubSequence(s, I)) = Cardinality(I)
         /\ \A k \in 1..Cardinality(I) : \E i \in I : SubSequence(s, I)[k] = s[i]
         /\ \A i \in I : \E k \in 1..Cardinality(I) : SubSequence(s, I)[k] = s[i]
<1>1. I \in SUBSET Nat /\ IsFiniteSet(I)
  <2>1. DOMAIN s = 1..Len(s) /\ Len(s) \in Nat
    OBVIOUS
  <2>2. IsFiniteSet(1..Len(s))
    BY <2>1, FS_Interval
  <2>3. QED
    BY <2>1, <2>2, FS_Subset
<1>2. Cardinality(I) \in Nat
  BY <1>1, FS_CardinalityType
<1>3. \A k \in 1..Cardinality(I) : Ascending(I)[k] \in I /\ s[Ascending(I)[k]] \in T
  BY <1>1, AscendingOrder
<1>4. SubSequence(s, I) \in [1..Cardinality(I) -> T]
  BY <1>3 DEF SubSequence
<1>5. SubSequence(s, I) \in Seq(T) /\ Len(SubSequence(s, I)) = Cardinality(I)
  BY <1>2, <1>4
<1>6. \A k \in 1..Cardinality(I) : \E i \in I : SubSequence(s, I)[k] = s[i]
  BY <1>3 DEF SubSequence
<1>7. ASSUME NEW i \in I
      PROVE  \E k \in 1..Cardinality(I) : SubSequence(s, I)[k] = s[i]
  <2>1. PICK k \in 1..Cardinality(I) : Ascending(I)[k] = i
    BY <1>1, AscendingOrder
  <2>2. QED
    BY <2>1 DEF SubSequence
<1>8. QED
  BY <1>5, <1>6, <1>7

\* Each of its elements comes from a place of its own.
LEMMA SubSequencePlaces ==
  ASSUME NEW T, NEW s \in Seq(T), NEW I \in SUBSET DOMAIN s
  PROVE  \E f \in [1..Cardinality(I) -> I] :
           /\ \A k \in 1..Cardinality(I) : SubSequence(s, I)[k] = s[f[k]]
           /\ \A k, l \in 1..Cardinality(I) : f[k] = f[l] => k = l
<1>1. I \in SUBSET Nat /\ IsFiniteSet(I)
  <2>1. DOMAIN s = 1..Len(s) /\ Len(s) \in Nat
    OBVIOUS
  <2>2. IsFiniteSet(1..Len(s))
    BY <2>1, FS_Interval
  <2>3. QED
    BY <2>1, <2>2, FS_Subset
<1>2. PICK f \in [1..Cardinality(I) -> I] : f = Ascending(I)
  BY <1>1, AscendingOrder
<1>3. \A k \in 1..Cardinality(I) : SubSequence(s, I)[k] = s[f[k]]
  BY <1>2 DEF SubSequence
<1>4. ASSUME NEW k \in 1..Cardinality(I), NEW l \in 1..Cardinality(I), f[k] = f[l]
      PROVE  k = l
  <2>1. f[k] \in Nat /\ ~ (f[k] < f[l]) /\ ~ (f[l] < f[k])
    BY <1>1, <1>4
  <2>2. ~ (k < l) /\ ~ (l < k)
    BY <1>1, <1>2, <2>1, AscendingSorted
  <2>3. QED
    BY <2>2
<1>5. QED
  BY <1>3, <1>4

\* All of a sequence of numbered places is the sequence.
LEMMA SubSequenceAll ==
  ASSUME NEW T, NEW s \in Seq(T)
  PROVE  SubSequence(s, DOMAIN s) = s
<1> DEFINE n == Len(s)
<1>1. n \in Nat /\ DOMAIN s = 1..n /\ 1..n \in SUBSET Nat
  OBVIOUS
<1>2. IsFiniteSet(1..n) /\ Cardinality(1..n) = n
  <2> HIDE DEF n
  <2>1. QED
    BY <1>1, FS_Interval
<1>3. ASSUME NEW k \in 1..n
      PROVE  Ascending(1..n)[k] = k
  <2>1. Below(1..n, k) = 1..(k - 1)
    BY <1>1 DEF Below
  <2>2. Cardinality(1..(k - 1)) = k - 1
    <3>1. k - 1 \in Int /\ 1 \in Int /\ ~ (1 > k - 1) => (k - 1) - 1 + 1 = k - 1
      BY <1>1
    <3>2. k - 1 \in Nat
      BY <1>1
    <3>3. Cardinality(1..(k - 1)) = IF 1 > k - 1 THEN 0 ELSE (k - 1) - 1 + 1
      BY <3>2, FS_Interval
    <3>4. QED
      BY <3>2, <3>3
  <2>3. Ascending(1..n)[Cardinality(Below(1..n, k)) + 1] = k
    BY <1>1, <1>2, AscendingOrder
  <2>4. k - 1 + 1 = k
    BY <1>1
  <2>5. QED
    BY <2>1, <2>2, <2>3, <2>4
<1>4. SubSequence(s, DOMAIN s) = [k \in 1..n |-> s[k]]
  BY <1>1, <1>2, <1>3 DEF SubSequence
<1>5. QED
  BY <1>1, <1>4

\* The fold behind FlattenSeq.
LEMMA Flattened ==
  ASSUME NEW T, NEW s \in Seq(Seq(T)), s # <<>>
  PROVE  \E g :
           /\ FlattenSeq(s) = g[Len(s)]
           /\ \A i \in 1..Len(s) : g[i] = IF i = 1 THEN s[i] ELSE g[i - 1] \o s[i]
<1> DEFINE N == Len(s)
           Rule(g, n) == \A i \in 1..n : g[i] = IF i = 1 THEN s[i] ELSE g[i - 1] \o s[i]
           S == {n \in Nat : n <= N => \E g \in [1..n -> Seq(T)] : Rule(g, n)}
           flatten[i \in 1..N] == IF i = 1 THEN s[i] ELSE flatten[i - 1] \o s[i]
<1>1. N \in Nat /\ N >= 1 /\ \A i \in 1..N : s[i] \in Seq(T)
  OBVIOUS
<1>2. 0 \in S
  <2>1. PICK g : g = [i \in 1..0 |-> <<>>]
    OBVIOUS
  <2>2. g \in [1..0 -> Seq(T)] /\ Rule(g, 0)
    BY <2>1
  <2>3. QED
    BY <2>2
<1>3. ASSUME NEW n \in Nat, n \in S
      PROVE  n + 1 \in S
  <2>1. SUFFICES ASSUME n + 1 <= N
                 PROVE  \E g \in [1..(n + 1) -> Seq(T)] : Rule(g, n + 1)
    OBVIOUS
  <2>2. PICK g \in [1..n -> Seq(T)] : Rule(g, n)
    BY <1>1, <1>3, <2>1
  <2>3. s[n + 1] \in Seq(T)
    BY <1>1, <2>1
  <2>4. PICK e : e = IF n + 1 = 1 THEN s[n + 1] ELSE g[n] \o s[n + 1]
    OBVIOUS
  <2>40. e \in Seq(T)
    <3>1. CASE n = 0
      BY <2>3, <2>4, <3>1
    <3>2. CASE n # 0
      <4>1. g[n] \in Seq(T) /\ n + 1 # 1
        BY <2>2, <3>2
      <4>2. g[n] \o s[n + 1] \in Seq(T)
        BY <2>3, <4>1
      <4>3. QED
        BY <2>4, <4>1, <4>2
    <3>3. QED
      BY <3>1, <3>2
  <2>5. PICK h : h = [i \in 1..(n + 1) |-> IF i = n + 1 THEN e ELSE g[i]]
    OBVIOUS
  <2>6. h \in [1..(n + 1) -> Seq(T)]
    <3>1. \A i \in 1..(n + 1) : i # n + 1 => i \in 1..n
      OBVIOUS
    <3>2. QED
      BY <2>2, <2>40, <2>5, <3>1
  <2>7. Rule(h, n + 1)
    <3>1. SUFFICES ASSUME NEW i \in 1..(n + 1)
                   PROVE  h[i] = IF i = 1 THEN s[i] ELSE h[i - 1] \o s[i]
      OBVIOUS
    <3>2. CASE i = n + 1
      <4>1. h[i] = e
        BY <2>5, <3>2
      <4>2. n # 0 => h[i - 1] = g[n]
        BY <2>5, <3>2
      <4>3. QED
        BY <2>4, <3>2, <4>1, <4>2
    <3>3. CASE i # n + 1
      <4>1. i \in 1..n /\ h[i] = g[i]
        BY <2>5, <3>3
      <4>2. i # 1 => i - 1 \in 1..(n + 1) /\ i - 1 # n + 1
        BY <4>1
      <4>3. i # 1 => h[i - 1] = g[i - 1]
        BY <2>5, <4>2
      <4>4. QED
        BY <2>2, <4>1, <4>3
    <3>4. QED
      BY <3>2, <3>3
  <2>8. QED
    BY <2>6, <2>7
<1>4. N \in S
  <2> HIDE DEF S
  <2>1. QED
    BY <1>1, <1>2, <1>3, NatSetInduction
<1>5. PICK g \in [1..N -> Seq(T)] : Rule(g, N)
  <2>1. N <= N /\ N \in S
    BY <1>1, <1>4
  <2> HIDE DEF N
  <2>2. \E g \in [1..N -> Seq(T)] : Rule(g, N)
    BY <2>1
  <2>3. QED
    BY <2>2
<1>6. g = [i \in 1..N |-> IF i = 1 THEN s[i] ELSE g[i - 1] \o s[i]]
  BY <1>5
<1>7. flatten = [i \in 1..N |-> IF i = 1 THEN s[i] ELSE flatten[i - 1] \o s[i]]
  BY <1>6, Zenon
<1>8. FlattenSeq(s) = flatten[N]
  BY <1>1 DEF FlattenSeq
<1>9. \A i \in 1..N : flatten[i] = IF i = 1 THEN s[i] ELSE flatten[i - 1] \o s[i]
  <2> HIDE DEF flatten
  <2>1. QED
    BY <1>7
<1>10. QED
  <2> HIDE DEF flatten
  <2>1. QED
    BY <1>8, <1>9

\* The elements of sequences in T, one sequence after the other.
LEMMA FlattenType ==
  ASSUME NEW T, NEW s \in Seq(Seq(T))
  PROVE  FlattenSeq(s) \in Seq(T)
<1>1. CASE s = <<>>
  <2>1. FlattenSeq(s) = <<>>
    BY <1>1 DEF FlattenSeq
  <2>2. QED
    BY <2>1
<1>2. CASE s # <<>>
  <2>1. PICK g :
          /\ FlattenSeq(s) = g[Len(s)]
          /\ \A i \in 1..Len(s) : g[i] = IF i = 1 THEN s[i] ELSE g[i - 1] \o s[i]
    BY <1>2, Flattened
  <2> DEFINE U == {n \in Nat : n \in 1..Len(s) => g[n] \in Seq(T)}
  <2>2. 0 \in U
    OBVIOUS
  <2>3. ASSUME NEW n \in Nat, n \in U
        PROVE  n + 1 \in U
    <3>1. SUFFICES ASSUME n + 1 \in 1..Len(s)
                   PROVE  g[n + 1] \in Seq(T)
      OBVIOUS
    <3>2. n + 1 # 1 => n \in 1..Len(s) /\ (n + 1) - 1 = n
      BY <2>3, <3>1
    <3>3. g[n + 1] = IF n + 1 = 1 THEN s[n + 1] ELSE g[n] \o s[n + 1]
      BY <2>1, <3>1, <3>2
    <3>4. n + 1 # 1 => g[n] \in Seq(T)
      BY <2>3, <3>2
    <3>5. s[n + 1] \in Seq(T)
      BY <3>1
    <3> HIDE DEF U
    <3>6. QED
      BY <3>3, <3>4, <3>5
  <2>4. \A n \in Nat : n \in U
    <3> HIDE DEF U
    <3>1. QED
      BY <2>2, <2>3, NatSetInduction
  <2>5. Len(s) \in Nat /\ Len(s) \in 1..Len(s)
    BY <1>2
  <2>6. QED
    BY <2>1, <2>4, <2>5
<1>3. QED
  BY <1>1, <1>2

\* The elements of S that a relation puts before x.
Before(R, S, x) == {y \in S : <<y, x>> \in R}

\* A finite set listed by how many elements a strict total order puts before
\* each is listed in that order, each element once.
LEMMA ListedInOrder ==
  ASSUME NEW S, IsFiniteSet(S), NEW R,
         \A x \in S : <<x, x>> \notin R,
         \A x, y \in S : x # y => <<x, y>> \in R \/ <<y, x>> \in R,
         \A x, y, z \in S : <<x, y>> \in R /\ <<y, z>> \in R => <<x, z>> \in R,
         NEW g, g = [i \in 1..Cardinality(S) |-> g[i]],
         \A i \in 1..Cardinality(S) :
           (\E x \in S : Cardinality(Before(R, S, x)) = i - 1) =>
             g[i] \in S /\ Cardinality(Before(R, S, g[i])) = i - 1
  PROVE  /\ Cardinality(S) \in Nat
         /\ g \in [1..Cardinality(S) -> S]
         /\ \A i, j \in 1..Cardinality(S) : i < j => <<g[i], g[j]>> \in R
         /\ \A i, j \in 1..Cardinality(S) : g[i] = g[j] => i = j
         /\ \A x \in S : /\ Cardinality(Before(R, S, x)) + 1 \in 1..Cardinality(S)
                         /\ g[Cardinality(Before(R, S, x)) + 1] = x
<1> DEFINE n == Cardinality(S)
           rank(x) == Cardinality(Before(R, S, x))
<1>1. /\ n \in Nat
      /\ \A x \in S : rank(x) \in 0..(n - 1)
      /\ \A x, y \in S : <<x, y>> \in R => rank(x) < rank(y)
      /\ \A k \in 0..(n - 1) : \E x \in S : rank(x) = k
  <2> DEFINE h == [x \in S |-> Cardinality(Before(R, S, x))]
  <2>1. n \in Nat /\ 0 \in Int /\ n - 1 \in Int
    BY FS_CardinalityType
  <2>2. \A x \in S : /\ Before(R, S, x) \in SUBSET S /\ IsFiniteSet(Before(R, S, x))
                     /\ Cardinality(Before(R, S, x)) \in Nat
    <3>1. \A x \in S : Before(R, S, x) \in SUBSET S
      BY DEF Before
    <3>2. QED
      BY <3>1, FS_Subset, FS_CardinalityType
  <2>3. ASSUME NEW x \in S
        PROVE  Cardinality(Before(R, S, x)) \in 0..(n - 1)
    <3>1. x \notin Before(R, S, x)
      BY DEF Before
    <3>2. Cardinality(Before(R, S, x)) <= n /\ Cardinality(Before(R, S, x)) # n
      BY <2>2, <3>1, FS_Subset
    <3>3. QED
      BY <2>1, <2>2, <3>2
  <2>4. ASSUME NEW x \in S, NEW y \in S, <<x, y>> \in R
        PROVE  Cardinality(Before(R, S, x)) < Cardinality(Before(R, S, y))
    <3>1. Before(R, S, x) \in SUBSET Before(R, S, y)
      BY <2>4 DEF Before
    <3>2. x \in Before(R, S, y) /\ x \notin Before(R, S, x)
      BY <2>4 DEF Before
    <3>3. Cardinality(Before(R, S, x)) <= Cardinality(Before(R, S, y))
      BY <2>2, <3>1, FS_Subset
    <3>4. Cardinality(Before(R, S, x)) # Cardinality(Before(R, S, y))
      BY <2>2, <3>1, <3>2, FS_Subset
    <3>5. QED
      BY <2>2, <3>3, <3>4
  <2>5. h \in [S -> 0..(n - 1)]
    BY <2>3
  <2>6. \A x, y \in S : h[x] = h[y] => x = y
    <3>1. SUFFICES ASSUME NEW x \in S, NEW y \in S, x # y
                   PROVE  Cardinality(Before(R, S, x)) # Cardinality(Before(R, S, y))
      OBVIOUS
    <3>2. <<x, y>> \in R \/ <<y, x>> \in R
      BY <3>1
    <3>3. Cardinality(Before(R, S, x)) < Cardinality(Before(R, S, y))
          \/ Cardinality(Before(R, S, y)) < Cardinality(Before(R, S, x))
      BY <2>4, <3>2
    <3>4. QED
      BY <2>2, <3>3
  <2>7. h \in Injection(S, 0..(n - 1))
    BY <2>5, <2>6 DEF Injection, IsInjective
  <2>8. IsFiniteSet(0..(n - 1)) /\ Cardinality(0..(n - 1)) = n
    <3> HIDE DEF n
    <3>1. IsFiniteSet(0..(n - 1)) /\ Cardinality(0..(n - 1)) =
            IF 0 > n - 1 THEN 0 ELSE (n - 1) - 0 + 1
      BY <2>1, FS_Interval
    <3>2. QED
      BY <2>1, <3>1
  <2>9. h \in Surjection(S, 0..(n - 1))
    BY <2>7, <2>8, FS_Injection
  <2>10. \A k \in 0..(n - 1) : \E x \in S : h[x] = k
    <3> HIDE DEF h, n
    <3>1. QED
      BY <2>9 DEF Surjection
  <2>11. QED
    BY <2>1, <2>3, <2>4, <2>10
<1>2. ASSUME NEW i \in 1..n
      PROVE  g[i] \in S /\ rank(g[i]) = i - 1
  <2>1. i - 1 \in 0..(n - 1)
    BY <1>1
  <2>2. \E x \in S : rank(x) = i - 1
    BY <1>1, <2>1
  <2>3. QED
    BY <2>2
<1>3. g \in [1..n -> S]
  BY <1>2
<1>4. \A x, y \in S : rank(x) = rank(y) => x = y
  <2>1. SUFFICES ASSUME NEW x \in S, NEW y \in S, x # y
                 PROVE  rank(x) # rank(y)
    OBVIOUS
  <2>2. rank(x) < rank(y) \/ rank(y) < rank(x)
    BY <1>1, <2>1
  <2>3. rank(x) \in 0..(n - 1) /\ rank(y) \in 0..(n - 1)
    BY <1>1
  <2>4. QED
    BY <1>1, <2>2, <2>3
<1> HIDE DEF n, rank
<1>5. ASSUME NEW i \in 1..n, NEW j \in 1..n, i < j
      PROVE  <<g[i], g[j]>> \in R
  <2>0. rank(g[i]) = i - 1 /\ rank(g[j]) = j - 1 /\ i \in Int /\ j \in Int
    <3>1. rank(g[i]) = i - 1 /\ rank(g[j]) = j - 1
      BY <1>2
    <3>2. i \in Int /\ j \in Int
      BY <1>1
    <3>3. QED
      BY <3>1, <3>2
  <2>1. g[i] # g[j]
    BY <1>5, <2>0
  <2>2. <<g[j], g[i]>> \notin R
    <3>1. ~(rank(g[j]) < rank(g[i]))
      BY <1>5, <2>0
    <3>2. QED
      BY <1>1, <1>2, <3>1
  <2>3. QED
    BY <1>2, <2>1, <2>2
<1>6. ASSUME NEW i \in 1..n, NEW j \in 1..n, g[i] = g[j]
      PROVE  i = j
  <2>1. rank(g[i]) = i - 1 /\ rank(g[j]) = j - 1 /\ i \in Int /\ j \in Int
    <3>1. rank(g[i]) = i - 1 /\ rank(g[j]) = j - 1
      BY <1>2
    <3>2. i \in Int /\ j \in Int
      BY <1>1
    <3>3. QED
      BY <3>1, <3>2
  <2>2. i - 1 = j - 1
    BY <1>6, <2>1
  <2>3. QED
    BY <2>1, <2>2
<1>7. ASSUME NEW x \in S
      PROVE  rank(x) + 1 \in 1..n /\ g[rank(x) + 1] = x
  <2>1. PICK k \in 1..n : k = rank(x) + 1 /\ k - 1 = rank(x)
    BY <1>1
  <2>2. g[k] \in S /\ rank(g[k]) = rank(x)
    BY <1>2, <2>1
  <2>3. g[k] = x
    BY <1>4, <2>2
  <2>4. QED
    BY <2>1, <2>3
<1>8. QED
  BY <1>1, <1>3, <1>5, <1>6, <1>7 DEF n, rank
=============================================================================
