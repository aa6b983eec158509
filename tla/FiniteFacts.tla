---------------------------- MODULE FiniteFacts ----------------------------
(***************************************************************************)
(* Facts about finite sets and sequences that the proofs share: induction  *)
(* over natural numbers, greatest elements, sorted enumerations of a set,  *)
(* and the recursion behind FoldLeft.  An induction hypothesis is a set    *)
(* here, the numbers that have it, and an order or a step is a set or a    *)
(* function, because the provers cannot instantiate an operator.           *)
(***************************************************************************)
EXTENDS Integers, Sequences, FiniteSets, FiniteSetsExt, Functions, FiniteSetTheorems,
        WellFoundedInduction, TLAPS

-----------------------------------------------------------------------------
(* Natural numbers                                                         *)

LEMMA LeastNatural ==
    ASSUME NEW T \in SUBSET Nat, T # {}
    PROVE  \E n \in T : \A m \in T : n <= m
  <1> DEFINE R == {p \in Nat \X Nat : p[1] < p[2]}
  <1>1. IsWellFoundedOn(R, Nat)
    BY NatLessThanWellFounded DEF OpToRel
  <1> HIDE DEF R
  <1>2. PICK n \in T : \A m \in T : <<m, n>> \notin R
    BY <1>1, WFMin
  <1>3. ASSUME NEW m \in T PROVE n <= m
    <2>1. <<m, n>> \notin R
      BY <1>2
    <2> QED BY <2>1 DEF R
  <1> QED BY <1>3

\* Induction: what holds of 0, and of n + 1 if it holds of n, holds of every number.
LEMMA NaturalInduction ==
    ASSUME NEW S, 0 \in S, \A n \in Nat : n \in S => n + 1 \in S
    PROVE  Nat \subseteq S
  <1> SUFFICES ASSUME Nat \ S # {} PROVE FALSE
    OBVIOUS
  <1>1. PICK n \in Nat \ S : \A m \in Nat \ S : n <= m
    BY LeastNatural
  <1>2. n - 1 \in Nat /\ n - 1 \in S
    BY <1>1
  <1> QED BY <1>1, <1>2

\* Max of the community modules, on sets with an upper bound.
LEMMA MaxNatural ==
    ASSUME NEW n \in Nat, NEW T \in SUBSET (0..n), T # {}
    PROVE  Max(T) \in T /\ \A m \in T : m <= Max(T)
  <1> DEFINE gaps == {k \in Nat : n - k \in T}
  <1>1. PICK t \in T : TRUE
    OBVIOUS
  <1>2. n - t \in gaps
    BY <1>1
  <1>3. PICK k \in gaps : \A l \in gaps : k <= l
    BY <1>2, LeastNatural
  <1>4. ASSUME NEW m \in T PROVE m <= n - k
    <2>1. n - m \in gaps
      OBVIOUS
    <2>2. k <= n - m
      BY <1>3, <2>1
    <2> QED BY <1>3, <2>2
  <1>5. n - k \in T
    BY <1>3
  <1> QED BY <1>4, <1>5 DEF Max

-----------------------------------------------------------------------------
(* Sorted enumerations                                                     *)

\* R orders the elements of S strictly, and any two of them.
TotalOrder(R, S) ==
    /\ \A a \in S : <<a, a>> \notin R
    /\ \A a, b, c \in S : <<a, b>> \in R /\ <<b, c>> \in R => <<a, c>> \in R
    /\ \A a, b \in S : a # b => <<a, b>> \in R \/ <<b, a>> \in R

Sorted(s, n, R) == \A i, j \in 1..n : i < j => <<s[i], s[j]>> \in R

LEMMA GreatestExists ==
    ASSUME NEW R, NEW S, TotalOrder(R, S), IsFiniteSet(S), S # {}
    PROVE  \E g \in S : \A a \in S \ {g} : <<a, g>> \in R
  <1> DEFINE Good(T) == T # {} => \E g \in T : \A a \in T \ {g} : <<a, g>> \in R
             N == {n \in Nat : \A T \in SUBSET S : Cardinality(T) = n => Good(T)}
  <1>1. \A T \in SUBSET S : IsFiniteSet(T) /\ Cardinality(T) \in Nat
    BY FS_Subset, FS_CardinalityType
  <1>2. 0 \in N
    BY <1>1, FS_EmptySet
  <1>3. ASSUME NEW n \in Nat, n \in N, NEW T \in SUBSET S, Cardinality(T) = n + 1
        PROVE  Good(T)
    <2>1. PICK x \in T : TRUE
      BY <1>1, <1>3, FS_EmptySet
    <2> DEFINE U == T \ {x}
    <2>2. Cardinality(U) = n /\ U \in SUBSET S
      BY <1>1, <1>3, <2>1, FS_RemoveElement
    <2>3. Good(U)
      BY <1>3, <2>2
    <2>4. CASE U = {}
      BY <2>1, <2>4
    <2>5. CASE U # {}
      <3>1. PICK g \in U : \A a \in U \ {g} : <<a, g>> \in R
        BY <2>3, <2>5
      <3>2. CASE <<x, g>> \in R
        BY <3>1, <3>2
      <3>3. CASE <<g, x>> \in R
        <4>1. \A a \in T \ {x} : <<a, x>> \in R
          BY <3>1, <3>3 DEF TotalOrder
        <4> QED BY <2>1, <4>1
      <3> QED BY <2>1, <3>1, <3>2, <3>3 DEF TotalOrder
    <2> QED BY <2>4, <2>5
  <1>4. \A n \in Nat : n \in N => n + 1 \in N
    BY <1>3
  <1> HIDE DEF N
  <1>5. Nat \subseteq N
    BY <1>2, <1>4, NaturalInduction
  <1>6. Cardinality(S) \in N
    BY <1>1, <1>5
  <1> QED BY <1>6 DEF N

LEMMA SortedExists ==
    ASSUME NEW R, NEW S, TotalOrder(R, S), IsFiniteSet(S)
    PROVE  \E s \in [1..Cardinality(S) -> S] : Sorted(s, Cardinality(S), R)
  <1> DEFINE Good(T, n) == \E s \in [1..n -> T] : Sorted(s, n, R)
             N == {n \in Nat : \A T \in SUBSET S : Cardinality(T) = n => Good(T, n)}
  <1>1. \A T \in SUBSET S : IsFiniteSet(T) /\ Cardinality(T) \in Nat /\ TotalOrder(R, T)
    BY FS_Subset, FS_CardinalityType DEF TotalOrder
  <1>2. 0 \in N
    <2> SUFFICES ASSUME NEW T \in SUBSET S, Cardinality(T) = 0 PROVE Good(T, 0)
      OBVIOUS
    <2>1. [i \in 1..0 |-> i] \in [1..0 -> T] /\ Sorted([i \in 1..0 |-> i], 0, R)
      BY DEF Sorted
    <2> QED BY <2>1
  <1>3. ASSUME NEW n \in Nat, n \in N, NEW T \in SUBSET S, Cardinality(T) = n + 1
        PROVE  Good(T, n + 1)
    <2>1. PICK g \in T : \A a \in T \ {g} : <<a, g>> \in R
      BY <1>1, <1>3, GreatestExists, FS_EmptySet
    <2>2. Cardinality(T \ {g}) = n
      BY <1>1, <1>3, <2>1, FS_RemoveElement
    <2>3. Good(T \ {g}, n)
      BY <1>3, <2>2
    <2>4. PICK s \in [1..n -> T \ {g}] : Sorted(s, n, R)
      BY <2>3
    <2> DEFINE t == [i \in 1..n+1 |-> IF i = n + 1 THEN g ELSE s[i]]
    <2>5. t \in [1..n+1 -> T]
      BY <2>1, <2>4
    <2>6. ASSUME NEW i \in 1..n+1, NEW j \in 1..n+1, i < j
          PROVE  <<t[i], t[j]>> \in R
      <3>1. i \in 1..n /\ t[i] = s[i]
        BY <2>6
      <3>2. CASE j = n + 1
        BY <2>1, <2>4, <3>1, <3>2
      <3>3. CASE j # n + 1
        <4>1. j \in 1..n /\ t[j] = s[j]
          BY <3>3
        <4> QED BY <2>4, <2>6, <3>1, <4>1 DEF Sorted
      <3> QED BY <3>2, <3>3
    <2> HIDE DEF t
    <2> QED BY <2>5, <2>6 DEF Sorted
  <1>4. \A n \in Nat : n \in N => n + 1 \in N
    BY <1>3
  <1> HIDE DEF N
  <1>5. Nat \subseteq N
    BY <1>2, <1>4, NaturalInduction
  <1>6. Cardinality(S) \in N
    BY <1>1, <1>5
  <1> QED BY <1>6 DEF N

\* A sorted enumeration of as many elements as S has names each once.
LEMMA SortedEnumerates ==
    ASSUME NEW R, NEW S, TotalOrder(R, S), IsFiniteSet(S), NEW n, n = Cardinality(S),
           NEW s, \A i \in 1..n : s[i] \in S, Sorted(s, n, R)
    PROVE  /\ \A i, j \in 1..n : s[i] = s[j] => i = j
           /\ \A a \in S : \E i \in 1..n : s[i] = a
  <1> DEFINE f == [i \in 1..n |-> s[i]]
  <1>1. n \in Nat /\ IsFiniteSet(1..n) /\ Cardinality(1..n) = n
    BY FS_CardinalityType, FS_Interval
  <1>2. ASSUME NEW i \in 1..n, NEW j \in 1..n, s[i] = s[j] PROVE i = j
    <2>1. ~(i < j) /\ ~(j < i)
      BY <1>2 DEF TotalOrder, Sorted
    <2> QED BY <1>1, <2>1
  <1>3. f \in [1..n -> S] /\ \A i \in 1..n : f[i] = s[i]
    OBVIOUS
  <1> HIDE DEF f
  <1>4. f \in Injection(1..n, S)
    BY <1>2, <1>3 DEF Injection, IsInjective
  <1>5. f \in Surjection(1..n, S)
    BY <1>1, <1>4, FS_Injection
  <1> QED BY <1>2, <1>3, <1>5 DEF Surjection

\* A finite set in its order, each element once.
Enumerates(s, n, S) ==
    /\ \A i, j \in 1..n : s[i] = s[j] => i = j
    /\ \A a \in S : \E i \in 1..n : s[i] = a

LEMMA SortedListing ==
    ASSUME NEW R, NEW S, TotalOrder(R, S), IsFiniteSet(S)
    PROVE  \E s \in [1..Cardinality(S) -> S] :
              Sorted(s, Cardinality(S), R) /\ Enumerates(s, Cardinality(S), S)
  <1> DEFINE n == Cardinality(S)
  <1>1. PICK s \in [1..n -> S] : Sorted(s, n, R)
    BY SortedExists
  <1>2. n \in Nat /\ IsFiniteSet(1..n) /\ Cardinality(1..n) = n
    BY FS_CardinalityType, FS_Interval
  <1>3. ASSUME NEW i \in 1..n, NEW j \in 1..n, s[i] = s[j] PROVE i = j
    <2>1. ~(i < j) /\ ~(j < i)
      BY <1>1, <1>3 DEF TotalOrder, Sorted
    <2> QED BY <1>2, <2>1
  <1>4. s \in Injection(1..n, S)
    BY <1>1, <1>3 DEF Injection, IsInjective
  <1>5. s \in Surjection(1..n, S)
    BY <1>2, <1>4, FS_Injection
  <1> QED BY <1>1, <1>3, <1>5 DEF Surjection, Enumerates

-----------------------------------------------------------------------------
(* The recursion behind FoldLeft                                           *)

\* A fold over 1..n takes the greatest index last; its steps are a function g.
FoldOf(f, g, base, n) ==
    f = [s \in SUBSET (1..n) |->
            IF s = {} THEN base ELSE g[<<f[s \ {Max(s)}], Max(s)>>]]

LEMMA FoldExists ==
    ASSUME NEW n \in Nat, NEW V, NEW base \in V, NEW g \in [V \X (1..n) -> V]
    PROVE  \E f \in [SUBSET (1..n) -> V] : FoldOf(f, g, base, n)
  <1> DEFINE D == 1..n
             Small(m) == {s \in SUBSET D : Cardinality(s) <= m}
             Fits(f, m) == \A s \in Small(m) :
                f[s] = IF s = {} THEN base ELSE g[<<f[s \ {Max(s)}], Max(s)>>]
             N == {m \in Nat : \E f \in [Small(m) -> V] : Fits(f, m)}
  <1>1. IsFiniteSet(D) /\ Cardinality(D) = n
    BY FS_Interval
  <1>2. ASSUME NEW s \in SUBSET D
        PROVE  IsFiniteSet(s) /\ Cardinality(s) \in Nat /\ Cardinality(s) <= n
    <2> HIDE DEF D
    <2>1. IsFiniteSet(s) /\ Cardinality(s) <= Cardinality(D)
      BY <1>1, FS_Subset
    <2> QED BY <1>1, <2>1, FS_CardinalityType
  <1>3. ASSUME NEW s \in SUBSET D, s # {}
        PROVE  /\ Max(s) \in D /\ s \ {Max(s)} \in SUBSET D
               /\ Cardinality(s \ {Max(s)}) = Cardinality(s) - 1
    <2>1. s \in SUBSET (0..n)
      OBVIOUS
    <2>2. Max(s) \in s
      BY <1>3, <2>1, MaxNatural
    <2> QED BY <1>2, <2>2, FS_RemoveElement
  <1>4. 0 \in N
    <2> DEFINE f == [s \in Small(0) |-> base]
    <2>1. \A s \in Small(0) : s = {}
      BY <1>2, FS_EmptySet
    <2>2. f \in [Small(0) -> V] /\ \A s \in Small(0) : f[s] = base
      OBVIOUS
    <2>3. Fits(f, 0)
      BY <2>1, <2>2
    <2> HIDE DEF f, Small, Fits
    <2> QED BY <2>2, <2>3
  <1>5. ASSUME NEW m \in Nat, m \in N PROVE m + 1 \in N
    <2>1. PICK f \in [Small(m) -> V] : Fits(f, m)
      BY <1>5
    <2> DEFINE h == [s \in Small(m + 1) |->
                        IF s \in Small(m) THEN f[s] ELSE g[<<f[s \ {Max(s)}], Max(s)>>]]
    <2>2. ASSUME NEW s \in Small(m + 1), s # {}
          PROVE  s \ {Max(s)} \in Small(m) /\ Max(s) \in D
      BY <1>2, <1>3, <2>2
    <2>3. {} \in Small(m) /\ \A s \in Small(m) : s \in Small(m + 1)
      BY <1>2, FS_EmptySet
    <2>4. h \in [Small(m + 1) -> V]
      <3> SUFFICES ASSUME NEW s \in Small(m + 1), s \notin Small(m)
                   PROVE  g[<<f[s \ {Max(s)}], Max(s)>>] \in V
        BY <2>1
      <3>1. s # {}
        BY <2>3
      <3> HIDE DEF Small
      <3>2. f[s \ {Max(s)}] \in V /\ Max(s) \in D
        BY <2>1, <2>2, <3>1
      <3> QED BY <3>2
    <2>5. ASSUME NEW s \in Small(m + 1)
          PROVE  h[s] = IF s = {} THEN base ELSE g[<<h[s \ {Max(s)}], Max(s)>>]
      <3> HIDE DEF Small
      <3>1. CASE s = {}
        BY <2>1, <2>3, <3>1
      <3>2. CASE s # {}
        <4>1. s \ {Max(s)} \in Small(m) /\ s \ {Max(s)} \in Small(m + 1)
          BY <2>2, <2>3, <3>2
        <4>2. h[s \ {Max(s)}] = f[s \ {Max(s)}]
          BY <4>1
        <4>3. CASE s \in Small(m)
          <5>1. h[s] = f[s] /\ f[s] = g[<<f[s \ {Max(s)}], Max(s)>>]
            BY <2>1, <3>2, <4>3
          <5> HIDE DEF h
          <5> QED BY <3>2, <4>2, <5>1
        <4>4. CASE s \notin Small(m)
          BY <3>2, <4>2, <4>4
        <4> QED BY <4>3, <4>4
      <3> QED BY <3>1, <3>2
    <2>6. Fits(h, m + 1)
      <3> HIDE DEF h, Small
      <3> QED BY <2>5
    <2>7. m + 1 \in Nat
      OBVIOUS
    <2> HIDE DEF h, Small, Fits
    <2> QED BY <2>4, <2>6, <2>7
  <1>6. Nat \subseteq N
    <2> HIDE DEF N
    <2> QED BY <1>4, <1>5, NaturalInduction
  <1>7. PICK f \in [Small(n) -> V] : Fits(f, n)
    BY <1>6
  <1>8. Small(n) = SUBSET D
    BY <1>2
  <1>9. f = [s \in SUBSET D |-> IF s = {} THEN base ELSE g[<<f[s \ {Max(s)}], Max(s)>>]]
    <2>1. f = [s \in SUBSET D |-> f[s]]
      BY <1>7, <1>8
    <2>2. \A s \in SUBSET D : f[s] = IF s = {} THEN base ELSE g[<<f[s \ {Max(s)}], Max(s)>>]
      BY <1>7, <1>8
    <2> HIDE DEF Small, D, Fits
    <2> QED BY <2>1, <2>2
  <1> QED BY <1>7, <1>8, <1>9 DEF FoldOf

\* What a fold gives of the first k elements follows from what it gives of k - 1.
LEMMA FoldPrefixes ==
    ASSUME NEW n \in Nat, NEW k \in 1..n
    PROVE  1..k # {} /\ Max(1..k) = k /\ (1..k) \ {k} = 1..(k - 1) /\ 1..k \in SUBSET (1..n)
  <1>1. 1..k \in SUBSET (0..n) /\ k \in 1..k
    OBVIOUS
  <1>2. Max(1..k) \in 1..k /\ k <= Max(1..k)
    BY <1>1, MaxNatural
  <1> QED BY <1>1, <1>2
=============================================================================
