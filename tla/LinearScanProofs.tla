-------------------------- MODULE LinearScanProofs --------------------------
(***************************************************************************)
(* What the scans of LinearScan find, for every table.  The provers cannot *)
(* instantiate an induction theorem; a least counterexample (LeastMember)  *)
(* takes its place, here and in the modules that extend this one.          *)
(***************************************************************************)
EXTENDS LinearScan, FiniteSetTheorems, TLAPS

\* A scan finds something wherever there is something: every set of indices
\* that is not empty has a first.
LEMMA LeastMember ==
    ASSUME NEW S \in SUBSET Nat, S # {}
    PROVE  \E i \in S : IsFirst(S, i)
<1> DEFINE T == {0 .. i : i \in S}
<1>1. T \subseteq FiniteSubsetsOf(Nat)
  <2> SUFFICES ASSUME NEW i \in S PROVE 0 .. i \in FiniteSubsetsOf(Nat)
    OBVIOUS
  <2>1. i \in Int /\ 0 \in Int
    OBVIOUS
  <2>2. IsFiniteSet(0 .. i)
    BY <2>1, FS_Interval
  <2>3. 0 .. i \in SUBSET Nat
    OBVIOUS
  <2> QED BY <2>2, <2>3 DEF FiniteSubsetsOf
<1>2. T # {}
  OBVIOUS
<1>3. IsWellFoundedOn(StrictSubsetOrdering(Nat), FiniteSubsetsOf(Nat))
  BY FS_StrictSubsetOrderingWellFounded
<1>4. PICK x \in T : \A y \in T : <<y, x>> \notin StrictSubsetOrdering(Nat)
  <2> HIDE DEF T
  <2> QED BY <1>1, <1>2, <1>3, WFMin
<1>5. PICK i \in S : x = 0 .. i
  OBVIOUS
<1>6. ASSUME NEW j \in S, j < i PROVE FALSE
  <2>1. 0 .. j \in T
    OBVIOUS
  <2>2. 0 .. j \subseteq 0 .. i /\ 0 .. j \in SUBSET Nat /\ 0 .. i \in SUBSET Nat
    BY <1>6
  <2>3. i \in 0 .. i /\ i \notin 0 .. j
    BY <1>6
  <2>4. <<0 .. j, 0 .. i>> \in StrictSubsetOrdering(Nat)
    BY <2>2, <2>3 DEF StrictSubsetOrdering
  <2> QED BY <1>4, <1>5, <2>1, <2>4
<1>7. \A j \in S : i <= j
  BY <1>6
<1> QED BY <1>7 DEF IsFirst

\* The first free index is one: the scan's result is determined.
LEMMA FirstIsUnique ==
    ASSUME NEW S \in SUBSET Nat, NEW i, IsFirst(S, i), NEW j, IsFirst(S, j)
    PROVE  i = j
BY DEF IsFirst

\* Rounds(S, m): what m rounds of a scan take, when there is enough.
Rounds(S, m) ==
    {a \in [0 .. m - 1 -> S] :
        /\ \A i, j \in 0 .. m - 1 : i < j => a[i] < a[j]
        /\ \A s \in S \ Range(a) : \A i \in 0 .. m - 1 : a[i] < s}

\* One more round takes the first of what is left.
LEMMA NextRound ==
    ASSUME NEW S \in SUBSET Nat, NEW m \in Nat, NEW a \in Rounds(S, m), S \ Range(a) # {}
    PROVE  Rounds(S, m + 1) # {}
<1>1. PICK x \in S \ Range(a) : IsFirst(S \ Range(a), x)
  <2>1. S \ Range(a) \in SUBSET Nat
    OBVIOUS
  <2> QED BY <2>1, LeastMember
<1> DEFINE b == [i \in 0 .. m |-> IF i = m THEN x ELSE a[i]]
<1>2. a \in [0 .. m - 1 -> S]
  BY DEF Rounds
<1>3. b \in [0 .. (m + 1) - 1 -> S]
  BY <1>1, <1>2
<1>4. ASSUME NEW i \in 0 .. (m + 1) - 1, NEW j \in 0 .. (m + 1) - 1, i < j
      PROVE  b[i] < b[j]
  <2>1. i \in 0 .. m - 1 /\ b[i] = a[i]
    BY <1>4
  <2>2. CASE j = m
    <3>1. a[i] < x
      BY <1>1, <2>1 DEF Rounds
    <3> QED BY <2>1, <2>2, <3>1
  <2>3. CASE j # m
    <3>1. j \in 0 .. m - 1 /\ b[j] = a[j]
      BY <2>3
    <3> QED BY <2>1, <3>1, <1>4 DEF Rounds
  <2> QED BY <2>2, <2>3
<1>5. Range(b) = Range(a) \cup {x}
  <2>1. DOMAIN a = 0 .. m - 1 /\ DOMAIN b = 0 .. m
    BY <1>2
  <2>2. \A i \in 0 .. m - 1 : b[i] = a[i] /\ i \in 0 .. m
    OBVIOUS
  <2>3. b[m] = x /\ m \in 0 .. m
    OBVIOUS
  <2>4. \A i \in 0 .. m : i = m \/ i \in 0 .. m - 1
    OBVIOUS
  <2> HIDE DEF b
  <2> QED BY <2>1, <2>2, <2>3, <2>4 DEF Range
<1>6. ASSUME NEW s \in S \ Range(b), NEW i \in 0 .. (m + 1) - 1
      PROVE  b[i] < s
  <2>1. s \in S \ Range(a) /\ s # x
    BY <1>5
  <2>2. x < s
    BY <1>1, <2>1 DEF IsFirst
  <2>3. CASE i = m
    BY <2>2, <2>3
  <2>4. CASE i # m
    <3>1. i \in 0 .. m - 1 /\ b[i] = a[i]
      BY <2>4
    <3> QED BY <2>1, <3>1 DEF Rounds
  <2> QED BY <2>3, <2>4
<1> HIDE DEF b
<1>7. b \in Rounds(S, m + 1)
  BY <1>3, <1>4, <1>6 DEF Rounds
<1> QED BY <1>7

\* An injective function has as many values as arguments.
LEMMA InjectiveRange ==
    ASSUME NEW S, NEW T, NEW f \in [S -> T], IsFiniteSet(S),
           \A x, y \in S : f[x] = f[y] => x = y
    PROVE  IsFiniteSet(Range(f)) /\ Cardinality(Range(f)) = Cardinality(S)
<1>1. f \in [S -> Range(f)]
  BY DEF Range
<1>2. f \in Surjection(S, Range(f))
  BY <1>1 DEF Surjection, Range
<1>3. f \in Injection(S, Range(f))
  BY <1>1 DEF Injection, IsInjective
<1> QED BY <1>2, <1>3, FS_Surjection

\* An array of m elements has m indices.
LEMMA IndexCount ==
    ASSUME NEW m \in Nat
    PROVE  IsFiniteSet(0 .. m - 1) /\ Cardinality(0 .. m - 1) = m
<1>1. 0 \in Int /\ m - 1 \in Int
  OBVIOUS
<1>2. Cardinality(0 .. m - 1) = IF 0 > m - 1 THEN 0 ELSE (m - 1) - 0 + 1
  BY <1>1, FS_Interval
<1> QED BY <1>1, <1>2, FS_Interval

\* What m rounds take are m different members of S.
LEMMA RoundsTake ==
    ASSUME NEW S \in SUBSET Nat, NEW m \in Nat, NEW a \in Rounds(S, m)
    PROVE  /\ a \in [0 .. m - 1 -> S]
           /\ \A i, j \in 0 .. m - 1 : a[i] = a[j] => i = j
           /\ IsFiniteSet(Range(a)) /\ Cardinality(Range(a)) = m
<1>1. a \in [0 .. m - 1 -> S]
  BY DEF Rounds
<1>2. ASSUME NEW i \in 0 .. m - 1, NEW j \in 0 .. m - 1, a[i] = a[j] PROVE i = j
  <2>1. a[i] \in Nat /\ a[j] \in Nat
    BY <1>1
  <2>2. ~(i < j) /\ ~(j < i)
    BY <1>2, <2>1 DEF Rounds
  <2> QED BY <2>2
<1>3. IsFiniteSet(0 .. m - 1) /\ Cardinality(0 .. m - 1) = m
  BY IndexCount
<1> QED BY <1>1, <1>2, <1>3, InjectiveRange

\* What FirstFit takes when there is enough: n different members of S.
LEMMA FirstFitTakes ==
    ASSUME NEW S \in SUBSET Nat, IsFiniteSet(S), NEW n \in Nat, n <= Cardinality(S),
           NEW a \in FirstFit(S, n)
    PROVE  /\ a \in [0 .. n - 1 -> S]
           /\ \A i, j \in 0 .. n - 1 : a[i] = a[j] => i = j
           /\ Range(a) \subseteq S
           /\ IsFiniteSet(Range(a))
           /\ Cardinality(Range(a)) = n
           /\ Cardinality(DOMAIN a) = n
<1>1. a \in Rounds(S, n)
  BY DEF FirstFit, Rounds
<1>2. Range(a) \subseteq S /\ DOMAIN a = 0 .. n - 1
  BY <1>1 DEF Rounds, Range
<1> QED BY <1>1, <1>2, RoundsTake, IndexCount

\* As long as there is enough, rounds succeed.
LEMMA RoundsExist ==
    ASSUME NEW S \in SUBSET Nat, IsFiniteSet(S), NEW n \in Nat, n <= Cardinality(S)
    PROVE  Rounds(S, n) # {}
<1> DEFINE Bad == {m \in 0 .. n : Rounds(S, m) = {}}
<1> SUFFICES ASSUME Bad # {} PROVE FALSE
  OBVIOUS
<1>1. PICK m \in Bad : IsFirst(Bad, m)
  <2>1. Bad \in SUBSET Nat
    OBVIOUS
  <2> QED BY <2>1, LeastMember
<1>2. m # 0
  <2> SUFFICES ASSUME m = 0 PROVE FALSE
    OBVIOUS
  <2>1. [i \in 0 .. 0 - 1 |-> 0] \in Rounds(S, 0)
    <3>1. \A i \in 0 .. 0 - 1 : FALSE
      OBVIOUS
    <3> QED BY <3>1 DEF Rounds
  <2> QED BY <2>1
<1>3. m - 1 \in 0 .. n /\ m - 1 \in Nat /\ m - 1 < m
  BY <1>2
<1>4. PICK a \in Rounds(S, m - 1) : TRUE
  BY <1>1, <1>3 DEF IsFirst
<1>5. IsFiniteSet(Range(a)) /\ Cardinality(Range(a)) = m - 1 /\ Range(a) \subseteq S
  <2>1. Range(a) \subseteq S
    BY DEF Rounds, Range
  <2> HIDE DEF Bad
  <2>2. IsFiniteSet(Range(a)) /\ Cardinality(Range(a)) = m - 1
    BY <1>3, RoundsTake
  <2> QED BY <2>1, <2>2
<1>6. S \ Range(a) # {}
  <2> SUFFICES ASSUME S = Range(a) PROVE FALSE
    BY <1>5
  <2> QED BY <1>5
<1>7. Rounds(S, (m - 1) + 1) # {}
  BY <1>3, <1>6, NextRound
<1> QED BY <1>7

\* The scan for n members of S takes m of them, no member twice: n, or all there
\* are.
Takes(S, n, m) ==
    /\ m <= n /\ m <= Cardinality(S) /\ (n <= Cardinality(S) => m = n)
    /\ (S # {} /\ n # 0 => m # 0)
    /\ FirstFit(S, n) # {}
    /\ \A a \in FirstFit(S, n) :
          /\ a \in [0 .. m - 1 -> S]
          /\ \A i, j \in 0 .. m - 1 : a[i] = a[j] => i = j

\* The whole scan: as many rounds as asked for, or as there are members.
LEMMA FirstFitTaken ==
    ASSUME NEW S \in SUBSET Nat, IsFiniteSet(S), NEW n \in Nat
    PROVE  \E m \in Nat : Takes(S, n, m)
<1> DEFINE m == IF n <= Cardinality(S) THEN n ELSE Cardinality(S)
<1>1. Cardinality(S) \in Nat
  BY FS_CardinalityType
<1>2. m \in Nat /\ m <= Cardinality(S)
  BY <1>1
<1>3. FirstFit(S, n) = Rounds(S, m)
  BY DEF FirstFit, Rounds
<1>4. S # {} => Cardinality(S) # 0
  BY FS_EmptySet
<1>5. Rounds(S, m) # {}
  BY <1>2, RoundsExist
<1>6. \A a \in Rounds(S, m) :
          a \in [0 .. m - 1 -> S] /\ \A i, j \in 0 .. m - 1 : a[i] = a[j] => i = j
  <2> HIDE DEF m
  <2> QED BY <1>2, RoundsTake
<1>7. m <= n /\ (n <= Cardinality(S) => m = n) /\ (S # {} /\ n # 0 => m # 0)
  BY <1>1, <1>4
<1> HIDE DEF m
<1>8. Takes(S, n, m)
  BY <1>2, <1>3, <1>5, <1>6, <1>7 DEF Takes
<1> QED BY <1>2, <1>8
=============================================================================
