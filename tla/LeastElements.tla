---------------------------- MODULE LeastElements ----------------------------
(* Least and greatest elements of finite sets, which the Min and Max of FiniteSetsExt *)
(* choose. Induction over a finite set is done by its least counterexample: among the *)
(* sets that would have no least element one is smallest.                             *)
EXTENDS Integers, FiniteSets, FiniteSetsExt, FiniteSetTheorems, TLAPS

\* A family of subsets of a finite set, unless it is empty, has one no other is within.
HaveSmallest(S) ==
    \A F \in SUBSET (SUBSET S) : F # {} => \E T \in F : \A U \in F : U \subseteq T => U = T
LEMMA SmallestSet == ASSUME NEW S, IsFiniteSet(S) PROVE HaveSmallest(S)
<1> SUFFICES ASSUME NEW F \in SUBSET (SUBSET S), F # {}
             PROVE  \E T \in F : \A U \in F : U \subseteq T => U = T
  BY DEF HaveSmallest
<1>1. FiniteSubsetsOf(S) = SUBSET S
  BY FS_FiniteSubsetsOfFinite
<1>2. IsWellFoundedOn(StrictSubsetOrdering(S), SUBSET S)
  BY <1>1, FS_StrictSubsetOrderingWellFounded
<1>3. PICK T \in F : \A U \in F : ~(<<U, T>> \in StrictSubsetOrdering(S))
  BY <1>2, WFMin
<1>4. ASSUME NEW U \in F, U \subseteq T, U # T PROVE FALSE
  <2>1. <<U, T>> \in (SUBSET S) \X (SUBSET S)
    OBVIOUS
  <2>2. <<U, T>> \in StrictSubsetOrdering(S)
    BY <1>4, <2>1 DEF StrictSubsetOrdering
  <2> QED
    BY <1>3, <2>2
<1> QED
  BY <1>4

\* A finite set of numbers has a least and a greatest one.
LEMMA LeastNumber ==
  ASSUME NEW S \in SUBSET Int, IsFiniteSet(S), S # {}
  PROVE  \E x \in S : \A y \in S : x <= y
<1> DEFINE F == {T \in SUBSET S : T # {} /\ \A x \in T : \E y \in T : y < x}
<1>1. SUFFICES ASSUME ~\E x \in S : \A y \in S : x <= y PROVE FALSE
  OBVIOUS
<1>2. S \in F
  BY <1>1
<1>3. PICK T \in F : \A U \in F : U \subseteq T => U = T
  <2>1. F \in SUBSET (SUBSET S) /\ F # {}
    BY <1>2
  <2>2. HaveSmallest(S)
    BY SmallestSet
  <2> HIDE DEF F
  <2> QED
    BY <2>1, <2>2 DEF HaveSmallest
<1>4. PICK x \in T : TRUE
  BY <1>3
<1>5. T \ {x} \in F
  <2>1. T \ {x} # {}
    BY <1>3, <1>4
  <2>2. ASSUME NEW z \in T \ {x} PROVE \E y \in T \ {x} : y < z
    <3>1. PICK y \in T : y < z
      BY <1>3, <2>2
    <3>2. CASE y # x
      BY <3>1, <3>2
    <3>3. CASE y = x
      <4>1. PICK w \in T : w < x
        BY <1>3, <1>4
      <4>2. w < z /\ w # x
        BY <1>3, <1>4, <2>2, <3>1, <3>3, <4>1
      <4> QED
        BY <4>1, <4>2
    <3> QED
      BY <3>2, <3>3
  <2> QED
    BY <1>3, <2>1, <2>2
<1> QED
  BY <1>3, <1>4, <1>5

LEMMA GreatestNumber ==
  ASSUME NEW S \in SUBSET Int, IsFiniteSet(S), S # {}
  PROVE  \E x \in S : \A y \in S : x >= y
<1> DEFINE N == {0 - x : x \in S}
<1>1. N \in SUBSET Int /\ N # {}
  <2>1. PICK x \in S : TRUE
    OBVIOUS
  <2>2. 0 - x \in N
    OBVIOUS
  <2>3. \A y \in S : 0 - y \in Int
    OBVIOUS
  <2> QED
    BY <2>2, <2>3, Zenon
<1>2. IsFiniteSet(N)
  <2> DEFINE f == [x \in S |-> 0 - x]
  <2>1. f \in Surjection(S, N)
    BY DEF Surjection
  <2> QED
    BY <2>1, FS_Surjection
<1>3. PICK m \in N : \A y \in N : m <= y
  <2> HIDE DEF N
  <2> QED
    BY <1>1, <1>2, LeastNumber
<1>4. PICK x \in S : m = 0 - x
  OBVIOUS
<1>5. ASSUME NEW y \in S PROVE x >= y
  <2>1. 0 - x <= 0 - y
    BY <1>3, <1>4
  <2> QED
    BY <2>1
<1> QED
  BY <1>5

LEMMA MinLeast ==
  ASSUME NEW S \in SUBSET Int, IsFiniteSet(S), S # {}
  PROVE  Min(S) \in S /\ \A y \in S : Min(S) <= y
BY LeastNumber DEF Min
LEMMA MaxGreatest ==
  ASSUME NEW S \in SUBSET Int, IsFiniteSet(S), S # {}
  PROVE  Max(S) \in S /\ \A y \in S : Max(S) >= y
BY GreatestNumber DEF Max
LEMMA OfTwo ==
  ASSUME NEW a \in Int, NEW b \in Int
  PROVE  /\ Min({a, b}) \in {a, b} /\ Min({a, b}) <= a /\ Min({a, b}) <= b
         /\ Max({a, b}) \in {a, b} /\ Max({a, b}) >= a /\ Max({a, b}) >= b
<1>1. PICK S : S = {a, b}
  OBVIOUS
<1>2. IsFiniteSet(S)
  <2>1. IsFiniteSet({a})
    BY FS_Singleton
  <2>2. IsFiniteSet({a} \cup {b})
    BY <2>1, FS_AddElement
  <2>3. S = {a} \cup {b}
    BY <1>1
  <2> QED
    BY <2>2, <2>3
<1>3. S \in SUBSET Int /\ S # {}
  BY <1>1
<1>4. Min(S) \in S /\ (\A y \in S : Min(S) <= y) /\ Max(S) \in S /\ (\A y \in S : Max(S) >= y)
  BY <1>2, <1>3, MinLeast, MaxGreatest
<1> QED
  BY <1>1, <1>4

\* The greatest of one finite set is at least that of another each of whose members it tops.
LEMMA MaxOfTops ==
  ASSUME NEW S \in SUBSET Int, IsFiniteSet(S), S # {}, NEW T \in SUBSET Int, IsFiniteSet(T), T # {},
         \A x \in S : \E y \in T : y >= x
  PROVE  Max(T) >= Max(S)
<1>1. Max(S) \in S
  BY MaxGreatest
<1>2. Max(T) \in T /\ \A y \in T : Max(T) >= y
  BY MaxGreatest
<1>3. PICK y \in T : y >= Max(S)
  BY <1>1
<1>4. \A a, b, c \in Int : b >= a /\ c >= b => c >= a
  OBVIOUS
<1>5. Max(S) \in Int /\ y \in Int /\ Max(T) \in Int /\ Max(T) >= y
  BY <1>1, <1>2
<1> QED
  BY <1>3, <1>4, <1>5, Zenon
==============================================================================
