----------------------------- MODULE Induction -----------------------------
(***************************************************************************)
(* Induction for the proofs about sums over a set of tasks and about what  *)
(* is restored from a stream.  A property to be shown by induction is      *)
(* given as the set Z of what has it, so that these are facts of first-    *)
(* order logic; all rest on the strict subsets of a finite set being well  *)
(* founded.                                                                *)
(***************************************************************************)
EXTENDS Integers, FiniteSetTheorems, WellFoundedInduction, TLAPS

\* A set of subsets of a finite set has a minimal element.
LEMMA SmallestSubset ==
  ASSUME NEW S, IsFiniteSet(S), NEW T \in SUBSET SUBSET S, NEW t \in T
  PROVE  \E s \in T : \A r \in T : ~(r \subseteq s /\ r # s)
<1>1. FiniteSubsetsOf(S) = SUBSET S
  BY FS_FiniteSubsetsOfFinite
<1>2. IsWellFoundedOn(StrictSubsetOrdering(S), SUBSET S) /\ T \subseteq SUBSET S /\ T # {}
  BY <1>1, FS_StrictSubsetOrderingWellFounded
<1>3. PICK s \in T : \A r \in T : ~(<<r, s>> \in StrictSubsetOrdering(S))
  BY <1>2, WFMin
<1>4. \A r \in T : r \subseteq s /\ r # s => <<r, s>> \in StrictSubsetOrdering(S)
  BY DEF StrictSubsetOrdering
<1>5. \A r \in T : ~(r \subseteq s /\ r # s)
  BY <1>3, <1>4, Zenon
<1>6. QED
  BY <1>5, Zenon

\* A finite set is in Z when each of its subsets is, given that the smaller
\* ones are: a minimal subset outside Z would be a counterexample.
LEMMA SubsetInduction ==
  ASSUME NEW S, IsFiniteSet(S), NEW Z,
         \A s \in SUBSET S : (\A r \in SUBSET s : r # s => r \in Z) => s \in Z
  PROVE  S \in Z
<1> SUFFICES ASSUME S \notin Z PROVE FALSE
  OBVIOUS
<1> DEFINE Bad == {s \in SUBSET S : s \notin Z}
<1>1. S \in Bad /\ Bad \in SUBSET SUBSET S
  OBVIOUS
<1>2. \E s \in Bad : \A r \in Bad : ~(r \subseteq s /\ r # s)
  <2> HIDE DEF Bad
  <2>1. QED
    BY <1>1, SmallestSubset
<1>3. PICK s \in Bad : \A r \in Bad : ~(r \subseteq s /\ r # s)
  BY <1>2
<1>4. \A r \in SUBSET s : r # s => r \in Z
  BY <1>3
<1>5. QED
  BY <1>4

\* Induction over the naturals, seen as the intervals 0 .. n.
LEMMA NatSetInduction ==
  ASSUME NEW Z, 0 \in Z, \A n \in Nat : n \in Z => n + 1 \in Z
  PROVE  Nat \subseteq Z
<1> SUFFICES ASSUME NEW k \in Nat, k \notin Z PROVE FALSE
  OBVIOUS
<1> DEFINE Bad == {s \in SUBSET (0 .. k) : \E n \in 0 .. k : s = 0 .. n /\ n \notin Z}
<1>1. IsFiniteSet(0 .. k)
  BY FS_Interval
<1>2. 0 .. k \in Bad /\ Bad \in SUBSET SUBSET (0 .. k)
  OBVIOUS
<1>3. \E s \in Bad : \A r \in Bad : ~(r \subseteq s /\ r # s)
  <2> DEFINE I == 0 .. k
  <2>1. IsFiniteSet(I) /\ I \in Bad /\ Bad \in SUBSET SUBSET I
    BY <1>1, <1>2
  <2> HIDE DEF I, Bad
  <2>2. QED
    BY <2>1, SmallestSubset
<1>9. PICK s \in Bad : \A r \in Bad : ~(r \subseteq s /\ r # s)
  BY <1>3
<1>4. PICK n \in 0 .. k : s = 0 .. n /\ n \notin Z
  OBVIOUS
<1>5. n # 0 /\ n - 1 \in 0 .. k /\ n \in 0 .. n /\ n \notin 0 .. n - 1 /\ 0 .. n - 1 \subseteq 0 .. n
  BY <1>4
<1>6. 0 .. n - 1 \in SUBSET (0 .. k) /\ 0 .. n - 1 # s
  BY <1>4, <1>5
<1>7. n - 1 \in Z
  BY <1>9, <1>4, <1>5, <1>6
<1>8. QED
  BY <1>4, <1>5, <1>7

=============================================================================
