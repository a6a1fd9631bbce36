-------------------------- MODULE TaskBudgetProofs --------------------------
(***************************************************************************)
(* What a task may spend, for any tree of tasks, any amounts and any       *)
(* views: a parent has set aside exactly what its unsettled children hold, *)
(* spending stays within what was allowed, and every settlement charges    *)
(* the parent in full.  The sums over a task's children are reasoned about *)
(* by induction on the set.                                                *)
(***************************************************************************)
EXTENDS TaskBudget, Induction

\* The types; that a task has a parent to reserve with is in LifeInv.
Typed ==
  /\ phase \in [Tasks -> Phases]
  /\ holder \in [Tasks -> Holders]
  /\ budget \in [Tasks -> Nat] /\ used \in [Tasks -> Nat]
  /\ reserved \in [Tasks -> Nat]
  /\ own \in [Tasks -> Nat] /\ late \in [Tasks -> Nat]
  /\ settled \in [Tasks -> BOOLEAN]
  /\ attempts \in [Tasks -> Nat] /\ \A t \in Tasks : attempts[t] <= MaxStarts[t]
  /\ retryable \in [Tasks -> BOOLEAN]
  /\ retrying \subseteq Tasks
  /\ over \in BOOLEAN

LEMMA MonusType ==
  ASSUME NEW a \in Nat, NEW b \in Nat
  PROVE  Monus(a, b) \in Nat /\ Monus(a, b) <= a /\ (Monus(a, b) > 0 => Monus(a, b) + b = a)
  BY DEF Monus

LEMMA ParentIsTask ==
  ASSUME NEW t \in Tasks, Parent[t] # None
  PROVE  Parent[t] \in Tasks /\ Parent[t] # t
  BY TaskBudgetAssumption

LEMMA BookType ==
  ASSUME Typed, NEW t \in Tasks, NEW u \in Nat, Book(t, u)
  PROVE  /\ own' \in [Tasks -> Nat] /\ settled' \in [Tasks -> BOOLEAN]
         /\ late' \in [Tasks -> Nat]
<1>1. own' \in [Tasks -> Nat] /\ settled' \in [Tasks -> BOOLEAN]
  BY DEF Book, Typed
<1>2. ASSUME NEW c \in Tasks PROVE late[c] + Late(c, t, u) \in Nat
  BY DEF Late, Typed
<1>3. QED
  BY <1>1, <1>2 DEF Book

LEMMA SettleType ==
  ASSUME Typed, NEW t \in Tasks, NEW u \in Nat, Settle(t, u)
  PROVE  /\ used' \in [Tasks -> Nat] /\ reserved' \in [Tasks -> Nat]
         /\ own' \in [Tasks -> Nat] /\ settled' \in [Tasks -> BOOLEAN]
         /\ late' \in [Tasks -> Nat]
<1> DEFINE p == Parent[t]
<1>1. /\ own' \in [Tasks -> Nat] /\ settled' \in [Tasks -> BOOLEAN]
      /\ late' \in [Tasks -> Nat]
  BY BookType DEF Settle
<1>2. CASE settled[t] \/ p = None
  <2>1. used' = [used EXCEPT ![t] = @ + u] /\ reserved' = reserved
    BY <1>2, Zenon DEF Settle
  <2>2. QED
    BY <1>1, <2>1 DEF Typed
<1>3. CASE ~(settled[t] \/ p = None)
  <2>1. /\ used' = [used EXCEPT ![t] = @ + u, ![p] = @ + used[t] + u]
        /\ reserved' = [reserved EXCEPT ![p] = Monus(@, budget[t])]
    BY <1>3, Zenon DEF Settle
  <2>2. p \in Tasks /\ p # t
    BY <1>3, ParentIsTask
  <2>3. /\ used[t] \in Nat /\ used[p] \in Nat /\ used \in [Tasks -> Nat]
        /\ reserved \in [Tasks -> Nat] /\ reserved[p] \in Nat /\ budget[t] \in Nat
    BY <2>2 DEF Typed
  <2>4. Monus(reserved[p], budget[t]) \in Nat
    BY <2>3, MonusType
  <2>5. used' \in [Tasks -> Nat] /\ reserved' \in [Tasks -> Nat]
    BY <2>1, <2>2, <2>3, <2>4
  <2>6. QED
    BY <1>1, <2>5
<1>4. QED
  BY <1>2, <1>3

LEMMA InitTyped == Init => Typed
<1> SUFFICES ASSUME Init PROVE Typed
  OBVIOUS
<1>1. over \in BOOLEAN /\ settled \in [Tasks -> BOOLEAN] /\ retryable \in [Tasks -> BOOLEAN]
  BY DEF Init
<1>2. attempts \in [Tasks -> Nat] /\ \A t \in Tasks : attempts[t] <= MaxStarts[t]
  BY TaskBudgetAssumption DEF Init
<1>3. phase \in [Tasks -> Phases] /\ holder \in [Tasks -> Holders]
  BY DEF Init, Phases, Holders
<1>4. QED
  BY <1>1, <1>2, <1>3 DEF Init, Typed

LEMMA NextTyped == Typed /\ [Next]_vars => Typed'
<1> SUFFICES ASSUME Typed, [Next]_vars PROVE Typed'
  OBVIOUS
<1> USE TaskBudgetAssumption
<1>1. ASSUME NEW t \in Tasks, NEW b \in Amounts, AddChild(t, b) PROVE Typed'
  <2>1. b \in Nat
    OBVIOUS
  <2>2. reserved' \in [Tasks -> Nat]
    <3>1. CASE Parent[t] = None
      BY <1>1, <3>1 DEF AddChild, Typed
    <3>2. CASE Parent[t] # None
      <4>1. Parent[t] \in Tasks /\ reserved' = [reserved EXCEPT ![Parent[t]] = @ + b]
        BY <1>1, <3>2, ParentIsTask DEF AddChild
      <4>2. QED
        BY <2>1, <4>1 DEF Typed
    <3>3. QED
      BY <3>1, <3>2
  <2>3. phase' \in [Tasks -> Phases] /\ budget' \in [Tasks -> Nat]
    BY <1>1, <2>1 DEF AddChild, Typed, Phases
  <2>4. QED
    BY <1>1, <2>2, <2>3 DEF AddChild, Typed
<1>2. ASSUME NEW t \in Tasks, Queue(t) \/ Block(t) \/ Requeue(t) PROVE Typed'
  <2>1. phase' \in [Tasks -> Phases]
    BY <1>2 DEF Queue, Block, Requeue, Typed, Phases
  <2>2. UNCHANGED <<holder, attempts, retryable, budget, money, retrying, over>>
    BY <1>2 DEF Queue, Block, Requeue
  <2>3. QED
    BY <2>1, <2>2 DEF Typed, money
<1>3. ASSUME NEW t \in Tasks, Start(t) PROVE Typed'
  <2>1. phase' \in [Tasks -> Phases] /\ holder' \in [Tasks -> Holders]
    BY <1>3 DEF Start, Typed, Phases, Holders
  <2>2. attempts' \in [Tasks -> Nat] /\ \A r \in Tasks : attempts'[r] <= MaxStarts[r]
    BY <1>3 DEF Start, Typed
  <2>3. retryable' \in [Tasks -> BOOLEAN]
    BY <1>3 DEF Start, Typed
  <2>4. QED
    BY <1>3, <2>1, <2>2, <2>3 DEF Start, Typed, money
<1>4. ASSUME NEW t \in Tasks, NEW u \in Amounts, Consume(t, u) PROVE Typed'
  <2>1. u \in Nat
    OBVIOUS
  <2>2. used' \in [Tasks -> Nat] /\ own' \in [Tasks -> Nat]
    BY <1>4, <2>1 DEF Consume, Typed
  <2>3. QED
    BY <1>4, <2>2 DEF Consume, Typed, work
<1>5. ASSUME NEW t \in Tasks, NEW u \in Amounts \cup {0},
             NEW outcome \in {"completed", "failed", "cancelled"}, NEW again \in BOOLEAN,
             Finish(t, u, outcome, again)
      PROVE  Typed'
  <2>1. phase' \in [Tasks -> Phases] /\ holder' \in [Tasks -> Holders]
    BY <1>5 DEF Finish, Typed, Phases, Holders
  <2>2. over' \in BOOLEAN
    BY <1>5, Zenon DEF Finish
  <2>3. retryable' \in [Tasks -> BOOLEAN]
    BY <1>5 DEF Finish, Typed
  <2>4. Settle(t, u) /\ u \in Nat /\ UNCHANGED <<budget, attempts, retrying>>
    BY <1>5 DEF Finish
  <2>5. QED
    BY <2>1, <2>2, <2>3, <2>4, SettleType DEF Typed
<1>6. ASSUME NEW t \in Tasks, NEW target \in {"completed", "failed", "cancelled"},
             Close(t, target)
      PROVE  Typed'
  <2>1. phase' \in [Tasks -> Phases]
    BY <1>6 DEF Close, Typed, Phases
  <2>2. Settle(t, 0) /\ UNCHANGED <<holder, attempts, retryable, budget, retrying, over>>
    BY <1>6 DEF Close
  <2>3. QED
    BY <2>1, <2>2, SettleType DEF Typed
<1>7. ASSUME NEW t \in Tasks, Expire(t) PROVE Typed'
  BY <1>7 DEF Expire, Typed, Phases, Holders, money
<1>8. ASSUME NEW t \in Tasks, RetryBegin(t) PROVE Typed'
  BY <1>8 DEF RetryBegin, Typed, work, money
<1>9. ASSUME NEW t \in Tasks, Supersede(t) PROVE Typed'
  BY <1>9 DEF Supersede, Typed, Holders, money
<1>10. CASE UNCHANGED vars
  BY <1>10 DEF vars, work, money, Typed
<1>11. QED
  BY <1>1, <1>2, <1>3, <1>4, <1>5, <1>6, <1>7, <1>8, <1>9, <1>10 DEF Next

-----------------------------------------------------------------------------
(* Sums over finite sets.                                                  *)

Pick(s) == CHOOSE x \in s : TRUE
SumStep(f, g, s) == IF s = {} THEN 0 ELSE f[Pick(s)] + g[s \ {Pick(s)}]

LEMMA Picked ==
  ASSUME NEW s, s # {}
  PROVE  Pick(s) \in s /\ s \ {Pick(s)} \in SUBSET s /\ s \ {Pick(s)} # s
<1>1. Pick(s) \in s
  BY DEF Pick
<1>2. QED
  BY <1>1

\* The recursion that MapThenSumSet is defined by has a solution.
LEMMA SumExists ==
  ASSUME NEW f, NEW S, IsFiniteSet(S)
  PROVE  \E g : g = [s \in SUBSET S |-> SumStep(f, g, s)]
<1> DEFINE Up(n, g) == \A s \in SUBSET S : Cardinality(s) <= n => g[s] = SumStep(f, g, s)
           Z == {n \in Nat : \E g : Up(n, g)}
<1>1. \A s \in SUBSET S : IsFiniteSet(s) /\ Cardinality(s) \in Nat
  BY FS_Subset, FS_CardinalityType
<1>2. \A s \in SUBSET S : s # {} =>
        /\ s \ {Pick(s)} \in SUBSET S
        /\ Cardinality(s \ {Pick(s)}) = Cardinality(s) - 1
  <2> SUFFICES ASSUME NEW s \in SUBSET S, s # {}
               PROVE  /\ s \ {Pick(s)} \in SUBSET S
                      /\ Cardinality(s \ {Pick(s)}) = Cardinality(s) - 1
    OBVIOUS
  <2>1. Pick(s) \in s
    BY Picked
  <2>2. QED
    BY <1>1, <2>1, FS_RemoveElement
<1>3. 0 \in Z
  <2> DEFINE g == [s \in SUBSET S |-> 0]
  <2>1. \A s \in SUBSET S : Cardinality(s) <= 0 => s = {}
    BY <1>1, FS_EmptySet
  <2>2. Up(0, g)
    BY <2>1 DEF SumStep
  <2>3. QED
    BY <2>2
<1>4. ASSUME NEW n \in Nat, n \in Z PROVE n + 1 \in Z
  <2>1. PICK g : Up(n, g)
    BY <1>4
  <2> DEFINE h == [s \in SUBSET S |-> SumStep(f, g, s)]
  <2>2. ASSUME NEW s \in SUBSET S, Cardinality(s) <= n + 1 PROVE h[s] = SumStep(f, h, s)
    <3>1. h[s] = SumStep(f, g, s)
      OBVIOUS
    <3>2. CASE s = {}
      BY <3>1, <3>2 DEF SumStep
    <3>3. CASE s # {}
      <4> DEFINE r == s \ {Pick(s)}
      <4>1. r \in SUBSET S /\ Cardinality(r) <= n
        BY <1>1, <1>2, <2>2, <3>3
      <4>2. g[r] = SumStep(f, g, r) /\ h[r] = SumStep(f, g, r)
        BY <2>1, <4>1
      <4>3. QED
        BY <3>1, <3>3, <4>2 DEF SumStep
    <3>4. QED
      BY <3>2, <3>3
  <2>3. Up(n + 1, h)
    BY <2>2
  <2> HIDE DEF Up, h
  <2>4. QED
    BY <2>3
<1> HIDE DEF Z
<1>5. Nat \subseteq Z
  BY <1>3, <1>4, NatSetInduction
<1>6. Cardinality(S) \in Z
  BY <1>5, FS_CardinalityType
<1>7. PICK g : Up(Cardinality(S), g)
  BY <1>6 DEF Z
<1>8. \A s \in SUBSET S : g[s] = SumStep(f, g, s)
  BY <1>1, <1>7, FS_Subset
<1> DEFINE h == [s \in SUBSET S |-> g[s]]
<1>9. \A s \in SUBSET S : SumStep(f, g, s) = SumStep(f, h, s)
  BY <1>2 DEF SumStep
<1>10. h = [s \in SUBSET S |-> SumStep(f, h, s)]
  BY <1>8, <1>9
<1>11. QED
  BY <1>10

\* It has only one: what it computes for a set does not depend on the larger
\* set it is computed in.
LEMMA SumUnique ==
  ASSUME NEW f, NEW S, IsFiniteSet(S), NEW g, NEW h,
         \A s \in SUBSET S : g[s] = SumStep(f, g, s),
         \A s \in SUBSET S : h[s] = SumStep(f, h, s)
  PROVE  g[S] = h[S]
<1> DEFINE Z == {s \in SUBSET S : g[s] = h[s]}
<1>1. ASSUME NEW s \in SUBSET S, \A r \in SUBSET s : r # s => r \in Z
      PROVE  s \in Z
  <2>1. CASE s = {}
    BY <2>1 DEF SumStep
  <2>2. CASE s # {}
    <3>1. s \ {Pick(s)} \in Z
      BY <1>1, <2>2, Picked
    <3>2. g[s] = f[Pick(s)] + g[s \ {Pick(s)}] /\ h[s] = f[Pick(s)] + h[s \ {Pick(s)}]
      BY <2>2 DEF SumStep
    <3>3. QED
      BY <3>1, <3>2
  <2>3. QED
    BY <2>1, <2>2
<1> HIDE DEF Z
<1>2. S \in Z
  BY <1>1, SubsetInduction
<1>3. QED
  BY <1>2 DEF Z

LEMMA TotalStep ==
  ASSUME NEW f, NEW S, IsFiniteSet(S)
  PROVE  /\ S = {} => Total(f, S) = 0
         /\ S # {} => Total(f, S) = f[Pick(S)] + Total(f, S \ {Pick(S)})
<1> DEFINE Solves(g, T) == g = [s \in SUBSET T |-> SumStep(f, g, s)]
<1>1. ASSUME NEW T, IsFiniteSet(T)
      PROVE  \E g : Solves(g, T) /\ Total(f, T) = g[T]
  <2> DEFINE it == CHOOSE g : Solves(g, T)
  <2>1. \E g : Solves(g, T)
    BY <1>1, SumExists
  <2>2. Solves(it, T)
    BY <2>1, Zenon
  <2>3. Total(f, T) = it[T]
    BY DEF Total, MapThenSumSet, MapThenFoldSet, SumStep, Pick
  <2>4. QED
    BY <2>2, <2>3
<1>2. PICK g : Solves(g, S) /\ Total(f, S) = g[S]
  BY <1>1
<1>3. \A s \in SUBSET S : g[s] = SumStep(f, g, s)
  BY <1>2
<1>4. ASSUME S # {} PROVE Total(f, S) = f[Pick(S)] + Total(f, S \ {Pick(S)})
  <2> DEFINE R == S \ {Pick(S)}
  <2>1. R \in SUBSET S /\ IsFiniteSet(R)
    BY FS_Subset
  <2>2. PICK h : Solves(h, R) /\ Total(f, R) = h[R]
    BY <1>1, <2>1
  <2>3. (\A s \in SUBSET R : h[s] = SumStep(f, h, s)) /\ \A s \in SUBSET R : g[s] = SumStep(f, g, s)
    BY <1>3, <2>1, <2>2
  <2>4. g[R] = h[R]
    <3> HIDE DEF R
    <3>1. QED
      BY <2>1, <2>3, SumUnique
  <2>5. QED
    BY <1>2, <1>3, <1>4, <2>2, <2>4 DEF SumStep
<1>5. QED
  BY <1>2, <1>3, <1>4 DEF SumStep

LEMMA TotalEmpty == \A f : Total(f, {}) = 0
  BY TotalStep, FS_EmptySet

LEMMA TotalType ==
  ASSUME NEW S, IsFiniteSet(S), NEW f, \A x \in S : f[x] \in Nat
  PROVE  Total(f, S) \in Nat
<1> DEFINE Z == {s \in SUBSET S : Total(f, s) \in Nat}
<1>1. ASSUME NEW s \in SUBSET S, \A r \in SUBSET s : r # s => r \in Z
      PROVE  s \in Z
  <2>1. IsFiniteSet(s)
    BY FS_Subset
  <2>2. CASE s = {}
    BY <2>2, TotalEmpty
  <2>3. CASE s # {}
    <3>1. s \ {Pick(s)} \in Z /\ Pick(s) \in S
      BY <1>1, <2>3, Picked
    <3>2. Total(f, s) = f[Pick(s)] + Total(f, s \ {Pick(s)})
      BY <2>1, <2>3, TotalStep
    <3>3. QED
      BY <3>1, <3>2
  <2>4. QED
    BY <2>2, <2>3
<1> HIDE DEF Z
<1>2. S \in Z
  BY <1>1, SubsetInduction
<1>3. QED
  BY <1>2 DEF Z

\* Taking any element out of a sum, not only the one that was picked.
LEMMA TotalWithout ==
  ASSUME NEW S, IsFiniteSet(S), NEW f, \A x \in S : f[x] \in Nat, NEW x \in S
  PROVE  Total(f, S) = f[x] + Total(f, S \ {x})
<1> DEFINE Z == {s \in SUBSET S : \A y \in s : Total(f, s) = f[y] + Total(f, s \ {y})}
<1>1. ASSUME NEW s \in SUBSET S, \A r \in SUBSET s : r # s => r \in Z, NEW y \in s
      PROVE  Total(f, s) = f[y] + Total(f, s \ {y})
  <2> DEFINE p == Pick(s)
  <2>1. p \in s
    BY Picked
  <2>2. \A r \in SUBSET S : IsFiniteSet(r) /\ Total(f, r) \in Nat
    <3> SUFFICES ASSUME NEW r \in SUBSET S PROVE IsFiniteSet(r) /\ Total(f, r) \in Nat
      OBVIOUS
    <3>1. IsFiniteSet(r) /\ \A z \in r : f[z] \in Nat
      BY FS_Subset
    <3>2. QED
      BY <3>1, TotalType
  <2>3. Total(f, s) = f[p] + Total(f, s \ {p})
    BY <2>1, <2>2, TotalStep
  <2>4. CASE y = p
    BY <2>3, <2>4
  <2>5. CASE y # p
    <3>1. s \ {p} \in Z /\ s \ {y} \in Z
      BY <1>1, <2>1
    <3>2. Total(f, s \ {p}) = f[y] + Total(f, (s \ {p}) \ {y})
      BY <2>5, <3>1
    <3>3. Total(f, s \ {y}) = f[p] + Total(f, (s \ {y}) \ {p})
      BY <2>1, <2>5, <3>1
    <3>4. Total(f, (s \ {p}) \ {y}) = Total(f, (s \ {y}) \ {p})
      <4>1. (s \ {p}) \ {y} = (s \ {y}) \ {p}
        OBVIOUS
      <4>2. QED
        BY <4>1
    <3>5. /\ Total(f, (s \ {y}) \ {p}) \in Nat /\ Total(f, s \ {p}) \in Nat
          /\ Total(f, s \ {y}) \in Nat /\ f[p] \in Nat /\ f[y] \in Nat
      BY <2>1, <2>2
    <3> DEFINE a == Total(f, s)
               b == Total(f, s \ {p})
               c == Total(f, s \ {y})
               d == Total(f, (s \ {y}) \ {p})
               v == f[p]
               w == f[y]
    <3>6. a = v + b /\ b = w + d /\ c = v + d /\ v \in Nat /\ w \in Nat /\ d \in Nat
      BY <2>3, <3>2, <3>3, <3>4, <3>5
    <3> HIDE DEF a, b, c, d, v, w
    <3>7. a = w + c
      BY <3>6
    <3>8. QED
      BY <3>7 DEF a, c, w
  <2>6. QED
    BY <2>4, <2>5
<1>2. \A s \in SUBSET S : (\A r \in SUBSET s : r # s => r \in Z) => s \in Z
  BY <1>1
<1> HIDE DEF Z
<1>3. S \in Z
  BY <1>2, SubsetInduction
<1>4. QED
  BY <1>3 DEF Z

\* A sum depends on the function's values, and grows with them.
LEMMA TotalMonotone ==
  ASSUME NEW S, IsFiniteSet(S), NEW f, NEW g,
         \A x \in S : f[x] \in Nat /\ g[x] \in Nat /\ f[x] <= g[x]
  PROVE  Total(f, S) <= Total(g, S)
<1> DEFINE Z == {s \in SUBSET S : Total(f, s) <= Total(g, s)}
<1>1. ASSUME NEW s \in SUBSET S, \A r \in SUBSET s : r # s => r \in Z
      PROVE  s \in Z
  <2>1. IsFiniteSet(s)
    BY FS_Subset
  <2>2. CASE s = {}
    BY <2>2, TotalEmpty
  <2>3. CASE s # {}
    <3> DEFINE p == Pick(s)
               r == s \ {p}
    <3>1. r \in Z /\ p \in S /\ r \in SUBSET S
      BY <1>1, <2>3, Picked
    <3>2. Total(f, s) = f[p] + Total(f, r) /\ Total(g, s) = g[p] + Total(g, r)
      BY <2>1, <2>3, TotalStep
    <3>3. Total(f, r) \in Nat /\ Total(g, r) \in Nat
      <4>1. IsFiniteSet(r) /\ (\A x \in r : f[x] \in Nat) /\ \A x \in r : g[x] \in Nat
        BY <3>1, FS_Subset
      <4> HIDE DEF r
      <4>2. QED
        BY <4>1, TotalType
    <3> HIDE DEF p, r
    <3>4. QED
      BY <3>1, <3>2, <3>3
  <2>4. QED
    BY <2>2, <2>3
<1> HIDE DEF Z
<1>2. S \in Z
  BY <1>1, SubsetInduction
<1>3. QED
  BY <1>2 DEF Z

LEMMA TotalSame ==
  ASSUME NEW S, IsFiniteSet(S), NEW f, NEW g, \A x \in S : f[x] \in Nat /\ f[x] = g[x]
  PROVE  Total(f, S) = Total(g, S)
<1>1. Total(f, S) \in Nat /\ Total(g, S) \in Nat
  BY TotalType
<1>2. Total(f, S) <= Total(g, S) /\ Total(g, S) <= Total(f, S)
  BY TotalMonotone
<1>3. QED
  BY <1>1, <1>2

LEMMA TotalSplit ==
  ASSUME NEW S, IsFiniteSet(S), NEW f, \A x \in S : f[x] \in Nat, NEW T \in SUBSET S
  PROVE  Total(f, S) = Total(f, T) + Total(f, S \ T)
<1> DEFINE Z == {t \in SUBSET S : Total(f, S) = Total(f, t) + Total(f, S \ t)}
<1>1. ASSUME NEW s \in SUBSET T, \A r \in SUBSET s : r # s => r \in Z
      PROVE  s \in Z
  <2>1. \A r \in SUBSET S : IsFiniteSet(r) /\ Total(f, r) \in Nat
    <3> SUFFICES ASSUME NEW r \in SUBSET S PROVE IsFiniteSet(r) /\ Total(f, r) \in Nat
      OBVIOUS
    <3>1. IsFiniteSet(r) /\ \A z \in r : f[z] \in Nat
      BY FS_Subset
    <3>2. QED
      BY <3>1, TotalType
  <2>2. CASE s = {}
    <3>1. S \ s = S /\ Total(f, s) = 0
      BY <2>2, TotalEmpty
    <3>2. QED
      BY <2>1, <2>2, <3>1
  <2>3. CASE s # {}
    <3> DEFINE p == Pick(s)
               r == s \ {p}
    <3>1. r \in Z /\ p \in s /\ r \in SUBSET S /\ s \in SUBSET S
      BY <1>1, <2>3, Picked
    <3>2. Total(f, s) = f[p] + Total(f, r)
      BY <2>1, <3>1, TotalWithout
    <3>3. p \in S \ r /\ S \ r \in SUBSET S /\ (S \ r) \ {p} = S \ s
      BY <3>1
    <3>4. Total(f, S \ r) = f[p] + Total(f, S \ s)
      <4> DEFINE q == S \ r
      <4>1. IsFiniteSet(q) /\ (\A x \in q : f[x] \in Nat) /\ p \in q /\ q \ {p} = S \ s
        BY <2>1, <3>3
      <4> HIDE DEF q
      <4>2. Total(f, q) = f[p] + Total(f, q \ {p})
        BY <4>1, TotalWithout
      <4>3. QED
        BY <4>1, <4>2 DEF q
    <3>5. /\ Total(f, r) \in Nat /\ Total(f, s) \in Nat /\ Total(f, S \ r) \in Nat
          /\ Total(f, S \ s) \in Nat /\ Total(f, S) \in Nat /\ f[p] \in Nat
      BY <2>1, <3>1
    <3>6. Total(f, S) = Total(f, r) + Total(f, S \ r)
      BY <3>1
    <3> HIDE DEF p, r
    <3>7. QED
      BY <3>1, <3>2, <3>4, <3>5, <3>6
  <2>4. QED
    BY <2>2, <2>3
<1> HIDE DEF Z
<1>2. IsFiniteSet(T)
  BY FS_Subset
<1>3. T \in Z
  BY <1>1, <1>2, SubsetInduction
<1>4. QED
  BY <1>3 DEF Z
\* Two functions that grow alike, with two others, over a set.
LEMMA TotalShift ==
  ASSUME NEW S, IsFiniteSet(S), NEW f, NEW g, NEW h, NEW k,
         \A x \in S : /\ f[x] \in Nat /\ g[x] \in Nat /\ h[x] \in Nat /\ k[x] \in Nat
                      /\ f[x] + k[x] = g[x] + h[x]
  PROVE  Total(f, S) + Total(k, S) = Total(g, S) + Total(h, S)
<1> DEFINE Z == {s \in SUBSET S : Total(f, s) + Total(k, s) = Total(g, s) + Total(h, s)}
<1>1. ASSUME NEW s \in SUBSET S, \A r \in SUBSET s : r # s => r \in Z
      PROVE  s \in Z
  <2>1. IsFiniteSet(s)
    BY FS_Subset
  <2>2. CASE s = {}
    BY <2>2, TotalEmpty
  <2>3. CASE s # {}
    <3> DEFINE p == Pick(s)
               r == s \ {p}
    <3>1. r \in Z /\ p \in S /\ r \in SUBSET S
      BY <1>1, <2>3, Picked
    <3>2. /\ Total(f, s) = f[p] + Total(f, r) /\ Total(g, s) = g[p] + Total(g, r)
          /\ Total(h, s) = h[p] + Total(h, r) /\ Total(k, s) = k[p] + Total(k, r)
      BY <2>1, <2>3, TotalStep
    <3>3. /\ Total(f, r) \in Nat /\ Total(g, r) \in Nat
          /\ Total(h, r) \in Nat /\ Total(k, r) \in Nat
      <4>1. IsFiniteSet(r) /\ \A x \in r : f[x] \in Nat /\ g[x] \in Nat /\ h[x] \in Nat /\ k[x] \in Nat
        BY <3>1, FS_Subset
      <4> HIDE DEF r
      <4>2. QED
        BY <4>1, TotalType
    <3> HIDE DEF p, r
    <3>4. QED
      BY <3>1, <3>2, <3>3
  <2>4. QED
    BY <2>2, <2>3
<1> HIDE DEF Z
<1>2. S \in Z
  BY <1>1, SubsetInduction
<1>3. QED
  BY <1>2 DEF Z

-----------------------------------------------------------------------------
(* What is promised and what is spent.                                     *)

\* A task that was not added has been promised nothing and is nobody's; one
\* that has not settled has nothing late.
LifeInv ==
  \A t \in Tasks :
    /\ phase[t] = "absent" => budget[t] = 0 /\ ~settled[t] /\ holder[t] = "none"
    /\ phase[t] # "absent" /\ Parent[t] # None => phase[Parent[t]] # "absent"
    /\ ~settled[t] => late[t] = 0

BudgetInv == Typed /\ LifeInv /\ ReservationsBalance /\ WithinAllowance /\ ParentIsCharged

LEMMA ChildrenFinite ==
  ASSUME NEW p
  PROVE  /\ Children(p) \subseteq Tasks /\ IsFiniteSet(Children(p))
         /\ \A S \in SUBSET Children(p) : IsFiniteSet(S)
<1>1. Children(p) \subseteq Tasks
  BY DEF Children
<1>2. QED
  BY <1>1, FS_Subset, TaskBudgetAssumption

LEMMA AvailableBound ==
  ASSUME Typed, NEW t \in Tasks, NEW u \in Nat, u <= Available(t)
  PROVE  u > 0 => used[t] + reserved[t] + u <= budget[t]
<1> DEFINE left == Monus(budget[t], used[t])
<1>1. budget[t] \in Nat /\ used[t] \in Nat /\ reserved[t] \in Nat
  BY DEF Typed
<1>2. left \in Nat /\ (left > 0 => left + used[t] = budget[t])
  BY <1>1, MonusType
<1> HIDE DEF left
<1>3. Monus(left, reserved[t]) \in Nat /\ Monus(left, reserved[t]) <= left
      /\ (Monus(left, reserved[t]) > 0 => Monus(left, reserved[t]) + reserved[t] = left)
  BY <1>1, <1>2, MonusType
<1>4. u <= Monus(left, reserved[t])
  BY DEF Available, left
<1>5. QED
  BY <1>1, <1>2, <1>3, <1>4

\* Settle, read out: what it does to the task and to its parent.
LEMMA SettleEffect ==
  ASSUME Typed, NEW t \in Tasks, NEW u \in Nat, Settle(t, u)
  PROVE  /\ \A q \in Tasks : settled'[q] <=> settled[q] \/ q = t
         /\ \A q \in Tasks : own'[q] = IF q = t THEN own[t] + u ELSE own[q]
         /\ \A q \in Tasks : late'[q] = late[q] + Late(q, t, u)
         /\ \A q \in Tasks :
              used'[q] = CASE q = t -> used[t] + u
                           [] q # t /\ q = Parent[t] /\ ~settled[t] -> used[q] + (used[t] + u)
                           [] OTHER -> used[q]
         /\ \A q \in Tasks :
              reserved'[q] = IF q = Parent[t] /\ ~settled[t]
                               THEN Monus(reserved[q], budget[t]) ELSE reserved[q]
<1> DEFINE p == Parent[t]
<1>1. \A q \in Tasks : settled'[q] <=> settled[q] \/ q = t
  BY DEF Settle, Book, Typed
<1>2. \A q \in Tasks : /\ own'[q] = IF q = t THEN own[t] + u ELSE own[q]
                       /\ late'[q] = late[q] + Late(q, t, u)
  BY DEF Settle, Book, Typed
<1>3. CASE settled[t] \/ p = None
  <2>1. used' = [used EXCEPT ![t] = @ + u] /\ reserved' = reserved
    BY <1>3, Zenon DEF Settle
  <2>2. \A q \in Tasks : ~(q = p /\ ~settled[t])
    BY <1>3, TaskBudgetAssumption
  <2>3. QED
    BY <1>1, <1>2, <2>1, <2>2 DEF Typed
<1>4. CASE ~(settled[t] \/ p = None)
  <2>1. /\ used' = [used EXCEPT ![t] = @ + u, ![p] = @ + used[t] + u]
        /\ reserved' = [reserved EXCEPT ![p] = Monus(@, budget[t])]
    BY <1>4, Zenon DEF Settle
  <2>2. p \in Tasks /\ p # t /\ ~settled[t]
    BY <1>4, ParentIsTask
  <2>3. used \in [Tasks -> Nat] /\ reserved \in [Tasks -> Nat]
    BY DEF Typed
  <2>4. /\ used'[t] = used[t] + u /\ used'[p] = used[p] + used[t] + u
        /\ \A q \in Tasks \ {t, p} : used'[q] = used[q]
    BY <2>1, <2>2, <2>3
  <2>5. used[p] + used[t] + u = used[p] + (used[t] + u)
    BY <2>2, <2>3
  <2>6. \A q \in Tasks : reserved'[q] = IF q = p THEN Monus(reserved[q], budget[t]) ELSE reserved[q]
    BY <2>1, <2>2, <2>3
  <2>7. QED
    BY <1>1, <1>2, <2>2, <2>4, <2>5, <2>6
<1>5. QED
  BY <1>3, <1>4

-----------------------------------------------------------------------------
(* The balance of promises.                                                *)

LEMMA HeldType ==
  ASSUME Typed, NEW p
  PROVE  /\ Held(p) \in Nat /\ IsFiniteSet(Unsettled(p))
         /\ Unsettled(p) \subseteq Tasks
         /\ \A c \in Unsettled(p) : budget[c] \in Nat
<1>1. IsFiniteSet(Unsettled(p)) /\ Unsettled(p) \subseteq Tasks
  BY ChildrenFinite DEF Unsettled
<1>2. \A c \in Unsettled(p) : budget[c] \in Nat
  BY <1>1 DEF Typed
<1>3. QED
  BY <1>1, <1>2, TotalType DEF Held

LEMMA AddChildBalance ==
  ASSUME BudgetInv, NEW t \in Tasks, NEW b \in Nat, AddChild(t, b)
  PROVE  ReservationsBalance'
<1> USE DEF BudgetInv
<1>1. /\ budget' = [budget EXCEPT ![t] = b] /\ settled' = settled /\ phase[t] = "absent"
      /\ budget[t] = 0 /\ ~settled[t]
  BY DEF AddChild, LifeInv
<1>2. \A q : Unsettled(q)' = Unsettled(q)
  BY <1>1 DEF Unsettled
<1>3. \A c \in Tasks : c # t => budget'[c] = budget[c]
  BY <1>1 DEF Typed
<1>4. budget'[t] = b
  BY <1>1 DEF Typed
<1>5. ASSUME NEW q \in Tasks, q # Parent[t] PROVE reserved'[q] = Held(q)'
  <2>1. reserved'[q] = reserved[q]
    BY <1>5, ParentIsTask DEF AddChild, Typed
  <2>2. \A c \in Unsettled(q) : budget[c] \in Nat /\ budget[c] = budget'[c]
    BY <1>3, <1>5, HeldType DEF Unsettled, Children
  <2>3. Total(budget, Unsettled(q)) = Total(budget', Unsettled(q))
    BY <2>2, HeldType, TotalSame
  <2>4. QED
    BY <1>2, <2>1, <2>3 DEF Held, ReservationsBalance
<1>6. ASSUME NEW q \in Tasks, q = Parent[t] PROVE reserved'[q] = Held(q)'
  <2> DEFINE W == Unsettled(q)
             R == W \ {t}
  <2>1. reserved'[q] = reserved[q] + b
    BY <1>6, TaskBudgetAssumption DEF AddChild, Typed
  <2>2. t \in W /\ IsFiniteSet(W) /\ W \subseteq Tasks
    BY <1>1, <1>6, HeldType DEF Unsettled, Children
  <2>3. IsFiniteSet(R) /\ (\A c \in R : budget[c] \in Nat /\ budget[c] = budget'[c])
    BY <1>3, <2>2, FS_RemoveElement DEF Typed
  <2>4. (\A c \in W : budget[c] \in Nat) /\ (\A c \in W : budget'[c] \in Nat)
    BY <1>3, <1>4, <2>2 DEF Typed
  <2> HIDE DEF W
  <2>5. Total(budget, W) = budget[t] + Total(budget, R)
    BY <2>2, <2>4, TotalWithout
  <2>6. Total(budget', W) = budget'[t] + Total(budget', R)
    BY <2>2, <2>4, TotalWithout
  <2>7. Total(budget, R) = Total(budget', R) /\ Total(budget, R) \in Nat
    <3> HIDE DEF R
    <3>1. QED
      BY <2>3, TotalSame, TotalType
  <2> HIDE DEF R
  <2>8. reserved[q] = Total(budget, W)
    BY DEF ReservationsBalance, Held, W
  <2>9. Total(budget', W) = Held(q)'
    BY <1>2 DEF Held, W
  <2>10. QED
    BY <1>1, <1>4, <2>1, <2>5, <2>6, <2>7, <2>8, <2>9
<1>7. QED
  BY <1>5, <1>6 DEF ReservationsBalance

\* What an unsettled child was promised is part of what its parent reserves.
LEMMA PromiseIsHeld ==
  ASSUME Typed, ReservationsBalance, NEW t \in Tasks, ~settled[t], Parent[t] # None
  PROVE  /\ Parent[t] \in Tasks /\ budget[t] <= reserved[Parent[t]]
         /\ reserved[Parent[t]] - budget[t] = Total(budget, Unsettled(Parent[t]) \ {t})
<1> DEFINE q == Parent[t]
           W == Unsettled(q)
<1>1. q \in Tasks
  BY ParentIsTask
<1>2. t \in W /\ IsFiniteSet(W) /\ \A c \in W : budget[c] \in Nat
  BY HeldType DEF Unsettled, Children
<1>3. IsFiniteSet(W \ {t}) /\ \A c \in W \ {t} : budget[c] \in Nat
  BY <1>2, FS_RemoveElement
<1>4. Total(budget, W) = budget[t] + Total(budget, W \ {t})
  <2> HIDE DEF W
  <2>1. QED
    BY <1>2, TotalWithout
<1>5. Total(budget, W \ {t}) \in Nat
  <2> DEFINE R == W \ {t}
  <2>1. IsFiniteSet(R) /\ \A c \in R : budget[c] \in Nat
    BY <1>3
  <2> HIDE DEF R
  <2>2. Total(budget, R) \in Nat
    BY <2>1, TotalType
  <2>3. QED
    BY <2>2 DEF R
<1>6. reserved[q] = Total(budget, W) /\ budget[t] \in Nat
  BY <1>1 DEF ReservationsBalance, Held, Typed
<1> HIDE DEF W
<1>7. budget[t] <= reserved[q] /\ reserved[q] - budget[t] = Total(budget, W \ {t})
  BY <1>4, <1>5, <1>6
<1>8. QED
  BY <1>1, <1>7 DEF W

LEMMA SettleBalance ==
  ASSUME BudgetInv, NEW t \in Tasks, NEW u \in Nat, Settle(t, u), UNCHANGED budget
  PROVE  ReservationsBalance'
<1> USE DEF BudgetInv
<1>1. ASSUME NEW q \in Tasks, ~(q = Parent[t] /\ ~settled[t]) PROVE reserved'[q] = Held(q)'
  <2>1. Unsettled(q)' = Unsettled(q)
    BY <1>1, SettleEffect DEF Unsettled, Children
  <2>2. reserved'[q] = reserved[q]
    BY <1>1, SettleEffect
  <2>3. QED
    BY <2>1, <2>2 DEF Held, ReservationsBalance
<1>2. ASSUME NEW q \in Tasks, q = Parent[t], ~settled[t] PROVE reserved'[q] = Held(q)'
  <2>1. Parent[t] # None
    BY <1>2, TaskBudgetAssumption
  <2>2. reserved'[q] = Monus(reserved[q], budget[t])
    BY <1>2, SettleEffect
  <2>3. budget[t] <= reserved[q] /\ reserved[q] - budget[t] = Total(budget, Unsettled(q) \ {t})
    BY <1>2, <2>1, PromiseIsHeld
  <2>4. Unsettled(q)' = Unsettled(q) \ {t}
    BY SettleEffect DEF Unsettled, Children
  <2>5. reserved'[q] = reserved[q] - budget[t]
    BY <2>2, <2>3 DEF Monus, Typed
  <2>6. QED
    BY <2>3, <2>4, <2>5 DEF Held
<1>3. QED
  BY <1>1, <1>2 DEF ReservationsBalance

-----------------------------------------------------------------------------
(* Allowances.                                                             *)

LEMMA AddChildWithin ==
  ASSUME BudgetInv, NEW t \in Tasks, NEW b \in Nat, AddChild(t, b)
  PROVE  WithinAllowance'
<1> USE DEF BudgetInv
<1>1. SUFFICES ASSUME ~over, NEW q \in Tasks PROVE used'[q] + reserved'[q] <= budget'[q]
  BY DEF AddChild, WithinAllowance
<1>2. /\ budget' = [budget EXCEPT ![t] = b] /\ used' = used /\ budget[t] = 0
      /\ used[q] + reserved[q] <= budget[q]
      /\ used[q] \in Nat /\ reserved[q] \in Nat /\ budget[q] \in Nat
  BY <1>1 DEF AddChild, LifeInv, WithinAllowance, Typed
<1>3. CASE q = Parent[t]
  <2>1. q # t /\ Parent[t] # None
    BY <1>3, TaskBudgetAssumption
  <2>2. b <= Available(q) /\ reserved'[q] = reserved[q] + b /\ budget'[q] = budget[q]
    BY <1>2, <1>3, <2>1 DEF AddChild, Typed
  <2>3. b > 0 => used[q] + reserved[q] + b <= budget[q]
    BY <2>2, AvailableBound
  <2>4. QED
    BY <1>2, <2>2, <2>3
<1>4. CASE q # Parent[t]
  <2>1. reserved'[q] = reserved[q]
    BY <1>4, ParentIsTask DEF AddChild, Typed
  <2>2. budget'[q] = IF q = t THEN b ELSE budget[q]
    BY <1>2 DEF Typed
  <2>3. QED
    BY <1>2, <2>1, <2>2
<1>5. QED
  BY <1>3, <1>4

\* A holder that stays within its allowance keeps its parent within its own:
\* what it spent comes out of what was promised to it.
LEMMA SettleWithin ==
  ASSUME BudgetInv, NEW t \in Tasks, NEW u \in Nat, Settle(t, u), UNCHANGED budget,
         ~over' => ~over /\ u <= Available(t)
  PROVE  WithinAllowance'
<1> USE DEF BudgetInv
<1>1. SUFFICES ASSUME ~over', NEW q \in Tasks PROVE used'[q] + reserved'[q] <= budget[q]
  BY DEF WithinAllowance
<1>2. ~over /\ u <= Available(t)
  BY <1>1
<1>3. \A r \in Tasks : /\ used[r] \in Nat /\ reserved[r] \in Nat /\ budget[r] \in Nat
                       /\ used[r] + reserved[r] <= budget[r]
  BY <1>2 DEF WithinAllowance, Typed
<1>4. used[t] + reserved[t] + u <= budget[t]
  BY <1>2, <1>3, AvailableBound
<1>5. CASE q = Parent[t] /\ ~settled[t]
  <2>1. Parent[t] # None /\ q # t
    BY <1>5, TaskBudgetAssumption
  <2>2. /\ used'[q] = used[q] + (used[t] + u)
        /\ reserved'[q] = Monus(reserved[q], budget[t])
    BY <1>5, <2>1, SettleEffect
  <2>3. budget[t] <= reserved[q]
    BY <1>5, <2>1, PromiseIsHeld
  <2>4. reserved'[q] = reserved[q] - budget[t]
    <3>1. reserved[q] \in Nat /\ budget[t] \in Nat
      BY <1>3
    <3>2. Monus(reserved[q], budget[t]) = reserved[q] - budget[t]
      BY <2>3, <3>1 DEF Monus
    <3>3. QED
      BY <2>2, <3>2
  <2>5. QED
    BY <1>3, <1>4, <2>2, <2>3, <2>4
<1>6. CASE ~(q = Parent[t] /\ ~settled[t])
  <2>1. reserved'[q] = reserved[q]
    BY <1>6, SettleEffect
  <2>2. used'[q] = IF q = t THEN used[t] + u ELSE used[q]
    BY <1>6, SettleEffect
  <2>3. QED
    BY <1>3, <1>4, <2>1, <2>2
<1>7. QED
  BY <1>5, <1>6

-----------------------------------------------------------------------------
(* What was reported as spent.                                             *)

LEMMA SettlersType ==
  ASSUME Typed, NEW p
  PROVE  /\ IsFiniteSet(Settlers(p)) /\ Settlers(p) \subseteq Tasks
         /\ (\A c \in Settlers(p) : used[c] \in Nat /\ late[c] \in Nat)
         /\ Total(used, Settlers(p)) \in Nat /\ Total(late, Settlers(p)) \in Nat
<1>1. IsFiniteSet(Settlers(p)) /\ Settlers(p) \subseteq Tasks
  BY ChildrenFinite DEF Settlers
<1>2. \A c \in Settlers(p) : used[c] \in Nat /\ late[c] \in Nat
  BY <1>1 DEF Typed
<1>3. QED
  BY <1>1, <1>2, TotalType

\* The first settlement charges the parent with all that is in used, and adds
\* the task to what the parent answers for.
LEMMA SettleFirst ==
  ASSUME BudgetInv, NEW t \in Tasks, NEW u \in Nat, Settle(t, u), ~settled[t],
         NEW q \in Tasks, q = Parent[t]
  PROVE  used'[q] + Total(late', Settlers(q)') = own'[q] + Total(used', Settlers(q)')
<1> USE DEF BudgetInv
<1> DEFINE C == Settlers(q)
           D == Settlers(q)'
<1>1. q # t /\ Parent[q] # q
  BY TaskBudgetAssumption
<1>2. /\ used'[q] = used[q] + (used[t] + u) /\ own'[q] = own[q] /\ used'[t] = used[t] + u
  BY <1>1, SettleEffect
<1>3. t \in D /\ D \ {t} = C /\ D \subseteq Tasks /\ t \notin C
  BY SettleEffect DEF Settlers, Children
<1>4. /\ used' \in [Tasks -> Nat] /\ late' \in [Tasks -> Nat] /\ used[t] \in Nat /\ used[q] \in Nat
      /\ own[q] \in Nat
  BY SettleType DEF Typed
<1>5. late'[t] = 0
  BY <1>1, SettleEffect DEF Late, LifeInv
<1>6. \A c \in C : /\ used[c] \in Nat /\ used[c] = used'[c]
                   /\ late[c] \in Nat /\ late[c] = late'[c]
  <2> SUFFICES ASSUME NEW c \in C PROVE /\ used[c] \in Nat /\ used[c] = used'[c]
                                         /\ late[c] \in Nat /\ late[c] = late'[c]
    OBVIOUS
  <2>1. c \in Tasks /\ c # t /\ c # Parent[t] /\ used[c] \in Nat /\ late[c] \in Nat
    BY <1>1, <1>3, SettlersType DEF Settlers, Children
  <2>2. used'[c] = used[c] /\ Late(c, t, u) = 0
    BY <2>1, SettleEffect DEF Late
  <2>3. QED
    BY <2>1, <2>2, SettleEffect
<1>7. IsFiniteSet(C) /\ Total(used, C) \in Nat /\ Total(late, C) \in Nat
  BY SettlersType
<1>8. IsFiniteSet(D) /\ \A c \in D : used'[c] \in Nat /\ late'[c] \in Nat
  <2>1. D \in SUBSET Children(q)
    BY DEF Settlers, Children
  <2>2. QED
    BY <1>3, <1>4, <2>1, ChildrenFinite
<1>9. used[q] + Total(late, C) = own[q] + Total(used, C)
  BY DEF ParentIsCharged
<1> HIDE DEF C, D
<1>10. Total(used, C) = Total(used', C) /\ Total(late, C) = Total(late', C)
  BY <1>6, <1>7, TotalSame
<1>11. /\ Total(used', D) = used'[t] + Total(used, C)
       /\ Total(late', D) = late'[t] + Total(late, C)
  <2>1. /\ Total(used', D) = used'[t] + Total(used', D \ {t})
        /\ Total(late', D) = late'[t] + Total(late', D \ {t})
    BY <1>3, <1>8, TotalWithout
  <2>2. Total(used', D \ {t}) = Total(used, C) /\ Total(late', D \ {t}) = Total(late, C)
    BY <1>3, <1>10
  <2>3. QED
    BY <2>1, <2>2
<1>12. Total(used', D) = used[t] + u + Total(used, C) /\ Total(late', D) = Total(late, C)
  BY <1>2, <1>5, <1>7, <1>11
<1>13. used'[q] + Total(late', D) = own'[q] + Total(used', D)
  <2> DEFINE x == Total(used, C)
             y == Total(late, C)
  <2>1. /\ x \in Nat /\ y \in Nat /\ used[q] + y = own[q] + x
        /\ Total(used', D) = used[t] + u + x /\ Total(late', D) = y
    BY <1>7, <1>9, <1>12
  <2> HIDE DEF x, y
  <2>2. QED
    BY <1>2, <1>4, <2>1
<1>14. QED
  BY <1>13 DEF D

\* Elsewhere what settles adds to a settled child's used is late by as much.
LEMMA SettleElsewhere ==
  ASSUME BudgetInv, NEW t \in Tasks, NEW u \in Nat, Settle(t, u),
         NEW q \in Tasks, ~(q = Parent[t] /\ ~settled[t])
  PROVE  used'[q] + Total(late', Settlers(q)') = own'[q] + Total(used', Settlers(q)')
<1> USE DEF BudgetInv
<1> DEFINE C == Settlers(q)
<1>1. Settlers(q)' = C
  BY SettleEffect DEF Settlers, Children
<1>2. /\ used'[q] = IF q = t THEN used[t] + u ELSE used[q]
      /\ own'[q] = IF q = t THEN own[t] + u ELSE own[q]
  BY SettleEffect
<1>3. /\ used' \in [Tasks -> Nat] /\ late' \in [Tasks -> Nat]
      /\ used[q] \in Nat /\ own[q] \in Nat
  BY SettleType DEF Typed
<1>4. \A c \in C : /\ used'[c] \in Nat /\ used[c] \in Nat /\ late'[c] \in Nat /\ late[c] \in Nat
                   /\ used'[c] + late[c] = used[c] + late'[c]
  <2> SUFFICES ASSUME NEW c \in C
               PROVE  /\ used'[c] \in Nat /\ used[c] \in Nat /\ late'[c] \in Nat /\ late[c] \in Nat
                      /\ used'[c] + late[c] = used[c] + late'[c]
    OBVIOUS
  <2>1. /\ c \in Tasks /\ settled[c] /\ used[c] \in Nat /\ late[c] \in Nat /\ used[t] \in Nat
        /\ used'[c] \in Nat /\ late'[c] \in Nat
    BY <1>3, SettlersType DEF Settlers, Typed
  <2>2. late'[c] = late[c] + Late(c, t, u)
    BY <2>1, SettleEffect
  <2>3. CASE c = t
    BY <2>1, <2>2, <2>3, SettleEffect DEF Late
  <2>4. CASE c # t /\ c = Parent[t] /\ ~settled[t]
    <3>1. Late(c, t, u) = used[t] + u
      BY <2>1, <2>4 DEF Late
    <3>2. used'[c] = used[c] + (used[t] + u)
      BY <2>1, <2>4, SettleEffect
    <3>3. QED
      BY <2>1, <2>2, <3>1, <3>2
  <2>5. CASE c # t /\ ~(c = Parent[t] /\ ~settled[t])
    <3>1. Late(c, t, u) = 0
      BY <2>5 DEF Late
    <3>2. used'[c] = used[c]
      BY <2>1, <2>5, SettleEffect
    <3>3. QED
      BY <2>1, <2>2, <3>1, <3>2
  <2>6. QED
    BY <2>3, <2>4, <2>5
<1>5. /\ IsFiniteSet(C) /\ Total(used, C) \in Nat /\ Total(late, C) \in Nat
      /\ used[q] + Total(late, C) = own[q] + Total(used, C)
  BY SettlersType DEF ParentIsCharged
<1> HIDE DEF C
<1>6. Total(used', C) \in Nat /\ Total(late', C) \in Nat
  BY <1>4, <1>5, TotalType
<1>7. Total(used', C) + Total(late, C) = Total(used, C) + Total(late', C)
  BY <1>4, <1>5, TotalShift
<1>8. used'[q] - used[q] = own'[q] - own[q] /\ used'[q] \in Nat /\ own'[q] \in Nat
  BY <1>2, <1>3
<1>9. used'[q] + Total(late', C) = own'[q] + Total(used', C)
  BY <1>3, <1>5, <1>6, <1>7, <1>8
<1>10. QED
  BY <1>1, <1>9

LEMMA SettleCharged ==
  ASSUME BudgetInv, NEW t \in Tasks, NEW u \in Nat, Settle(t, u)
  PROVE  ParentIsCharged'
  BY SettleFirst, SettleElsewhere DEF ParentIsCharged

\* Nothing spent, nothing settled.
LEMMA UnspentCharged ==
  ASSUME BudgetInv, UNCHANGED <<used, settled, own, late>>
  PROVE  ParentIsCharged'
<1>1. \A q : Settlers(q)' = Settlers(q)
  BY DEF Settlers, Children
<1>2. QED
  BY <1>1 DEF BudgetInv, ParentIsCharged

\* consume is called on tasks without a parent only.
LEMMA ConsumeCharged ==
  ASSUME BudgetInv, NEW t \in Tasks, NEW u \in Nat, Consume(t, u)
  PROVE  ParentIsCharged'
<1> USE DEF BudgetInv
<1>1. SUFFICES ASSUME NEW q \in Tasks
               PROVE  used'[q] + Total(late', Settlers(q)') = own'[q] + Total(used', Settlers(q)')
  BY DEF ParentIsCharged
<1>2. Parent[t] = None
  BY TaskBudgetAssumption DEF Consume
<1> DEFINE C == Settlers(q)
<1>3. Settlers(q)' = C /\ late' = late
  BY DEF Settlers, Children, Consume
<1>4. \A c \in C : used[c] \in Nat /\ used[c] = used'[c]
  BY <1>2, SettlersType, TaskBudgetAssumption DEF Settlers, Children, Consume, Typed
<1>5. IsFiniteSet(C) /\ Total(used, C) \in Nat /\ Total(late, C) \in Nat
  BY SettlersType
<1>6. used[q] + Total(late, C) = own[q] + Total(used, C)
  BY DEF ParentIsCharged
<1>7. /\ used'[q] = IF q = t THEN used[t] + u ELSE used[q]
      /\ own'[q] = IF q = t THEN own[t] + u ELSE own[q]
      /\ used[q] \in Nat /\ own[q] \in Nat
  BY DEF Consume, Typed
<1> HIDE DEF C
<1>8. Total(used', C) = Total(used, C)
  BY <1>4, <1>5, TotalSame
<1>9. used'[q] + Total(late, C) = own'[q] + Total(used', C)
  BY <1>5, <1>6, <1>7, <1>8
<1>10. QED
  BY <1>3, <1>9

-----------------------------------------------------------------------------
(* Every step.                                                             *)

LEMMA StepLife ==
  ASSUME BudgetInv, [Next]_vars
  PROVE  LifeInv'
<1> USE DEF BudgetInv
<1>1. ASSUME NEW t \in Tasks, NEW b \in Amounts, AddChild(t, b) PROVE LifeInv'
  <2>1. /\ phase' = [phase EXCEPT ![t] = "pending"] /\ budget' = [budget EXCEPT ![t] = b]
        /\ UNCHANGED <<holder, settled, late>>
        /\ Parent[t] # None => phase[Parent[t]] # "absent"
    BY <1>1 DEF AddChild
  <2>2. QED
    BY <2>1, ParentIsTask DEF LifeInv, Typed
<1>2. ASSUME NEW t \in Tasks, phase[t] # "absent", phase' = [phase EXCEPT ![t] = phase'[t]],
             phase'[t] # "absent", \A r \in Tasks : r # t => holder'[r] = holder[r],
             UNCHANGED <<budget, settled, late>>
      PROVE  LifeInv'
  BY <1>2, ParentIsTask DEF LifeInv, Typed
<1>3. ASSUME NEW t \in Tasks, Queue(t) \/ Block(t) \/ Requeue(t) PROVE LifeInv'
  BY <1>2, <1>3 DEF Queue, Block, Requeue, Typed, money
<1>4. ASSUME NEW t \in Tasks, Start(t) \/ Expire(t) PROVE LifeInv'
  BY <1>2, <1>4 DEF Start, Expire, Typed, money
<1>5. ASSUME NEW t \in Tasks, Supersede(t) PROVE LifeInv'
  BY <1>5 DEF Supersede, LifeInv, Typed, money
<1>6. ASSUME NEW t \in Tasks, RetryBegin(t) PROVE LifeInv'
  BY <1>6 DEF RetryBegin, LifeInv, work, money
<1>7. ASSUME NEW t \in Tasks, NEW u \in Amounts, Consume(t, u) PROVE LifeInv'
  BY <1>7 DEF Consume, LifeInv, work
<1>8. ASSUME NEW t \in Tasks, NEW u \in Nat, Settle(t, u), phase[t] # "absent",
             phase' = [phase EXCEPT ![t] = phase'[t]], phase'[t] # "absent",
             \A r \in Tasks : r # t => holder'[r] = holder[r], UNCHANGED budget
      PROVE  LifeInv'
  <2>1. ASSUME NEW r \in Tasks, ~settled'[r] PROVE late'[r] = 0
    <3>1. ~settled[r] /\ r # t /\ late[r] = 0
      BY <2>1, <1>8, SettleEffect DEF LifeInv
    <3>2. Late(r, t, u) = 0
      BY <3>1 DEF Late
    <3>3. QED
      BY <1>8, <3>1, <3>2, SettleEffect
  <2>2. \A r \in Tasks : r # t => settled'[r] = settled[r] /\ phase'[r] = phase[r]
    <3>1. \A r \in Tasks : r # t => settled'[r] = settled[r]
      BY <1>8 DEF Settle, Book, Typed
    <3>2. \A r \in Tasks : r # t => phase'[r] = phase[r]
      BY <1>8 DEF Typed
    <3>3. QED
      BY <3>1, <3>2
  <2>3. ASSUME NEW r \in Tasks, phase'[r] = "absent"
        PROVE  budget'[r] = 0 /\ ~settled'[r] /\ holder'[r] = "none"
    BY <1>8, <2>2, <2>3 DEF LifeInv
  <2>4. ASSUME NEW r \in Tasks, phase'[r] # "absent", Parent[r] # None
        PROVE  phase'[Parent[r]] # "absent"
    BY <1>8, <2>2, <2>4, ParentIsTask DEF LifeInv
  <2>5. QED
    BY <2>1, <2>3, <2>4 DEF LifeInv
<1>9. ASSUME NEW t \in Tasks, NEW u \in Amounts \cup {0},
             NEW outcome \in {"completed", "failed", "cancelled"}, NEW again \in BOOLEAN,
             Finish(t, u, outcome, again)
      PROVE  LifeInv'
  <2>1. phase[t] # "absent"
    BY <1>9 DEF Finish, LifeInv
  <2>2. Settle(t, u) /\ u \in Nat /\ UNCHANGED budget
    BY <1>9, TaskBudgetAssumption DEF Finish
  <2>3. /\ phase' = [phase EXCEPT ![t] = phase'[t]] /\ phase'[t] # "absent"
        /\ \A r \in Tasks : r # t => holder'[r] = holder[r]
    BY <1>9 DEF Finish, Typed
  <2>4. QED
    BY <1>8, <2>1, <2>2, <2>3
<1>10. ASSUME NEW t \in Tasks, NEW target \in {"completed", "failed", "cancelled"},
              Close(t, target)
       PROVE  LifeInv'
  <2>1. phase[t] # "absent" /\ Settle(t, 0) /\ UNCHANGED <<budget, holder>>
    BY <1>10 DEF Close
  <2>2. phase' = [phase EXCEPT ![t] = phase'[t]] /\ phase'[t] # "absent"
    BY <1>10 DEF Close, Typed
  <2>3. QED
    BY <1>8, <2>1, <2>2
<1>11. CASE UNCHANGED vars
  BY <1>11 DEF vars, work, money, LifeInv
<1>12. QED
  BY <1>1, <1>3, <1>4, <1>5, <1>6, <1>7, <1>9, <1>10, <1>11 DEF Next

LEMMA StepBudget == BudgetInv /\ [Next]_vars => BudgetInv'
<1> SUFFICES ASSUME BudgetInv, [Next]_vars PROVE BudgetInv'
  OBVIOUS
<1>1. Typed' /\ LifeInv'
  BY NextTyped, StepLife DEF BudgetInv
<1>2. SUFFICES ReservationsBalance' /\ WithinAllowance' /\ ParentIsCharged'
  BY <1>1 DEF BudgetInv
<1> DEFINE Goal == ReservationsBalance' /\ WithinAllowance' /\ ParentIsCharged'
<1>3. ASSUME UNCHANGED <<budget, money, over>> PROVE Goal
  <2>1. ReservationsBalance' /\ WithinAllowance'
    BY <1>3 DEF BudgetInv, ReservationsBalance, WithinAllowance, Held, Unsettled, Children, money
  <2>2. QED
    BY <1>3, <2>1, UnspentCharged DEF money
<1>4. ASSUME NEW t \in Tasks, NEW b \in Amounts, AddChild(t, b) PROVE Goal
  <2>1. b \in Nat
    BY TaskBudgetAssumption
  <2>2. ParentIsCharged'
    BY <1>4, UnspentCharged DEF AddChild
  <2>3. QED
    BY <1>4, <2>1, <2>2, AddChildBalance, AddChildWithin
<1>5. ASSUME NEW t \in Tasks,
             \/ Queue(t) \/ Block(t) \/ Start(t) \/ Expire(t)
             \/ RetryBegin(t) \/ Supersede(t) \/ Requeue(t)
      PROVE  Goal
  <2>1. UNCHANGED <<budget, money, over>>
    BY <1>5 DEF Queue, Block, Start, Expire, RetryBegin, Supersede, Requeue
  <2>2. QED
    BY <1>3, <2>1
<1>6. ASSUME NEW t \in Tasks, NEW u \in Amounts, Consume(t, u) PROVE Goal
  <2>1. u \in Nat /\ u <= Available(t)
    BY <1>6, TaskBudgetAssumption DEF Consume
  <2>2. ReservationsBalance'
    BY <1>6 DEF Consume, BudgetInv, ReservationsBalance, Held, Unsettled, Children
  <2>3. u > 0 => used[t] + reserved[t] + u <= budget[t]
    BY <2>1, AvailableBound DEF BudgetInv
  <2>4. WithinAllowance'
    BY <1>6, <2>1, <2>3 DEF Consume, BudgetInv, WithinAllowance, Typed
  <2>5. QED
    BY <1>6, <2>1, <2>2, <2>4, ConsumeCharged
<1>7. ASSUME NEW t \in Tasks, NEW u \in Nat, Settle(t, u), UNCHANGED budget,
             ~over' => ~over /\ u <= Available(t)
      PROVE  Goal
  BY <1>7, SettleBalance, SettleWithin, SettleCharged
<1>8. ASSUME NEW t \in Tasks, NEW u \in Amounts \cup {0},
             NEW outcome \in {"completed", "failed", "cancelled"}, NEW again \in BOOLEAN,
             Finish(t, u, outcome, again)
      PROVE  Goal
  <2>1. u \in Nat /\ Settle(t, u) /\ UNCHANGED budget
    BY <1>8, TaskBudgetAssumption DEF Finish
  <2>2. Available(t) \in Nat
    BY MonusType DEF Available, BudgetInv, Typed
  <2>3. ~over' => ~over /\ ~(u > Available(t))
    BY <1>8, Zenon DEF Finish
  <2>4. ~over' => ~over /\ u <= Available(t)
    BY <2>1, <2>2, <2>3
  <2>5. QED
    BY <1>7, <2>1, <2>4
<1>9. ASSUME NEW t \in Tasks, NEW target \in {"completed", "failed", "cancelled"},
             Close(t, target)
      PROVE  Goal
  <2>1. Settle(t, 0) /\ UNCHANGED <<budget, over>>
    BY <1>9 DEF Close
  <2>2. 0 <= Available(t)
    BY MonusType DEF Available, BudgetInv, Typed
  <2>3. QED
    BY <1>7, <2>1, <2>2
<1>10. CASE UNCHANGED vars
  BY <1>3, <1>10 DEF vars, work, money
<1>11. QED
  BY <1>4, <1>5, <1>6, <1>8, <1>9, <1>10 DEF Next

LEMMA InitBudget == Init => BudgetInv
<1> SUFFICES ASSUME Init PROVE BudgetInv
  OBVIOUS
<1>1. Typed
  BY InitTyped
<1>2. LifeInv /\ WithinAllowance
  BY DEF Init, LifeInv, WithinAllowance
<1>3. ASSUME NEW S, IsFiniteSet(S), S \subseteq Tasks, NEW f, f = [t \in Tasks |-> 0]
      PROVE  Total(f, S) = 0
  <2> DEFINE Z == {s \in SUBSET S : Total(f, s) = 0}
  <2>1. ASSUME NEW s \in SUBSET S, \A r \in SUBSET s : r # s => r \in Z
        PROVE  s \in Z
    <3>1. CASE s = {}
      BY <3>1, TotalEmpty
    <3>2. CASE s # {}
      <4>1. s \ {Pick(s)} \in Z /\ Pick(s) \in Tasks
        BY <1>3, <2>1, <3>2, Picked
      <4>2. Total(f, s) = f[Pick(s)] + Total(f, s \ {Pick(s)})
        BY <1>3, <3>2, FS_Subset, TotalStep
      <4>3. QED
        BY <1>3, <4>1, <4>2
    <3>3. QED
      BY <3>1, <3>2
  <2> HIDE DEF Z
  <2>2. S \in Z
    BY <1>3, <2>1, SubsetInduction
  <2>3. QED
    BY <2>2 DEF Z
<1>4. ReservationsBalance
  <2>1. ASSUME NEW p \in Tasks PROVE reserved[p] = Held(p)
    BY <1>1, <1>3, HeldType DEF Init, Held
  <2>2. QED
    BY <2>1 DEF ReservationsBalance
<1>5. ParentIsCharged
  <2>1. ASSUME NEW p \in Tasks
        PROVE  used[p] + Total(late, Settlers(p)) = own[p] + Total(used, Settlers(p))
    BY <1>1, <1>3, SettlersType DEF Init
  <2>2. QED
    BY <2>1 DEF ParentIsCharged
<1>6. QED
  BY <1>1, <1>2, <1>4, <1>5 DEF BudgetInv

\* A task and its children spent at most what the task is charged, what it still
\* reserves, and what was late.
LEMMA SpentIsCovered ==
  ASSUME BudgetInv, ~over, NEW r \in Tasks
  PROVE  SpentUnder(r) <= budget[r] + Total(late, Children(r))
<1> USE DEF BudgetInv
<1> DEFINE A == Settlers(r)
           B == Unsettled(r)
<1>1. B = Children(r) \ A /\ A \in SUBSET Children(r)
  BY DEF Settlers, Unsettled
<1>2. \A c \in Tasks : /\ own[c] \in Nat /\ used[c] \in Nat /\ reserved[c] \in Nat
                       /\ budget[c] \in Nat /\ late[c] \in Nat
  BY DEF Typed
<1>3. /\ Total(used, Children(r)) = Total(used, A) + Total(used, B)
      /\ Total(late, Children(r)) = Total(late, A) + Total(late, B)
  <2>1. (\A c \in Children(r) : used[c] \in Nat) /\ \A c \in Children(r) : late[c] \in Nat
    BY <1>2, ChildrenFinite
  <2> HIDE DEF A, B
  <2>2. /\ Total(used, Children(r)) = Total(used, A) + Total(used, Children(r) \ A)
        /\ Total(late, Children(r)) = Total(late, A) + Total(late, Children(r) \ A)
    BY <1>1, <2>1, ChildrenFinite, TotalSplit
  <2>3. QED
    BY <1>1, <2>2
<1>4. \A c \in Tasks : used[c] <= budget[c]
  BY <1>2 DEF WithinAllowance
<1>5. Total(used, B) <= Total(budget, B) /\ Total(used, B) \in Nat /\ Total(late, B) \in Nat
  <2>1. IsFiniteSet(B) /\ \A c \in B : /\ used[c] \in Nat /\ budget[c] \in Nat /\ late[c] \in Nat
                                      /\ used[c] <= budget[c]
    BY <1>2, <1>4, HeldType
  <2> HIDE DEF B
  <2>2. QED
    BY <2>1, TotalMonotone, TotalType
<1>6. Total(budget, B) = reserved[r]
  BY DEF ReservationsBalance, Held
<1>7. /\ used[r] + Total(late, A) = own[r] + Total(used, A)
      /\ Total(used, A) \in Nat /\ Total(late, A) \in Nat
  BY SettlersType DEF ParentIsCharged
<1>8. used[r] + reserved[r] <= budget[r]
  BY DEF WithinAllowance
<1> HIDE DEF A, B
<1>9. QED
  BY <1>2, <1>3, <1>5, <1>6, <1>7, <1>8 DEF SpentUnder

\* The accounting of add_child, consume and settle, for any tree of tasks.
THEOREM Accounting == Spec => []BudgetInv
  BY InitBudget, StepBudget, PTL DEF Spec

\* The accounting keeps its types: no field of it goes below zero, and what is
\* reserved has a parent that holds it.
THEOREM TypeCorrect == Spec => []TypeOK
<1>1. BudgetInv => TypeOK
  BY DEF BudgetInv, Typed, LifeInv, TypeOK
<1>2. QED
  BY <1>1, Accounting, PTL

\* settle: what a task reserves is exactly what its unsettled children were
\* promised, through every end, retry and late finish.
THEOREM PromisesBalance == Spec => []ReservationsBalance
  BY Accounting, PTL DEF BudgetInv

\* consume and settle: with holders that stay within their allowance, what a
\* task spent and promised never passes it.
THEOREM AllowanceHolds == Spec => []WithinAllowance
  BY Accounting, PTL DEF BudgetInv

\* settle: a parent is charged once and in full with what its children were
\* reported to have spent when they settled, overruns included.
THEOREM ChargesArrive == Spec => []ParentIsCharged
  BY Accounting, PTL DEF BudgetInv

\* settle and retry: with holders that stay within their allowance, what is
\* reported under a grant exceeds it at most by what was reported late.
THEOREM LateBoundsOverspend == Spec => []OverspendIsLate
<1>1. BudgetInv => OverspendIsLate
  BY SpentIsCovered DEF OverspendIsLate
<1>2. QED
  BY <1>1, Accounting, PTL

=============================================================================
