--------------------------- MODULE Taskpool_proofs ---------------------------
(***************************************************************************)
(* Proofs about Taskpool, for every finite set of tasks and every set of   *)
(* threads and callers, about the erase loops, for every list, and about   *)
(* AgentRequest, which uses them, for every set of agents and operations.  *)
(***************************************************************************)
EXTENDS Taskpool, PoolRequests, FiniteSetTheorems, TLAPS

-----------------------------------------------------------------------------
(* Erasing from a list *)

\* The number of elements of S up to x.
Rank(S, x) == Cardinality({y \in S : y <= x})

\* Larger elements of a finite set of integers have larger ranks, from 1 to the
\* size of the set.
LEMMA RankOrder ==
    ASSUME NEW S \in SUBSET Int, IsFiniteSet(S), NEW x \in S, NEW y \in S
    PROVE  /\ Rank(S, x) \in 1..Cardinality(S)
           /\ x < y => Rank(S, x) < Rank(S, y)
<1> DEFINE UpTo(z) == {v \in S : v <= z}
<1>1. \A z \in S : IsFiniteSet(UpTo(z)) /\ Cardinality(UpTo(z)) \in Nat
                   /\ Cardinality(UpTo(z)) <= Cardinality(S)
  <2> SUFFICES ASSUME NEW z \in S
               PROVE  IsFiniteSet(UpTo(z)) /\ Cardinality(UpTo(z)) \in Nat
                      /\ Cardinality(UpTo(z)) <= Cardinality(S)
    OBVIOUS
  <2>1. UpTo(z) \in SUBSET S
    OBVIOUS
  <2>2. IsFiniteSet(UpTo(z)) /\ Cardinality(UpTo(z)) <= Cardinality(S)
    BY <2>1, FS_Subset
  <2> QED
    BY <2>2, FS_CardinalityType
<1>2. Cardinality(S) \in Nat
  BY FS_CardinalityType
<1>3. Cardinality(UpTo(x)) # 0
  <2>1. x \in UpTo(x)
    OBVIOUS
  <2> QED
    BY <2>1, <1>1, FS_EmptySet
<1>4. ASSUME x < y
      PROVE  Cardinality(UpTo(x)) < Cardinality(UpTo(y))
  <2>0. x \in Int /\ y \in Int /\ \A v \in S : v \in Int
    OBVIOUS
  <2>1. UpTo(x) \in SUBSET UpTo(y)
    <3>1. \A v \in S : v <= x => v <= y
      BY <1>4, <2>0
    <3> QED
      BY <3>1
  <2>2. UpTo(x) # UpTo(y)
    <3>1. y \in UpTo(y) /\ y \notin UpTo(x)
      BY <1>4, <2>0
    <3> QED
      BY <3>1
  <2>3. Cardinality(UpTo(x)) <= Cardinality(UpTo(y))
        /\ (Cardinality(UpTo(y)) = Cardinality(UpTo(x)) => UpTo(y) = UpTo(x))
    BY <2>1, <1>1, FS_Subset
  <2> QED
    BY <2>2, <2>3, <1>1
<1> QED
  BY <1>1, <1>2, <1>3, <1>4 DEF Rank

\* A finite set of integers has an increasing enumeration.
LEMMA EnumerationExists ==
    ASSUME NEW S \in SUBSET Int, IsFiniteSet(S)
    PROVE  /\ Cardinality(S) \in Nat
           /\ Enumeration(S) \in [1..Cardinality(S) -> S]
           /\ IsEnumeration(Enumeration(S), S)
<1> DEFINE n == Cardinality(S)
           rank == [x \in S |-> Rank(S, x)]
           f == [i \in 1..n |-> CHOOSE x \in S : rank[x] = i]
<1>1. n \in Nat
  BY FS_CardinalityType
<1>2. \A x, y \in S : Rank(S, x) \in 1..n /\ (x < y => Rank(S, x) < Rank(S, y))
  BY RankOrder
<1>3. rank \in Injection(S, 1..n)
  <2>1. rank \in [S -> 1..n]
    BY <1>2
  <2>2. ASSUME NEW x \in S, NEW y \in S, rank[x] = rank[y]
        PROVE  x = y
    BY <2>2, <1>1, <1>2
  <2> QED
    BY <2>1, <2>2 DEF Injection, IsInjective
<1>4. IsFiniteSet(1..n) /\ Cardinality(1..n) = n
  BY <1>1, FS_Interval
<1>5. rank \in Surjection(S, 1..n)
  BY <1>3, <1>4, FS_Injection
<1>6. \A i \in 1..n : \E x \in S : rank[x] = i
  BY <1>5 DEF Surjection
<1>7. \A i \in 1..n : f[i] \in S /\ rank[f[i]] = i
  BY <1>6
<1>8. f \in [1..n -> S]
  BY <1>7
<1>9. ASSUME NEW i \in 1..n, NEW j \in 1..n, i < j
      PROVE  f[i] < f[j]
  <2>1. f[i] \in S /\ f[j] \in S /\ Rank(S, f[i]) = i /\ Rank(S, f[j]) = j
    BY <1>7
  <2> HIDE DEF f
  <2>2. ~(f[j] < f[i]) /\ f[j] # f[i]
    <3>1. i \in Int /\ j \in Int
      BY <1>1
    <3>2. ~(Rank(S, f[j]) < Rank(S, f[i])) /\ Rank(S, f[j]) # Rank(S, f[i])
      BY <2>1, <3>1, <1>9
    <3> QED
      BY <3>2, <2>1, <1>2
  <2>3. f[i] \in Int /\ f[j] \in Int
    BY <2>1
  <2> QED
    BY <2>2, <2>3
<1>10. {f[i] : i \in 1..n} = S
  <2>1. ASSUME NEW x \in S
        PROVE  x \in {f[i] : i \in 1..n}
    <3>1. rank[x] \in 1..n
      BY <1>2
    <3>2. f[rank[x]] \in S /\ rank[f[rank[x]]] = rank[x]
      BY <3>1, <1>7
    <3>3. f[rank[x]] = x
      BY <3>2, <1>3 DEF Injection, IsInjective
    <3> QED
      BY <3>1, <3>3
  <2> QED
    BY <2>1, <1>7
<1>11. DOMAIN f = 1..n
  OBVIOUS
<1>12. IsEnumeration(f, S)
  <2> HIDE DEF f
  <2> QED
    BY <1>9, <1>10, <1>11 DEF IsEnumeration
<1>13. \E g \in [1..n -> S] : IsEnumeration(g, S)
  BY <1>8, <1>12
<1>14. Enumeration(S) \in [1..n -> S] /\ IsEnumeration(Enumeration(S), S)
  <2> HIDE DEF f, rank
  <2> QED
  BY <1>13 DEF Enumeration
<1> QED
  BY <1>1, <1>14

\* What the erase loops leave: the elements outside K, each as often as before
\* (once, if once before).  It holds for every list and every K.
THEOREM EraseCorrect ==
    ASSUME NEW T, NEW s \in Seq(T), NEW K
    PROVE  /\ Erase(s, K) \in Seq(T)
           /\ Elements(Erase(s, K)) = Elements(s) \ K
           /\ (\A i, j \in DOMAIN s : s[i] = s[j] => i = j)
              => \A i, j \in DOMAIN Erase(s, K) : Erase(s, K)[i] = Erase(s, K)[j] => i = j
<1> DEFINE S == KeptIndices(s, K)
           n == Cardinality(S)
           kept == Enumeration(S)
           e == Erase(s, K)
<1>1. Len(s) \in Nat /\ DOMAIN s = 1..Len(s) /\ \A i \in DOMAIN s : s[i] \in T
  OBVIOUS
<1>2. S \in SUBSET DOMAIN s /\ S \in SUBSET Int /\ S = {i \in DOMAIN s : s[i] \notin K}
  BY <1>1 DEF KeptIndices
<1>3. IsFiniteSet(S)
  <2>1. IsFiniteSet(1..Len(s))
    BY <1>1, FS_Interval
  <2> QED
    BY <2>1, <1>1, <1>2, FS_Subset
<1>4. n \in Nat /\ kept \in [1..n -> S] /\ IsEnumeration(kept, S)
  BY <1>2, <1>3, EnumerationExists
<1>5. e = [i \in 1..n |-> s[kept[i]]]
  BY DEF Erase
<1> HIDE DEF S, n, kept, e
<1>6. \A i \in 1..n : kept[i] \in DOMAIN s /\ s[kept[i]] \in T /\ s[kept[i]] \notin K
  BY <1>1, <1>2, <1>4
<1>7. e \in [1..n -> T]
  BY <1>5, <1>6
<1>8. e \in Seq(T)
  BY <1>4, <1>7
<1>9. DOMAIN e = 1..n /\ \A i \in 1..n : e[i] = s[kept[i]]
  BY <1>5
<1>10. \A k \in S : \E i \in 1..n : kept[i] = k
  BY <1>4 DEF IsEnumeration
<1>11. Elements(e) = Elements(s) \ K
  <2>1. ASSUME NEW x \in Elements(e)
        PROVE  x \in Elements(s) \ K
    BY <2>1, <1>6, <1>9 DEF Elements
  <2>2. ASSUME NEW x \in Elements(s) \ K
        PROVE  x \in Elements(e)
    <3>1. PICK k \in DOMAIN s : s[k] = x
      BY <2>2 DEF Elements
    <3>2. k \in S
      BY <3>1, <2>2, <1>2
    <3>3. PICK i \in 1..n : kept[i] = k
      BY <3>2, <1>10
    <3> QED
      BY <3>1, <3>3, <1>9 DEF Elements
  <2> QED
    BY <2>1, <2>2
<1>12. ASSUME \A i, j \in DOMAIN s : s[i] = s[j] => i = j,
              NEW i \in 1..n, NEW j \in 1..n, e[i] = e[j]
       PROVE  i = j
  <2>1. kept[i] = kept[j]
    BY <1>12, <1>6, <1>9
  <2>2. i < j => kept[i] < kept[j]
    BY <1>4 DEF IsEnumeration
  <2>3. j < i => kept[j] < kept[i]
    BY <1>4 DEF IsEnumeration
  <2>4. kept[i] \in Int /\ i \in Int /\ j \in Int
    BY <1>1, <1>4, <1>6
  <2> QED
    BY <2>1, <2>2, <2>3, <2>4
<1> QED
  BY <1>8, <1>9, <1>11, <1>12 DEF e

-----------------------------------------------------------------------------
(* Type correctness *)

\* Where an actor works on a task, that task is not null (mytask in run(), this
\* in the operations of Task).
HandOK ==
    \A a \in Actors :
       pc[a] \in {"mark", "run", "body", "after", "unmark", "suspend", "insert", "push",
                  "wake", "remove"} => hand[a] \in Tasks

TypeInv == TypeOK /\ HandOK

\* The erase loops keep pending_tasks a list of tasks.
LEMMA EraseType ==
    ASSUME TypeOK, NEW K
    PROVE  Erase(pending, K) \in Seq(Tasks)
BY EraseCorrect DEF TypeOK

\* Nothing is erased from an empty list.
LEMMA EraseEmpty ==
    ASSUME TypeOK, NEW K, pending = <<>>
    PROVE  Erase(pending, K) = <<>>
<1>1. Erase(pending, K) \in Seq(Tasks) /\ Elements(Erase(pending, K)) = Elements(pending) \ K
  BY EraseCorrect DEF TypeOK
<1>2. Elements(Erase(pending, K)) = {}
  BY <1>1 DEF Elements
<1>3. ASSUME NEW e \in Seq(Tasks), Elements(e) = {}
      PROVE  e = <<>>
  BY <1>3 DEF Elements
<1> QED
  BY <1>1, <1>2, <1>3

\* Every step keeps the types.
LEMMA TypeStep ==
    ASSUME TypeInv, [Next]_vars
    PROVE  TypeInv'
<1> USE DEF TypeInv
<1> USE DEF queues, history, bounds
<1>1. ASSUME NEW th \in Threads, CheckQuit(th)
      PROVE  TypeInv'
  <2>1. TypeOK'
    BY <1>1 DEF TypeOK, HandOK, CheckQuit, Goto, PC, Actors
  <2>2. HandOK'
    BY <1>1 DEF TypeOK, HandOK, CheckQuit, Goto, PC, Actors
  <2> QED
    BY <2>1, <2>2
<1>2. ASSUME NEW th \in Threads, AwaitWork(th)
      PROVE  TypeInv'
  <2>1. TypeOK'
    BY <1>2 DEF TypeOK, HandOK, AwaitWork, Goto, PC, Actors
  <2>2. HandOK'
    BY <1>2 DEF TypeOK, HandOK, AwaitWork, Goto, PC, Actors
  <2> QED
    BY <2>1, <2>2
<1>3. ASSUME NEW th \in Threads, WaitTimesOut(th)
      PROVE  TypeInv'
  <2>1. TypeOK'
    BY <1>3 DEF TypeOK, HandOK, WaitTimesOut, Goto, PC, Actors
  <2>2. HandOK'
    BY <1>3 DEF TypeOK, HandOK, WaitTimesOut, Goto, PC, Actors
  <2> QED
    BY <2>1, <2>2
<1>4. ASSUME NEW th \in Threads, RecheckQuit(th)
      PROVE  TypeInv'
  <2>1. TypeOK'
    BY <1>4 DEF TypeOK, HandOK, RecheckQuit, FirstLook, Goto, PC, Actors
  <2>2. HandOK'
    BY <1>4 DEF TypeOK, HandOK, RecheckQuit, FirstLook, Goto, PC, Actors
  <2> QED
    BY <2>1, <2>2
<1>5. ASSUME NEW th \in Threads, TakeFuture(th)
      PROVE  TypeInv'
  <2>1. TypeOK'
    BY <1>5 DEF TypeOK, HandOK, TakeFuture, Take, SecondLook, Due, DeadDue, FutureTask, Goto, PC, Actors
  <2>2. HandOK'
    BY <1>5 DEF TypeOK, HandOK, TakeFuture, Take, SecondLook, Due, DeadDue, FutureTask, Goto, PC, Actors
  <2> QED
    BY <2>1, <2>2
<1>6. ASSUME NEW th \in Threads, TakePending(th)
      PROVE  TypeInv'
  <2>0. pending' \in Seq(Tasks) /\ hand' \in [Actors -> Tasks \cup {NoTask}]
        /\ pool' \in [Tasks -> BOOLEAN] /\ pc' \in [Actors -> PC]
    <3>1. CASE pending # <<>>
      <4>1. Head(pending) \in Tasks /\ Tail(pending) \in Seq(Tasks)
        BY <3>1 DEF TypeOK
      <4>2. pending' = Tail(pending) /\ Take(th, Head(pending))
        BY <1>6, <3>1 DEF TakePending
      <4> QED
        BY <4>1, <4>2 DEF TypeOK, Take, Goto, PC, Actors
    <3>2. CASE pending = <<>>
      BY <1>6, <3>2 DEF TypeOK, TakePending, Goto, PC, Actors
    <3> QED
      BY <3>1, <3>2
  <2>1. TypeOK'
    BY <1>6, <2>0 DEF TypeOK, HandOK, TakePending
  <2>2. HandOK'
    BY <1>6 DEF TypeOK, HandOK, TakePending, Take, Goto, PC, Actors
  <2> QED
    BY <2>1, <2>2
<1>7. ASSUME NEW th \in Threads, MarkRunning(th)
      PROVE  TypeInv'
  <2>1. TypeOK'
    BY <1>7 DEF TypeOK, HandOK, MarkRunning, Goto, PC, Actors
  <2>2. HandOK'
    BY <1>7 DEF TypeOK, HandOK, MarkRunning, Goto, PC, Actors
  <2> QED
    BY <2>1, <2>2
<1>8. ASSUME NEW th \in Threads, CheckCancelled(th)
      PROVE  TypeInv'
  <2>1. TypeOK'
    BY <1>8 DEF TypeOK, HandOK, CheckCancelled, ExitState, Goto, PC, Actors
  <2>2. HandOK'
    BY <1>8 DEF TypeOK, HandOK, CheckCancelled, ExitState, Goto, PC, Actors
  <2> QED
    BY <2>1, <2>2
<1>9. ASSUME NEW th \in Threads, RunOnce(th)
      PROVE  TypeInv'
  <2>1. TypeOK'
    BY <1>9 DEF TypeOK, HandOK, RunOnce, ExitState, Goto, PC, Actors
  <2>2. HandOK'
    BY <1>9 DEF TypeOK, HandOK, RunOnce, ExitState, Goto, PC, Actors
  <2> QED
    BY <2>1, <2>2
<1>10. ASSUME NEW th \in Threads, RunPeriodic(th)
      PROVE  TypeInv'
  <2>0. rearms' \in 0..MaxRearms
    BY <1>10, ConstantsAssumption DEF TypeOK, RunPeriodic
  <2>1. TypeOK'
    BY <1>10, <2>0 DEF TypeOK, HandOK, RunPeriodic, ExitState, Goto, PC, Actors
  <2>2. HandOK'
    BY <1>10 DEF TypeOK, HandOK, RunPeriodic, ExitState, Goto, PC, Actors
  <2> QED
    BY <2>1, <2>2
<1>11. ASSUME NEW th \in Threads, UnmarkRunning(th)
      PROVE  TypeInv'
  <2>1. TypeOK'
    BY <1>11 DEF TypeOK, HandOK, UnmarkRunning, Goto, PC, Actors
  <2>2. HandOK'
    BY <1>11 DEF TypeOK, HandOK, UnmarkRunning, Goto, PC, Actors
  <2> QED
    BY <2>1, <2>2
<1>12. ASSUME NEW th \in Threads, SuspendSetPool(th)
      PROVE  TypeInv'
  <2>1. TypeOK'
    BY <1>12 DEF TypeOK, HandOK, SuspendSetPool, Goto, PC, Actors
  <2>2. HandOK'
    BY <1>12 DEF TypeOK, HandOK, SuspendSetPool, Goto, PC, Actors
  <2> QED
    BY <2>1, <2>2
<1>13. ASSUME NEW a \in Actors, SuspendInsert(a)
      PROVE  TypeInv'
  <2>1. TypeOK'
    BY <1>13 DEF TypeOK, HandOK, SuspendInsert, Return, Goto, PC, Actors
  <2>2. HandOK'
    BY <1>13 DEF TypeOK, HandOK, SuspendInsert, Return, Goto, PC, Actors
  <2> QED
    BY <2>1, <2>2
<1>14. ASSUME NEW a \in Actors, After(a)
      PROVE  TypeInv'
  <2>0. future' \subseteq FutureTask
    <3>1. hand[a] \in Tasks
      BY <1>14 DEF HandOK, After
    <3>2. Entry(hand[a]) \in FutureTask
      BY <3>1 DEF Entry, FutureTask
    <3> QED
      BY <1>14, <3>2 DEF TypeOK, After
  <2>1. TypeOK'
    BY <1>14, <2>0 DEF TypeOK, HandOK, After, Return, Goto, PC, Actors
  <2>2. HandOK'
    BY <1>14 DEF TypeOK, HandOK, After, Return, Entry, FutureTask, Goto, PC, Actors
  <2> QED
    BY <2>1, <2>2
<1>15. ASSUME NEW c \in Clients, SubmitPush(c)
      PROVE  TypeInv'
  <2>0. pending' \in Seq(Tasks)
    BY <1>15 DEF TypeOK, HandOK, SubmitPush, Actors
  <2>1. TypeOK'
    BY <1>15, <2>0 DEF TypeOK, HandOK, SubmitPush, GotoAndNotifyOne, Goto, PC, Actors
  <2>2. HandOK'
    BY <1>15 DEF TypeOK, HandOK, SubmitPush, GotoAndNotifyOne, Goto, PC, Actors
  <2> QED
    BY <2>1, <2>2
<1>16. ASSUME NEW c \in Clients, WakeMove(c)
      PROVE  TypeInv'
  <2>0. pending' \in Seq(Tasks)
    <3>1. hand[c] \in Tasks
      BY <1>16 DEF HandOK, WakeMove, Actors
    <3>2. <<hand[c]>> \o pending \in Seq(Tasks)
      BY <3>1 DEF TypeOK
    <3> QED
      BY <1>16, <3>2 DEF TypeOK, WakeMove
  <2>1. TypeOK'
    BY <1>16, <2>0 DEF TypeOK, HandOK, WakeMove, GotoAndNotifyOne, Unsuspended, Tear, Goto, PC, Actors
  <2>2. HandOK'
    BY <1>16 DEF TypeOK, HandOK, WakeMove, GotoAndNotifyOne, Unsuspended, Tear, Goto, PC, Actors
  <2> QED
    BY <2>1, <2>2
<1>17. ASSUME NEW c \in Clients, RemoveCancelled(c)
      PROVE  TypeInv'
  <2>1. TypeOK'
    BY <1>17, EraseType DEF TypeOK, HandOK, RemoveCancelled, Return, Remove, TearIf, Tear, Goto, PC, Actors
  <2>2. HandOK'
    BY <1>17 DEF TypeOK, HandOK, RemoveCancelled, Return, Remove, TearIf, Tear, Goto, PC, Actors
  <2> QED
    BY <2>1, <2>2
<1>18. ASSUME NEW c \in Clients, CancelNext(c)
      PROVE  TypeInv'
  <2>1. TypeOK'
    BY <1>18, EraseType DEF TypeOK, HandOK, CancelNext, Remove, TearIf, Tear, Goto, PC, Actors
  <2>2. HandOK'
    BY <1>18 DEF TypeOK, HandOK, CancelNext, Remove, TearIf, Tear, Goto, PC, Actors
  <2> QED
    BY <2>1, <2>2
<1>19. ASSUME NEW c \in Clients, NEW t \in Tasks, Submit(c, t)
      PROVE  TypeInv'
  <2>1. TypeOK'
    BY <1>19 DEF TypeOK, HandOK, Submit, Goto, PC, Actors
  <2>2. HandOK'
    BY <1>19 DEF TypeOK, HandOK, Submit, Goto, PC, Actors
  <2> QED
    BY <2>1, <2>2
<1>20. ASSUME NEW c \in Clients, NEW t \in Tasks, SubmitDelayed(c, t)
      PROVE  TypeInv'
  <2>1. TypeOK'
    BY <1>20 DEF TypeOK, HandOK, SubmitDelayed, Goto, PC, Actors
  <2>2. HandOK'
    BY <1>20 DEF TypeOK, HandOK, SubmitDelayed, Goto, PC, Actors
  <2> QED
    BY <2>1, <2>2
<1>21. ASSUME NEW c \in Clients, NEW t \in Tasks, Wake(c, t)
      PROVE  TypeInv'
  <2>0. wakes' \in 0..MaxWakes
    BY <1>21, ConstantsAssumption DEF TypeOK, Wake
  <2>1. TypeOK'
    BY <1>21, <2>0 DEF TypeOK, HandOK, Wake, Goto, PC, Actors
  <2>2. HandOK'
    BY <1>21 DEF TypeOK, HandOK, Wake, Goto, PC, Actors
  <2> QED
    BY <2>1, <2>2
<1>22. ASSUME NEW c \in Clients, NEW t \in Tasks, Cancel(c, t)
      PROVE  TypeInv'
  <2>1. TypeOK'
    BY <1>22 DEF TypeOK, HandOK, Cancel, Goto, PC, Actors
  <2>2. HandOK'
    BY <1>22 DEF TypeOK, HandOK, Cancel, Goto, PC, Actors
  <2> QED
    BY <2>1, <2>2
<1>23. ASSUME NEW c \in Clients, NEW g, CancelTaskGroup(c, g)
      PROVE  TypeInv'
  <2>1. TypeOK'
    BY <1>23, EraseType DEF TypeOK, HandOK, CancelTaskGroup, TearIf, Tear, Elements, Goto, PC, Actors
  <2>2. HandOK'
    BY <1>23 DEF TypeOK, HandOK, CancelTaskGroup, TearIf, Tear, Elements, Goto, PC, Actors
  <2> QED
    BY <2>1, <2>2
<1>24. ASSUME NEW c \in Clients, Stop(c)
      PROVE  TypeInv'
  <2>0. pending' \in Seq(Tasks) /\ cancelled' \in [Tasks -> BOOLEAN]
        /\ pc' \in [Actors -> PC] /\ mutex' \in Clients \cup {Nobody}
    <3>1. CASE StopReturns(c)
      BY <3>1 DEF TypeOK, StopReturns, PC, Actors
    <3>2. CASE StopRelocks(c)
      <4>1. pending' \in Seq(Tasks)
        <5>1. pending' = pending \/ pending' = <<>>
          BY <3>2 DEF StopRelocks
        <5>2. pending \in Seq(Tasks) /\ <<>> \in Seq(Tasks)
          BY DEF TypeOK
        <5> QED
          BY <5>1, <5>2
      <4>2. cancelled' \in [Tasks -> BOOLEAN]
        BY <3>2 DEF TypeOK, StopRelocks
      <4> QED
        BY <4>1, <4>2, <3>2 DEF TypeOK, StopRelocks, Goto, PC, Actors
    <3> QED
      BY <1>24, <3>1, <3>2 DEF Stop
  <2>1. TypeOK'
    BY <1>24, <2>0 DEF TypeOK, HandOK, Stop
  <2>2. HandOK'
    BY <1>24 DEF TypeOK, HandOK, Stop, StopReturns, StopRelocks, Elements, RunningTasks, Goto, PC, Actors
  <2> QED
    BY <2>1, <2>2
<1>25. ASSUME Expire
      PROVE  TypeInv'
  BY <1>25 DEF TypeOK, HandOK, Expire, FutureTask
<1>26. ASSUME UNCHANGED vars
      PROVE  TypeInv'
  BY <1>26 DEF TypeOK, HandOK, vars
<1> QED
  BY <1>1, <1>2, <1>3, <1>4, <1>5, <1>6, <1>7, <1>8, <1>9, <1>10, <1>11, <1>12, <1>13, <1>14, <1>15, <1>16, <1>17, <1>18, <1>19, <1>20, <1>21, <1>22, <1>23, <1>24, <1>25, <1>26
     DEF Next, ThreadStep, ClientStep, ClientCall, Actors

\* The types hold initially.
LEMMA InitTypeInv == Init => TypeInv
<1>1. Init => wakes \in 0..MaxWakes /\ rearms \in 0..MaxRearms
  BY ConstantsAssumption DEF Init
<1>2. Init => pending \in Seq(Tasks)
  BY DEF Init
<1>3. Init => HandOK
  BY DEF Init, HandOK
<1> QED
  BY <1>1, <1>2, <1>3 DEF Init, TypeInv, TypeOK, PC, ExitState

\* Type correctness of the task pool: queues hold tasks, a worker never works on a
\* null task.
THEOREM TypeCorrect == Spec => []TypeOK
<1>1. Init => TypeInv
  BY InitTypeInv
<1>2. TypeInv /\ [Next]_vars => TypeInv'
  BY TypeStep
<1>3. TypeInv => TypeOK
  BY DEF TypeInv
<1> QED
  BY <1>1, <1>2, <1>3, PTL DEF Spec
-----------------------------------------------------------------------------
(* Pending work has a worker *)

\* Threads leave run() only after stop() was called.
NoEarlyExit == ~quit => \A th \in Threads : pc[th] # "exit"

WorkerInv == TypeInv /\ NoEarlyExit /\ WorkHasAWorker

\* A caller that queues work and notifies leaves a thread that is awake: the one
\* it notified or, when nobody sleeps, any.
LEMMA NotifyWakes ==
    ASSUME TypeOK, NoEarlyExit, ~quit, NEW c \in Clients, NEW l,
           GotoAndNotifyOne(c, l)
    PROVE  \E th \in Threads : pc'[th] \notin {"asleep", "exit"}
<1> DEFINE asleep == {th \in Threads : pc[th] = "asleep"}
<1>0. \A th \in Threads : th # c
  BY ConstantsAssumption
<1>1. CASE asleep = {}
  <2>1. PICK th \in Threads : TRUE
    BY ConstantsAssumption
  <2>2. pc[th] \notin {"asleep", "exit"}
    BY <1>1 DEF NoEarlyExit
  <2> QED
    BY <1>0, <1>1, <2>2 DEF GotoAndNotifyOne, Goto, TypeOK, Actors
<1>2. CASE asleep # {}
  <2>1. PICK th \in asleep : pc' = [pc EXCEPT ![c] = l, ![th] = "woken"]
    BY <1>2 DEF GotoAndNotifyOne
  <2> QED
    BY <2>1 DEF TypeOK, Actors
<1> QED
  BY <1>1, <1>2

\* Every step keeps a worker for the pending tasks.
LEMMA WorkerStep ==
    ASSUME WorkerInv, [Next]_vars
    PROVE  NoEarlyExit' /\ WorkHasAWorker'
<1> USE DEF WorkerInv, TypeInv, queues, NoEarlyExit, WorkHasAWorker
<1>0. Threads \cap Clients = {} /\ \A th \in Threads : th \notin Clients
  BY ConstantsAssumption
<1>1. ASSUME NEW th \in Threads, CheckQuit(th)
      PROVE  NoEarlyExit' /\ WorkHasAWorker'
  BY <1>1, <1>0 DEF TypeOK, CheckQuit, Goto, Actors
<1>2. ASSUME NEW th \in Threads, AwaitWork(th)
      PROVE  NoEarlyExit' /\ WorkHasAWorker'
  BY <1>2, <1>0 DEF TypeOK, AwaitWork, Goto, Actors
<1>3. ASSUME NEW th \in Threads, WaitTimesOut(th)
      PROVE  NoEarlyExit' /\ WorkHasAWorker'
  BY <1>3, <1>0 DEF TypeOK, WaitTimesOut, Goto, Actors
<1>4. ASSUME NEW th \in Threads, RecheckQuit(th)
      PROVE  NoEarlyExit' /\ WorkHasAWorker'
  BY <1>4, <1>0 DEF TypeOK, RecheckQuit, FirstLook, Goto, Actors
<1>5. ASSUME NEW th \in Threads, TakeFuture(th)
      PROVE  NoEarlyExit' /\ WorkHasAWorker'
  BY <1>5, <1>0 DEF TypeOK, TakeFuture, Take, SecondLook, Goto, Actors
<1>6. ASSUME NEW th \in Threads, TakePending(th)
      PROVE  NoEarlyExit' /\ WorkHasAWorker'
  BY <1>6, <1>0 DEF TypeOK, TakePending, Take, Goto, Actors
<1>7. ASSUME NEW th \in Threads, MarkRunning(th)
      PROVE  NoEarlyExit' /\ WorkHasAWorker'
  BY <1>7, <1>0 DEF TypeOK, MarkRunning, Goto, Actors
<1>8. ASSUME NEW th \in Threads, CheckCancelled(th)
      PROVE  NoEarlyExit' /\ WorkHasAWorker'
  BY <1>8, <1>0 DEF TypeOK, CheckCancelled, Goto, Actors
<1>9. ASSUME NEW th \in Threads, RunOnce(th)
      PROVE  NoEarlyExit' /\ WorkHasAWorker'
  BY <1>9, <1>0 DEF TypeOK, RunOnce, Goto, Actors
<1>10. ASSUME NEW th \in Threads, RunPeriodic(th)
      PROVE  NoEarlyExit' /\ WorkHasAWorker'
  <2>1. quit' = quit /\ pending' = pending
    BY <1>10 DEF RunPeriodic
  <2>2. pc' = [pc EXCEPT ![th] = "unmark"] \/ pc' = [pc EXCEPT ![th] = "after"]
    BY <1>10 DEF RunPeriodic, Goto
  <2> QED
    BY <2>1, <2>2 DEF TypeOK, Actors
<1>11. ASSUME NEW th \in Threads, UnmarkRunning(th)
      PROVE  NoEarlyExit' /\ WorkHasAWorker'
  BY <1>11, <1>0 DEF TypeOK, UnmarkRunning, Goto, Actors
<1>12. ASSUME NEW th \in Threads, SuspendSetPool(th)
      PROVE  NoEarlyExit' /\ WorkHasAWorker'
  BY <1>12, <1>0 DEF TypeOK, SuspendSetPool, Goto, Actors
<1>13. ASSUME NEW a \in Actors, SuspendInsert(a)
      PROVE  NoEarlyExit' /\ WorkHasAWorker'
  BY <1>13, <1>0 DEF TypeOK, SuspendInsert, Return, Goto, Actors
<1>14. ASSUME NEW a \in Actors, After(a)
      PROVE  NoEarlyExit' /\ WorkHasAWorker'
  BY <1>14, <1>0 DEF TypeOK, After, Return, Goto, Actors
<1>15. ASSUME NEW c \in Clients, SubmitPush(c)
      PROVE  NoEarlyExit' /\ WorkHasAWorker'
  BY <1>15, <1>0, NotifyWakes DEF TypeOK, SubmitPush, GotoAndNotifyOne, Goto, Actors
<1>16. ASSUME NEW c \in Clients, WakeMove(c)
      PROVE  NoEarlyExit' /\ WorkHasAWorker'
  BY <1>16, <1>0, NotifyWakes DEF TypeOK, WakeMove, GotoAndNotifyOne, Goto, Actors
<1>17. ASSUME NEW c \in Clients, RemoveCancelled(c)
      PROVE  NoEarlyExit' /\ WorkHasAWorker'
  <2>1. pending = <<>> => pending' = <<>>
    BY <1>17, EraseEmpty DEF RemoveCancelled, Remove
  <2>2. quit' = quit /\ \A th \in Threads : pc'[th] = pc[th]
    BY <1>17, <1>0 DEF TypeOK, RemoveCancelled, Return, Goto, Actors
  <2> QED
    BY <2>1, <2>2
<1>18. ASSUME NEW c \in Clients, CancelNext(c)
      PROVE  NoEarlyExit' /\ WorkHasAWorker'
  <2>1. pending = <<>> => pending' = <<>>
    BY <1>18, EraseEmpty DEF CancelNext, Remove
  <2>2. quit' = quit /\ \A th \in Threads : pc'[th] = pc[th]
    BY <1>18, <1>0 DEF TypeOK, CancelNext, Goto, Actors
  <2> QED
    BY <2>1, <2>2
<1>19. ASSUME NEW c \in Clients, NEW t \in Tasks, Submit(c, t)
      PROVE  NoEarlyExit' /\ WorkHasAWorker'
  BY <1>19, <1>0 DEF TypeOK, Submit, Goto, Actors
<1>20. ASSUME NEW c \in Clients, NEW t \in Tasks, SubmitDelayed(c, t)
      PROVE  NoEarlyExit' /\ WorkHasAWorker'
  BY <1>20, <1>0 DEF TypeOK, SubmitDelayed, Goto, Actors
<1>21. ASSUME NEW c \in Clients, NEW t \in Tasks, Wake(c, t)
      PROVE  NoEarlyExit' /\ WorkHasAWorker'
  BY <1>21, <1>0 DEF TypeOK, Wake, Goto, Actors
<1>22. ASSUME NEW c \in Clients, NEW t \in Tasks, Cancel(c, t)
      PROVE  NoEarlyExit' /\ WorkHasAWorker'
  BY <1>22, <1>0 DEF TypeOK, Cancel, Goto, Actors
<1>23. ASSUME NEW c \in Clients, NEW g, CancelTaskGroup(c, g)
      PROVE  NoEarlyExit' /\ WorkHasAWorker'
  <2>1. pending = <<>> => pending' = <<>>
    BY <1>23, EraseEmpty DEF CancelTaskGroup
  <2>2. quit' = quit /\ \A th \in Threads : pc'[th] = pc[th]
    BY <1>23, <1>0 DEF TypeOK, CancelTaskGroup, Goto, Actors
  <2> QED
    BY <2>1, <2>2
<1>24. ASSUME NEW c \in Clients, Stop(c)
      PROVE  NoEarlyExit' /\ WorkHasAWorker'
  BY <1>24, <1>0 DEF TypeOK, Stop, Goto, Actors
<1>25. ASSUME Expire
      PROVE  NoEarlyExit' /\ WorkHasAWorker'
  BY <1>25, <1>0 DEF TypeOK, Expire, Goto, Actors
<1>26. ASSUME UNCHANGED vars
      PROVE  NoEarlyExit' /\ WorkHasAWorker'
  BY <1>26 DEF vars
<1> QED
  BY <1>1, <1>2, <1>3, <1>4, <1>5, <1>6, <1>7, <1>8, <1>9, <1>10, <1>11, <1>12, <1>13, <1>14, <1>15, <1>16, <1>17, <1>18, <1>19, <1>20, <1>21, <1>22, <1>23, <1>24, <1>25, <1>26
     DEF Next, ThreadStep, ClientStep, ClientCall, Actors

\* Pending work is never left to sleeping threads: submit() and makeRunnable()
\* notify one thread, and run() sleeps only on an empty queue.
THEOREM WorkerCorrect == Spec => []WorkHasAWorker
<1>1. Init => WorkerInv
  <2>1. Init => TypeInv
    BY InitTypeInv
  <2>2. Init => NoEarlyExit
    BY DEF Init, NoEarlyExit, Actors
  <2>3. Init => WorkHasAWorker
    BY DEF Init, WorkHasAWorker
  <2> QED
    BY <2>1, <2>2, <2>3 DEF WorkerInv
<1>2. WorkerInv /\ [Next]_vars => WorkerInv'
  BY TypeStep, WorkerStep DEF WorkerInv
<1>3. WorkerInv => WorkHasAWorker
  BY DEF WorkerInv
<1> QED
  BY <1>1, <1>2, <1>3, PTL DEF Spec

-----------------------------------------------------------------------------
(* One place for every task *)

\* No element is twice in a list.
IsOnce(s) == \A i, j \in DOMAIN s : s[i] = s[j] => i = j

\* The tasks in one of the three queues.
InQueue == Elements(pending) \cup suspended \cup FutureTasks

\* The parts of OnePlace: no task is twice in a queue, or in two of them, ...
PendingOnce == IsOnce(pending)

QueuesApart ==
    /\ Elements(pending) \cap suspended = {}
    /\ Elements(pending) \cap FutureTasks = {}
    /\ suspended \cap FutureTasks = {}
    /\ \A f, g \in future : f.task = g.task => f = g

\* ... nor both queued and in an actor's hand, nor in two hands.
HandApart == \A a \in Actors : Owns(a) => hand[a] \notin InQueue

HandsApart == \A a, b \in Actors : Owns(a) /\ Owns(b) /\ hand[a] = hand[b] => a = b

\* A task its creator has not submitted is nowhere yet.
FreshApart ==
    \A t \in fresh : t \notin InQueue /\ \A a \in Actors : ~Owner(t, a)

\* The pool pointer is set from before a task is queued until a worker takes it.
PoolInv ==
    /\ \A t \in InQueue : pool[t]
    /\ \A th \in Threads : pc[th] \in {"mark", "run", "body"} => ~pool[hand[th]]
    /\ \A a \in Actors : Owns(a) /\ pc[a] \in {"push", "after", "insert"} => pool[hand[a]]

\* A periodic task that submits itself does not defer as well.
StatusInv == \A th \in Threads : pc[th] = "after" => status[th] # "DEFER"

\* Taskpool::remove is called for cancelled tasks.
RemoveInv == \A c \in Clients : pc[c] = "remove" => cancelled[hand[c]]

\* cancelTaskGroup's local list is empty outside its loop.
BatchInv == \A c \in Clients : pc[c] # "batch" => batch[c] = {}

PlaceInv ==
    /\ TypeInv
    /\ PendingOnce /\ QueuesApart /\ HandApart /\ HandsApart /\ FreshApart
    /\ PoolInv /\ StatusInv /\ RemoveInv /\ BatchInv
    /\ NoTaskVanishes

Places == PendingOnce /\ QueuesApart /\ HandApart /\ HandsApart /\ FreshApart

\* Actor b owns nothing it did not own before.
Kept(b) == Owns(b)' => Owns(b) /\ hand'[b] = hand[b]

\* Nothing comes into a queue.
QueuesShrink ==
    /\ Elements(pending)' \subseteq Elements(pending)
    /\ suspended' \subseteq suspended
    /\ future' \subseteq future
    /\ PendingOnce'
    /\ fresh' \subseteq fresh

\* Erasing tasks or dropping them from a hand keeps the rest in one place.
LEMMA ShrinkKeeps ==
    ASSUME Places, QueuesShrink, \A b \in Actors : Kept(b)
    PROVE  Places'
<1> USE DEF Places, QueuesShrink, Kept
<1>1. FutureTasks' \subseteq FutureTasks
  BY DEF FutureTasks
<1>2. QueuesApart'
  BY <1>1 DEF QueuesApart
<1>3. InQueue' \subseteq InQueue
  BY <1>1 DEF InQueue
<1>4. HandApart' /\ HandsApart'
  BY <1>3 DEF HandApart, HandsApart
<1>5. FreshApart'
  BY <1>3 DEF FreshApart, Owner
<1> QED
  BY <1>2, <1>4, <1>5

\* A queued task that goes into one hand stays in one place.
LEMMA TakeKeeps ==
    ASSUME Places, QueuesShrink, NEW a \in Actors, hand'[a] \in InQueue \ InQueue',
           \A b \in Actors \ {a} : Kept(b)
    PROVE  Places'
<1> USE DEF Places, QueuesShrink, Kept
<1>1. FutureTasks' \subseteq FutureTasks
  BY DEF FutureTasks
<1>2. QueuesApart'
  BY <1>1 DEF QueuesApart
<1>3. InQueue' \subseteq InQueue
  BY <1>1 DEF InQueue
<1>4. HandApart' /\ HandsApart'
  BY <1>3 DEF HandApart, HandsApart
<1>5. FreshApart'
  BY <1>3 DEF FreshApart, Owner
<1> QED
  BY <1>2, <1>4, <1>5

\* A task that goes from a hand into one queue stays in one place.
LEMMA PutKeeps ==
    ASSUME Places, NEW a \in Actors, Owns(a), ~Owns(a)', \A b \in Actors : Kept(b),
           fresh' = fresh, PendingOnce',
           \/ /\ Elements(pending)' = Elements(pending) \cup {hand[a]}
              /\ UNCHANGED <<suspended, future>>
           \/ /\ suspended' \subseteq suspended \cup {hand[a]}
              /\ UNCHANGED <<pending, future>>
           \/ /\ \E r \in BOOLEAN : future' = future \cup {[task |-> hand[a], ripe |-> r]}
              /\ UNCHANGED <<pending, suspended>>
    PROVE  Places'
<1> USE DEF Places, Kept
<1>1. hand[a] \notin InQueue
  BY DEF HandApart
<1>2. \/ FutureTasks' = FutureTasks
      \/ /\ FutureTasks' = FutureTasks \cup {hand[a]}
         /\ UNCHANGED <<pending, suspended>>
  BY DEF FutureTasks
<1>3. InQueue' \subseteq InQueue \cup {hand[a]}
  BY <1>2 DEF InQueue
<1>4. \A f, g \in future' : f.task = g.task => f = g
  <2>1. \A f \in future : f.task # hand[a]
    BY <1>1 DEF InQueue, FutureTasks
  <2> QED
    BY <2>1 DEF QueuesApart
<1>5. QueuesApart'
  BY <1>1, <1>2, <1>4 DEF QueuesApart, InQueue
<1>6. HandApart'
  BY <1>3 DEF HandApart, HandsApart
<1>7. HandsApart'
  BY DEF HandsApart
<1>8. FreshApart'
  BY <1>3 DEF FreshApart, Owner
<1> QED
  BY <1>5, <1>6, <1>7, <1>8

\* A new task that its creator takes in hand is in one place.
LEMMA SubmitKeeps ==
    ASSUME Places, NEW a \in Actors, hand'[a] \in fresh \ fresh', fresh' \subseteq fresh,
           UNCHANGED queues, \A b \in Actors \ {a} : Kept(b)
    PROVE  Places'
<1> USE DEF Places, Kept, queues
<1>1. InQueue' = InQueue /\ FutureTasks' = FutureTasks
  BY DEF InQueue, FutureTasks
<1>2. PendingOnce' /\ QueuesApart'
  BY <1>1 DEF PendingOnce, QueuesApart
<1>3. HandApart' /\ HandsApart'
  BY <1>1 DEF HandApart, HandsApart, FreshApart, Owner
<1>4. FreshApart'
  BY <1>1 DEF FreshApart, Owner
<1> QED
  BY <1>2, <1>3, <1>4

\* push_back of a task that is not in the list.
LEMMA PushBackOnce ==
    ASSUME NEW s \in Seq(Tasks), NEW t \in Tasks
    PROVE  /\ Elements(Append(s, t)) = Elements(s) \cup {t}
           /\ IsOnce(s) /\ t \notin Elements(s) => IsOnce(Append(s, t))
<1>1. /\ DOMAIN s = 1..Len(s) /\ Len(s) \in Nat /\ DOMAIN Append(s, t) = 1..(Len(s) + 1)
      /\ Append(s, t)[Len(s) + 1] = t /\ \A i \in 1..Len(s) : Append(s, t)[i] = s[i]
  OBVIOUS
<1>2. 1..(Len(s) + 1) = (1..Len(s)) \cup {Len(s) + 1}
  BY <1>1
<1> QED
  BY <1>1, <1>2 DEF Elements, IsOnce

\* push_front of a task that is not in the list.
LEMMA PushFrontOnce ==
    ASSUME NEW s \in Seq(Tasks), NEW t \in Tasks
    PROVE  /\ Elements(<<t>> \o s) = Elements(s) \cup {t}
           /\ IsOnce(s) /\ t \notin Elements(s) => IsOnce(<<t>> \o s)
<1> DEFINE w == <<t>> \o s
<1>1. /\ DOMAIN s = 1..Len(s) /\ Len(s) \in Nat /\ DOMAIN w = 1..(Len(s) + 1)
      /\ w[1] = t /\ \A i \in 1..Len(s) : w[i + 1] = s[i]
  OBVIOUS
<1> HIDE DEF w
<1>2. \A i \in 1..(Len(s) + 1) : i = 1 \/ (i - 1 \in 1..Len(s) /\ w[i] = s[i - 1])
  BY <1>1
<1>3. Elements(w) = Elements(s) \cup {t}
  <2>1. ASSUME NEW i \in DOMAIN w PROVE w[i] \in Elements(s) \cup {t}
    BY <1>1, <1>2 DEF Elements
  <2>2. ASSUME NEW i \in DOMAIN s PROVE s[i] \in Elements(w)
    <3>1. i + 1 \in DOMAIN w /\ w[i + 1] = s[i]
      BY <1>1
    <3> QED
      BY <3>1 DEF Elements
  <2>3. t \in Elements(w)
    BY <1>1 DEF Elements
  <2> QED
    BY <2>1, <2>2, <2>3 DEF Elements
<1>4. ASSUME IsOnce(s), t \notin Elements(s) PROVE IsOnce(w)
  <2>1. \A i \in 2..(Len(s) + 1) : w[i] # t
    BY <1>1, <1>2, <1>4 DEF Elements
  <2> QED
    <3> SUFFICES ASSUME NEW i \in 1..(Len(s) + 1), NEW j \in 1..(Len(s) + 1), w[i] = w[j]
                 PROVE  i = j
      BY <1>1 DEF IsOnce
    <3>1. CASE i = 1 \/ j = 1
      BY <1>1, <2>1, <3>1
    <3>2. CASE i # 1 /\ j # 1
      <4>1. s[i - 1] = s[j - 1] /\ i - 1 \in DOMAIN s /\ j - 1 \in DOMAIN s
        BY <1>1, <1>2, <3>2
      <4>2. i - 1 = j - 1
        BY <1>4, <4>1 DEF IsOnce
      <4> QED
        BY <1>1, <4>2
    <3> QED
      BY <3>1, <3>2
<1> QED
  BY <1>3, <1>4 DEF w

\* pop_front.
LEMMA PopFrontOnce ==
    ASSUME NEW s \in Seq(Tasks), s # <<>>
    PROVE  /\ Head(s) \in Elements(s) /\ Tail(s) \in Seq(Tasks)
           /\ Elements(s) = Elements(Tail(s)) \cup {Head(s)}
           /\ IsOnce(s) => IsOnce(Tail(s)) /\ Head(s) \notin Elements(Tail(s))
<1>1. /\ DOMAIN s = 1..Len(s) /\ Len(s) \in Nat \ {0} /\ Head(s) = s[1]
      /\ DOMAIN Tail(s) = 1..(Len(s) - 1) /\ Tail(s) \in Seq(Tasks)
      /\ \A i \in 1..(Len(s) - 1) : Tail(s)[i] = s[i + 1]
  OBVIOUS
<1>2. \A i \in 1..Len(s) : i = 1 \/ (i - 1 \in 1..(Len(s) - 1) /\ s[i] = Tail(s)[i - 1])
  BY <1>1
<1>3. Elements(s) = Elements(Tail(s)) \cup {Head(s)}
  <2>1. ASSUME NEW i \in DOMAIN s PROVE s[i] \in Elements(Tail(s)) \cup {Head(s)}
    BY <1>1, <1>2 DEF Elements
  <2>2. ASSUME NEW i \in DOMAIN Tail(s) PROVE Tail(s)[i] \in Elements(s)
    <3>1. i + 1 \in DOMAIN s
      BY <1>1
    <3> QED
      BY <1>1, <3>1 DEF Elements
  <2>3. Head(s) \in Elements(s)
    BY <1>1 DEF Elements
  <2> QED
    BY <2>1, <2>2, <2>3 DEF Elements
<1>4. ASSUME IsOnce(s) PROVE IsOnce(Tail(s)) /\ Head(s) \notin Elements(Tail(s))
  BY <1>1, <1>4 DEF IsOnce, Elements
<1> QED
  BY <1>1, <1>3, <1>4

\* The erase loops take the tasks of K out of pending_tasks, and nothing else.
LEMMA EraseOnce ==
    ASSUME TypeOK, NEW K
    PROVE  /\ Elements(Erase(pending, K)) = Elements(pending) \ K
           /\ IsOnce(pending) => IsOnce(Erase(pending, K))
BY EraseCorrect DEF TypeOK, IsOnce

\* Steps that leave the queues alone.
LEMMA StillKeeps ==
    ASSUME Places, UNCHANGED <<pending, suspended, future, fresh>>,
           \A b \in Actors : Kept(b)
    PROVE  Places'
BY ShrinkKeeps DEF QueuesShrink, Places, PendingOnce

\* Every step keeps every task in one place.
LEMMA PlaceStep ==
    ASSUME TypeInv, Places, StatusInv, [Next]_vars
    PROVE  Places'
<1> USE DEF TypeInv, queues, history, bounds
<1>0. Threads \cap Clients = {} /\ \A th \in Threads : th \notin Clients
  BY ConstantsAssumption
<1>1. ASSUME NEW th \in Threads, CheckQuit(th)
      PROVE  Places'
  <2>1. \A b \in Actors : Kept(b)
    BY <1>1, <1>0 DEF CheckQuit, Kept, Owns, Holds, Queues, TypeOK, Actors, Goto
  <2> QED
    BY <1>1, <2>1, StillKeeps DEF CheckQuit
<1>2. ASSUME NEW th \in Threads, AwaitWork(th)
      PROVE  Places'
  <2>1. \A b \in Actors : Kept(b)
    BY <1>2, <1>0 DEF AwaitWork, Kept, Owns, Holds, Queues, TypeOK, Actors, Goto
  <2> QED
    BY <1>2, <2>1, StillKeeps DEF AwaitWork
<1>3. ASSUME NEW th \in Threads, WaitTimesOut(th)
      PROVE  Places'
  <2>1. \A b \in Actors : Kept(b)
    BY <1>3, <1>0 DEF WaitTimesOut, Kept, Owns, Holds, Queues, TypeOK, Actors, Goto
  <2> QED
    BY <1>3, <2>1, StillKeeps DEF WaitTimesOut
<1>4. ASSUME NEW th \in Threads, RecheckQuit(th)
      PROVE  Places'
  <2>1. \A b \in Actors : Kept(b)
    BY <1>4, <1>0
       DEF RecheckQuit, FirstLook, Kept, Owns, Holds, Queues, TypeOK, Actors, Goto
  <2> QED
    BY <1>4, <2>1, StillKeeps DEF RecheckQuit
<1>5. ASSUME NEW th \in Threads, TakeFuture(th)
      PROVE  Places'
  <2>1. QueuesShrink
    BY <1>5 DEF TakeFuture, QueuesShrink, Places, PendingOnce
  <2>2. CASE Due = DeadDue /\ Goto(th, SecondLook) /\ UNCHANGED hand
    <3>1. \A b \in Actors : Kept(b)
      BY <1>5, <1>0, <2>2
         DEF TakeFuture, SecondLook, Kept, Owns, Holds, Queues, TypeOK, Actors, Goto
    <3> QED
      BY <2>1, <3>1, ShrinkKeeps
  <2>3. ASSUME NEW f \in Due \ DeadDue, NEW dead \in SUBSET DeadDue,
               future' = future \ (dead \cup {f}), Take(th, f.task)
        PROVE  Places'
    <3>1. hand'[th] = f.task
      BY <2>3 DEF Take, TypeOK, Actors
    <3>2. f.task \in InQueue
      BY DEF Due, InQueue, FutureTasks
    <3>3. f.task \notin InQueue'
      <4>1. f.task \notin FutureTasks'
        BY <2>3 DEF Due, FutureTasks, Places, QueuesApart
      <4>2. f.task \in FutureTasks
        BY DEF Due, FutureTasks
      <4> QED
        BY <1>5, <4>1, <4>2 DEF TakeFuture, InQueue, Places, QueuesApart
    <3>4. \A b \in Actors \ {th} : Kept(b)
      BY <1>5, <1>0, <2>3
         DEF TakeFuture, Take, Kept, Owns, Holds, Queues, TypeOK, Actors, Goto
    <3> QED
      BY <2>1, <3>1, <3>2, <3>3, <3>4, TakeKeeps DEF Actors
  <2> QED
    BY <1>5, <2>2, <2>3 DEF TakeFuture
<1>6. ASSUME NEW th \in Threads, TakePending(th)
      PROVE  Places'
  <2>1. CASE pending = <<>>
    <3>1. \A b \in Actors : Kept(b)
      BY <1>6, <1>0, <2>1
         DEF TakePending, Kept, Owns, Holds, Queues, TypeOK, Actors, Goto
    <3> QED
      BY <1>6, <2>1, <3>1, StillKeeps DEF TakePending
  <2>2. CASE pending # <<>>
    <3>1. pending' = Tail(pending) /\ Take(th, Head(pending))
      BY <1>6, <2>2 DEF TakePending
    <3>2. /\ Head(pending) \in Elements(pending)
          /\ Elements(pending)' \subseteq Elements(pending)
          /\ Head(pending) \notin Elements(pending)'
          /\ PendingOnce'
      BY <2>2, <3>1, PopFrontOnce DEF TypeOK, Places, PendingOnce
    <3>3. QueuesShrink
      BY <1>6, <3>2 DEF TakePending, QueuesShrink
    <3>4. hand'[th] = Head(pending)
      BY <3>1 DEF Take, TypeOK, Actors
    <3>5. FutureTasks' = FutureTasks /\ suspended' = suspended
      BY <1>6 DEF TakePending, FutureTasks
    <3>6. Head(pending) \in InQueue \ InQueue'
      BY <3>2, <3>5 DEF InQueue, Places, QueuesApart
    <3>7. \A b \in Actors \ {th} : Kept(b)
      BY <1>6, <1>0, <3>1
         DEF TakePending, Take, Kept, Owns, Holds, Queues, TypeOK, Actors, Goto
    <3> QED
      BY <3>3, <3>4, <3>6, <3>7, TakeKeeps DEF Actors
  <2> QED
    BY <2>1, <2>2
<1>7. ASSUME NEW th \in Threads, MarkRunning(th)
      PROVE  Places'
  <2>1. \A b \in Actors : Kept(b)
    BY <1>7, <1>0 DEF MarkRunning, Kept, Owns, Holds, Queues, TypeOK, Actors, Goto
  <2> QED
    BY <1>7, <2>1, StillKeeps DEF MarkRunning
<1>8. ASSUME NEW th \in Threads, CheckCancelled(th)
      PROVE  Places'
  <2>1. \A b \in Actors : Kept(b)
    BY <1>8, <1>0 DEF CheckCancelled, Kept, Owns, Holds, Queues, TypeOK, Actors, Goto
  <2> QED
    BY <1>8, <2>1, StillKeeps DEF CheckCancelled
<1>9. ASSUME NEW th \in Threads, RunOnce(th)
      PROVE  Places'
  <2>1. \A b \in Actors : Kept(b)
    BY <1>9, <1>0 DEF RunOnce, Kept, Owns, Holds, Queues, TypeOK, Actors, Goto
  <2> QED
    BY <1>9, <2>1, StillKeeps DEF RunOnce
<1>10. ASSUME NEW th \in Threads, RunPeriodic(th)
      PROVE  Places'
  <2>1. \A b \in Actors : Kept(b)
    BY <1>10, <1>0 DEF RunPeriodic, Kept, Owns, Holds, Queues, TypeOK, Actors, Goto
  <2> QED
    BY <1>10, <2>1, StillKeeps DEF RunPeriodic
<1>11. ASSUME NEW th \in Threads, UnmarkRunning(th)
      PROVE  Places'
  <2>1. \A b \in Actors : Kept(b)
    BY <1>11, <1>0 DEF UnmarkRunning, Kept, Owns, Holds, Queues, TypeOK, Actors, Goto
  <2> QED
    BY <1>11, <2>1, StillKeeps DEF UnmarkRunning
<1>12. ASSUME NEW th \in Threads, SuspendSetPool(th)
      PROVE  Places'
  <2>1. \A b \in Actors : Kept(b)
    BY <1>12, <1>0 DEF SuspendSetPool, Kept, Owns, Holds, Queues, TypeOK, Actors, Goto
  <2> QED
    BY <1>12, <2>1, StillKeeps DEF SuspendSetPool
<1>13. ASSUME NEW a \in Actors, SuspendInsert(a)
      PROVE  Places'
  <2>1. Owns(a) /\ ~Owns(a)' /\ \A b \in Actors : Kept(b)
    BY <1>13, <1>0
       DEF SuspendInsert, Return, Kept, Owns, Holds, Queues, TypeOK, Actors, Goto
  <2>2. suspended' \subseteq suspended \cup {hand[a]}
    BY <1>13 DEF SuspendInsert
  <2> QED
    BY <1>13, <2>1, <2>2, PutKeeps DEF SuspendInsert, Places, PendingOnce
<1>14. ASSUME NEW a \in Actors, After(a)
      PROVE  Places'
  <2>1. Owns(a) /\ ~Owns(a)' /\ \A b \in Actors : Kept(b)
    BY <1>14, <1>0
       DEF After, Return, StatusInv, Kept, Owns, Holds, Queues, TypeOK, Actors, Goto
  <2>2. \E r \in BOOLEAN : future' = future \cup {[task |-> hand[a], ripe |-> r]}
    BY <1>14 DEF After, Entry
  <2> QED
    BY <1>14, <2>1, <2>2, PutKeeps DEF After, Places, PendingOnce
<1>15. ASSUME NEW c \in Clients, SubmitPush(c)
      PROVE  Places'
  <2>1. hand[c] \in Tasks /\ c \in Actors
    BY <1>15 DEF SubmitPush, HandOK, Actors
  <2>2. Owns(c) /\ ~Owns(c)' /\ \A b \in Actors : Kept(b)
    BY <1>15, <1>0
       DEF SubmitPush, GotoAndNotifyOne, Kept, Owns, Holds, Queues, TypeOK, Actors, Goto
  <2>3. hand[c] \notin Elements(pending)
    BY <2>1, <2>2 DEF Places, HandApart, InQueue
  <2>4. Elements(pending)' = Elements(pending) \cup {hand[c]} /\ PendingOnce'
    BY <1>15, <2>1, <2>3, PushBackOnce DEF SubmitPush, TypeOK, Places, PendingOnce
  <2> QED
    BY <1>15, <2>1, <2>2, <2>4, PutKeeps DEF SubmitPush
<1>16. ASSUME NEW c \in Clients, WakeMove(c)
      PROVE  Places'
  <2>1. hand[c] \in Tasks
    BY <1>16 DEF WakeMove, HandOK, Actors
  <2>2. \A b \in Actors : Kept(b)
    BY <1>16, <1>0
       DEF WakeMove, GotoAndNotifyOne, Kept, Owns, Holds, Queues, TypeOK, Actors, Goto
  <2>3. CASE hand[c] \notin suspended
    BY <1>16, <2>2, <2>3, StillKeeps DEF WakeMove
  <2>4. CASE hand[c] \in suspended
    <3>1. pending' = <<hand[c]>> \o pending /\ suspended' = suspended \ {hand[c]}
      BY <1>16, <2>4 DEF WakeMove, Unsuspended
    <3>2. hand[c] \notin Elements(pending)
      BY <2>4 DEF Places, QueuesApart
    <3>3. Elements(pending)' = Elements(pending) \cup {hand[c]} /\ PendingOnce'
      BY <2>1, <3>1, <3>2, PushFrontOnce DEF TypeOK, Places, PendingOnce
    <3>4. future' = future /\ fresh' = fresh /\ FutureTasks' = FutureTasks
      BY <1>16 DEF WakeMove, FutureTasks
    <3>5. InQueue' = InQueue
      BY <2>4, <3>1, <3>3, <3>4 DEF InQueue
    <3>6. QueuesApart'
      BY <2>4, <3>1, <3>3, <3>4 DEF Places, QueuesApart
    <3>7. HandApart' /\ HandsApart'
      BY <2>2, <3>5 DEF Places, HandApart, HandsApart, Kept
    <3>8. FreshApart'
      BY <2>2, <3>4, <3>5 DEF Places, FreshApart, Owner, Kept
    <3> QED
      BY <3>3, <3>6, <3>7, <3>8 DEF Places
  <2> QED
    BY <2>3, <2>4
<1>17. ASSUME NEW c \in Clients, RemoveCancelled(c)
      PROVE  Places'
  <2>1. /\ Elements(pending)' \subseteq Elements(pending) /\ PendingOnce'
        /\ suspended' \subseteq suspended
    BY <1>17, EraseOnce DEF RemoveCancelled, Remove, Places, PendingOnce
  <2>2. \A b \in Actors : Kept(b)
    BY <1>17, <1>0
       DEF RemoveCancelled, Return, Kept, Owns, Holds, Queues, TypeOK, Actors, Goto
  <2> QED
    BY <1>17, <2>1, <2>2, ShrinkKeeps DEF RemoveCancelled, QueuesShrink
<1>18. ASSUME NEW c \in Clients, CancelNext(c)
      PROVE  Places'
  <2>1. /\ Elements(pending)' \subseteq Elements(pending) /\ PendingOnce'
        /\ suspended' \subseteq suspended
    BY <1>18, EraseOnce DEF CancelNext, Remove, Places, PendingOnce
  <2>2. \A b \in Actors : Kept(b)
    BY <1>18, <1>0 DEF CancelNext, Kept, Owns, Holds, Queues, TypeOK, Actors, Goto
  <2> QED
    BY <1>18, <2>1, <2>2, ShrinkKeeps DEF CancelNext, QueuesShrink
<1>19. ASSUME NEW c \in Clients, NEW t \in Tasks, Submit(c, t)
      PROVE  Places'
  <2>1. \A b \in Actors \ {c} : Kept(b)
    BY <1>19, <1>0 DEF Submit, Kept, Owns, Holds, Queues, TypeOK, Actors, Goto
  <2>2. hand'[c] \in fresh \ fresh' /\ fresh' \subseteq fresh /\ c \in Actors
    BY <1>19 DEF Submit, TypeOK, Actors
  <2> QED
    BY <1>19, <2>1, <2>2, SubmitKeeps DEF Submit
<1>20. ASSUME NEW c \in Clients, NEW t \in Tasks, SubmitDelayed(c, t)
      PROVE  Places'
  <2>1. \A b \in Actors \ {c} : Kept(b)
    BY <1>20, <1>0 DEF SubmitDelayed, Kept, Owns, Holds, Queues, TypeOK, Actors, Goto
  <2>2. hand'[c] \in fresh \ fresh' /\ fresh' \subseteq fresh /\ c \in Actors
    BY <1>20 DEF SubmitDelayed, TypeOK, Actors
  <2> QED
    BY <1>20, <2>1, <2>2, SubmitKeeps DEF SubmitDelayed
<1>21. ASSUME NEW c \in Clients, NEW t \in Tasks, Wake(c, t)
      PROVE  Places'
  <2>1. \A b \in Actors : Kept(b)
    BY <1>21, <1>0 DEF Wake, Kept, Owns, Holds, Queues, TypeOK, Actors, Goto
  <2> QED
    BY <1>21, <2>1, StillKeeps DEF Wake
<1>22. ASSUME NEW c \in Clients, NEW t \in Tasks, Cancel(c, t)
      PROVE  Places'
  <2>1. \A b \in Actors : Kept(b)
    BY <1>22, <1>0 DEF Cancel, Kept, Owns, Holds, Queues, TypeOK, Actors, Goto
  <2> QED
    BY <1>22, <2>1, StillKeeps DEF Cancel
<1>23. ASSUME NEW c \in Clients, NEW g, CancelTaskGroup(c, g)
      PROVE  Places'
  <2>1. /\ Elements(pending)' \subseteq Elements(pending) /\ PendingOnce'
        /\ suspended' \subseteq suspended
    BY <1>23, EraseOnce DEF CancelTaskGroup, Places, PendingOnce
  <2>2. \A b \in Actors : Kept(b)
    BY <1>23, <1>0 DEF CancelTaskGroup, Kept, Owns, Holds, Queues, TypeOK, Actors, Goto
  <2> QED
    BY <1>23, <2>1, <2>2, ShrinkKeeps DEF CancelTaskGroup, QueuesShrink
<1>24. ASSUME NEW c \in Clients, Stop(c)
      PROVE  Places'
  <2>1. pending' = pending \/ pending' = <<>>
    BY <1>24 DEF Stop, StopReturns, StopRelocks
  <2>2. Elements(pending)' \subseteq Elements(pending) /\ PendingOnce'
    BY <2>1 DEF Elements, IsOnce, Places, PendingOnce
  <2>3. \A b \in Actors : Kept(b)
    BY <1>24, <1>0
       DEF Stop, StopReturns, StopRelocks, Kept, Owns, Holds, Queues, TypeOK, Actors,
           Goto
  <2> QED
    BY <1>24, <2>2, <2>3, ShrinkKeeps DEF Stop, QueuesShrink
<1>25. ASSUME Expire
      PROVE  Places'
  <2>1. PICK f \in future : future' = (future \ {f}) \cup {[f EXCEPT !.ripe = TRUE]}
    BY <1>25 DEF Expire
  <2>2. [f EXCEPT !.ripe = TRUE].task = f.task
    BY DEF TypeOK, FutureTask
  <2>3. FutureTasks' = FutureTasks
    BY <2>1, <2>2 DEF FutureTasks
  <2>4. \A g, h \in future' : g.task = h.task => g = h
    BY <2>1, <2>2 DEF Places, QueuesApart
  <2>5. UNCHANGED <<pending, suspended, pc, hand, status, fresh>>
    BY <1>25 DEF Expire
  <2>6. InQueue' = InQueue /\ \A b \in Actors : Kept(b)
    BY <2>3, <2>5 DEF InQueue, Kept, Owns, Holds, Queues
  <2>7. PendingOnce' /\ QueuesApart'
    BY <2>3, <2>4, <2>5 DEF Places, PendingOnce, QueuesApart
  <2>8. HandApart' /\ HandsApart'
    BY <2>6 DEF Places, HandApart, HandsApart, Kept
  <2>9. FreshApart'
    BY <2>5, <2>6 DEF Places, FreshApart, Owner, Kept
  <2> QED
    BY <2>7, <2>8, <2>9 DEF Places
<1>26. ASSUME UNCHANGED vars
      PROVE  Places'
  <2>1. \A b \in Actors : Kept(b)
    BY <1>26 DEF vars, Kept, Owns, Holds, Queues
  <2> QED
    BY <1>26, <2>1, StillKeeps DEF vars
<1> QED
  BY <1>1, <1>2, <1>3, <1>4, <1>5, <1>6, <1>7, <1>8, <1>9, <1>10, <1>11, <1>12, <1>13,
     <1>14, <1>15, <1>16, <1>17, <1>18, <1>19, <1>20, <1>21, <1>22, <1>23, <1>24, <1>25,
     <1>26
     DEF Next, ThreadStep, ClientStep, ClientCall, Actors

\* Every step keeps what run() and cancel() left behind for later steps.
LEMMA StatusStep ==
    ASSUME TypeInv, StatusInv, RemoveInv, BatchInv, [Next]_vars
    PROVE  StatusInv' /\ RemoveInv' /\ BatchInv'
<1> USE DEF TypeInv, queues, history, bounds
<1>0. Threads \cap Clients = {} /\ \A th \in Threads : th \notin Clients
  BY ConstantsAssumption
<1>1. ASSUME NEW th \in Threads, CheckQuit(th)
      PROVE  StatusInv' /\ RemoveInv' /\ BatchInv'
  <2>1. StatusInv' /\ RemoveInv'
    BY <1>1, <1>0 DEF CheckQuit, StatusInv, RemoveInv, TypeOK, Actors, Goto
  <2>2. BatchInv'
    BY <1>1, <1>0 DEF CheckQuit, BatchInv, TypeOK, Actors, Goto
  <2> QED
    BY <2>1, <2>2
<1>2. ASSUME NEW th \in Threads, AwaitWork(th)
      PROVE  StatusInv' /\ RemoveInv' /\ BatchInv'
  <2>1. StatusInv' /\ RemoveInv'
    BY <1>2, <1>0 DEF AwaitWork, StatusInv, RemoveInv, TypeOK, Actors, Goto
  <2>2. BatchInv'
    BY <1>2, <1>0 DEF AwaitWork, BatchInv, TypeOK, Actors, Goto
  <2> QED
    BY <2>1, <2>2
<1>3. ASSUME NEW th \in Threads, WaitTimesOut(th)
      PROVE  StatusInv' /\ RemoveInv' /\ BatchInv'
  <2>1. StatusInv' /\ RemoveInv'
    BY <1>3, <1>0 DEF WaitTimesOut, StatusInv, RemoveInv, TypeOK, Actors, Goto
  <2>2. BatchInv'
    BY <1>3, <1>0 DEF WaitTimesOut, BatchInv, TypeOK, Actors, Goto
  <2> QED
    BY <2>1, <2>2
<1>4. ASSUME NEW th \in Threads, RecheckQuit(th)
      PROVE  StatusInv' /\ RemoveInv' /\ BatchInv'
  <2>1. StatusInv' /\ RemoveInv'
    BY <1>4, <1>0 DEF RecheckQuit, FirstLook, StatusInv, RemoveInv, TypeOK, Actors, Goto
  <2>2. BatchInv'
    BY <1>4, <1>0 DEF RecheckQuit, FirstLook, BatchInv, TypeOK, Actors, Goto
  <2> QED
    BY <2>1, <2>2
<1>5. ASSUME NEW th \in Threads, TakeFuture(th)
      PROVE  StatusInv' /\ RemoveInv' /\ BatchInv'
  <2>1. StatusInv' /\ RemoveInv'
    BY <1>5, <1>0
       DEF TakeFuture, Take, SecondLook, StatusInv, RemoveInv, TypeOK, Actors, Goto
  <2>2. BatchInv'
    BY <1>5, <1>0 DEF TakeFuture, Take, SecondLook, BatchInv, TypeOK, Actors, Goto
  <2> QED
    BY <2>1, <2>2
<1>6. ASSUME NEW th \in Threads, TakePending(th)
      PROVE  StatusInv' /\ RemoveInv' /\ BatchInv'
  <2>1. StatusInv' /\ RemoveInv'
    BY <1>6, <1>0 DEF TakePending, Take, StatusInv, RemoveInv, TypeOK, Actors, Goto
  <2>2. BatchInv'
    BY <1>6, <1>0 DEF TakePending, Take, BatchInv, TypeOK, Actors, Goto
  <2> QED
    BY <2>1, <2>2
<1>7. ASSUME NEW th \in Threads, MarkRunning(th)
      PROVE  StatusInv' /\ RemoveInv' /\ BatchInv'
  <2>1. StatusInv' /\ RemoveInv'
    BY <1>7, <1>0 DEF MarkRunning, StatusInv, RemoveInv, TypeOK, Actors, Goto
  <2>2. BatchInv'
    BY <1>7, <1>0 DEF MarkRunning, BatchInv, TypeOK, Actors, Goto
  <2> QED
    BY <2>1, <2>2
<1>8. ASSUME NEW th \in Threads, CheckCancelled(th)
      PROVE  StatusInv' /\ RemoveInv' /\ BatchInv'
  <2>1. StatusInv' /\ RemoveInv'
    BY <1>8, <1>0 DEF CheckCancelled, StatusInv, RemoveInv, TypeOK, Actors, Goto
  <2>2. BatchInv'
    BY <1>8, <1>0 DEF CheckCancelled, BatchInv, TypeOK, Actors, Goto
  <2> QED
    BY <2>1, <2>2
<1>9. ASSUME NEW th \in Threads, RunOnce(th)
      PROVE  StatusInv' /\ RemoveInv' /\ BatchInv'
  <2>1. StatusInv' /\ RemoveInv'
    BY <1>9, <1>0 DEF RunOnce, StatusInv, RemoveInv, TypeOK, Actors, Goto
  <2>2. BatchInv'
    BY <1>9, <1>0 DEF RunOnce, BatchInv, TypeOK, Actors, Goto
  <2> QED
    BY <2>1, <2>2
<1>10. ASSUME NEW th \in Threads, RunPeriodic(th)
      PROVE  StatusInv' /\ RemoveInv' /\ BatchInv'
  <2>1. StatusInv' /\ RemoveInv'
    BY <1>10, <1>0 DEF RunPeriodic, StatusInv, RemoveInv, TypeOK, Actors, Goto
  <2>2. BatchInv'
    BY <1>10, <1>0 DEF RunPeriodic, BatchInv, TypeOK, Actors, Goto
  <2> QED
    BY <2>1, <2>2
<1>11. ASSUME NEW th \in Threads, UnmarkRunning(th)
      PROVE  StatusInv' /\ RemoveInv' /\ BatchInv'
  <2>1. StatusInv' /\ RemoveInv'
    BY <1>11, <1>0 DEF UnmarkRunning, StatusInv, RemoveInv, TypeOK, Actors, Goto
  <2>2. BatchInv'
    BY <1>11, <1>0 DEF UnmarkRunning, BatchInv, TypeOK, Actors, Goto
  <2> QED
    BY <2>1, <2>2
<1>12. ASSUME NEW th \in Threads, SuspendSetPool(th)
      PROVE  StatusInv' /\ RemoveInv' /\ BatchInv'
  <2>1. StatusInv' /\ RemoveInv'
    BY <1>12, <1>0 DEF SuspendSetPool, StatusInv, RemoveInv, TypeOK, Actors, Goto
  <2>2. BatchInv'
    BY <1>12, <1>0 DEF SuspendSetPool, BatchInv, TypeOK, Actors, Goto
  <2> QED
    BY <2>1, <2>2
<1>13. ASSUME NEW a \in Actors, SuspendInsert(a)
      PROVE  StatusInv' /\ RemoveInv' /\ BatchInv'
  <2>1. StatusInv' /\ RemoveInv'
    BY <1>13, <1>0 DEF SuspendInsert, Return, StatusInv, RemoveInv, TypeOK, Actors, Goto
  <2>2. BatchInv'
    BY <1>13, <1>0 DEF SuspendInsert, Return, BatchInv, TypeOK, Actors, Goto
  <2> QED
    BY <2>1, <2>2
<1>14. ASSUME NEW a \in Actors, After(a)
      PROVE  StatusInv' /\ RemoveInv' /\ BatchInv'
  <2>1. StatusInv' /\ RemoveInv'
    BY <1>14, <1>0 DEF After, Return, StatusInv, RemoveInv, TypeOK, Actors, Goto
  <2>2. BatchInv'
    BY <1>14, <1>0 DEF After, Return, BatchInv, TypeOK, Actors, Goto
  <2> QED
    BY <2>1, <2>2
<1>15. ASSUME NEW c \in Clients, SubmitPush(c)
      PROVE  StatusInv' /\ RemoveInv' /\ BatchInv'
  <2>1. StatusInv' /\ RemoveInv'
    BY <1>15, <1>0
       DEF SubmitPush, GotoAndNotifyOne, StatusInv, RemoveInv, TypeOK, Actors, Goto
  <2>2. BatchInv'
    BY <1>15, <1>0 DEF SubmitPush, GotoAndNotifyOne, BatchInv, TypeOK, Actors, Goto
  <2> QED
    BY <2>1, <2>2
<1>16. ASSUME NEW c \in Clients, WakeMove(c)
      PROVE  StatusInv' /\ RemoveInv' /\ BatchInv'
  <2>1. StatusInv' /\ RemoveInv'
    BY <1>16, <1>0
       DEF WakeMove, GotoAndNotifyOne, StatusInv, RemoveInv, TypeOK, Actors, Goto
  <2>2. BatchInv'
    BY <1>16, <1>0 DEF WakeMove, GotoAndNotifyOne, BatchInv, TypeOK, Actors, Goto
  <2> QED
    BY <2>1, <2>2
<1>17. ASSUME NEW c \in Clients, RemoveCancelled(c)
      PROVE  StatusInv' /\ RemoveInv' /\ BatchInv'
  <2>1. StatusInv' /\ RemoveInv'
    BY <1>17, <1>0
       DEF RemoveCancelled, Return, StatusInv, RemoveInv, TypeOK, Actors, Goto
  <2>2. BatchInv'
    BY <1>17, <1>0 DEF RemoveCancelled, Return, BatchInv, TypeOK, Actors, Goto
  <2> QED
    BY <2>1, <2>2
<1>18. ASSUME NEW c \in Clients, CancelNext(c)
      PROVE  StatusInv' /\ RemoveInv' /\ BatchInv'
  <2>1. StatusInv' /\ RemoveInv'
    BY <1>18, <1>0 DEF CancelNext, StatusInv, RemoveInv, TypeOK, Actors, Goto
  <2>2. BatchInv'
    BY <1>18, <1>0 DEF CancelNext, BatchInv, TypeOK, Actors, Goto
  <2> QED
    BY <2>1, <2>2
<1>19. ASSUME NEW c \in Clients, NEW t \in Tasks, Submit(c, t)
      PROVE  StatusInv' /\ RemoveInv' /\ BatchInv'
  <2>1. StatusInv' /\ RemoveInv'
    BY <1>19, <1>0 DEF Submit, StatusInv, RemoveInv, TypeOK, Actors, Goto
  <2>2. BatchInv'
    BY <1>19, <1>0 DEF Submit, BatchInv, TypeOK, Actors, Goto
  <2> QED
    BY <2>1, <2>2
<1>20. ASSUME NEW c \in Clients, NEW t \in Tasks, SubmitDelayed(c, t)
      PROVE  StatusInv' /\ RemoveInv' /\ BatchInv'
  <2>1. StatusInv' /\ RemoveInv'
    BY <1>20, <1>0 DEF SubmitDelayed, StatusInv, RemoveInv, TypeOK, Actors, Goto
  <2>2. BatchInv'
    BY <1>20, <1>0 DEF SubmitDelayed, BatchInv, TypeOK, Actors, Goto
  <2> QED
    BY <2>1, <2>2
<1>21. ASSUME NEW c \in Clients, NEW t \in Tasks, Wake(c, t)
      PROVE  StatusInv' /\ RemoveInv' /\ BatchInv'
  <2>1. StatusInv' /\ RemoveInv'
    BY <1>21, <1>0 DEF Wake, StatusInv, RemoveInv, TypeOK, Actors, Goto
  <2>2. BatchInv'
    BY <1>21, <1>0 DEF Wake, BatchInv, TypeOK, Actors, Goto
  <2> QED
    BY <2>1, <2>2
<1>22. ASSUME NEW c \in Clients, NEW t \in Tasks, Cancel(c, t)
      PROVE  StatusInv' /\ RemoveInv' /\ BatchInv'
  <2>1. StatusInv' /\ RemoveInv'
    BY <1>22, <1>0 DEF Cancel, StatusInv, RemoveInv, TypeOK, Actors, Goto
  <2>2. BatchInv'
    BY <1>22, <1>0 DEF Cancel, BatchInv, TypeOK, Actors, Goto
  <2> QED
    BY <2>1, <2>2
<1>23. ASSUME NEW c \in Clients, NEW g, CancelTaskGroup(c, g)
      PROVE  StatusInv' /\ RemoveInv' /\ BatchInv'
  <2>1. StatusInv' /\ RemoveInv'
    BY <1>23, <1>0 DEF CancelTaskGroup, StatusInv, RemoveInv, TypeOK, Actors, Goto
  <2>2. BatchInv'
    BY <1>23, <1>0 DEF CancelTaskGroup, BatchInv, TypeOK, Actors, Goto
  <2> QED
    BY <2>1, <2>2
<1>24. ASSUME NEW c \in Clients, Stop(c)
      PROVE  StatusInv' /\ RemoveInv' /\ BatchInv'
  <2>1. ASSUME NEW t \in Tasks, cancelled[t] PROVE cancelled'[t]
    BY <1>24, <2>1 DEF Stop, StopReturns, StopRelocks, TypeOK
  <2>2. /\ hand' = hand /\ status' = status /\ batch' = batch
        /\ \A a \in Actors : \/ pc'[a] = pc[a]
                             \/ pc[a] \in {"asleep", "idle"} /\ pc'[a] \in {"woken", "exit", "stuck"}
    <3>1. UNCHANGED <<hand, status, batch>> /\ pc[c] = "idle" /\ c \in Actors
      BY <1>24 DEF Stop, Actors
    <3>2. CASE StopReturns(c)
      <4>1. pc' = [a \in Actors |-> IF pc[a] = "asleep" THEN "woken"
                                   ELSE IF a = c THEN "exit" ELSE pc[a]]
        BY <3>2 DEF StopReturns
      <4> QED
        BY <3>1, <4>1
    <3>3. CASE StopRelocks(c)
      <4>1. pc' = [pc EXCEPT ![c] = "stuck"]
        BY <3>3 DEF StopRelocks, Goto
      <4> QED
        BY <3>1, <4>1 DEF TypeOK
    <3> QED
      BY <1>24, <3>1, <3>2, <3>3 DEF Stop
  <2>3. \A c2 \in Clients : pc[c2] = "remove" => hand[c2] \in Tasks
    BY DEF HandOK, Actors
  <2> QED
    BY <2>1, <2>2, <2>3 DEF StatusInv, RemoveInv, BatchInv, Actors
<1>25. ASSUME Expire
      PROVE  StatusInv' /\ RemoveInv' /\ BatchInv'
  <2>1. StatusInv' /\ RemoveInv'
    BY <1>25, <1>0 DEF Expire, StatusInv, RemoveInv, TypeOK, Actors, Goto
  <2>2. BatchInv'
    BY <1>25, <1>0 DEF Expire, BatchInv, TypeOK, Actors, Goto
  <2> QED
    BY <2>1, <2>2
<1>26. ASSUME UNCHANGED vars
      PROVE  StatusInv' /\ RemoveInv' /\ BatchInv'
  BY <1>26 DEF vars, StatusInv, RemoveInv, BatchInv
<1> QED
  BY <1>1, <1>2, <1>3, <1>4, <1>5, <1>6, <1>7, <1>8, <1>9, <1>10, <1>11, <1>12, <1>13,
     <1>14, <1>15, <1>16, <1>17, <1>18, <1>19, <1>20, <1>21, <1>22, <1>23, <1>24, <1>25,
     <1>26
     DEF Next, ThreadStep, ClientStep, ClientCall, Actors

\* No pool pointer changes, and nobody comes to a place where one matters.
PoolSame ==
    /\ pool' = pool
    /\ \A th \in Threads :
          pc'[th] \in {"mark", "run", "body"} => pc[th] \in {"mark", "run", "body"} /\ hand'[th] = hand[th]
    /\ \A a \in Actors :
          Owns(a)' /\ pc'[a] \in {"push", "after", "insert"}
          => Owns(a) /\ pc[a] \in {"push", "after", "insert"} /\ hand'[a] = hand[a]

\* Steps that put only tasks with a pool pointer into the queues.
LEMMA PoolStill ==
    ASSUME PoolInv, PoolSame, \A t \in InQueue' : t \in InQueue \/ pool[t]
    PROVE  PoolInv'
BY DEF PoolInv, PoolSame

\* A task in the hand of its owner is in no queue.
LEMMA TakenOut ==
    ASSUME Places', NEW a \in Actors, Owns(a)'
    PROVE  hand'[a] \notin InQueue'
BY DEF Places, HandApart

\* A worker that takes a queued task clears its pool pointer, and no other.
LEMMA PoolTake ==
    ASSUME TypeOK, Places, PoolInv, NEW th \in Threads, NEW t, Take(th, t),
           InQueue' \subseteq InQueue, t \in InQueue, t \notin InQueue', status' = status
    PROVE  PoolInv'
<1>1. t \in Tasks
  BY DEF InQueue, FutureTasks, FutureTask, Elements, TypeOK
<1>2. \A b \in Actors : Owns(b) => hand[b] # t
  BY DEF Places, HandApart
<1>3. \A b \in Actors \ {th} : pc'[b] = pc[b] /\ hand'[b] = hand[b]
  BY DEF Take, Goto, TypeOK
<1>4. pc'[th] = "mark" /\ hand'[th] = t /\ ~pool'[t] /\ th \in Actors
  BY <1>1 DEF Take, Goto, TypeOK, Actors
<1>5. \A u \in Tasks \ {t} : pool'[u] = pool[u]
  BY DEF Take, TypeOK
<1>6. \A u \in InQueue' : pool'[u]
  <2>1. InQueue' \subseteq Tasks
    BY DEF InQueue, FutureTasks, FutureTask, Elements, TypeOK
  <2> QED
    BY <1>5, <2>1 DEF PoolInv
<1>7. ASSUME NEW b \in Threads, pc'[b] \in {"mark", "run", "body"}
      PROVE  ~pool'[hand'[b]]
  BY <1>3, <1>4, <1>7 DEF PoolInv, Take, TypeOK, Actors
<1>8. ASSUME NEW b \in Actors, Owns(b)', pc'[b] \in {"push", "after", "insert"}
      PROVE  pool'[hand'[b]]
  <2>1. b # th
    BY <1>4, <1>8
  <2>2. Owns(b) /\ pc[b] \in {"push", "after", "insert"}
    BY <1>3, <1>8, <2>1 DEF Owns, Holds, Queues
  <2> QED
    BY <1>2, <1>3, <2>1, <2>2 DEF PoolInv, Take, TypeOK
<1> QED
  BY <1>6, <1>7, <1>8 DEF PoolInv

\* Every step keeps the pool pointers right.
LEMMA PoolStep ==
    ASSUME TypeInv, Places, Places', PoolInv, [Next]_vars
    PROVE  PoolInv'
<1> USE DEF TypeInv, queues, history, bounds
<1>0. Threads \cap Clients = {} /\ \A th \in Threads : th \notin Clients
  BY ConstantsAssumption
<1>1. ASSUME NEW th \in Threads, CheckQuit(th)
      PROVE  PoolInv'
  <2>1. PoolSame
    BY <1>1, <1>0 DEF CheckQuit, PoolSame, Owns, Holds, Queues, TypeOK, Actors, Goto
  <2>2. InQueue' = InQueue
    BY <1>1 DEF CheckQuit, InQueue, FutureTasks
  <2> QED
    BY <2>1, <2>2, PoolStill
<1>2. ASSUME NEW th \in Threads, AwaitWork(th)
      PROVE  PoolInv'
  <2>1. PoolSame
    BY <1>2, <1>0 DEF AwaitWork, PoolSame, Owns, Holds, Queues, TypeOK, Actors, Goto
  <2>2. InQueue' = InQueue
    BY <1>2 DEF AwaitWork, InQueue, FutureTasks
  <2> QED
    BY <2>1, <2>2, PoolStill
<1>3. ASSUME NEW th \in Threads, WaitTimesOut(th)
      PROVE  PoolInv'
  <2>1. PoolSame
    BY <1>3, <1>0 DEF WaitTimesOut, PoolSame, Owns, Holds, Queues, TypeOK, Actors, Goto
  <2>2. InQueue' = InQueue
    BY <1>3 DEF WaitTimesOut, InQueue, FutureTasks
  <2> QED
    BY <2>1, <2>2, PoolStill
<1>4. ASSUME NEW th \in Threads, RecheckQuit(th)
      PROVE  PoolInv'
  <2>1. PoolSame
    BY <1>4, <1>0
       DEF RecheckQuit, FirstLook, PoolSame, Owns, Holds, Queues, TypeOK, Actors, Goto
  <2>2. InQueue' = InQueue
    BY <1>4 DEF RecheckQuit, InQueue, FutureTasks
  <2> QED
    BY <2>1, <2>2, PoolStill
<1>5. ASSUME NEW th \in Threads, TakeFuture(th)
      PROVE  PoolInv'
  <2>1. InQueue' \subseteq InQueue
    BY <1>5 DEF TakeFuture, InQueue, FutureTasks
  <2>2. CASE UNCHANGED <<hand, pool>> /\ Goto(th, SecondLook)
    <3>1. PoolSame
      BY <1>5, <1>0, <2>2
         DEF TakeFuture, SecondLook, PoolSame, Owns, Holds, Queues, TypeOK, Actors, Goto
    <3> QED
      BY <2>1, <3>1, PoolStill
  <2>3. ASSUME NEW f \in Due, Take(th, f.task)
        PROVE  PoolInv'
    <3>1. f.task \in InQueue
      BY DEF Due, InQueue, FutureTasks
    <3>2. th \in Actors /\ Owns(th)' /\ hand'[th] = f.task
      BY <1>0, <2>3 DEF Take, Owns, Holds, Queues, TypeOK, Actors, Goto
    <3>3. f.task \notin InQueue'
      BY <3>2, TakenOut
    <3> QED
      BY <1>5, <2>1, <2>3, <3>1, <3>3, PoolTake DEF TakeFuture
  <2> QED
    BY <1>5, <2>2, <2>3 DEF TakeFuture
<1>6. ASSUME NEW th \in Threads, TakePending(th)
      PROVE  PoolInv'
  <2>1. CASE pending = <<>>
    <3>1. PoolSame /\ InQueue' = InQueue
      BY <1>6, <1>0, <2>1
         DEF TakePending, PoolSame, InQueue, FutureTasks, Owns, Holds, Queues, TypeOK,
             Actors, Goto
    <3> QED
      BY <3>1, PoolStill
  <2>2. CASE pending # <<>>
    <3>1. pending' = Tail(pending) /\ Take(th, Head(pending))
      BY <1>6, <2>2 DEF TakePending
    <3>2. Head(pending) \in Elements(pending) /\ Elements(pending)' \subseteq Elements(pending)
      BY <2>2, <3>1, PopFrontOnce DEF TypeOK
    <3>3. InQueue' \subseteq InQueue /\ Head(pending) \in InQueue
      BY <1>6, <3>2 DEF TakePending, InQueue, FutureTasks
    <3>4. th \in Actors /\ Owns(th)' /\ hand'[th] = Head(pending)
      BY <1>0, <3>1 DEF Take, Owns, Holds, Queues, TypeOK, Actors, Goto
    <3>5. Head(pending) \notin InQueue'
      BY <3>4, TakenOut
    <3> QED
      BY <1>6, <3>1, <3>3, <3>5, PoolTake DEF TakePending
  <2> QED
    BY <2>1, <2>2
<1>7. ASSUME NEW th \in Threads, MarkRunning(th)
      PROVE  PoolInv'
  <2>1. PoolSame
    BY <1>7, <1>0 DEF MarkRunning, PoolSame, Owns, Holds, Queues, TypeOK, Actors, Goto
  <2>2. InQueue' = InQueue
    BY <1>7 DEF MarkRunning, InQueue, FutureTasks
  <2> QED
    BY <2>1, <2>2, PoolStill
<1>8. ASSUME NEW th \in Threads, CheckCancelled(th)
      PROVE  PoolInv'
  <2>1. PoolSame
    BY <1>8, <1>0
       DEF CheckCancelled, PoolSame, Owns, Holds, Queues, TypeOK, Actors, Goto
  <2>2. InQueue' = InQueue
    BY <1>8 DEF CheckCancelled, InQueue, FutureTasks
  <2> QED
    BY <2>1, <2>2, PoolStill
<1>9. ASSUME NEW th \in Threads, RunOnce(th)
      PROVE  PoolInv'
  <2>1. PoolSame
    BY <1>9, <1>0 DEF RunOnce, PoolSame, Owns, Holds, Queues, TypeOK, Actors, Goto
  <2>2. InQueue' = InQueue
    BY <1>9 DEF RunOnce, InQueue, FutureTasks
  <2> QED
    BY <2>1, <2>2, PoolStill
<1>10. ASSUME NEW th \in Threads, RunPeriodic(th)
      PROVE  PoolInv'
  <2>1. InQueue' = InQueue
    BY <1>10 DEF RunPeriodic, InQueue, FutureTasks
  <2>2. hand[th] \in Tasks /\ Owns(th)
    BY <1>10 DEF RunPeriodic, HandOK, Actors, Owns, Holds
  <2>3. \A b \in Actors \ {th} : Owns(b) => hand[b] # hand[th]
    BY <2>2 DEF Places, HandsApart, Actors
  <2> QED
    <3>1. ASSUME pool' = [pool EXCEPT ![hand[th]] = TRUE], pc' = [pc EXCEPT ![th] = "after"],
                 hand' = hand, \A b \in Actors \ {th} : Owns(b)' = Owns(b)
          PROVE  PoolInv'
      <4>1. \A u \in Tasks : pool'[u] = (pool[u] \/ u = hand[th])
        BY <3>1 DEF TypeOK
      <4>2. pc'[th] = "after" /\ \A b \in Actors \ {th} : pc'[b] = pc[b]
        BY <3>1 DEF TypeOK, Actors
      <4>3. InQueue \subseteq Tasks
        BY DEF InQueue, FutureTasks, FutureTask, Elements, TypeOK
      <4>4. \A u \in InQueue' : pool'[u]
        BY <2>1, <4>1, <4>3 DEF PoolInv
      <4>5. ASSUME NEW b \in Threads, pc'[b] \in {"mark", "run", "body"}
            PROVE  ~pool'[hand'[b]]
        <5>1. b # th /\ pc[b] \in {"mark", "run", "body"} /\ b \in Actors
          BY <4>2, <4>5 DEF Actors
        <5>2. hand[b] \in Tasks /\ Owns(b) /\ ~pool[hand[b]]
          BY <4>5, <5>1 DEF HandOK, Owns, Holds, PoolInv
        <5> QED
          BY <2>3, <3>1, <4>1, <5>1, <5>2
      <4>6. ASSUME NEW b \in Actors, Owns(b)', pc'[b] \in {"push", "after", "insert"}
            PROVE  pool'[hand'[b]]
        <5>1. CASE b = th
          BY <2>2, <3>1, <4>1, <5>1
        <5>2. CASE b # th
          <6>1. Owns(b) /\ pc[b] \in {"push", "after", "insert"}
            BY <3>1, <4>2, <4>6, <5>2
          <6>2. hand[b] \in Tasks /\ pool[hand[b]]
            BY <6>1 DEF HandOK, PoolInv
          <6> QED
            BY <3>1, <4>1, <6>2
        <5> QED
          BY <5>1, <5>2
      <4> QED
        BY <4>4, <4>5, <4>6 DEF PoolInv
    <3>2. CASE UNCHANGED pool /\ Goto(th, "unmark")
      <4>1. PoolSame
        BY <1>10, <1>0, <3>2
           DEF RunPeriodic, PoolSame, Owns, Holds, Queues, TypeOK, Actors, Goto
      <4> QED
        BY <2>1, <4>1, PoolStill
    <3>3. ~pool[hand[th]]
      BY <1>10 DEF RunPeriodic, PoolInv
    <3>4. hand' = hand /\ \A b \in Actors \ {th} : Owns(b)' = Owns(b)
      BY <1>10 DEF RunPeriodic, Owns, Holds, Queues, TypeOK, Actors, Goto
    <3> QED
      BY <1>10, <3>1, <3>2, <3>3, <3>4 DEF RunPeriodic, Goto
<1>11. ASSUME NEW th \in Threads, UnmarkRunning(th)
      PROVE  PoolInv'
  <2>1. PoolSame
    BY <1>11, <1>0
       DEF UnmarkRunning, PoolSame, Owns, Holds, Queues, TypeOK, Actors, Goto
  <2>2. InQueue' = InQueue
    BY <1>11 DEF UnmarkRunning, InQueue, FutureTasks
  <2> QED
    BY <2>1, <2>2, PoolStill
<1>12. ASSUME NEW th \in Threads, SuspendSetPool(th)
      PROVE  PoolInv'
  <2>1. InQueue' = InQueue
    BY <1>12 DEF SuspendSetPool, InQueue, FutureTasks
  <2>2. hand[th] \in Tasks /\ Owns(th)
    BY <1>12 DEF SuspendSetPool, HandOK, Actors, Owns, Holds
  <2>3. \A b \in Actors \ {th} : Owns(b) => hand[b] # hand[th]
    BY <2>2 DEF Places, HandsApart, Actors
  <2> QED
    BY <1>12, <1>0, <2>1, <2>2, <2>3
       DEF SuspendSetPool, PoolInv, InQueue, Owns, Holds, Queues, TypeOK, Actors, Goto
<1>13. ASSUME NEW a \in Actors, SuspendInsert(a)
      PROVE  PoolInv'
  <2>1. PoolSame
    BY <1>13, <1>0
       DEF SuspendInsert, Return, PoolSame, Owns, Holds, Queues, TypeOK, Actors, Goto
  <2>2. InQueue' \subseteq InQueue \cup {hand[a]}
    BY <1>13 DEF SuspendInsert, InQueue, FutureTasks
  <2>3. pool[hand[a]]
    BY <1>13 DEF SuspendInsert, PoolInv, Owns, Holds, Queues
  <2> QED
    BY <2>1, <2>2, <2>3, PoolStill
<1>14. ASSUME NEW a \in Actors, After(a)
      PROVE  PoolInv'
  <2>1. PoolSame
    BY <1>14, <1>0
       DEF After, Return, PoolSame, Owns, Holds, Queues, TypeOK, Actors, Goto
  <2>2. InQueue' \subseteq InQueue \cup {hand[a]}
    <3>1. Entry(hand[a]).task = hand[a]
      BY DEF Entry
    <3>2. FutureTasks' = FutureTasks \cup {hand[a]}
      BY <1>14, <3>1 DEF After, FutureTasks
    <3> QED
      BY <1>14, <3>2 DEF After, InQueue
  <2>3. pool[hand[a]]
    BY <1>14 DEF After, PoolInv, Owns, Holds, Queues
  <2> QED
    BY <2>1, <2>2, <2>3, PoolStill
<1>15. ASSUME NEW c \in Clients, SubmitPush(c)
      PROVE  PoolInv'
  <2>1. PoolSame
    BY <1>15, <1>0
       DEF SubmitPush, GotoAndNotifyOne, PoolSame, Owns, Holds, Queues, TypeOK, Actors,
           Goto
  <2>2. InQueue' \subseteq InQueue \cup {hand[c]}
    <3>1. hand[c] \in Tasks
      BY <1>15 DEF SubmitPush, HandOK, Actors
    <3>2. Elements(pending)' = Elements(pending) \cup {hand[c]}
      BY <1>15, <3>1, PushBackOnce DEF SubmitPush, TypeOK
    <3> QED
      BY <1>15, <3>2 DEF SubmitPush, InQueue, FutureTasks
  <2>3. pool[hand[c]]
    BY <1>15, <1>0 DEF SubmitPush, PoolInv, Owns, Queues, Actors
  <2> QED
    BY <2>1, <2>2, <2>3, PoolStill
<1>16. ASSUME NEW c \in Clients, WakeMove(c)
      PROVE  PoolInv'
  <2>1. PoolSame
    BY <1>16, <1>0
       DEF WakeMove, GotoAndNotifyOne, PoolSame, Owns, Holds, Queues, TypeOK, Actors,
           Goto
  <2>2. InQueue' \subseteq InQueue
    <3>1. hand[c] \in Tasks
      BY <1>16 DEF WakeMove, HandOK, Actors
    <3>2. \/ UNCHANGED <<pending, suspended>>
          \/ /\ hand[c] \in suspended
             /\ Elements(pending)' = Elements(pending) \cup {hand[c]}
             /\ suspended' \subseteq suspended
      BY <1>16, <3>1, PushFrontOnce DEF WakeMove, Unsuspended, TypeOK
    <3> QED
      BY <1>16, <3>2 DEF WakeMove, InQueue, FutureTasks
  <2> QED
    BY <2>1, <2>2, PoolStill
<1>17. ASSUME NEW c \in Clients, RemoveCancelled(c)
      PROVE  PoolInv'
  <2>1. PoolSame
    BY <1>17, <1>0
       DEF RemoveCancelled, Return, PoolSame, Owns, Holds, Queues, TypeOK, Actors, Goto
  <2>2. InQueue' \subseteq InQueue
    BY <1>17, EraseOnce DEF RemoveCancelled, Remove, InQueue, FutureTasks
  <2> QED
    BY <2>1, <2>2, PoolStill
<1>18. ASSUME NEW c \in Clients, CancelNext(c)
      PROVE  PoolInv'
  <2>1. PoolSame
    BY <1>18, <1>0 DEF CancelNext, PoolSame, Owns, Holds, Queues, TypeOK, Actors, Goto
  <2>2. InQueue' \subseteq InQueue
    BY <1>18, EraseOnce DEF CancelNext, Remove, InQueue, FutureTasks
  <2> QED
    BY <2>1, <2>2, PoolStill
<1>19. ASSUME NEW c \in Clients, NEW t \in Tasks, Submit(c, t)
      PROVE  PoolInv'
  <2>1. InQueue' = InQueue
    BY <1>19 DEF Submit, InQueue, FutureTasks
  <2>2. t \notin InQueue /\ \A b \in Actors : Owns(b) => hand[b] # t
    BY <1>19 DEF Submit, Places, FreshApart, Owner
  <2> QED
    BY <1>19, <1>0, <2>1, <2>2
       DEF Submit, PoolInv, InQueue, Owns, Holds, Queues, TypeOK, Actors, Goto
<1>20. ASSUME NEW c \in Clients, NEW t \in Tasks, SubmitDelayed(c, t)
      PROVE  PoolInv'
  <2>1. InQueue' = InQueue
    BY <1>20 DEF SubmitDelayed, InQueue, FutureTasks
  <2>2. t \notin InQueue /\ \A b \in Actors : Owns(b) => hand[b] # t
    BY <1>20 DEF SubmitDelayed, Places, FreshApart, Owner
  <2> QED
    BY <1>20, <1>0, <2>1, <2>2
       DEF SubmitDelayed, PoolInv, InQueue, Owns, Holds, Queues, TypeOK, Actors, Goto
<1>21. ASSUME NEW c \in Clients, NEW t \in Tasks, Wake(c, t)
      PROVE  PoolInv'
  <2>1. PoolSame
    BY <1>21, <1>0 DEF Wake, PoolSame, Owns, Holds, Queues, TypeOK, Actors, Goto
  <2>2. InQueue' = InQueue
    BY <1>21 DEF Wake, InQueue, FutureTasks
  <2> QED
    BY <2>1, <2>2, PoolStill
<1>22. ASSUME NEW c \in Clients, NEW t \in Tasks, Cancel(c, t)
      PROVE  PoolInv'
  <2>1. PoolSame
    BY <1>22, <1>0 DEF Cancel, PoolSame, Owns, Holds, Queues, TypeOK, Actors, Goto
  <2>2. InQueue' = InQueue
    BY <1>22 DEF Cancel, InQueue, FutureTasks
  <2> QED
    BY <2>1, <2>2, PoolStill
<1>23. ASSUME NEW c \in Clients, NEW g, CancelTaskGroup(c, g)
      PROVE  PoolInv'
  <2>1. PoolSame
    BY <1>23, <1>0
       DEF CancelTaskGroup, PoolSame, Owns, Holds, Queues, TypeOK, Actors, Goto
  <2>2. InQueue' \subseteq InQueue
    BY <1>23, EraseOnce DEF CancelTaskGroup, InQueue, FutureTasks
  <2> QED
    BY <2>1, <2>2, PoolStill
<1>24. ASSUME NEW c \in Clients, Stop(c)
      PROVE  PoolInv'
  <2>1. PoolSame
    BY <1>24, <1>0
       DEF Stop, StopReturns, StopRelocks, PoolSame, Owns, Holds, Queues, TypeOK,
           Actors, Goto
  <2>2. pending' = pending \/ pending' = <<>>
    BY <1>24 DEF Stop, StopReturns, StopRelocks
  <2>3. InQueue' \subseteq InQueue
    BY <1>24, <2>2 DEF Stop, InQueue, FutureTasks, Elements
  <2> QED
    BY <2>1, <2>3, PoolStill
<1>25. ASSUME Expire
      PROVE  PoolInv'
  <2>1. PoolSame
    BY <1>25 DEF Expire, PoolSame, Owns, Holds, Queues
  <2>2. PICK f \in future : future' = (future \ {f}) \cup {[f EXCEPT !.ripe = TRUE]}
    BY <1>25 DEF Expire
  <2>3. [f EXCEPT !.ripe = TRUE].task = f.task
    BY DEF TypeOK, FutureTask
  <2>4. InQueue' = InQueue
    BY <1>25, <2>2, <2>3 DEF Expire, InQueue, FutureTasks
  <2> QED
    BY <2>1, <2>4, PoolStill
<1>26. ASSUME UNCHANGED vars
      PROVE  PoolInv'
  BY <1>26 DEF vars, PoolInv, InQueue, FutureTasks, Owns, Holds, Queues
<1> QED
  BY <1>1, <1>2, <1>3, <1>4, <1>5, <1>6, <1>7, <1>8, <1>9, <1>10, <1>11, <1>12, <1>13,
     <1>14, <1>15, <1>16, <1>17, <1>18, <1>19, <1>20, <1>21, <1>22, <1>23, <1>24, <1>25,
     <1>26
     DEF Next, ThreadStep, ClientStep, ClientCall, Actors

\* The places a task that is not cancelled may be in.
Safe(t) ==
    \/ t \in fresh \cup finished \cup lost
    \/ t \in InQueue
    \/ \E a \in Actors : Owner(t, a)
    \/ \E c \in Clients : t \in batch[c]

\* When only the tasks of X move, and each is cancelled or has a new place,
\* no task vanishes.
LEMMA Moved ==
    ASSUME NoTaskVanishes, NEW X,
           \A t \in Tasks : cancelled[t] => cancelled'[t],
           (fresh \cup finished \cup lost) \ X \subseteq (fresh \cup finished \cup lost)',
           InQueue \ X \subseteq InQueue',
           \A b \in Actors : Owns(b) => Owns(b)' /\ hand'[b] = hand[b],
           \A c \in Clients : batch[c] \ X \subseteq batch'[c],
           \A t \in X : cancelled'[t] \/ Safe(t)'
    PROVE  NoTaskVanishes'
<1> SUFFICES ASSUME NEW t \in Tasks, ~cancelled'[t]
             PROVE  Safe(t)'
  BY DEF NoTaskVanishes, Safe, InQueue
<1>1. Safe(t)
  BY DEF NoTaskVanishes, Safe, InQueue
<1> QED
  BY <1>1 DEF Safe, Owner

\* When no task moves, none vanishes.
LEMMA NoneMoved ==
    ASSUME NoTaskVanishes,
           \A t \in Tasks : cancelled[t] => cancelled'[t],
           UNCHANGED <<fresh, finished, lost, batch>>,
           InQueue \subseteq InQueue',
           \A b \in Actors : Owns(b) => Owns(b)' /\ hand'[b] = hand[b]
    PROVE  NoTaskVanishes'
<1> DEFINE X == {}
<1>1. InQueue \ X \subseteq InQueue' /\ \A c \in Clients : batch[c] \ X \subseteq batch'[c]
  OBVIOUS
<1>2. \A t \in X : cancelled'[t] \/ Safe(t)'
  OBVIOUS
<1> HIDE DEF X
<1> QED
  BY <1>1, <1>2, Moved

\* No step loses a task that is not cancelled, except through a torn insert.
LEMMA VanishStep ==
    ASSUME TypeInv, Places, PoolInv, RemoveInv, BatchInv, NoTaskVanishes, [Next]_vars
    PROVE  NoTaskVanishes'
<1> USE DEF TypeInv, queues, history, bounds
<1>0. Threads \cap Clients = {} /\ \A th \in Threads : th \notin Clients
  BY ConstantsAssumption
<1>1. ASSUME NEW th \in Threads, CheckQuit(th)
      PROVE  NoTaskVanishes'
  <2>1. cancelled' = cancelled /\ batch' = batch /\ UNCHANGED <<fresh, finished, lost>>
    BY <1>1 DEF CheckQuit
  <2>2. InQueue' = InQueue
    BY <1>1 DEF CheckQuit, InQueue, FutureTasks
  <2>3. \A b \in Actors : Owns(b) => Owns(b)' /\ hand'[b] = hand[b]
    BY <1>1, <1>0 DEF CheckQuit, Owns, Holds, Queues, TypeOK, Actors, Goto
  <2> QED
    BY <2>1, <2>2, <2>3, NoneMoved
<1>2. ASSUME NEW th \in Threads, AwaitWork(th)
      PROVE  NoTaskVanishes'
  <2>1. cancelled' = cancelled /\ batch' = batch /\ UNCHANGED <<fresh, finished, lost>>
    BY <1>2 DEF AwaitWork
  <2>2. InQueue' = InQueue
    BY <1>2 DEF AwaitWork, InQueue, FutureTasks
  <2>3. \A b \in Actors : Owns(b) => Owns(b)' /\ hand'[b] = hand[b]
    BY <1>2, <1>0 DEF AwaitWork, Owns, Holds, Queues, TypeOK, Actors, Goto
  <2> QED
    BY <2>1, <2>2, <2>3, NoneMoved
<1>3. ASSUME NEW th \in Threads, WaitTimesOut(th)
      PROVE  NoTaskVanishes'
  <2>1. cancelled' = cancelled /\ batch' = batch /\ UNCHANGED <<fresh, finished, lost>>
    BY <1>3 DEF WaitTimesOut
  <2>2. InQueue' = InQueue
    BY <1>3 DEF WaitTimesOut, InQueue, FutureTasks
  <2>3. \A b \in Actors : Owns(b) => Owns(b)' /\ hand'[b] = hand[b]
    BY <1>3, <1>0 DEF WaitTimesOut, Owns, Holds, Queues, TypeOK, Actors, Goto
  <2> QED
    BY <2>1, <2>2, <2>3, NoneMoved
<1>4. ASSUME NEW th \in Threads, RecheckQuit(th)
      PROVE  NoTaskVanishes'
  <2>1. cancelled' = cancelled /\ batch' = batch /\ UNCHANGED <<fresh, finished, lost>>
    BY <1>4 DEF RecheckQuit
  <2>2. InQueue' = InQueue
    BY <1>4 DEF RecheckQuit, InQueue, FutureTasks
  <2>3. \A b \in Actors : Owns(b) => Owns(b)' /\ hand'[b] = hand[b]
    BY <1>4, <1>0 DEF RecheckQuit, FirstLook, Owns, Holds, Queues, TypeOK, Actors, Goto
  <2> QED
    BY <2>1, <2>2, <2>3, NoneMoved
<1>5. ASSUME NEW th \in Threads, TakeFuture(th)
      PROVE  NoTaskVanishes'
  <2>1. /\ cancelled' = cancelled /\ batch' = batch /\ UNCHANGED <<fresh, finished, lost>>
        /\ UNCHANGED <<pending, suspended, status>>
    BY <1>5 DEF TakeFuture
  <2>2. CASE future' = future \ DeadDue /\ UNCHANGED hand /\ Goto(th, SecondLook)
    <3> DEFINE X == {f.task : f \in DeadDue}
    <3>1. InQueue \ X \subseteq InQueue'
      BY <2>1, <2>2 DEF InQueue, FutureTasks
    <3>2. \A b \in Actors : Owns(b) => Owns(b)' /\ hand'[b] = hand[b]
      BY <1>5, <1>0, <2>1, <2>2
         DEF TakeFuture, SecondLook, Owns, Holds, Queues, TypeOK, Actors, Goto
    <3>3. \A t \in X : cancelled'[t]
      BY <2>1 DEF DeadDue
    <3> HIDE DEF X
    <3> QED
      BY <2>1, <3>1, <3>2, <3>3, Moved
  <2>3. ASSUME NEW f \in Due \ DeadDue, NEW dead \in SUBSET DeadDue,
               future' = future \ (dead \cup {f}), Take(th, f.task)
        PROVE  NoTaskVanishes'
    <3> DEFINE X == {g.task : g \in dead} \cup {f.task}
    <3>1. InQueue \ X \subseteq InQueue'
      BY <2>1, <2>3 DEF InQueue, FutureTasks
    <3>2. \A b \in Actors : Owns(b) => Owns(b)' /\ hand'[b] = hand[b]
      BY <1>5, <1>0, <2>1, <2>3
         DEF TakeFuture, Take, Owns, Holds, Queues, TypeOK, Actors, Goto
    <3>3. Owner(f.task, th)' /\ th \in Actors
      BY <1>0, <2>3 DEF Take, Owner, Owns, Holds, Queues, TypeOK, Actors, Goto
    <3>4. \A t \in X : cancelled'[t] \/ Safe(t)'
      BY <2>1, <3>3 DEF DeadDue, Safe
    <3> HIDE DEF X
    <3> QED
      BY <2>1, <3>1, <3>2, <3>4, Moved
  <2> QED
    BY <1>5, <2>2, <2>3 DEF TakeFuture
<1>6. ASSUME NEW th \in Threads, TakePending(th)
      PROVE  NoTaskVanishes'
  <2>1. /\ cancelled' = cancelled /\ batch' = batch /\ UNCHANGED <<fresh, finished, lost>>
        /\ UNCHANGED <<suspended, future, status>>
    BY <1>6 DEF TakePending
  <2>2. CASE pending = <<>>
    <3>1. \A b \in Actors : Owns(b) => Owns(b)' /\ hand'[b] = hand[b]
      BY <1>6, <1>0, <2>2 DEF TakePending, Owns, Holds, Queues, TypeOK, Actors, Goto
    <3>2. InQueue' = InQueue
      BY <1>6, <2>2 DEF TakePending, InQueue, FutureTasks
    <3> QED
      BY <2>1, <3>1, <3>2, NoneMoved
  <2>3. CASE pending # <<>>
    <3>1. pending' = Tail(pending) /\ Take(th, Head(pending))
      BY <1>6, <2>3 DEF TakePending
    <3>2. Elements(pending) = Elements(pending)' \cup {Head(pending)}
      BY <2>3, <3>1, PopFrontOnce DEF TypeOK
    <3> DEFINE X == {Head(pending)}
    <3>3. InQueue \ X \subseteq InQueue'
      BY <2>1, <3>2 DEF InQueue, FutureTasks
    <3>4. \A b \in Actors : Owns(b) => Owns(b)' /\ hand'[b] = hand[b]
      BY <1>6, <1>0, <2>1, <3>1
         DEF TakePending, Take, Owns, Holds, Queues, TypeOK, Actors, Goto
    <3>5. hand'[th] = Head(pending) /\ Owns(th)' /\ th \in Actors
      <4>1. hand'[th] = Head(pending) /\ pc'[th] = "mark" /\ th \in Actors
        BY <3>1 DEF Take, TypeOK, Actors, Goto
      <4> QED
        BY <4>1 DEF Owns, Holds
    <3>6. \A t \in X : Safe(t)'
      BY <3>5 DEF Safe, Owner
    <3> HIDE DEF X
    <3> QED
      BY <2>1, <3>3, <3>4, <3>6, Moved
  <2> QED
    BY <2>2, <2>3
<1>7. ASSUME NEW th \in Threads, MarkRunning(th)
      PROVE  NoTaskVanishes'
  <2>1. cancelled' = cancelled /\ batch' = batch /\ UNCHANGED <<fresh, finished, lost>>
    BY <1>7 DEF MarkRunning
  <2>2. InQueue' = InQueue
    BY <1>7 DEF MarkRunning, InQueue, FutureTasks
  <2>3. \A b \in Actors : Owns(b) => Owns(b)' /\ hand'[b] = hand[b]
    BY <1>7, <1>0 DEF MarkRunning, Owns, Holds, Queues, TypeOK, Actors, Goto
  <2> QED
    BY <2>1, <2>2, <2>3, NoneMoved
<1>8. ASSUME NEW th \in Threads, CheckCancelled(th)
      PROVE  NoTaskVanishes'
  <2>1. cancelled' = cancelled /\ batch' = batch /\ UNCHANGED <<fresh, finished, lost>>
    BY <1>8 DEF CheckCancelled
  <2>2. InQueue' = InQueue
    BY <1>8 DEF CheckCancelled, InQueue, FutureTasks
  <2>3. \A b \in Actors : Owns(b) /\ ~cancelled[hand[b]] => Owns(b)' /\ hand'[b] = hand[b]
    BY <1>8, <1>0 DEF CheckCancelled, Owns, Holds, Queues, TypeOK, Actors, Goto
  <2> QED
    BY <2>1, <2>2, <2>3 DEF NoTaskVanishes, Owner, InQueue
<1>9. ASSUME NEW th \in Threads, RunOnce(th)
      PROVE  NoTaskVanishes'
  <2>1. /\ cancelled' = cancelled /\ batch' = batch /\ UNCHANGED <<fresh, lost>>
        /\ finished \subseteq finished'
    BY <1>9 DEF RunOnce
  <2>2. InQueue' = InQueue
    BY <1>9 DEF RunOnce, InQueue, FutureTasks
  <2>3. \A b \in Actors : Owns(b) => hand[b] \in finished' \/ (Owns(b)' /\ hand'[b] = hand[b])
    BY <1>9, <1>0 DEF RunOnce, Owns, Holds, Queues, TypeOK, Actors, Goto
  <2> QED
    BY <2>1, <2>2, <2>3 DEF NoTaskVanishes, Owner, InQueue
<1>10. ASSUME NEW th \in Threads, RunPeriodic(th)
      PROVE  NoTaskVanishes'
  <2>1. /\ cancelled' = cancelled /\ batch' = batch /\ UNCHANGED <<fresh, lost>>
        /\ finished \subseteq finished' /\ hand' = hand
    BY <1>10 DEF RunPeriodic
  <2>2. InQueue' = InQueue
    BY <1>10 DEF RunPeriodic, InQueue, FutureTasks
  <2>3. hand[th] \in finished' \/ pc'[th] = "after"
    <3>1. ~pool[hand[th]]
      BY <1>10 DEF RunPeriodic, PoolInv
    <3> QED
      BY <1>10, <3>1 DEF RunPeriodic, Goto, TypeOK, Actors
  <2>4. \A b \in Actors \ {th} : Owns(b)' = Owns(b)
    BY <1>10, <1>0 DEF RunPeriodic, Owns, Holds, Queues, TypeOK, Actors, Goto
  <2>5. \A b \in Actors : Owns(b) => hand[b] \in finished' \/ Owns(b)'
    BY <2>3, <2>4 DEF Owns, Holds
  <2> QED
    BY <2>1, <2>2, <2>5 DEF NoTaskVanishes, Owner, InQueue
<1>11. ASSUME NEW th \in Threads, UnmarkRunning(th)
      PROVE  NoTaskVanishes'
  <2>1. cancelled' = cancelled /\ batch' = batch /\ UNCHANGED <<fresh, finished, lost>>
    BY <1>11 DEF UnmarkRunning
  <2>2. InQueue' = InQueue
    BY <1>11 DEF UnmarkRunning, InQueue, FutureTasks
  <2>3. \A b \in Actors : Owns(b) => Owns(b)' /\ hand'[b] = hand[b]
    BY <1>11, <1>0 DEF UnmarkRunning, Owns, Holds, Queues, TypeOK, Actors, Goto
  <2> QED
    BY <2>1, <2>2, <2>3, NoneMoved
<1>12. ASSUME NEW th \in Threads, SuspendSetPool(th)
      PROVE  NoTaskVanishes'
  <2>1. cancelled' = cancelled /\ batch' = batch /\ UNCHANGED <<fresh, finished, lost>>
    BY <1>12 DEF SuspendSetPool
  <2>2. InQueue' = InQueue
    BY <1>12 DEF SuspendSetPool, InQueue, FutureTasks
  <2>3. \A b \in Actors : Owns(b) => Owns(b)' /\ hand'[b] = hand[b]
    BY <1>12, <1>0 DEF SuspendSetPool, Owns, Holds, Queues, TypeOK, Actors, Goto
  <2> QED
    BY <2>1, <2>2, <2>3, NoneMoved
<1>13. ASSUME NEW a \in Actors, SuspendInsert(a)
      PROVE  NoTaskVanishes'
  <2>1. /\ cancelled' = cancelled /\ batch' = batch /\ UNCHANGED <<fresh, finished>>
        /\ lost \subseteq lost'
    BY <1>13 DEF SuspendInsert
  <2>2. \A t \in suspended \cup {hand[a]} : t \in suspended' \cup lost'
    BY <1>13 DEF SuspendInsert
  <2>3. \A t \in InQueue \cup {hand[a]} : t \in InQueue' \cup lost'
    BY <1>13, <2>2 DEF SuspendInsert, InQueue, FutureTasks
  <2>4. \A b \in Actors \ {a} : Owns(b) => Owns(b)' /\ hand'[b] = hand[b]
    BY <1>13, <1>0 DEF SuspendInsert, Return, Owns, Holds, Queues, TypeOK, Actors, Goto
  <2> QED
    BY <2>1, <2>3, <2>4 DEF NoTaskVanishes, Owner, InQueue
<1>14. ASSUME NEW a \in Actors, After(a)
      PROVE  NoTaskVanishes'
  <2>1. cancelled' = cancelled /\ batch' = batch /\ UNCHANGED <<fresh, finished, lost>>
    BY <1>14 DEF After
  <2>2. InQueue \subseteq InQueue' /\ hand[a] \in InQueue'
    <3>1. Entry(hand[a]).task = hand[a]
      BY DEF Entry
    <3>2. FutureTasks' = FutureTasks \cup {hand[a]}
      BY <1>14, <3>1 DEF After, FutureTasks
    <3> QED
      BY <1>14, <3>2 DEF After, InQueue
  <2>3. \A b \in Actors \ {a} : Owns(b) => Owns(b)' /\ hand'[b] = hand[b]
    BY <1>14, <1>0 DEF After, Return, Owns, Holds, Queues, TypeOK, Actors, Goto
  <2> QED
    BY <2>1, <2>2, <2>3 DEF NoTaskVanishes, Owner, InQueue
<1>15. ASSUME NEW c \in Clients, SubmitPush(c)
      PROVE  NoTaskVanishes'
  <2>1. cancelled' = cancelled /\ batch' = batch /\ UNCHANGED <<fresh, finished, lost>>
    BY <1>15 DEF SubmitPush
  <2>2. InQueue \subseteq InQueue' /\ hand[c] \in InQueue'
    <3>1. hand[c] \in Tasks
      BY <1>15 DEF SubmitPush, HandOK, Actors
    <3>2. Elements(pending)' = Elements(pending) \cup {hand[c]}
      BY <1>15, <3>1, PushBackOnce DEF SubmitPush, TypeOK
    <3> QED
      BY <1>15, <3>2 DEF SubmitPush, InQueue, FutureTasks
  <2>3. \A b \in Actors \ {c} : Owns(b) => Owns(b)' /\ hand'[b] = hand[b]
    BY <1>15, <1>0
       DEF SubmitPush, GotoAndNotifyOne, Owns, Holds, Queues, TypeOK, Actors, Goto
  <2> QED
    BY <2>1, <2>2, <2>3 DEF NoTaskVanishes, Owner, InQueue
<1>16. ASSUME NEW c \in Clients, WakeMove(c)
      PROVE  NoTaskVanishes'
  <2>1. cancelled' = cancelled /\ batch' = batch /\ UNCHANGED <<fresh, finished, lost>>
    BY <1>16 DEF WakeMove
  <2>2. InQueue \subseteq InQueue'
    <3>1. hand[c] \in Tasks
      BY <1>16 DEF WakeMove, HandOK, Actors
    <3>2. \/ UNCHANGED <<pending, suspended>>
          \/ /\ Elements(pending)' = Elements(pending) \cup {hand[c]}
             /\ suspended' = suspended \ {hand[c]}
      BY <1>16, <3>1, PushFrontOnce DEF WakeMove, Unsuspended, TypeOK
    <3> QED
      BY <1>16, <3>2 DEF WakeMove, InQueue, FutureTasks
  <2>3. \A b \in Actors : Owns(b) => Owns(b)' /\ hand'[b] = hand[b]
    BY <1>16, <1>0
       DEF WakeMove, GotoAndNotifyOne, Owns, Holds, Queues, TypeOK, Actors, Goto
  <2> QED
    BY <2>1, <2>2, <2>3, NoneMoved
<1>17. ASSUME NEW c \in Clients, RemoveCancelled(c)
      PROVE  NoTaskVanishes'
  <2>1. cancelled' = cancelled /\ batch' = batch /\ UNCHANGED <<fresh, finished, lost>>
    BY <1>17 DEF RemoveCancelled
  <2> DEFINE X == {hand[c]}
  <2>2. InQueue \ X \subseteq InQueue'
    BY <1>17, EraseOnce DEF RemoveCancelled, Remove, InQueue, FutureTasks
  <2>3. \A b \in Actors : Owns(b) => Owns(b)' /\ hand'[b] = hand[b]
    BY <1>17, <1>0
       DEF RemoveCancelled, Return, Owns, Holds, Queues, TypeOK, Actors, Goto
  <2>4. \A t \in X : cancelled[t]
    BY <1>17 DEF RemoveCancelled, RemoveInv
  <2> HIDE DEF X
  <2> QED
    BY <2>1, <2>2, <2>3, <2>4, Moved
<1>18. ASSUME NEW c \in Clients, CancelNext(c)
      PROVE  NoTaskVanishes'
  <2>1. UNCHANGED <<fresh, finished, lost>>
    BY <1>18 DEF CancelNext
  <2>2. PICK t \in batch[c] :
           /\ cancelled' = [cancelled EXCEPT ![t] = TRUE]
           /\ batch' = [batch EXCEPT ![c] = @ \ {t}]
           /\ Remove(t) \/ UNCHANGED <<pending, suspended>>
    BY <1>18 DEF CancelNext
  <2>3. t \in Tasks
    BY <2>2 DEF TypeOK
  <2> DEFINE X == {t}
  <2>4. InQueue \ X \subseteq InQueue'
    BY <1>18, <2>2, EraseOnce DEF CancelNext, Remove, InQueue, FutureTasks
  <2>5. \A b \in Actors : Owns(b) => Owns(b)' /\ hand'[b] = hand[b]
    BY <1>18, <1>0 DEF CancelNext, Owns, Holds, Queues, TypeOK, Actors, Goto
  <2>6. (\A u \in X : cancelled'[u]) /\ \A u \in Tasks : cancelled[u] => cancelled'[u]
    BY <2>2, <2>3 DEF TypeOK
  <2>7. \A d \in Clients : batch[d] \ X \subseteq batch'[d]
    BY <2>2 DEF TypeOK
  <2> HIDE DEF X
  <2> QED
    BY <2>1, <2>4, <2>5, <2>6, <2>7, Moved
<1>19. ASSUME NEW c \in Clients, NEW t \in Tasks, Submit(c, t)
      PROVE  NoTaskVanishes'
  <2>1. cancelled' = cancelled /\ batch' = batch /\ UNCHANGED <<finished, lost>>
    BY <1>19 DEF Submit
  <2>2. InQueue' = InQueue
    BY <1>19 DEF Submit, InQueue, FutureTasks
  <2>3. \A b \in Actors : Owns(b) => Owns(b)' /\ hand'[b] = hand[b]
    BY <1>19, <1>0 DEF Submit, Owns, Holds, Queues, TypeOK, Actors, Goto
  <2> DEFINE X == {t}
  <2>4. fresh \ X \subseteq fresh' /\ Owner(t, c)' /\ c \in Actors
    BY <1>19, <1>0 DEF Submit, Owner, Owns, Holds, Queues, TypeOK, Actors, Goto
  <2>5. \A u \in X : Safe(u)'
    BY <2>4 DEF Safe
  <2> HIDE DEF X
  <2> QED
    BY <2>1, <2>2, <2>3, <2>4, <2>5, Moved
<1>20. ASSUME NEW c \in Clients, NEW t \in Tasks, SubmitDelayed(c, t)
      PROVE  NoTaskVanishes'
  <2>1. cancelled' = cancelled /\ batch' = batch /\ UNCHANGED <<finished, lost>>
    BY <1>20 DEF SubmitDelayed
  <2>2. InQueue' = InQueue
    BY <1>20 DEF SubmitDelayed, InQueue, FutureTasks
  <2>3. \A b \in Actors : Owns(b) => Owns(b)' /\ hand'[b] = hand[b]
    BY <1>20, <1>0 DEF SubmitDelayed, Owns, Holds, Queues, TypeOK, Actors, Goto
  <2> DEFINE X == {t}
  <2>4. fresh \ X \subseteq fresh' /\ Owner(t, c)' /\ c \in Actors
    BY <1>20, <1>0 DEF SubmitDelayed, Owner, Owns, Holds, Queues, TypeOK, Actors, Goto
  <2>5. \A u \in X : Safe(u)'
    BY <2>4 DEF Safe
  <2> HIDE DEF X
  <2> QED
    BY <2>1, <2>2, <2>3, <2>4, <2>5, Moved
<1>21. ASSUME NEW c \in Clients, NEW t \in Tasks, Wake(c, t)
      PROVE  NoTaskVanishes'
  <2>1. cancelled' = cancelled /\ batch' = batch /\ UNCHANGED <<fresh, finished, lost>>
    BY <1>21 DEF Wake
  <2>2. InQueue' = InQueue
    BY <1>21 DEF Wake, InQueue, FutureTasks
  <2>3. \A b \in Actors : Owns(b) => Owns(b)' /\ hand'[b] = hand[b]
    BY <1>21, <1>0 DEF Wake, Owns, Holds, Queues, TypeOK, Actors, Goto
  <2> QED
    BY <2>1, <2>2, <2>3, NoneMoved
<1>22. ASSUME NEW c \in Clients, NEW t \in Tasks, Cancel(c, t)
      PROVE  NoTaskVanishes'
  <2>1. UNCHANGED <<fresh, finished, lost, batch>>
    BY <1>22 DEF Cancel
  <2>2. InQueue' = InQueue
    BY <1>22 DEF Cancel, InQueue, FutureTasks
  <2>3. \A b \in Actors : Owns(b) => Owns(b)' /\ hand'[b] = hand[b]
    BY <1>22, <1>0 DEF Cancel, Owns, Holds, Queues, TypeOK, Actors, Goto
  <2>4. \A u \in Tasks : cancelled[u] => cancelled'[u]
    BY <1>22 DEF Cancel, TypeOK
  <2> QED
    BY <2>1, <2>2, <2>3, <2>4, NoneMoved
<1>23. ASSUME NEW c \in Clients, NEW g, CancelTaskGroup(c, g)
      PROVE  NoTaskVanishes'
  <2> DEFINE victims == {t \in Elements(pending) \cup suspended : GroupOf[t] = g}
  <2>1. cancelled' = cancelled /\ UNCHANGED <<fresh, finished, lost, future>>
    BY <1>23 DEF CancelTaskGroup
  <2>2. /\ pending' = Erase(pending, victims) /\ suspended' = suspended \ victims
        /\ batch' = [batch EXCEPT ![c] = victims]
    BY <1>23 DEF CancelTaskGroup
  <2>3. batch'[c] = victims /\ \A d \in Clients \ {c} : batch'[d] = batch[d]
    BY <2>2 DEF TypeOK
  <2>4. batch[c] = {}
    BY <1>23 DEF CancelTaskGroup, BatchInv
  <2> HIDE DEF victims
  <2>5. InQueue \ victims \subseteq InQueue'
    BY <2>1, <2>2, EraseOnce DEF InQueue, FutureTasks
  <2>6. \A b \in Actors : Owns(b) => Owns(b)' /\ hand'[b] = hand[b]
    BY <1>23, <1>0 DEF CancelTaskGroup, Owns, Holds, Queues, TypeOK, Actors, Goto
  <2>7. \A t \in victims : Safe(t)'
    BY <2>3 DEF Safe
  <2> QED
    BY <2>1, <2>3, <2>4, <2>5, <2>6, <2>7, Moved
<1>24. ASSUME NEW c \in Clients, Stop(c)
      PROVE  NoTaskVanishes'
  <2>1. UNCHANGED <<suspended, future, batch, fresh, finished, lost>>
    BY <1>24 DEF Stop
  <2>2. \A u \in Tasks : cancelled[u] => cancelled'[u]
    BY <1>24 DEF Stop, StopReturns, StopRelocks, TypeOK
  <2>3. \/ pending' = pending
        \/ pending' = <<>> /\ \A u \in Elements(pending) : cancelled'[u]
    BY <1>24 DEF Stop, StopReturns, StopRelocks, TypeOK, Elements
  <2>4. PICK X \in {{}, Elements(pending)} :
           InQueue \ X \subseteq InQueue' /\ \A u \in X : cancelled'[u]
    BY <2>1, <2>3 DEF InQueue, FutureTasks
  <2>5. \A b \in Actors : Owns(b) => Owns(b)' /\ hand'[b] = hand[b]
    BY <1>24, <1>0
       DEF Stop, StopReturns, StopRelocks, Owns, Holds, Queues, TypeOK, Actors, Goto
  <2> QED
    BY <2>1, <2>2, <2>4, <2>5, Moved
<1>25. ASSUME Expire
      PROVE  NoTaskVanishes'
  <2>1. /\ cancelled' = cancelled /\ batch' = batch /\ UNCHANGED <<fresh, finished, lost>>
        /\ \A b \in Actors : Owns(b) => Owns(b)' /\ hand'[b] = hand[b]
    BY <1>25 DEF Expire, Owns, Holds, Queues
  <2>2. PICK f \in future : future' = (future \ {f}) \cup {[f EXCEPT !.ripe = TRUE]}
    BY <1>25 DEF Expire
  <2>3. [f EXCEPT !.ripe = TRUE].task = f.task
    BY DEF TypeOK, FutureTask
  <2>4. InQueue' = InQueue
    BY <1>25, <2>2, <2>3 DEF Expire, InQueue, FutureTasks
  <2> QED
    BY <2>1, <2>4, NoneMoved
<1>26. ASSUME UNCHANGED vars
      PROVE  NoTaskVanishes'
  <2>1. InQueue' = InQueue /\ \A b \in Actors : Owns(b) => Owns(b)' /\ hand'[b] = hand[b]
    BY <1>26 DEF vars, InQueue, FutureTasks, Owns, Holds, Queues
  <2> QED
    BY <1>26, <2>1, NoneMoved DEF vars
<1> QED
  BY <1>1, <1>2, <1>3, <1>4, <1>5, <1>6, <1>7, <1>8, <1>9, <1>10, <1>11, <1>12, <1>13,
     <1>14, <1>15, <1>16, <1>17, <1>18, <1>19, <1>20, <1>21, <1>22, <1>23, <1>24, <1>25,
     <1>26
     DEF Next, ThreadStep, ClientStep, ClientCall, Actors

\* The invariant holds initially.
LEMMA InitPlaceInv == Init => PlaceInv
<1> SUFFICES ASSUME Init PROVE PlaceInv
  OBVIOUS
<1>1. Elements(pending) = {} /\ FutureTasks = {} /\ InQueue = {}
  BY DEF Init, Elements, FutureTasks, InQueue
<1>2. \A a \in Actors : ~Owns(a) /\ pc[a] \in {"top", "idle"}
  BY DEF Init, Owns, Holds, Queues
<1>3. PendingOnce /\ QueuesApart
  BY <1>1 DEF Init, PendingOnce, IsOnce, QueuesApart
<1>4. HandApart /\ HandsApart /\ FreshApart
  BY <1>1, <1>2 DEF HandApart, HandsApart, FreshApart, Owner
<1>5. PoolInv /\ StatusInv /\ RemoveInv /\ BatchInv
  BY <1>1, <1>2 DEF Init, PoolInv, StatusInv, RemoveInv, BatchInv, Actors
<1>6. NoTaskVanishes
  BY DEF Init, NoTaskVanishes
<1> QED
  BY <1>3, <1>4, <1>5, <1>6, InitTypeInv DEF PlaceInv

\* The invariant holds in every reachable state.
LEMMA PlaceInvHolds == Spec => []PlaceInv
<1>1. PlaceInv /\ [Next]_vars => PlaceInv'
  <2> SUFFICES ASSUME PlaceInv, [Next]_vars PROVE PlaceInv'
    OBVIOUS
  <2>1. TypeInv'
    BY TypeStep DEF PlaceInv
  <2>2. Places'
    BY PlaceStep DEF PlaceInv, Places
  <2>3. StatusInv' /\ RemoveInv' /\ BatchInv'
    BY StatusStep DEF PlaceInv
  <2>4. PoolInv'
    BY <2>2, PoolStep DEF PlaceInv, Places
  <2>5. NoTaskVanishes'
    BY VanishStep DEF PlaceInv, Places
  <2> QED
    BY <2>1, <2>2, <2>3, <2>4, <2>5 DEF PlaceInv, Places
<1> QED
  BY <1>1, InitPlaceInv, PTL DEF Spec

\* A task is in one place at a time: no interleaving of workers, wakes, cancels,
\* timers and re-submissions queues it twice or runs it on two threads.
THEOREM PlaceCorrect == Spec => []OnePlace
<1>1. PlaceInv => OnePlace
  BY DEF PlaceInv, OnePlace, PendingOnce, IsOnce, QueuesApart, HandApart, HandsApart,
     InQueue
<1> QED
  BY <1>1, PlaceInvHolds, PTL

\* A task that is neither cancelled nor ended stays in the pool's reach; only a
\* torn insert of Taskpool::suspend can lose one.
THEOREM NoTaskLost == Spec => []NoTaskVanishes
<1>1. PlaceInv => NoTaskVanishes
  BY DEF PlaceInv
<1> QED
  BY <1>1, PlaceInvHolds, PTL

\* A queued task has its pool pointer, so that cancel() and makeRunnable() reach
\* it; a task that runs has none, so that it may submit itself again.
THEOREM PoolPointerCorrect == Spec => []PoolPointerRight
<1>1. PlaceInv => PoolPointerRight
  BY DEF PlaceInv, PoolPointerRight, PoolInv, InQueue
<1> QED
  BY <1>1, PlaceInvHolds, PTL

-----------------------------------------------------------------------------
(* Requests of agents: AgentRequest, with the names of PoolRequests, which  *)
(* are not those of Taskpool.                                               *)

\* Where the kept elements of a list come from: each from a position of its own, in
\* their order, and none is missing.
LEMMA ErasePositions ==
    ASSUME NEW T, NEW s \in Seq(T), NEW K
    PROVE  \E f \in [DOMAIN Erase(s, K) -> DOMAIN s] :
              /\ \A i \in DOMAIN Erase(s, K) : Erase(s, K)[i] = s[f[i]]
              /\ \A i, j \in DOMAIN Erase(s, K) : f[i] = f[j] => i = j
              /\ \A i, j \in DOMAIN Erase(s, K) : i < j => f[i] < f[j]
              /\ \A k \in DOMAIN s : s[k] \notin K => \E i \in DOMAIN Erase(s, K) : f[i] = k
<1> DEFINE S == KeptIndices(s, K)
           n == Cardinality(S)
           kept == Enumeration(S)
<1>1. Len(s) \in Nat /\ DOMAIN s = 1..Len(s)
  OBVIOUS
<1>2. S \in SUBSET DOMAIN s /\ S \in SUBSET Int
  BY <1>1 DEF KeptIndices
<1>3. IsFiniteSet(S)
  <2>1. IsFiniteSet(1..Len(s))
    BY <1>1, FS_Interval
  <2> QED
    BY <2>1, <1>1, <1>2, FS_Subset
<1>4. n \in Nat /\ kept \in [1..n -> S] /\ IsEnumeration(kept, S)
  BY <1>2, <1>3, EnumerationExists
<1>5. Erase(s, K) = [i \in 1..n |-> s[kept[i]]]
  BY DEF Erase
<1>9. \A k \in DOMAIN s : s[k] \notin K => k \in S
  BY DEF KeptIndices
<1> HIDE DEF S, n, kept
<1>6. DOMAIN Erase(s, K) = 1..n /\ \A i \in 1..n : Erase(s, K)[i] = s[kept[i]]
  BY <1>5
<1>7. kept \in [1..n -> DOMAIN s]
  BY <1>2, <1>4
<1>8. ASSUME NEW i \in 1..n, NEW j \in 1..n, kept[i] = kept[j]
      PROVE  i = j
  <2>1. (i < j => kept[i] < kept[j]) /\ (j < i => kept[j] < kept[i])
    BY <1>4 DEF IsEnumeration
  <2>2. kept[i] \in Int /\ i \in Int /\ j \in Int
    BY <1>2, <1>4
  <2> QED
    BY <1>8, <2>1, <2>2
<1>10. \A i, j \in 1..n : i < j => kept[i] < kept[j]
  BY <1>4 DEF IsEnumeration
<1>11. \A k \in S : \E i \in 1..n : kept[i] = k
  BY <1>4 DEF IsEnumeration
<1>12. \A k \in DOMAIN s : s[k] \notin K => \E i \in DOMAIN Erase(s, K) : kept[i] = k
  BY <1>6, <1>9, <1>11
<1>13. /\ kept \in [DOMAIN Erase(s, K) -> DOMAIN s]
       /\ \A i \in DOMAIN Erase(s, K) : Erase(s, K)[i] = s[kept[i]]
       /\ \A i, j \in DOMAIN Erase(s, K) : kept[i] = kept[j] => i = j
       /\ \A i, j \in DOMAIN Erase(s, K) : i < j => kept[i] < kept[j]
  BY <1>6, <1>7, <1>8, <1>10
<1> QED
  BY <1>12, <1>13

\* What push_back and pop_front do to the elements of a list.
LEMMA PushElements ==
    ASSUME NEW T, NEW s \in Seq(T), NEW x
    PROVE  Elements(Append(s, x)) = Elements(s) \cup {x}
<1>1. DOMAIN Append(s, x) = DOMAIN s \cup {Len(s) + 1}
  OBVIOUS
<1>2. /\ \A i \in DOMAIN s : Append(s, x)[i] = s[i]
      /\ Append(s, x)[Len(s) + 1] = x
  OBVIOUS
<1> QED
  BY <1>1, <1>2 DEF Elements

LEMMA PopElements ==
    ASSUME NEW T, NEW s \in Seq(T), s # <<>>
    PROVE  /\ Head(s) \in T
           /\ Elements(s) = Elements(Tail(s)) \cup {Head(s)}
           /\ Tail(s) \in Seq(T)
<1>1. /\ Len(s) \in Nat \ {0} /\ DOMAIN s = 1..Len(s)
      /\ Tail(s) \in Seq(T) /\ Len(Tail(s)) = Len(s) - 1 /\ DOMAIN Tail(s) = 1..Len(s) - 1
      /\ Head(s) = s[1] /\ Head(s) \in T
      /\ \A i \in 1..Len(s) - 1 : Tail(s)[i] = s[i + 1]
  OBVIOUS
<1>2. ASSUME NEW x \in Elements(s)
      PROVE  x \in Elements(Tail(s)) \cup {Head(s)}
  <2>1. PICK i \in 1..Len(s) : x = s[i]
    BY <1>1 DEF Elements
  <2>2. i # 1 => i - 1 \in DOMAIN Tail(s) /\ Tail(s)[i - 1] = s[i]
    BY <1>1, <2>1
  <2> QED
    BY <1>1, <2>1, <2>2 DEF Elements
<1>3. ASSUME NEW x \in Elements(Tail(s)) \cup {Head(s)}
      PROVE  x \in Elements(s)
  <2>1. CASE x = Head(s)
    BY <1>1, <2>1 DEF Elements
  <2>2. CASE x \in Elements(Tail(s))
    <3>1. PICK i \in 1..Len(s) - 1 : x = Tail(s)[i]
      BY <1>1, <2>2 DEF Elements
    <3>2. i + 1 \in DOMAIN s /\ x = s[i + 1]
      BY <1>1, <3>1
    <3> QED
      BY <3>2 DEF Elements
  <2> QED
    BY <1>3, <2>1, <2>2
<1> QED
  BY <1>1, <1>2, <1>3

\* No request has two tasks in a list; the clean-ups have no request.
OnceEach(s) == \A k, l \in DOMAIN s : s[k].req = s[l].req /\ s[k].req # 0 => k = l

LEMMA PushOnce ==
    ASSUME NEW T, NEW s \in Seq(T), NEW x, OnceEach(s),
           \A y \in Elements(s) : y.req = x.req => x.req = 0
    PROVE  OnceEach(Append(s, x))
<1>1. DOMAIN Append(s, x) = DOMAIN s \cup {Len(s) + 1}
  OBVIOUS
<1>2. /\ \A i \in DOMAIN s : Append(s, x)[i] = s[i]
      /\ Append(s, x)[Len(s) + 1] = x
  OBVIOUS
<1>3. \A i \in DOMAIN s : s[i].req = x.req => x.req = 0
  BY DEF Elements
<1> QED
  BY <1>1, <1>2, <1>3 DEF OnceEach

LEMMA PopOnce ==
    ASSUME NEW T, NEW s \in Seq(T), s # <<>>, OnceEach(s)
    PROVE  /\ OnceEach(Tail(s))
           /\ \A y \in Elements(Tail(s)) : y.req = Head(s).req => y.req = 0
<1>1. /\ Len(s) \in Nat \ {0} /\ DOMAIN s = 1..Len(s)
      /\ DOMAIN Tail(s) = 1..Len(s) - 1
      /\ Head(s) = s[1]
      /\ \A i \in 1..Len(s) - 1 : Tail(s)[i] = s[i + 1]
  OBVIOUS
<1>2. ASSUME NEW k \in DOMAIN Tail(s), NEW l \in DOMAIN Tail(s),
             Tail(s)[k].req = Tail(s)[l].req, Tail(s)[k].req # 0
      PROVE  k = l
  <2>1. k + 1 \in DOMAIN s /\ l + 1 \in DOMAIN s /\ Tail(s)[k] = s[k + 1] /\ Tail(s)[l] = s[l + 1]
    BY <1>1
  <2>2. k + 1 = l + 1
    BY <2>1, <1>2 DEF OnceEach
  <2> QED
    BY <2>2, <1>1
<1>3. ASSUME NEW y \in Elements(Tail(s)), y.req = Head(s).req, y.req # 0
      PROVE  FALSE
  <2>1. PICK k \in DOMAIN Tail(s) : y = Tail(s)[k]
    BY DEF Elements
  <2>2. k + 1 \in DOMAIN s /\ Tail(s)[k] = s[k + 1] /\ 1 \in DOMAIN s /\ k + 1 # 1
    BY <1>1
  <2> QED
    BY <2>1, <2>2, <1>1, <1>3 DEF OnceEach
<1> QED
  BY <1>2, <1>3 DEF OnceEach

LEMMA EraseEach ==
    ASSUME NEW T, NEW s \in Seq(T), NEW K, OnceEach(s)
    PROVE  OnceEach(Erase(s, K))
<1>1. PICK f \in [DOMAIN Erase(s, K) -> DOMAIN s] :
              /\ \A i \in DOMAIN Erase(s, K) : Erase(s, K)[i] = s[f[i]]
              /\ \A i, j \in DOMAIN Erase(s, K) : f[i] = f[j] => i = j
  BY ErasePositions
<1> HIDE DEF Erase
<1> QED
  BY <1>1 DEF OnceEach

\* What push_front does to the elements of a list.
LEMMA FrontPositions ==
    ASSUME NEW T, NEW s \in Seq(T), NEW x \in T
    PROVE  /\ <<x>> \o s \in Seq(T)
           /\ DOMAIN (<<x>> \o s) = {1} \cup {k + 1 : k \in DOMAIN s}
           /\ (<<x>> \o s)[1] = x
           /\ \A k \in DOMAIN s : k \in Nat \ {0} /\ (<<x>> \o s)[k + 1] = s[k]
<1> DEFINE q == <<x>> \o s
<1>1. Len(s) \in Nat /\ DOMAIN s = 1..Len(s)
  OBVIOUS
<1>2. q \in Seq(T) /\ Len(q) = Len(s) + 1 /\ DOMAIN q = 1..Len(s) + 1
  OBVIOUS
<1>3. q[1] = x /\ \A k \in 1..Len(s) : q[k + 1] = s[k]
  OBVIOUS
<1> HIDE DEF q
<1>4. 1..Len(s) + 1 = {1} \cup {k + 1 : k \in 1..Len(s)}
  <2>1. ASSUME NEW k \in 1..Len(s) + 1, k # 1
        PROVE  \E j \in 1..Len(s) : k = j + 1
    <3>1. k - 1 \in 1..Len(s) /\ k = (k - 1) + 1
      BY <1>1, <2>1
    <3> QED
      BY <3>1
  <2>2. 1 \in 1..Len(s) + 1 /\ \A k \in 1..Len(s) : k + 1 \in 1..Len(s) + 1
    BY <1>1
  <2>3. 1..Len(s) + 1 \subseteq {1} \cup {k + 1 : k \in 1..Len(s)}
    BY <2>1
  <2>4. {1} \cup {k + 1 : k \in 1..Len(s)} \subseteq 1..Len(s) + 1
    BY <2>2
  <2> QED
    BY <2>3, <2>4
<1> QED
  BY <1>1, <1>2, <1>3, <1>4 DEF q

LEMMA FrontElements ==
    ASSUME NEW T, NEW s \in Seq(T), NEW x \in T
    PROVE  Elements(<<x>> \o s) = Elements(s) \cup {x}
<1> DEFINE q == <<x>> \o s
<1>1. /\ DOMAIN q = {1} \cup {k + 1 : k \in DOMAIN s} /\ q[1] = x
      /\ \A k \in DOMAIN s : q[k + 1] = s[k]
  BY FrontPositions
<1> HIDE DEF q
<1>2. Elements(q) = Elements(s) \cup {x}
  BY <1>1 DEF Elements
<1> QED
  BY <1>2 DEF q

LEMMA FrontOnce ==
    ASSUME NEW T, NEW s \in Seq(T), NEW x \in T, OnceEach(s),
           \A y \in Elements(s) : y.req = x.req => x.req = 0
    PROVE  OnceEach(<<x>> \o s)
<1> DEFINE q == <<x>> \o s
<1>1. /\ DOMAIN q = {1} \cup {k + 1 : k \in DOMAIN s} /\ q[1] = x
      /\ \A k \in DOMAIN s : q[k + 1] = s[k]
  BY FrontPositions
<1> HIDE DEF q
<1>2. \A k \in DOMAIN s : s[k].req = x.req => x.req = 0
  BY DEF Elements
<1>3. ASSUME NEW i \in DOMAIN q, NEW j \in DOMAIN q, q[i].req = q[j].req, q[i].req # 0
      PROVE  i = j
  <2>1. CASE i = 1
    BY <1>1, <1>2, <1>3, <2>1
  <2>2. CASE j = 1
    BY <1>1, <1>2, <1>3, <2>2
  <2>3. CASE i # 1 /\ j # 1
    <3>1. PICK k \in DOMAIN s, l \in DOMAIN s : i = k + 1 /\ j = l + 1
      BY <1>1, <1>3, <2>3
    <3>2. q[i] = s[k] /\ q[j] = s[l]
      BY <1>1, <3>1
    <3>3. k = l
      BY <1>3, <3>2 DEF OnceEach
    <3> QED
      BY <3>1, <3>3
  <2> QED
    BY <2>1, <2>2, <2>3
<1>4. OnceEach(q)
  BY <1>3 DEF OnceEach
<1> QED
  BY <1>4 DEF q

\* One of C is in a list, and none of P comes after it.
LastIn(s, C, P) ==
    \E k \in DOMAIN s : s[k] \in C /\ \A l \in DOMAIN s : l > k => s[l] \notin P

LEMMA LastPush ==
    ASSUME NEW T, NEW s \in Seq(T), NEW x, NEW C, NEW P
    PROVE  /\ x \in C => LastIn(Append(s, x), C, P)
           /\ LastIn(s, C, P) /\ x \notin P => LastIn(Append(s, x), C, P)
<1> DEFINE q == Append(s, x)
<1>1. /\ DOMAIN q = DOMAIN s \cup {Len(s) + 1}
      /\ DOMAIN s = 1..Len(s) /\ Len(s) \in Nat
      /\ \A i \in DOMAIN s : q[i] = s[i]
      /\ q[Len(s) + 1] = x
  OBVIOUS
<1> HIDE DEF q
<1>2. x \in C => LastIn(q, C, P)
  <2>1. \A l \in DOMAIN q : ~(l > Len(s) + 1)
    BY <1>1
  <2> QED
    BY <1>1, <2>1 DEF LastIn
<1>3. LastIn(s, C, P) /\ x \notin P => LastIn(q, C, P)
  BY <1>1 DEF LastIn
<1> QED
  BY <1>2, <1>3 DEF q

LEMMA LastFront ==
    ASSUME NEW T, NEW s \in Seq(T), NEW x \in T, NEW C, NEW P, LastIn(s, C, P)
    PROVE  LastIn(<<x>> \o s, C, P)
<1> DEFINE q == <<x>> \o s
<1>1. /\ DOMAIN q = {1} \cup {k + 1 : k \in DOMAIN s}
      /\ \A k \in DOMAIN s : k \in Nat \ {0} /\ q[k + 1] = s[k]
  BY FrontPositions
<1> HIDE DEF q
<1>2. PICK k \in DOMAIN s : s[k] \in C /\ \A l \in DOMAIN s : l > k => s[l] \notin P
  BY DEF LastIn
<1>3. ASSUME NEW l \in DOMAIN q, l > k + 1
      PROVE  q[l] \notin P
  <2>1. k \in Nat \ {0} /\ \A j \in DOMAIN s : j \in Nat \ {0}
    BY <1>1
  <2>2. PICK j \in DOMAIN s : l = j + 1
    BY <1>1, <1>3, <2>1
  <2>3. j > k
    BY <1>3, <2>1, <2>2
  <2>4. q[l] = s[j]
    BY <1>1, <2>2
  <2> QED
    BY <1>2, <2>3, <2>4
<1>4. k + 1 \in DOMAIN q /\ q[k + 1] \in C
  BY <1>1, <1>2
<1>5. LastIn(q, C, P)
  BY <1>3, <1>4 DEF LastIn
<1> QED
  BY <1>5 DEF q

LEMMA LastPop ==
    ASSUME NEW T, NEW s \in Seq(T), s # <<>>, NEW C, NEW P, LastIn(s, C, P)
    PROVE  \/ LastIn(Tail(s), C, P)
           \/ Head(s) \in C /\ \A y \in Elements(Tail(s)) : y \notin P
<1>1. /\ Len(s) \in Nat \ {0} /\ DOMAIN s = 1..Len(s)
      /\ DOMAIN Tail(s) = 1..Len(s) - 1
      /\ Head(s) = s[1]
      /\ \A i \in 1..Len(s) - 1 : Tail(s)[i] = s[i + 1]
  OBVIOUS
<1>2. PICK k \in DOMAIN s : s[k] \in C /\ \A l \in DOMAIN s : l > k => s[l] \notin P
  BY DEF LastIn
<1>3. CASE k = 1
  <2>1. \A l \in DOMAIN Tail(s) : Tail(s)[l] \notin P
    BY <1>1, <1>2, <1>3
  <2> QED
    BY <1>1, <1>2, <1>3, <2>1 DEF Elements
<1>4. CASE k # 1
  <2>1. k - 1 \in DOMAIN Tail(s) /\ Tail(s)[k - 1] = s[k]
    BY <1>1, <1>4
  <2>2. \A l \in DOMAIN Tail(s) : l > k - 1 => Tail(s)[l] \notin P
    BY <1>1, <1>2
  <2> QED
    BY <1>2, <2>1, <2>2 DEF LastIn
<1> QED
  BY <1>3, <1>4

LEMMA LastErase ==
    ASSUME NEW T, NEW s \in Seq(T), NEW K, NEW C, NEW P, LastIn(s, C, P), K \cap C = {}
    PROVE  LastIn(Erase(s, K), C, P)
<1>1. PICK f \in [DOMAIN Erase(s, K) -> DOMAIN s] :
              /\ \A i \in DOMAIN Erase(s, K) : Erase(s, K)[i] = s[f[i]]
              /\ \A i, j \in DOMAIN Erase(s, K) : i < j => f[i] < f[j]
              /\ \A k \in DOMAIN s : s[k] \notin K => \E i \in DOMAIN Erase(s, K) : f[i] = k
  BY ErasePositions
<1> HIDE DEF Erase
<1>2. PICK k \in DOMAIN s : s[k] \in C /\ \A l \in DOMAIN s : l > k => s[l] \notin P
  BY DEF LastIn
<1>3. PICK i \in DOMAIN Erase(s, K) : f[i] = k
  BY <1>1, <1>2
<1>4. \A l \in DOMAIN Erase(s, K) : l > i => Erase(s, K)[l] \notin P
  <2> SUFFICES ASSUME NEW l \in DOMAIN Erase(s, K), i < l, l > i
               PROVE  Erase(s, K)[l] \notin P
    <3>1. DOMAIN Erase(s, K) \subseteq Int
      <4>1. \E n : DOMAIN Erase(s, K) = 1..n
        BY DEF Erase
      <4> QED
        BY <4>1
    <3> QED
      BY <3>1
  <2>1. f[i] < f[l]
    BY <1>1
  <2>2. f[l] > k /\ f[l] \in DOMAIN s
    <3>1. DOMAIN s \subseteq Int
      OBVIOUS
    <3> QED
      BY <1>1, <1>3, <2>1, <3>1
  <2> QED
    BY <1>1, <1>2, <2>2
<1> QED
  BY <1>1, <1>2, <1>3, <1>4 DEF LastIn

\* The instance's sizes and list operators are those of this module.
LEMMA SameSizes ==
    \A S : (Req!IsFiniteSet(S) <=> IsFiniteSet(S)) /\ Req!Cardinality(S) = Cardinality(S)
<1>1. \A S : Req!IsFiniteSet(S) <=> IsFiniteSet(S)
  BY DEF Req!IsFiniteSet, IsFiniteSet
<1>2. \A S : Req!Cardinality(S) = Cardinality(S)
  BY DEF Req!Cardinality, Cardinality
<1> QED
  BY <1>1, <1>2

LEMMA SameLists ==
    \A s, K : Req!Elements(s) = Elements(s) /\ Req!Erase(s, K) = Erase(s, K)
<1>1. \A s : Req!Elements(s) = Elements(s)
  BY DEF Req!Elements, Elements
<1>2. \A s, K : Req!KeptIndices(s, K) = KeptIndices(s, K)
  BY DEF Req!KeptIndices, KeptIndices
<1>3. \A S : Req!Enumeration(S) = Enumeration(S)
  BY SameSizes DEF Req!Enumeration, Enumeration, Req!IsEnumeration, IsEnumeration
<1>4. \A s, K : Req!Erase(s, K) = Erase(s, K)
  BY <1>2, <1>3, SameSizes DEF Req!Erase, Erase
<1> QED
  BY <1>1, <1>4

-----------------------------------------------------------------------------
(* Requests of agents: the inductive invariant *)

\* The tasks in the hands of threads, and all there are.
Holding == {doing[t] : t \in Workers} \ {NoJob}
AllTasks == Elements(jobs) \cup Holding \cup sleepers

\* What somebody still works on (AgentRequest!Underway).
Working == Elements(jobs) \cup Elements(search) \cup Holding

Busy(t) == doing[t] # NoJob

\* Steps of a conversation that was started.
Posted == {"posted", "noted", "deferring"}

\* The result of a conversation at each step.
RightResult(task) ==
    /\ task.step = "createConv" => task.result = "none"
    /\ task.step \in {"posted", "deferring"} => task.result \in {"none", "missed"}
    /\ task.step = "handleResponse" => task.result \in Req!Outcomes
    /\ reliable /\ task.result \in Req!Outcomes => task.result = "success"

\* A task belongs to the request it is for, with an answer for the sender or a
\* message for the receiver.  The clean-ups belong to none.
RightTask(task) ==
    /\ task.req = 0 => task.step # "send"
    /\ task.req # 0 =>
          /\ task.req \in DOMAIN made
          /\ task.step # "send" => task.agent = made[task.req].from
    /\ task.step = "send" =>
          /\ task.msg.id = task.req
          /\ task.msg.payload = "content" =>
                /\ made[task.req].op = "SEND_MESSAGE"
                /\ task.agent = made[task.req].to
                /\ task.msg.origin = made[task.req].from
          /\ task.msg.payload # "content" => task.agent = made[task.req].from
    /\ task.step # "send" => RightResult(task)

TaskInv ==
    /\ \A task \in AllTasks : RightTask(task)
    /\ \A task \in Elements(jobs) : task.step \notin Posted
    /\ \A task \in sleepers : task.step = "deferring"

\* What was received is an answer to the receiver's request or a message for it.
RightMessage(a, m) ==
    /\ m.id \in DOMAIN made
    /\ m.payload = "content" => made[m.id].to = a /\ made[m.id].from = m.origin
    /\ m.payload # "content" => made[m.id].from = a

MessageInv == \A a \in Agents : \A m \in Req!Received(a) : RightMessage(a, m)

\* A request has one task in the queue, one in a thread's hand and one asleep at
\* most, and one message has come of it ...
HandsOnce ==
    \A t, u \in Workers :
        Busy(t) /\ Busy(u) /\ doing[t].req = doing[u].req /\ doing[t].req # 0 => t = u

OnceInv ==
    /\ OnceEach(jobs)
    /\ HandsOnce
    /\ \A x, y \in sleepers : x.req = y.req /\ x.req # 0 => x = y
    /\ \A a, b \in Agents : \A k \in DOMAIN got[a], l \in DOMAIN got[b] :
          got[a][k].id = got[b][l].id => a = b /\ k = l

Queued == {task.req : task \in Elements(jobs)} \ {0}
InHand == {doing[t].req : t \in {u \in Workers : Busy(u)}} \ {0}
Asleep == {task.req : task \in sleepers} \ {0}
Answered == UNION {{m.id : m \in Req!Received(a)} : a \in Agents}

\* ... and only one of these.
ApartInv ==
    /\ Queued \cap InHand = {} /\ Queued \cap Asleep = {} /\ Queued \cap Answered = {}
    /\ InHand \cap Asleep = {} /\ InHand \cap Answered = {}
    /\ Asleep \cap Answered = {}

\* A task that has posted its request and not had the response: the request is on its
\* way to the search system.
Hopes(task) == task.req # 0 /\ task.step \in Posted /\ task.result = "none"
Expected(task) == [agent |-> task.agent, req |-> task.req] \in Elements(search)

HopeInv == \A task \in Holding \cup sleepers : Hopes(task) => Expected(task)

\* The query of an agent that has stayed, and has not been cancelled with another, is
\* in the queue, in a hand, asleep or answered.
QueryInv ==
    reliable =>
        \A i \in DOMAIN made :
            made[i].op \in Req!Queries /\ Req!Up(made[i].from) /\ ~Req!Cancellable(made[i].from) =>
                \/ i \in Queued \cup InHand \cup Asleep
                \/ \E m \in Req!Received(made[i].from) : m.id = i

BusyInv == threads = 1 => \A t, u \in Workers : Busy(t) /\ Busy(u) => t = u

\* The clean-up of an agent and its other tasks that have yet to post, and what
\* each posts.
Cleanups(a) == {x \in Req!Tasks : x.step = "createConv" /\ x.agent = a /\ x.req = 0}
Posters(a) == {x \in Req!Tasks : x.step = "createConv" /\ x.agent = a /\ x.req # 0}
Removal(a) == {e \in Req!Requests : e.agent = a /\ e.req = 0}
Others(a) == {e \in Req!Requests : e.agent = a /\ e.req # 0}

NoPosters(a) ==
    /\ \A task \in Elements(jobs) : task \notin Posters(a)
    /\ \A t \in Workers : doing[t] \notin Posters(a)

\* Where the clean-up of an agent that is gone may be, and that no other request
\* for the agent comes after it.
Forgetting(a) ==
    \/ LastIn(jobs, Cleanups(a), Posters(a))
    \/ /\ \A task \in Elements(jobs) : task \notin Posters(a)
       /\ \E t \in Workers : doing[t] \in Cleanups(a)
    \/ NoPosters(a) /\ LastIn(search, Removal(a), Others(a))
    \/ /\ NoPosters(a)
       /\ \A e \in Elements(search) : e \notin Others(a)
       /\ \A r \in rows : r[1] # a

\* From the submission of the clean-up on the connection is leaving; at the end the
\* clean-up is in no group.
Leaving(a) == stage[a] \in {"regroup", "cancel", "left"}

GoneInv ==
    /\ \A a \in Agents : stage[a] \in {"cancel", "left"} => cleanGroup[a] = Req!NoGroup
    /\ threads = 1 /\ reliable => \A a \in Agents \ untidy : Leaving(a) => Forgetting(a)

HoldInv == Req!TypeOK /\ TaskInv /\ MessageInv /\ OnceInv /\ ApartInv /\ HopeInv

RequestIInv == HoldInv /\ QueryInv /\ BusyInv /\ GoneInv

-----------------------------------------------------------------------------
(* Requests of agents: what the actions do *)

\* The two kinds of tasks.
LEMMA TaskShape ==
    ASSUME Req!RequestAssumption, NEW task \in Req!Tasks
    PROVE  /\ task.req \in Req!Ids \cup {0} /\ task.agent \in Agents
           /\ task.step = "send" => task.req # 0
           /\ task.step = "send" => task \in Req!SendTasks
           /\ task.step # "send" => task \in Req!SearchTasks
           /\ task # NoJob
  BY DEF Req!Tasks, Req!SearchTasks, Req!SendTasks, Req!RequestAssumption, Req!Ids

Requests == [from : Agents, op : Operations, to : Agents]

\* A task stays right when requests are added.
LEMMA RightKept ==
    ASSUME Req!RequestAssumption, Req!TypeOK, reliable' = reliable,
           made' = made \/ \E r \in Requests : made' = Append(made, r)
    PROVE  /\ DOMAIN made \subseteq DOMAIN made' /\ \A i \in DOMAIN made : made'[i] = made[i]
           /\ \A task \in Req!Tasks : RightTask(task) => RightTask(task)'
           /\ MessageInv /\ got' = got => MessageInv'
<1>1. DOMAIN made \subseteq DOMAIN made' /\ \A i \in DOMAIN made : made'[i] = made[i]
  <2>1. CASE made' = made
    BY <2>1
  <2>2. ASSUME NEW r \in Requests, made' = Append(made, r)
        PROVE  DOMAIN made \subseteq DOMAIN made' /\ \A i \in DOMAIN made : made'[i] = made[i]
    <3>1. made \in Seq(Requests)
      BY DEF Req!TypeOK, Requests
    <3> QED
      BY <2>2, <3>1
  <2> QED
    BY <2>1, <2>2
<1>2. \A task \in Req!Tasks : task.step = "send" => task.req # 0
  BY DEF Req!RequestAssumption, Req!Tasks, Req!SearchTasks, Req!SendTasks, Req!Ids
<1>3. \A task \in Req!Tasks : RightTask(task) => RightTask(task)'
  BY <1>1, <1>2 DEF RightTask, RightResult
<1>4. ASSUME MessageInv, got' = got
      PROVE  MessageInv'
  BY <1>1, <1>4 DEF MessageInv, RightMessage, Req!Received
<1> QED
  BY <1>1, <1>3, <1>4

\* processMessage queues one task for the new request.
LEMMA OneTaskMade ==
    ASSUME Req!RequestAssumption, Req!TypeOK,
           NEW a \in Agents, NEW op \in Operations, NEW b \in Agents, Req!ProcessMessage(a, op, b)
    PROVE  \E task \in Req!Tasks :
              /\ jobs' = Append(jobs, task)
              /\ task.req = Len(made) + 1 /\ task.req \in Req!Ids
              /\ RightTask(task)'
              /\ task.step \in {"createConv", "send"}
              /\ task.step # "send" => task.agent = a
<1> SUFFICES ASSUME NEW i, i = Len(made) + 1
             PROVE  \E task \in Req!Tasks :
                       /\ jobs' = Append(jobs, task)
                       /\ task.req = i /\ task.req \in Req!Ids
                       /\ RightTask(task)'
                       /\ task.step \in {"createConv", "send"}
                       /\ task.step # "send" => task.agent = a
  OBVIOUS
<1> DEFINE r == [from |-> a, op |-> op, to |-> b]
<1>1. i \in Req!Ids /\ i \in Nat \ {0} /\ r \in Requests
  BY DEF Req!ProcessMessage, Req!TypeOK, Req!Ids, Req!RequestAssumption, Requests
<1>2. made' = Append(made, r) /\ made' \in Seq(Requests) /\ i \in DOMAIN made' /\ made'[i] = r
  BY <1>1 DEF Req!ProcessMessage, Req!TypeOK, Requests
<1>3. ASSUME NEW to \in Agents, NEW m \in Req!Messages, m.id = i,
             m.payload = "content" => op = "SEND_MESSAGE" /\ to = b /\ m.origin = a,
             m.payload # "content" => to = a
      PROVE  Req!SendTask(to, m) \in Req!Tasks /\ Req!SendTask(to, m).req = i
             /\ Req!SendTask(to, m).step = "send" /\ RightTask(Req!SendTask(to, m))'
  <2> DEFINE task == Req!SendTask(to, m)
  <2>1. task \in Req!SendTasks /\ task.req = i /\ task.step = "send" /\ task.msg = m
        /\ task.agent = to
    BY <1>1, <1>3 DEF Req!SendTask, Req!SendTasks
  <2> HIDE DEF task
  <2>2. RightTask(task)'
    BY <1>1, <1>2, <1>3, <2>1 DEF RightTask
  <2> QED
    BY <2>1, <2>2 DEF task, Req!Tasks
<1>4. /\ Req!SearchTask(a, i) \in Req!Tasks
      /\ Req!SearchTask(a, i).req = i /\ Req!SearchTask(a, i).agent = a
      /\ Req!SearchTask(a, i).step = "createConv"
      /\ RightTask(Req!SearchTask(a, i))'
  <2> DEFINE task == Req!SearchTask(a, i)
  <2>1. /\ task \in Req!SearchTasks /\ task.req = i /\ task.step = "createConv"
        /\ task.agent = a /\ task.result = "none"
    BY <1>1 DEF Req!SearchTask, Req!SearchTasks, Req!Outcomes
  <2> HIDE DEF task
  <2>2. RightTask(task)'
    BY <1>1, <1>2, <2>1 DEF RightTask, RightResult, Req!Outcomes
  <2> QED
    BY <2>1, <2>2 DEF task, Req!Tasks
<1>5. \A e \in Operations : Req!ErrorMessage(i, e) \in Req!Messages /\ Req!ErrorMessage(i, e).id = i
                            /\ Req!ErrorMessage(i, e).payload = "error"
  BY <1>1 DEF Req!ErrorMessage, Req!Messages, Req!RequestAssumption
<1>6. /\ Req!SendTask(a, Req!ErrorMessage(i, op)) \in Req!Tasks
      /\ Req!SendTask(a, Req!ErrorMessage(i, op)).req = i
      /\ Req!SendTask(a, Req!ErrorMessage(i, op)).step = "send"
      /\ RightTask(Req!SendTask(a, Req!ErrorMessage(i, op)))'
  BY <1>3, <1>5
<1>7. CASE jobs' = Append(jobs, Req!ServeTask(i, a, op, b))
  <2>1. CASE op = "SEND_MESSAGE"
    <3> DEFINE content == [id |-> i, payload |-> "content", op |-> "SEND_MESSAGE", origin |-> a]
               dialogue == [id |-> i, payload |-> "dialogue", op |-> "SEND_MESSAGE", origin |-> b]
    <3>1. /\ content \in Req!Messages /\ content.id = i
          /\ content.payload = "content" /\ content.origin = a
      BY <1>1 DEF Req!Messages
    <3>2. dialogue \in Req!Messages /\ dialogue.id = i /\ dialogue.payload = "dialogue"
      BY <1>1 DEF Req!Messages
    <3>3. Req!ServeTask(i, a, op, b) = IF b \in online THEN Req!SendTask(b, content)
                                       ELSE Req!SendTask(a, dialogue)
      BY <2>1 DEF Req!ServeTask, Req!MessageTask
    <3> HIDE DEF content, dialogue
    <3>4. /\ Req!SendTask(b, content) \in Req!Tasks /\ Req!SendTask(b, content).req = i
          /\ Req!SendTask(b, content).step = "send" /\ RightTask(Req!SendTask(b, content))'
      BY <1>3, <2>1, <3>1
    <3>5. /\ Req!SendTask(a, dialogue) \in Req!Tasks /\ Req!SendTask(a, dialogue).req = i
          /\ Req!SendTask(a, dialogue).step = "send" /\ RightTask(Req!SendTask(a, dialogue))'
      BY <1>3, <2>1, <3>2
    <3> QED
      BY <1>1, <1>7, <3>3, <3>4, <3>5
  <2>2. CASE op = "OTHER"
    <3>1. Req!ServeTask(i, a, op, b) = Req!SendTask(a, Req!ErrorMessage(i, op))
      BY <2>2 DEF Req!ServeTask
    <3> QED
      BY <1>1, <1>6, <1>7, <3>1
  <2>3. CASE op # "SEND_MESSAGE" /\ op # "OTHER"
    <3>1. Req!ServeTask(i, a, op, b) = Req!SearchTask(a, i)
      BY <2>3 DEF Req!ServeTask
    <3> QED
      BY <1>1, <1>4, <1>7, <3>1
  <2> QED
    BY <2>1, <2>2, <2>3
<1>8. CASE jobs' = jobs \o Req!Refusal(i, a, op, b)
  <2>1. \A x : jobs \o <<x>> = Append(jobs, x)
    BY DEF Req!TypeOK
  <2> QED
    BY <1>1, <1>6, <1>8, <2>1 DEF Req!Refusal
<1> QED
  BY <1>7, <1>8 DEF Req!ProcessMessage

\* handleResponse queues at most one answer; with a reliable search system a query
\* gets one.
LEMMA OneAnswerMade ==
    ASSUME Req!RequestAssumption, Req!TypeOK, TaskInv, NEW t \in Workers, Req!HandleResponse(t)
    PROVE  /\ \/ jobs' = jobs
              \/ /\ doing[t].req # 0
                 /\ \E task \in Req!Tasks :
                       /\ jobs' = Append(jobs, task)
                       /\ task.req = doing[t].req
                       /\ task.step = "send"
                       /\ RightTask(task)
           /\ reliable /\ doing[t].req # 0 /\ made[doing[t].req].op \in Req!Queries
              => \E task \in Req!Tasks : jobs' = Append(jobs, task) /\ task.req = doing[t].req
<1> DEFINE old == doing[t]
           answer == IF Req!HasReply(old) THEN Req!Answer(old) ELSE <<>>
<1>1. /\ old # NoJob /\ old \in Req!Tasks /\ old.step = "handleResponse"
      /\ old \in Req!SearchTasks /\ RightTask(old)
  <2>1. old # NoJob /\ old \in Req!Tasks /\ old.step = "handleResponse"
    BY DEF Req!HandleResponse, Req!At, Req!TypeOK
  <2>2. old \in AllTasks
    BY <2>1 DEF AllTasks, Holding
  <2> QED
    BY <2>1, <2>2, TaskShape DEF TaskInv
<1>2. jobs' = jobs \o [k \in DOMAIN answer |-> Req!SendTask(old.agent, answer[k])]
  BY DEF Req!HandleResponse
<1>3. ASSUME answer = <<>>
      PROVE  jobs' = jobs
  BY <1>2, <1>3 DEF Req!TypeOK
<1>4. ASSUME NEW m \in Req!Messages, answer = <<m>>, old.req # 0, m.id = old.req, m.payload # "content"
      PROVE  \E task \in Req!Tasks :
                 /\ jobs' = Append(jobs, task)
                 /\ task.req = doing[t].req
                 /\ task.step = "send"
                 /\ RightTask(task)
  <2> DEFINE task == Req!SendTask(old.agent, m)
  <2>1. /\ old.req \in Req!Ids /\ old.req \in DOMAIN made
        /\ old.agent = made[old.req].from /\ old.agent \in Agents
    BY <1>1, <1>4 DEF RightTask, Req!SearchTasks
  <2>2. task \in Req!SendTasks /\ task.req = old.req /\ task.step = "send" /\ task.msg = m
        /\ task.agent = old.agent
    BY <1>4, <2>1 DEF Req!SendTask, Req!SendTasks
  <2>3. [k \in DOMAIN answer |-> Req!SendTask(old.agent, answer[k])] = <<task>>
    BY <1>4
  <2> HIDE DEF task, answer, old
  <2>4. jobs' = Append(jobs, task)
    BY <1>2, <2>3 DEF Req!TypeOK
  <2>5. RightTask(task)
    BY <1>4, <2>1, <2>2 DEF RightTask
  <2>6. task \in Req!Tasks
    BY <2>2 DEF Req!Tasks
  <2> QED
    BY <2>2, <2>4, <2>5, <2>6 DEF old
<1>5. ASSUME NEW op \in Req!Updates \cup Req!Removes \cup Req!Queries, old.req # 0
      PROVE  /\ Req!ErrorMessage(old.req, op) \in Req!Messages
             /\ Req!ErrorMessage(old.req, op).id = old.req
             /\ Req!ErrorMessage(old.req, op).payload # "content"
             /\ LET m == [id |-> old.req, payload |-> "agents", op |-> op, origin |-> NoAgent]
                IN  m \in Req!Messages /\ m.id = old.req /\ m.payload # "content"
  <2>1. old.req \in Req!Ids
    BY <1>1, <1>5 DEF Req!SearchTasks
  <2> QED
    BY <2>1 DEF Req!ErrorMessage, Req!Messages
<1>6. CASE old.req = 0
  <2>1. answer = <<>>
    BY <1>6 DEF Req!HasReply
  <2> QED
    BY <1>3, <1>6, <2>1
<1>7. CASE old.req # 0 /\ old.result = "success" /\ Req!Op(old) \in Req!Queries
  <2>1. answer = <<[id |-> old.req, payload |-> "agents", op |-> Req!Op(old), origin |-> NoAgent]>>
    BY <1>7 DEF Req!HasReply, Req!Answer
  <2> HIDE DEF answer
  <2> QED
    BY <1>4, <1>5, <1>7, <2>1
<1>8. CASE old.req # 0 /\ ~(old.result = "success" /\ Req!Op(old) \in Req!Queries)
  <2>1. ~(reliable /\ made[old.req].op \in Req!Queries)
    BY <1>1, <1>8 DEF RightTask, RightResult, Req!Op
  <2>2. CASE old.result = "failure"
    <3>1. /\ answer = <<Req!ErrorMessage(old.req, Req!ErrorOperation(old))>>
          /\ Req!ErrorOperation(old) \in Req!Updates \cup Req!Removes
      BY <1>8, <2>2 DEF Req!HasReply, Req!Answer, Req!ErrorOperation, Req!Updates, Req!Removes
    <3> HIDE DEF answer
    <3> QED
      BY <1>4, <1>5, <1>8, <2>1, <3>1
  <2>3. CASE old.result # "failure"
    <3>1. answer = <<>>
      BY <1>8, <2>3 DEF Req!HasReply, Req!Answer
    <3> QED
      BY <1>3, <2>1, <3>1
  <2> QED
    BY <2>2, <2>3
<1> QED
  BY <1>6, <1>7, <1>8

-----------------------------------------------------------------------------
(* Requests of agents: one task or message for a request *)

\* All tasks are tasks.
LEMMA TasksTyped ==
    ASSUME Req!TypeOK
    PROVE  /\ AllTasks \subseteq Req!Tasks /\ Elements(jobs) \subseteq Req!Tasks
           /\ jobs \in Seq(Req!Tasks) /\ search \in Seq(Req!Requests)
           /\ \A t \in Workers : Busy(t) => doing[t] \in Req!Tasks /\ doing[t] \in Holding
  BY DEF Req!TypeOK, AllTasks, Holding, Elements, Req!Tasks, Busy

\* A thread gives up its task.
LEMMA HandsShrink ==
    ASSUME Req!TypeOK, HandsOnce, NEW t \in Workers, Busy(t), Req!Ends(t)
    PROVE  /\ doing' \in [Workers -> Req!Tasks \cup {NoJob}]
           /\ doing'[t] = NoJob
           /\ \A u \in Workers : u # t => doing'[u] = doing[u]
           /\ Holding' \subseteq Holding
           /\ InHand' \subseteq InHand /\ doing[t].req \notin InHand'
           /\ InHand \subseteq InHand' \cup {doing[t].req}
           /\ HandsOnce'
<1>1. /\ doing' \in [Workers -> Req!Tasks \cup {NoJob}]
      /\ doing'[t] = NoJob
      /\ \A u \in Workers : u # t => doing'[u] = doing[u]
  BY DEF Req!TypeOK, Req!Ends
<1>2. \A u \in Workers : Busy(u)' <=> Busy(u) /\ u # t
  BY <1>1 DEF Busy
<1>3. Holding' \subseteq Holding
  BY <1>1 DEF Holding
<1> QED
  BY <1>1, <1>2, <1>3 DEF InHand, HandsOnce, Busy

\* The tasks in hand change, and stay those of their requests.
LEMMA HandsAlike ==
    ASSUME HandsOnce, \A u \in Workers : Busy(u)' <=> Busy(u),
           \A u \in Workers : Busy(u) => doing'[u].req = doing[u].req
    PROVE  InHand' = InHand /\ HandsOnce'
  BY DEF InHand, HandsOnce, Busy

\* A task in hand goes on to its next step.
LEMMA Advanced ==
    ASSUME Req!RequestAssumption, Req!TypeOK, HandsOnce, NEW t \in Workers, Busy(t),
           doing[t].step # "send", NEW s \in Posted \cup {"handleResponse"}, Req!Becomes(t, s)
    PROVE  /\ doing' \in [Workers -> Req!Tasks \cup {NoJob}]
           /\ doing'[t] \in Req!SearchTasks
           /\ doing'[t].req = doing[t].req /\ doing'[t].agent = doing[t].agent
           /\ doing'[t].result = doing[t].result /\ doing'[t].step = s
           /\ \A u \in Workers : u # t => doing'[u] = doing[u]
           /\ \A u \in Workers : Busy(u)' <=> Busy(u)
           /\ InHand' = InHand /\ HandsOnce'
           /\ Holding' \subseteq Holding \cup {doing'[t]}
<1>1. doing[t] \in Req!SearchTasks
  <2>1. doing[t] \in Req!Tasks
    BY DEF Req!TypeOK, Busy
  <2> QED
    BY <2>1, TaskShape
<1>2. PICK x : x = [doing[t] EXCEPT !.step = s]
  OBVIOUS
<1>3. /\ x \in Req!SearchTasks
      /\ x.req = doing[t].req /\ x.agent = doing[t].agent
      /\ x.result = doing[t].result /\ x.step = s
  BY <1>1, <1>2 DEF Req!SearchTasks, Posted
<1>4. x \in Req!Tasks /\ x # NoJob
  BY <1>3 DEF Req!Tasks, Req!RequestAssumption
<1>5. doing' = [doing EXCEPT ![t] = x]
  BY <1>2 DEF Req!Becomes
<1>6. /\ doing' \in [Workers -> Req!Tasks \cup {NoJob}]
      /\ doing'[t] = x
      /\ \A u \in Workers : u # t => doing'[u] = doing[u]
  BY <1>4, <1>5 DEF Req!TypeOK
<1>7. \A u \in Workers : Busy(u)' <=> Busy(u)
  BY <1>4, <1>6 DEF Busy
<1>8. \A u \in Workers : Busy(u) => doing'[u].req = doing[u].req
  BY <1>3, <1>6
<1>9. InHand' = InHand /\ HandsOnce'
  BY <1>7, <1>8, HandsAlike
<1>10. Holding' \subseteq Holding \cup {x}
  BY <1>6 DEF Holding
<1> QED
  BY <1>3, <1>6, <1>7, <1>9, <1>10

\* A step of a conversation keeps everything in its place.
LEMMA HoldAdvance ==
    ASSUME Req!RequestAssumption, HoldInv, Req!TypeOK', NEW t \in Workers, Busy(t),
           doing[t].step # "send", NEW s \in Posted \cup {"handleResponse"}, Req!Becomes(t, s),
           UNCHANGED <<made, jobs, sleepers, got, reliable>>,
           RightResult(doing[t])',
           Elements(search) \subseteq Elements(search'),
           doing[t].step \in Posted \/ Expected(doing[t])'
    PROVE  HoldInv'
<1> USE DEF HoldInv
<1>1. /\ doing'[t] \in Req!SearchTasks
      /\ doing'[t].req = doing[t].req /\ doing'[t].agent = doing[t].agent
      /\ doing'[t].result = doing[t].result /\ doing'[t].step = s
      /\ InHand' = InHand /\ HandsOnce'
      /\ Holding' \subseteq Holding \cup {doing'[t]}
  BY Advanced DEF OnceInv
<1>2. MessageInv' /\ \A x \in Req!Tasks : RightTask(x) => RightTask(x)'
  BY RightKept
<1>3. RightTask(doing[t]) /\ doing[t] \in Holding
  BY DEF TaskInv, AllTasks, Holding, Busy
<1>4. RightTask(doing[t])'
  <2>1. s # "send"
    BY DEF Posted
  <2> QED
    BY <1>1, <1>3, <2>1 DEF RightTask
<1>5. TaskInv'
  <2>1. AllTasks' \subseteq AllTasks \cup {doing'[t]}
    BY <1>1 DEF AllTasks
  <2> QED
    BY <1>2, <1>4, <2>1, TasksTyped DEF TaskInv
<1>6. OnceInv'
  BY <1>1 DEF OnceInv
<1>7. ApartInv'
  <2>1. Queued' = Queued /\ Asleep' = Asleep /\ Answered' = Answered
    BY DEF Queued, Asleep, Answered, Req!Received
  <2> QED
    BY <1>1, <2>1 DEF ApartInv
<1>8. HopeInv'
  <2>1. \A x \in Holding \cup sleepers : Hopes(x) => Expected(x)'
    BY DEF HopeInv, Expected
  <2>2. Hopes(doing'[t]) => Expected(doing[t])'
    BY <1>1, <1>3, <2>1 DEF Hopes, Expected, Posted
  <2> QED
    BY <1>1, <2>1, <2>2 DEF HopeInv, Hopes
<1> QED
  BY <1>2, <1>5, <1>6, <1>7, <1>8

LEMMA HoldPost ==
    ASSUME Req!RequestAssumption, HoldInv, NEW t \in Workers, Req!Post(t)
    PROVE  HoldInv'
<1> USE DEF HoldInv
<1>1. /\ Busy(t) /\ doing[t].step = "createConv" /\ Req!Becomes(t, "posted")
      /\ UNCHANGED <<online, stage, reading, made, jobs, sleepers, rows, got, cleanGroup, untidy,
                     home, threads, reliable>>
  BY DEF Req!Post, Req!At, Busy, Req!leaving, Req!setting
<1>2. "posted" \in Posted \cup {"handleResponse"} /\ doing[t].step # "send"
  BY <1>1 DEF Posted
<1>3. /\ doing' \in [Workers -> Req!Tasks \cup {NoJob}]
      /\ doing'[t].req = doing[t].req /\ doing'[t].agent = doing[t].agent
      /\ doing'[t].result = doing[t].result /\ doing'[t].step = "posted"
  BY <1>1, <1>2, Advanced DEF OnceInv
<1>4. RightTask(doing[t]) /\ doing[t] \in Req!Tasks
  BY <1>1 DEF TaskInv, AllTasks, Holding, Busy, Req!TypeOK
<1>5. PICK e \in Req!Requests : search' = Append(search, e)
                                /\ e = [agent |-> doing[t].agent, req |-> doing[t].req]
  BY <1>4, TaskShape DEF Req!Post, Req!Requests
<1>6. search' \in Seq(Req!Requests) /\ Elements(search') = Elements(search) \cup {e}
  BY <1>5, PushElements DEF Req!TypeOK
<1>7. Req!TypeOK'
  BY <1>1, <1>3, <1>6 DEF Req!TypeOK
<1>8. Expected(doing[t])'
  <2>1. e \in Elements(search')
    BY <1>6
  <2>2. [agent |-> doing'[t].agent, req |-> doing'[t].req] \in Elements(search')
    BY <1>3, <1>5, <2>1
  <2> QED
    BY <2>2 DEF Expected
<1>9. RightResult(doing[t])'
  BY <1>1, <1>3, <1>4 DEF RightTask, RightResult, Req!Outcomes
<1> QED
  BY <1>1, <1>2, <1>6, <1>7, <1>8, <1>9, HoldAdvance

LEMMA HoldMakeNotification ==
    ASSUME Req!RequestAssumption, HoldInv, NEW t \in Workers, Req!MakeNotification(t)
    PROVE  HoldInv'
<1> USE DEF HoldInv
<1>1. /\ Busy(t) /\ doing[t].step = "posted" /\ Req!Becomes(t, "noted")
      /\ UNCHANGED <<online, stage, reading, made, jobs, sleepers, search, rows, got, cleanGroup,
                     untidy, home, threads, reliable>>
  BY DEF Req!MakeNotification, Req!At, Busy, Req!leaving, Req!setting
<1>2. "noted" \in Posted \cup {"handleResponse"} /\ doing[t].step # "send" /\ doing[t].step \in Posted
  BY <1>1 DEF Posted
<1>3. /\ doing' \in [Workers -> Req!Tasks \cup {NoJob}]
      /\ doing'[t].result = doing[t].result /\ doing'[t].step = "noted"
  BY <1>1, <1>2, Advanced DEF OnceInv
<1>4. RightTask(doing[t])
  BY <1>1 DEF TaskInv, AllTasks, Holding, Busy
<1>5. Req!TypeOK'
  BY <1>1, <1>3 DEF Req!TypeOK
<1>6. RightResult(doing[t])'
  BY <1>1, <1>2, <1>3, <1>4 DEF RightTask, RightResult
<1> QED
  BY <1>1, <1>2, <1>5, <1>6, HoldAdvance

LEMMA HoldTestWaiting ==
    ASSUME Req!RequestAssumption, HoldInv, NEW t \in Workers, Req!TestWaiting(t)
    PROVE  HoldInv'
<1> USE DEF HoldInv
<1>1. /\ Busy(t) /\ doing[t].step = "noted"
      /\ Req!Becomes(t, IF doing[t].result \in Req!Outcomes THEN "handleResponse" ELSE "deferring")
      /\ UNCHANGED <<online, stage, reading, made, jobs, sleepers, search, rows, got, cleanGroup,
                     untidy, home, threads, reliable>>
  BY DEF Req!TestWaiting, Req!At, Busy, Req!leaving, Req!setting
<1>2. PICK s \in Posted \cup {"handleResponse"} :
         /\ Req!Becomes(t, s)
         /\ s = IF doing[t].result \in Req!Outcomes THEN "handleResponse" ELSE "deferring"
  BY <1>1 DEF Posted
<1>3. doing[t].step # "send" /\ doing[t].step \in Posted
  BY <1>1 DEF Posted
<1>4. /\ doing' \in [Workers -> Req!Tasks \cup {NoJob}] /\ doing'[t] \in Req!SearchTasks
      /\ doing'[t].result = doing[t].result /\ doing'[t].step = s
  BY <1>1, <1>2, <1>3, Advanced DEF OnceInv
<1>5. RightTask(doing[t])
  BY <1>1 DEF TaskInv, AllTasks, Holding, Busy
<1>6. Req!TypeOK'
  BY <1>1, <1>4 DEF Req!TypeOK
<1>7. RightResult(doing[t])'
  BY <1>1, <1>2, <1>3, <1>4, <1>5 DEF RightTask, RightResult, Req!SearchTasks
<1> QED
  BY <1>1, <1>2, <1>3, <1>6, <1>7, HoldAdvance

LEMMA HoldSuspend ==
    ASSUME Req!RequestAssumption, HoldInv, NEW t \in Workers, Req!Suspend(t)
    PROVE  HoldInv'
<1> USE DEF HoldInv
<1>0. UNCHANGED <<online, stage, reading, made, jobs, search, rows, got, cleanGroup, untidy, home,
                  threads, reliable>>
  BY DEF Req!Suspend, Req!leaving, Req!setting
<1>1. PICK task : task = doing[t]
  OBVIOUS
<1>2. /\ Busy(t) /\ task.step = "deferring" /\ Req!Ends(t)
      /\ sleepers' = sleepers \cup {task}
  BY <1>1 DEF Req!Suspend, Req!At, Busy
<1>3. task \in Req!Tasks /\ task \in Req!SearchTasks /\ task \in Holding
  BY <1>1, <1>2, TasksTyped, TaskShape
<1>4. /\ doing' \in [Workers -> Req!Tasks \cup {NoJob}]
      /\ Holding' \subseteq Holding
      /\ InHand' \subseteq InHand /\ task.req \notin InHand' /\ HandsOnce'
  BY <1>1, <1>2, HandsShrink DEF OnceInv
<1>5. Req!TypeOK'
  BY <1>0, <1>2, <1>3, <1>4 DEF Req!TypeOK
<1>6. MessageInv' /\ \A x \in Req!Tasks : RightTask(x) => RightTask(x)'
  BY <1>0, RightKept
<1>7. TaskInv'
  <2>1. AllTasks' \subseteq AllTasks
    BY <1>0, <1>2, <1>3, <1>4 DEF AllTasks
  <2> QED
    BY <1>0, <1>2, <1>6, <2>1, TasksTyped DEF TaskInv
<1>8. task.req # 0 => task.req \in InHand
  BY <1>1, <1>2 DEF InHand
<1>9. OnceInv'
  <2>1. \A x \in sleepers : x.req = task.req => task.req = 0
    BY <1>8 DEF ApartInv, Asleep
  <2>2. \A x, y \in sleepers' : x.req = y.req /\ x.req # 0 => x = y
    BY <1>2, <2>1 DEF OnceInv
  <2> QED
    BY <1>0, <1>4, <2>2 DEF OnceInv
<1>10. ApartInv'
  <2>1. Asleep' \subseteq Asleep \cup {task.req} /\ 0 \notin Asleep'
    BY <1>2 DEF Asleep
  <2>2. Queued' = Queued /\ Answered' = Answered
    BY <1>0 DEF Queued, Answered, Req!Received
  <2>3. ASSUME NEW i \in Asleep'
        PROVE  i \notin Queued' /\ i \notin InHand' /\ i \notin Answered'
    BY <1>4, <1>8, <2>1, <2>2 DEF ApartInv
  <2> QED
    BY <1>4, <2>2, <2>3 DEF ApartInv
<1>11. HopeInv'
  BY <1>0, <1>2, <1>3, <1>4 DEF HopeInv, Hopes, Expected
<1> QED
  BY <1>5, <1>6, <1>7, <1>9, <1>10, <1>11

LEMMA HoldProcess ==
    ASSUME Req!RequestAssumption, HoldInv, NEW a \in Agents, NEW op \in Operations, NEW b \in Agents,
           Req!ProcessMessage(a, op, b)
    PROVE  HoldInv'
<1> USE DEF HoldInv
<1>0. UNCHANGED <<online, stage, cleanGroup, doing, sleepers, search, rows, got, home, threads,
                  reliable>>
  BY DEF Req!ProcessMessage, Req!setting
<1>1. PICK task \in Req!Tasks :
              /\ jobs' = Append(jobs, task)
              /\ task.req = Len(made) + 1 /\ task.req \in Req!Ids
              /\ RightTask(task)'
              /\ task.step \in {"createConv", "send"}
  BY OneTaskMade
<1>2. PICK r \in Requests : made' = Append(made, r)
  BY DEF Req!ProcessMessage, Requests
<1>3. Req!TypeOK'
  <2>1. reading' \subseteq Agents /\ untidy' \subseteq Agents
    BY DEF Req!ProcessMessage, Req!TypeOK
  <2> QED
    BY <1>0, <1>1, <1>2, <2>1 DEF Req!TypeOK, Requests
<1>4. MessageInv' /\ \A x \in Req!Tasks : RightTask(x) => RightTask(x)'
  <2>1. made' = made \/ \E x \in Requests : made' = Append(made, x)
    BY <1>2
  <2> QED
    BY <1>0, <2>1, RightKept
<1>5. Elements(jobs') = Elements(jobs) \cup {task}
  BY <1>1, PushElements, TasksTyped
<1>6. task.req \notin DOMAIN made /\ task.req # 0 /\ task.req \in Nat
  BY <1>1 DEF Req!TypeOK
<1>7. \A x \in AllTasks : x.req # task.req
  BY <1>6 DEF TaskInv, RightTask
<1>8. TaskInv'
  <2>1. AllTasks' \subseteq AllTasks \cup {task}
    BY <1>0, <1>5 DEF AllTasks, Holding
  <2> QED
    BY <1>0, <1>1, <1>4, <1>5, <2>1, TasksTyped DEF TaskInv, Posted
<1>9. OnceInv'
  <2>1. \A y \in Elements(jobs) : y.req = task.req => task.req = 0
    BY <1>7 DEF AllTasks
  <2>2. OnceEach(jobs')
    BY <1>1, <2>1, PushOnce, TasksTyped DEF OnceInv
  <2>3. HandsOnce'
    BY <1>0 DEF OnceInv, HandsOnce, Busy
  <2> QED
    BY <1>0, <2>2, <2>3 DEF OnceInv
<1>10. ApartInv'
  <2>1. task.req \notin InHand \cup Asleep
    BY <1>7 DEF InHand, Asleep, AllTasks, Holding, Busy
  <2>2. task.req \notin Answered
    BY <1>6 DEF Answered, MessageInv, RightMessage
  <2>3. Queued' \subseteq Queued \cup {task.req}
    BY <1>5 DEF Queued
  <2>4. InHand' = InHand /\ Asleep' = Asleep /\ Answered' = Answered
    BY <1>0 DEF InHand, Asleep, Answered, Busy, Req!Received
  <2> QED
    BY <2>1, <2>2, <2>3, <2>4 DEF ApartInv
<1>11. HopeInv'
  BY <1>0 DEF HopeInv, Hopes, Expected, Holding
<1> QED
  BY <1>3, <1>4, <1>8, <1>9, <1>10, <1>11

LEMMA HoldTake ==
    ASSUME Req!RequestAssumption, HoldInv, NEW t \in Workers, Req!Take(t)
    PROVE  HoldInv'
<1> USE DEF HoldInv
<1>0. UNCHANGED <<online, stage, reading, made, sleepers, search, rows, got, cleanGroup, untidy,
                  home, threads, reliable>>
  BY DEF Req!Take, Req!leaving, Req!setting
<1> DEFINE task == Head(jobs)
<1>1. /\ doing[t] = NoJob /\ jobs # <<>>
      /\ doing' = [doing EXCEPT ![t] = task] /\ jobs' = Tail(jobs)
  BY DEF Req!Take
<1>2. /\ task \in Req!Tasks /\ jobs' \in Seq(Req!Tasks)
      /\ Elements(jobs) = Elements(jobs') \cup {task}
  BY <1>1, PopElements, TasksTyped
<1>3. /\ OnceEach(jobs')
      /\ \A y \in Elements(jobs') : y.req = task.req => y.req = 0
  BY <1>1, PopOnce, TasksTyped DEF OnceInv
<1> HIDE DEF task
<1>4. /\ doing' \in [Workers -> Req!Tasks \cup {NoJob}] /\ doing'[t] = task
      /\ \A u \in Workers : u # t => doing'[u] = doing[u]
  BY <1>1, <1>2 DEF Req!TypeOK
<1>5. Req!TypeOK'
  BY <1>0, <1>2, <1>4 DEF Req!TypeOK
<1>6. MessageInv' /\ \A x \in Req!Tasks : RightTask(x) => RightTask(x)'
  BY <1>0, RightKept
<1>7. Holding' \subseteq Holding \cup {task}
  BY <1>4 DEF Holding
<1>8. TaskInv'
  <2>1. AllTasks' \subseteq AllTasks
    BY <1>0, <1>2, <1>7 DEF AllTasks
  <2> QED
    BY <1>0, <1>2, <1>6, <2>1, TasksTyped DEF TaskInv
<1>9. task # NoJob
  BY <1>2 DEF Req!RequestAssumption
<1>10. \A u \in Workers : Busy(u)' <=> Busy(u) \/ u = t
  BY <1>1, <1>4, <1>9 DEF Busy
<1>11. task.req # 0 => task.req \in Queued
  BY <1>2 DEF Queued
<1>12. OnceInv'
  <2>1. \A u \in Workers : Busy(u) /\ doing[u].req = task.req => task.req = 0
    BY <1>11 DEF ApartInv, InHand
  <2>2. HandsOnce'
    BY <1>4, <1>10, <2>1 DEF OnceInv, HandsOnce
  <2> QED
    BY <1>0, <1>3, <2>2 DEF OnceInv
<1>13. ApartInv'
  <2>1. Queued' \subseteq Queued /\ task.req \notin Queued'
    BY <1>2, <1>3 DEF Queued
  <2>2. InHand' \subseteq InHand \cup {task.req} /\ 0 \notin InHand'
    BY <1>4, <1>10 DEF InHand
  <2>3. Asleep' = Asleep /\ Answered' = Answered
    BY <1>0 DEF Asleep, Answered, Req!Received
  <2>4. ASSUME NEW i \in InHand'
        PROVE  i \notin Queued' /\ i \notin Asleep' /\ i \notin Answered'
    BY <1>11, <2>1, <2>2, <2>3 DEF ApartInv
  <2> QED
    BY <2>1, <2>3, <2>4 DEF ApartInv
<1>14. HopeInv'
  <2>1. ~Hopes(task)
    BY <1>2 DEF TaskInv, Hopes
  <2>2. \A x : (Hopes(x)' <=> Hopes(x)) /\ (Expected(x)' <=> Expected(x))
    BY <1>0 DEF Hopes, Expected
  <2> QED
    BY <1>0, <1>7, <2>1, <2>2 DEF HopeInv
<1> QED
  BY <1>5, <1>6, <1>8, <1>12, <1>13, <1>14

\* What a response does to a task in hand.
LEMMA InformedKept ==
    ASSUME Req!RequestAssumption, NEW task \in Req!Tasks, RightTask(task),
           NEW e \in Req!Requests, NEW o \in Req!Outcomes, reliable => o = "success"
    PROVE  LET x == Req!Informed(task, e, o)
           IN  /\ x \in Req!Tasks /\ x # NoJob /\ RightTask(x)
               /\ x.req = task.req /\ x.agent = task.agent /\ x.step = task.step
               /\ x.step \notin Posted => x = task
               /\ Hopes(x) => Hopes(task) /\ [agent |-> task.agent, req |-> task.req] # e
<1> DEFINE x == Req!Informed(task, e, o)
           own == [agent |-> task.agent, req |-> task.req]
<1>1. task # NoJob /\ (task.step # "send" => task \in Req!SearchTasks)
  BY TaskShape
<1>2. o # "none"
  BY DEF Req!Outcomes
<1>3. CASE own # e
  <2>1. x = task
    BY <1>3 DEF Req!Informed
  <2> QED
    BY <1>1, <1>3, <2>1
<1>4. ASSUME own = e, task.step \in Posted
      PROVE  \E v \in Req!Outcomes \cup {"missed"} :
                /\ x = [task EXCEPT !.result = v]
                /\ task.step = "noted" => v = o
                /\ task.step # "noted" => v = "missed"
  <2>1. CASE task.step = "noted"
    BY <1>4, <2>1 DEF Req!Informed
  <2>2. CASE task.step \in {"posted", "deferring"}
    BY <1>4, <2>2 DEF Req!Informed
  <2> QED
    BY <1>4, <2>1, <2>2 DEF Posted
<1>5. CASE own = e /\ task.step \in Posted
  <2>1. PICK v \in Req!Outcomes \cup {"missed"} :
                /\ x = [task EXCEPT !.result = v]
                /\ task.step = "noted" => v = o
                /\ task.step # "noted" => v = "missed"
    BY <1>4, <1>5
  <2> HIDE DEF x
  <2>2. task \in Req!SearchTasks
    BY <1>1, <1>5 DEF Posted
  <2>3. /\ x \in Req!SearchTasks /\ x.req = task.req /\ x.agent = task.agent /\ x.step = task.step
        /\ x.result = v
    BY <2>1, <2>2 DEF Req!SearchTasks
  <2>4. x \in Req!Tasks /\ x # NoJob
    BY <2>3 DEF Req!Tasks, Req!RequestAssumption
  <2>5. v # "none"
    BY DEF Req!Outcomes
  <2>6. RightResult(x)
    BY <1>5, <2>1, <2>3 DEF RightResult, Posted, Req!Outcomes
  <2>7. RightTask(x)
    BY <1>5, <2>3, <2>6 DEF RightTask, Posted
  <2> QED
    BY <1>5, <2>3, <2>4, <2>5, <2>7 DEF Hopes, x
<1>6. CASE own = e /\ task.step \notin Posted
  <2>1. x = task
    BY <1>6 DEF Req!Informed, Posted
  <2> QED
    BY <1>1, <1>6, <2>1 DEF Hopes
<1> QED
  BY <1>3, <1>5, <1>6

\* The response of the search system, for a task that sleeps and one that does not.
LEMMA ResponseQueued ==
    ASSUME Req!RequestAssumption, Req!TypeOK, TaskInv, Req!Search
    PROVE  /\ search # <<>> /\ search' = Tail(search) /\ search' \in Seq(Req!Requests)
           /\ Head(search) \in Req!Requests /\ Elements(search) = Elements(search') \cup {Head(search)}
           /\ \E o \in Req!Outcomes :
                 /\ reliable => o = "success"
                 /\ doing' = [t \in Workers |-> IF doing[t] = NoJob THEN NoJob
                                                ELSE Req!Informed(doing[t], Head(search), o)]
           /\ \/ /\ jobs' = jobs /\ sleepers' = sleepers
                 /\ \A x \in sleepers : [agent |-> x.agent, req |-> x.req] # Head(search)
              \/ \E task \in Req!SearchTasks, w \in sleepers :
                    /\ jobs' = <<task>> \o jobs /\ sleepers' = sleepers \ {w}
                    /\ w.req = Head(search).req
                    /\ task.req = w.req /\ task.step = "handleResponse"
                    /\ RightTask(task)
<1>1. /\ search # <<>> /\ search' = Tail(search) /\ search' \in Seq(Req!Requests)
      /\ Head(search) \in Req!Requests /\ Elements(search) = Elements(search') \cup {Head(search)}
  <2>1. search # <<>> /\ search' = Tail(search)
    BY DEF Req!Search
  <2> QED
    BY <2>1, PopElements, TasksTyped
<1>2. PICK e : e = Head(search)
  OBVIOUS
<1>3. PICK o \in Req!Outcomes :
         /\ reliable => o = "success"
         /\ doing' = [t \in Workers |-> IF doing[t] = NoJob THEN NoJob ELSE Req!Informed(doing[t], e, o)]
         /\ \/ {x \in sleepers : x.agent = e.agent /\ x.req = e.req} = {}
               /\ UNCHANGED <<sleepers, jobs>>
            \/ \E w \in sleepers :
                  /\ w.agent = e.agent /\ w.req = e.req
                  /\ sleepers' = sleepers \ {w}
                  /\ jobs' = <<[w EXCEPT !.step = "handleResponse", !.result = o]>> \o jobs
  BY <1>2 DEF Req!Search
<1>4. CASE UNCHANGED <<sleepers, jobs>> /\ {x \in sleepers : x.agent = e.agent /\ x.req = e.req} = {}
  <2>1. \A x \in sleepers : [agent |-> x.agent, req |-> x.req] # e
    BY <1>4
  <2> QED
    BY <1>1, <1>2, <1>3, <1>4, <2>1
<1>5. ASSUME NEW w \in sleepers, w.agent = e.agent, w.req = e.req, sleepers' = sleepers \ {w},
             jobs' = <<[w EXCEPT !.step = "handleResponse", !.result = o]>> \o jobs
      PROVE  \E task \in Req!SearchTasks :
                    /\ jobs' = <<task>> \o jobs
                    /\ task.req = w.req /\ task.step = "handleResponse"
                    /\ RightTask(task)
  <2> DEFINE task == [w EXCEPT !.step = "handleResponse", !.result = o]
  <2>1. w \in Req!SearchTasks /\ RightTask(w) /\ w.step = "deferring"
    BY <1>5 DEF Req!TypeOK, TaskInv, AllTasks
  <2>2. /\ task \in Req!SearchTasks /\ task.req = w.req /\ task.agent = w.agent
        /\ task.step = "handleResponse" /\ task.result = o
    BY <2>1 DEF Req!SearchTasks
  <2> HIDE DEF task
  <2>3. RightResult(task)
    BY <1>3, <2>2 DEF RightResult
  <2>4. RightTask(task)
    BY <2>1, <2>2, <2>3 DEF RightTask
  <2> QED
    BY <1>5, <2>2, <2>4 DEF task
<1>6. CASE \E w \in sleepers :
                  /\ w.agent = e.agent /\ w.req = e.req
                  /\ sleepers' = sleepers \ {w}
                  /\ jobs' = <<[w EXCEPT !.step = "handleResponse", !.result = o]>> \o jobs
  <2>1. PICK w \in sleepers :
                  /\ w.agent = e.agent /\ w.req = e.req
                  /\ sleepers' = sleepers \ {w}
                  /\ jobs' = <<[w EXCEPT !.step = "handleResponse", !.result = o]>> \o jobs
    BY <1>6
  <2>2. PICK task \in Req!SearchTasks :
                    /\ jobs' = <<task>> \o jobs
                    /\ task.req = w.req /\ task.step = "handleResponse"
                    /\ RightTask(task)
    BY <1>5, <2>1
  <2> QED
    BY <1>1, <1>2, <1>3, <2>1, <2>2
<1> QED
  BY <1>3, <1>4, <1>6

\* The tasks in hand after a response.
LEMMA HandsInformed ==
    ASSUME Req!RequestAssumption, HoldInv, Req!Search
    PROVE  /\ doing' \in [Workers -> Req!Tasks \cup {NoJob}]
           /\ InHand' = InHand /\ HandsOnce'
           /\ \A u \in Workers : Busy(u)' <=> Busy(u)
           /\ \A u \in Workers : Busy(u) =>
                 /\ RightTask(doing'[u])
                 /\ doing'[u].req = doing[u].req /\ doing'[u].agent = doing[u].agent
                 /\ doing'[u].step = doing[u].step
                 /\ doing'[u].step \notin Posted => doing'[u] = doing[u]
                 /\ Hopes(doing'[u]) => Hopes(doing[u]) /\ Expected(doing[u])'
<1> USE DEF HoldInv
<1>1. PICK e \in Req!Requests, o \in Req!Outcomes :
         /\ reliable => o = "success"
         /\ Elements(search) = Elements(search') \cup {e}
         /\ doing' = [t \in Workers |-> IF doing[t] = NoJob THEN NoJob ELSE Req!Informed(doing[t], e, o)]
  BY ResponseQueued
<1>2. ASSUME NEW u \in Workers, Busy(u)
      PROVE  /\ doing'[u] = Req!Informed(doing[u], e, o)
             /\ doing'[u] \in Req!Tasks /\ doing'[u] # NoJob /\ RightTask(doing'[u])
             /\ doing'[u].req = doing[u].req /\ doing'[u].agent = doing[u].agent
             /\ doing'[u].step = doing[u].step
             /\ doing'[u].step \notin Posted => doing'[u] = doing[u]
             /\ Hopes(doing'[u]) => Hopes(doing[u]) /\ Expected(doing[u])'
  <2>1. doing[u] \in Req!Tasks /\ doing[u] \in Holding /\ RightTask(doing[u])
    BY <1>2, TasksTyped DEF TaskInv, AllTasks
  <2>2. doing'[u] = Req!Informed(doing[u], e, o)
    BY <1>1, <1>2 DEF Busy
  <2>3. Hopes(doing[u]) /\ [agent |-> doing[u].agent, req |-> doing[u].req] # e
           => [agent |-> doing[u].agent, req |-> doing[u].req] \in Elements(search')
    BY <1>1, <2>1 DEF HopeInv, Expected
  <2>4. doing'[u].req = doing[u].req /\ doing'[u].agent = doing[u].agent
        /\ (Hopes(doing'[u]) => Hopes(doing[u])
              /\ [agent |-> doing[u].agent, req |-> doing[u].req] # e)
    BY <1>1, <2>1, <2>2, InformedKept
  <2>5. Hopes(doing'[u]) => Hopes(doing[u]) /\ Expected(doing[u])'
    BY <2>3, <2>4 DEF Expected
  <2> QED
    BY <1>1, <2>1, <2>2, <2>5, InformedKept
<1>3. \A u \in Workers : ~Busy(u) => doing'[u] = NoJob
  BY <1>1 DEF Busy
<1>4. \A u \in Workers : Busy(u)' <=> Busy(u)
  BY <1>2, <1>3 DEF Busy
<1>5. doing' \in [Workers -> Req!Tasks \cup {NoJob}]
  <2>1. \A u \in Workers : doing'[u] \in Req!Tasks \cup {NoJob}
    BY <1>2, <1>3
  <2>2. doing' = [u \in Workers |-> doing'[u]]
    BY <1>1
  <2> QED
    BY <2>1, <2>2
<1>6. InHand' = InHand /\ HandsOnce'
  BY <1>2, <1>4, HandsAlike DEF OnceInv
<1> QED
  BY <1>2, <1>4, <1>5, <1>6

LEMMA HoldSearch ==
    ASSUME Req!RequestAssumption, HoldInv, Req!Search
    PROVE  HoldInv'
<1> USE DEF HoldInv
<1>0. UNCHANGED <<online, stage, reading, made, got, cleanGroup, untidy, home, threads, reliable>>
  BY DEF Req!Search, Req!leaving, Req!setting
<1>1. PICK e : e = Head(search)
  OBVIOUS
<1>2. /\ search' \in Seq(Req!Requests) /\ e \in Req!Requests
      /\ Elements(search) = Elements(search') \cup {e}
  BY <1>1, ResponseQueued
<1>3. /\ doing' \in [Workers -> Req!Tasks \cup {NoJob}]
      /\ InHand' = InHand /\ HandsOnce'
      /\ \A x \in Holding' : RightTask(x) /\ (Hopes(x) => Expected(x)')
  <2>1. ASSUME NEW x \in Holding'
        PROVE  RightTask(x) /\ (Hopes(x) => Expected(x)')
    <3>1. PICK u \in Workers : x = doing'[u] /\ Busy(u)'
      BY DEF Holding, Busy
    <3> QED
      BY <3>1, HandsInformed DEF Expected
  <2> QED
    BY <2>1, HandsInformed
<1>4. rows' \subseteq Agents \X {"service", "description"}
  <2>1. \A x \in Req!RowsAfter(e) \cup {rows} : x \subseteq Agents \X {"service", "description"}
    <3>1. e.agent \in Agents
      BY <1>2 DEF Req!Requests
    <3>2. \A o : Req!Model(o) \in {"service", "description"}
      BY DEF Req!Model
    <3>3. \A x \in Req!RowsAfter(e) : \A r \in x :
             r \in rows \/ r = <<e.agent, Req!Model(Req!Op(e))>>
      BY DEF Req!RowsAfter
    <3>4. rows \subseteq Agents \X {"service", "description"}
      BY DEF Req!TypeOK
    <3> QED
      BY <3>1, <3>2, <3>3, <3>4
  <2>2. rows' \in Req!RowsAfter(e) \cup {rows}
    BY <1>1 DEF Req!Search
  <2> QED
    BY <2>1, <2>2
<1>5. MessageInv' /\ \A x \in Req!Tasks : RightTask(x) => RightTask(x)'
  BY <1>0, RightKept
<1>6. Answered' = Answered
  BY <1>0 DEF Answered, Req!Received
<1>7. \A x : (Hopes(x)' <=> Hopes(x))
  BY DEF Hopes
<1>8. Holding' \subseteq Req!Tasks
  BY <1>3 DEF Holding
<1>9. ASSUME jobs' = jobs, sleepers' = sleepers,
             \A x \in sleepers : [agent |-> x.agent, req |-> x.req] # e
      PROVE  HoldInv'
  <2>1. Req!TypeOK'
    BY <1>0, <1>2, <1>3, <1>4, <1>9 DEF Req!TypeOK
  <2>2. TaskInv'
    <3>1. AllTasks' \subseteq AllTasks \cup Holding'
      BY <1>9 DEF AllTasks
    <3> QED
      BY <1>3, <1>5, <1>8, <1>9, <3>1, TasksTyped DEF TaskInv
  <2>3. OnceInv'
    BY <1>0, <1>3, <1>9 DEF OnceInv
  <2>4. ApartInv'
    BY <1>3, <1>6, <1>9 DEF ApartInv, Queued, Asleep
  <2>5. HopeInv'
    <3>1. \A x \in sleepers : Hopes(x) => Expected(x)'
      BY <1>2, <1>9 DEF HopeInv, Expected
    <3> QED
      BY <1>3, <1>7, <1>9, <3>1 DEF HopeInv
  <2> QED
    BY <1>5, <2>1, <2>2, <2>3, <2>4, <2>5
<1>10. ASSUME NEW task \in Req!SearchTasks, NEW w \in sleepers,
              jobs' = <<task>> \o jobs, sleepers' = sleepers \ {w}, w.req = e.req,
              task.req = w.req, task.step = "handleResponse", RightTask(task)
       PROVE  HoldInv'
  <2>0. task \in Req!Tasks /\ jobs \in Seq(Req!Tasks)
    BY TasksTyped DEF Req!Tasks
  <2>1. jobs' \in Seq(Req!Tasks) /\ Elements(jobs') = Elements(jobs) \cup {task}
    BY <1>10, <2>0, FrontPositions, FrontElements
  <2>2. Req!TypeOK'
    BY <1>0, <1>2, <1>3, <1>4, <1>10, <2>1 DEF Req!TypeOK
  <2>3. TaskInv'
    <3>1. AllTasks' \subseteq AllTasks \cup Holding' \cup {task}
      BY <1>10, <2>1 DEF AllTasks
    <3> QED
      BY <1>3, <1>5, <1>8, <1>10, <2>0, <2>1, <3>1, TasksTyped DEF TaskInv, Posted
  <2>4. task.req # 0 => task.req \in Asleep
    BY <1>10 DEF Asleep
  <2>5. OnceInv'
    <3>1. \A y \in Elements(jobs) : y.req = task.req => task.req = 0
      BY <2>4 DEF ApartInv, Queued
    <3>2. OnceEach(jobs')
      BY <1>10, <2>0, <3>1, FrontOnce DEF OnceInv
    <3> QED
      BY <1>0, <1>3, <1>10, <3>2 DEF OnceInv
  <2>6. ApartInv'
    <3>1. Queued' \subseteq Queued \cup {task.req} /\ 0 \notin Queued'
      BY <2>1 DEF Queued
    <3>2. task.req \notin Asleep' /\ Asleep' \subseteq Asleep
      BY <1>10 DEF Asleep, OnceInv
    <3>3. ASSUME NEW i \in Queued'
          PROVE  i \notin InHand' /\ i \notin Asleep' /\ i \notin Answered'
      BY <1>3, <1>6, <2>4, <3>1, <3>2 DEF ApartInv
    <3> QED
      BY <1>3, <1>6, <3>2, <3>3 DEF ApartInv
  <2>7. HopeInv'
    <3>1. ASSUME NEW x \in sleepers', Hopes(x)
          PROVE  Expected(x)'
      <4>1. x \in sleepers /\ x # w /\ x.req # 0
        BY <1>10, <3>1 DEF Hopes
      <4>2. x.req # w.req
        BY <4>1 DEF OnceInv
      <4>3. [agent |-> x.agent, req |-> x.req] # e
        BY <1>10, <4>2
      <4>4. Expected(x)
        BY <3>1, <4>1 DEF HopeInv
      <4> QED
        BY <1>2, <4>3, <4>4 DEF Expected
    <3> QED
      BY <1>3, <1>7, <3>1 DEF HopeInv
  <2> QED
    BY <1>5, <2>2, <2>3, <2>5, <2>6, <2>7
<1> QED
  BY <1>1, <1>9, <1>10, ResponseQueued

LEMMA HoldHandleResponse ==
    ASSUME Req!RequestAssumption, HoldInv, NEW t \in Workers, Req!HandleResponse(t)
    PROVE  HoldInv'
<1> USE DEF HoldInv
<1>0. UNCHANGED <<online, stage, reading, made, sleepers, search, rows, got, cleanGroup, untidy,
                  home, threads, reliable>>
  BY DEF Req!HandleResponse, Req!leaving, Req!setting
<1>1. PICK old : old = doing[t]
  OBVIOUS
<1>2. Busy(t) /\ Req!Ends(t)
  BY DEF Req!HandleResponse, Req!At, Busy
<1>3. /\ doing' \in [Workers -> Req!Tasks \cup {NoJob}]
      /\ Holding' \subseteq Holding
      /\ InHand' \subseteq InHand /\ old.req \notin InHand' /\ HandsOnce'
  BY <1>1, <1>2, HandsShrink DEF OnceInv
<1>4. MessageInv' /\ \A x \in Req!Tasks : RightTask(x) => RightTask(x)'
  BY <1>0, RightKept
<1>5. HopeInv'
  BY <1>0, <1>3 DEF HopeInv, Hopes, Expected
<1>6. Answered' = Answered /\ Asleep' = Asleep
  BY <1>0 DEF Answered, Asleep, Req!Received
<1>7. ASSUME jobs' = jobs
      PROVE  HoldInv'
  <2>1. Req!TypeOK'
    BY <1>0, <1>3, <1>7 DEF Req!TypeOK
  <2>2. TaskInv'
    <3>1. AllTasks' \subseteq AllTasks
      BY <1>0, <1>3, <1>7 DEF AllTasks
    <3> QED
      BY <1>0, <1>4, <1>7, <3>1, TasksTyped DEF TaskInv
  <2>3. OnceInv'
    BY <1>0, <1>3, <1>7 DEF OnceInv
  <2>4. ApartInv'
    BY <1>3, <1>6, <1>7 DEF ApartInv, Queued
  <2> QED
    BY <1>4, <1>5, <2>1, <2>2, <2>3, <2>4
<1>8. ASSUME NEW task \in Req!Tasks, jobs' = Append(jobs, task),
             old.req # 0, task.req = old.req, task.step = "send", RightTask(task)
      PROVE  HoldInv'
  <2>0. jobs \in Seq(Req!Tasks)
    BY DEF Req!TypeOK
  <2>1. Req!TypeOK'
    BY <1>0, <1>3, <1>8, <2>0 DEF Req!TypeOK
  <2>2. Elements(jobs') = Elements(jobs) \cup {task}
    BY <1>8, <2>0, PushElements
  <2>3. TaskInv'
    <3>1. AllTasks' \subseteq AllTasks \cup {task}
      BY <1>0, <1>3, <2>2 DEF AllTasks
    <3> QED
      BY <1>0, <1>4, <1>8, <2>2, <3>1, TasksTyped DEF TaskInv, Posted
  <2>4. task.req \in InHand
    BY <1>1, <1>2, <1>8 DEF InHand
  <2>5. OnceInv'
    <3>1. \A y \in Elements(jobs) : y.req = task.req => task.req = 0
      BY <2>4 DEF ApartInv, Queued
    <3>2. OnceEach(jobs')
      BY <1>8, <2>0, <3>1, PushOnce DEF OnceInv
    <3> QED
      BY <1>0, <1>3, <3>2 DEF OnceInv
  <2>6. ApartInv'
    <3>1. Queued' \subseteq Queued \cup {task.req}
      BY <2>2 DEF Queued
    <3>2. ASSUME NEW i \in Queued'
          PROVE  i \notin InHand' /\ i \notin Asleep' /\ i \notin Answered'
      BY <1>3, <1>6, <1>8, <2>4, <3>1 DEF ApartInv
    <3> QED
      BY <1>3, <1>6, <3>2 DEF ApartInv
  <2> QED
    BY <1>4, <1>5, <2>1, <2>3, <2>5, <2>6
<1> QED
  BY <1>1, <1>7, <1>8, OneAnswerMade

LEMMA HoldRunSend ==
    ASSUME Req!RequestAssumption, HoldInv, NEW t \in Workers, Req!RunSend(t)
    PROVE  HoldInv'
<1> USE DEF HoldInv
<1>0. UNCHANGED <<online, stage, reading, made, jobs, sleepers, search, rows, cleanGroup, untidy,
                  home, threads, reliable>>
  BY DEF Req!RunSend, Req!leaving, Req!setting
<1>1. PICK task : task = doing[t]
  OBVIOUS
<1>2. Busy(t) /\ Req!Ends(t) /\ task.step = "send"
  BY <1>1 DEF Req!RunSend, Req!At, Busy
<1>3. task \in Req!Tasks /\ task \in Req!SendTasks /\ RightTask(task)
  <2>1. task \in Req!Tasks
    BY <1>1, <1>2 DEF Req!TypeOK, Busy
  <2>2. task \in AllTasks
    BY <1>1, <1>2 DEF AllTasks, Holding, Busy
  <2> QED
    BY <1>2, <2>1, <2>2, TaskShape DEF TaskInv
<1>4. /\ doing' \in [Workers -> Req!Tasks \cup {NoJob}]
      /\ Holding' \subseteq Holding
      /\ InHand' \subseteq InHand /\ task.req \notin InHand' /\ HandsOnce'
  BY <1>1, <1>2, HandsShrink DEF OnceInv
<1>5. \A x \in Req!Tasks : RightTask(x) => RightTask(x)'
  BY <1>0, RightKept
<1>6. TaskInv'
  <2>1. AllTasks' \subseteq AllTasks
    BY <1>0, <1>4 DEF AllTasks
  <2> QED
    BY <1>0, <1>5, <2>1, TasksTyped DEF TaskInv
<1>7. Queued' = Queued /\ Asleep' = Asleep
  BY <1>0 DEF Queued, Asleep
<1>10. HopeInv'
  BY <1>0, <1>4 DEF HopeInv, Hopes, Expected
<1>8. ASSUME got' = got
      PROVE  HoldInv'
  <2>1. Req!TypeOK' /\ OnceInv'
    BY <1>0, <1>4, <1>8 DEF Req!TypeOK, OnceInv
  <2>2. MessageInv'
    BY <1>0, <1>8 DEF MessageInv, RightMessage, Req!Received
  <2>3. ApartInv'
    BY <1>4, <1>7, <1>8 DEF ApartInv, Answered, Req!Received
  <2> QED
    BY <1>6, <1>10, <2>1, <2>2, <2>3
<1>9. ASSUME got' = [got EXCEPT ![task.agent] = Append(@, task.msg)]
      PROVE  HoldInv'
  <2>1. PICK a : a = task.agent
    OBVIOUS
  <2>2. PICK m : m = task.msg
    OBVIOUS
  <2>3. a \in Agents /\ m \in Req!Messages /\ task.req \in Req!Ids /\ task.req # 0
    BY <1>3, <2>1, <2>2 DEF Req!SendTasks, Req!Ids, Req!RequestAssumption
  <2>4. m.id = task.req
    BY <1>2, <1>3, <2>2 DEF RightTask
  <2>5. got[a] \in Seq(Req!Messages)
    BY <2>3 DEF Req!TypeOK
  <2>6. /\ got' \in [Agents -> Seq(Req!Messages)]
        /\ got'[a] = Append(got[a], m)
        /\ \A b \in Agents : b # a => got'[b] = got[b]
    BY <1>9, <2>1, <2>2, <2>3, <2>5 DEF Req!TypeOK
  <2>7. /\ DOMAIN got'[a] = DOMAIN got[a] \cup {Len(got[a]) + 1}
        /\ \A k \in DOMAIN got[a] : got'[a][k] = got[a][k]
        /\ got'[a][Len(got[a]) + 1] = m
    BY <2>3, <2>5, <2>6
  <2>8. /\ \A b \in Agents : b # a => Req!Received(b)' = Req!Received(b)
        /\ Req!Received(a)' = Req!Received(a) \cup {m}
    BY <2>6, <2>7 DEF Req!Received
  <2>9. Req!TypeOK'
    BY <1>0, <1>4, <2>6 DEF Req!TypeOK
  <2>10. RightMessage(a, m)
    BY <1>2, <1>3, <2>1, <2>2, <2>3 DEF RightTask, RightMessage
  <2>11. MessageInv'
    <3>1. \A b \in Agents : \A n \in Req!Received(b)' : RightMessage(b, n)
      BY <2>8, <2>10 DEF MessageInv
    <3>2. \A b \in Agents : \A n : RightMessage(b, n) => RightMessage(b, n)'
      BY <1>0 DEF RightMessage
    <3> QED
      BY <3>1, <3>2 DEF MessageInv
  <2>12. task.req \in InHand
    BY <1>1, <1>2, <2>3 DEF InHand
  <2>13. \A b \in Agents : \A k \in DOMAIN got[b] : got[b][k].id # m.id
    BY <2>4, <2>12 DEF ApartInv, Answered, Req!Received
  <2>14. OnceInv'
    <3>0. ASSUME NEW b \in Agents, NEW k \in DOMAIN got'[b]
          PROVE  \/ b = a /\ k = Len(got[a]) + 1 /\ got'[b][k] = m
                 \/ k \in DOMAIN got[b] /\ got'[b][k] = got[b][k]
      <4>1. CASE b = a
        BY <2>7, <4>1
      <4>2. CASE b # a
        BY <2>6, <4>2
      <4> QED
        BY <4>1, <4>2
    <3>1. ASSUME NEW b \in Agents, NEW c \in Agents, NEW k \in DOMAIN got'[b], NEW l \in DOMAIN got'[c],
                 got'[b][k].id = got'[c][l].id
          PROVE  b = c /\ k = l
      BY <2>13, <3>0, <3>1 DEF OnceInv
    <3> QED
      BY <1>0, <1>4, <3>1 DEF OnceInv
  <2>15. ApartInv'
    <3>1. Answered' = Answered \cup {task.req}
      BY <2>3, <2>4, <2>8 DEF Answered
    <3>2. task.req \notin Queued /\ task.req \notin Asleep
      BY <2>12 DEF ApartInv
    <3> QED
      BY <1>4, <1>7, <3>1, <3>2 DEF ApartInv
  <2> QED
    BY <1>6, <1>10, <2>9, <2>11, <2>14, <2>15
<1> QED
  BY <1>1, <1>8, <1>9 DEF Req!RunSend

\* Steps that leave the tasks and their requests alone.
LEMMA HoldStill ==
    ASSUME Req!RequestAssumption, HoldInv, Req!TypeOK',
           UNCHANGED <<made, jobs, doing, sleepers, search, got, reliable>>
    PROVE  HoldInv'
<1> USE DEF HoldInv
<1>1. MessageInv'
  BY DEF MessageInv, RightMessage, Req!Received
<1>2. TaskInv'
  <2>1. \A x : RightTask(x) => RightTask(x)'
    BY DEF RightTask, RightResult
  <2>2. AllTasks' = AllTasks
    BY DEF AllTasks, Holding
  <2> QED
    BY <2>1, <2>2 DEF TaskInv
<1>3. OnceInv'
  BY DEF OnceInv, HandsOnce, Busy
<1>4. ApartInv'
  <2>1. Queued' = Queued /\ InHand' = InHand /\ Asleep' = Asleep /\ Answered' = Answered
    BY DEF Queued, InHand, Asleep, Answered, Req!Received, Busy
  <2> QED
    BY <2>1 DEF ApartInv
<1>5. HopeInv'
  BY DEF HopeInv, Hopes, Expected, Holding
<1> QED
  BY <1>1, <1>2, <1>3, <1>4, <1>5

LEMMA HoldEnd ==
    ASSUME Req!RequestAssumption, HoldInv, NEW a \in Agents,
           Req!EndConnection(a) \/ Req!Remove(a) \/ Req!RegroupCleanup(a)
    PROVE  HoldInv'
<1>1. UNCHANGED <<made, jobs, doing, sleepers, search, got, reliable>>
  BY DEF Req!EndConnection, Req!Remove, Req!RegroupCleanup, Req!others, Req!setting
<1>2. Req!TypeOK'
  <2>1. stage' \in [Agents -> Req!Stages]
    BY DEF HoldInv, Req!TypeOK, Req!EndConnection, Req!Remove, Req!RegroupCleanup, Req!Passes,
           Req!Stages
  <2>2. online' \subseteq Agents /\ reading' \subseteq Agents /\ untidy' = untidy
    BY DEF HoldInv, Req!TypeOK, Req!EndConnection, Req!Remove, Req!RegroupCleanup
  <2>3. cleanGroup' \in [Agents -> Groups \cup {Req!NoGroup}]
    BY DEF HoldInv, Req!TypeOK, Req!EndConnection, Req!Remove, Req!RegroupCleanup, Req!Regrouped
  <2>4. UNCHANGED <<rows, home, threads>>
    BY DEF Req!EndConnection, Req!Remove, Req!RegroupCleanup, Req!others, Req!setting
  <2> QED
    BY <1>1, <2>1, <2>2, <2>3, <2>4 DEF HoldInv, Req!TypeOK
<1> QED
  BY <1>1, <1>2, HoldStill

\* The close handler's clean-up.
LEMMA CleanupTask ==
    ASSUME Req!RequestAssumption, NEW a \in Agents
    PROVE  LET x == Req!SearchTask(a, 0)
           IN  /\ x \in Req!SearchTasks /\ x \in Req!Tasks
               /\ x.req = 0 /\ x.agent = a /\ x.step = "createConv" /\ x.result = "none"
  BY DEF Req!SearchTask, Req!SearchTasks, Req!Tasks, Req!Outcomes

LEMMA HoldSubmitCleanup ==
    ASSUME Req!RequestAssumption, HoldInv, NEW a \in Agents, Req!SubmitCleanup(a)
    PROVE  HoldInv'
<1> USE DEF HoldInv
<1>0. UNCHANGED <<online, reading, untidy, made, doing, sleepers, search, rows, got, home, threads,
                  reliable>>
  BY DEF Req!SubmitCleanup, Req!others, Req!setting
<1>1. PICK x \in Req!Tasks : /\ jobs' = Append(jobs, x)
                             /\ x.req = 0 /\ x.step = "createConv" /\ x.result = "none"
  BY CleanupTask DEF Req!SubmitCleanup
<1>2. jobs' \in Seq(Req!Tasks) /\ Elements(jobs') = Elements(jobs) \cup {x}
  BY <1>1, PushElements, TasksTyped
<1>3. Req!TypeOK'
  <2>1. stage' \in [Agents -> Req!Stages]
    BY DEF Req!TypeOK, Req!SubmitCleanup, Req!Passes, Req!Stages
  <2>2. cleanGroup' \in [Agents -> Groups \cup {Req!NoGroup}]
    BY DEF Req!TypeOK, Req!SubmitCleanup
  <2> QED
    BY <1>0, <1>2, <2>1, <2>2 DEF Req!TypeOK
<1>4. MessageInv' /\ \A y \in Req!Tasks : RightTask(y) => RightTask(y)'
  BY <1>0, RightKept
<1>5. TaskInv'
  <2>1. AllTasks' \subseteq AllTasks \cup {x}
    BY <1>0, <1>2 DEF AllTasks, Holding
  <2>2. RightTask(x)'
    BY <1>1 DEF RightTask, RightResult, Req!Outcomes
  <2> QED
    BY <1>0, <1>1, <1>2, <1>4, <2>1, <2>2, TasksTyped DEF TaskInv, Posted
<1>6. OnceInv'
  <2>1. OnceEach(jobs')
    BY <1>1, PushOnce, TasksTyped DEF OnceInv
  <2>2. HandsOnce'
    BY <1>0 DEF OnceInv, HandsOnce, Busy
  <2> QED
    BY <1>0, <2>1, <2>2 DEF OnceInv
<1>7. ApartInv'
  <2>1. Queued' \subseteq Queued
    BY <1>1, <1>2 DEF Queued
  <2>2. InHand' = InHand /\ Asleep' = Asleep /\ Answered' = Answered
    BY <1>0 DEF InHand, Asleep, Answered, Busy, Req!Received
  <2> QED
    BY <2>1, <2>2 DEF ApartInv
<1>8. HopeInv'
  BY <1>0 DEF HopeInv, Hopes, Expected, Holding
<1> QED
  BY <1>3, <1>4, <1>5, <1>6, <1>7, <1>8

\* What the end of an agent takes from the queue.
LEMMA GroupErased ==
    ASSUME Req!RequestAssumption, Req!TypeOK, NEW a \in Agents, Req!CancelGroup(a)
    PROVE  \E K \in SUBSET Req!Tasks :
              /\ \A x \in K : x \in AllTasks /\ Req!GroupOf(x) = home[a]
              /\ jobs' = Erase(jobs, K) /\ jobs' \in Seq(Req!Tasks)
              /\ Elements(jobs') = Elements(jobs) \ K
              /\ sleepers' = sleepers \ K
              /\ untidy' = untidy \cup {b \in Agents \ {a} : \E x \in K : x.req = 0 /\ x.agent = b}
<1> DEFINE K == {x \in Elements(jobs) \cup sleepers : Req!GroupOf(x) = home[a]}
<1>1. /\ jobs' = Erase(jobs, K) /\ sleepers' = sleepers \ K
      /\ untidy' = untidy \cup {b \in Agents \ {a} : \E x \in K : x.req = 0 /\ x.agent = b}
  BY SameLists DEF Req!CancelGroup
<1>2. K \in SUBSET Req!Tasks /\ \A x \in K : x \in AllTasks /\ Req!GroupOf(x) = home[a]
  BY TasksTyped DEF AllTasks
<1> HIDE DEF K
<1>3. jobs' \in Seq(Req!Tasks) /\ Elements(jobs') = Elements(jobs) \ K
  BY <1>1, EraseCorrect, TasksTyped
<1> QED
  BY <1>1, <1>2, <1>3

LEMMA HoldCancelGroup ==
    ASSUME Req!RequestAssumption, HoldInv, NEW a \in Agents, Req!CancelGroup(a)
    PROVE  HoldInv'
<1> USE DEF HoldInv
<1>0. UNCHANGED <<online, reading, made, doing, search, rows, got, cleanGroup, home, threads,
                  reliable>>
  BY DEF Req!CancelGroup, Req!setting
<1>1. PICK K \in SUBSET Req!Tasks :
              /\ jobs' = Erase(jobs, K) /\ jobs' \in Seq(Req!Tasks)
              /\ Elements(jobs') = Elements(jobs) \ K
              /\ sleepers' = sleepers \ K
              /\ untidy' = untidy \cup {b \in Agents \ {a} : \E x \in K : x.req = 0 /\ x.agent = b}
  BY GroupErased
<1>2. Req!TypeOK'
  <2>1. stage' \in [Agents -> Req!Stages]
    BY DEF Req!TypeOK, Req!CancelGroup, Req!Passes, Req!Stages
  <2> QED
    BY <1>0, <1>1, <2>1 DEF Req!TypeOK
<1>3. MessageInv' /\ \A y \in Req!Tasks : RightTask(y) => RightTask(y)'
  BY <1>0, RightKept
<1>4. TaskInv'
  <2>1. AllTasks' \subseteq AllTasks
    BY <1>0, <1>1 DEF AllTasks, Holding
  <2> QED
    BY <1>1, <1>3, <2>1, TasksTyped DEF TaskInv
<1>5. OnceInv'
  <2>1. OnceEach(jobs')
    BY <1>1, EraseEach, TasksTyped DEF OnceInv
  <2>2. HandsOnce'
    BY <1>0 DEF OnceInv, HandsOnce, Busy
  <2> QED
    BY <1>0, <1>1, <2>1, <2>2 DEF OnceInv
<1>6. ApartInv'
  <2>1. Queued' \subseteq Queued /\ Asleep' \subseteq Asleep
    BY <1>1 DEF Queued, Asleep
  <2>2. InHand' = InHand /\ Answered' = Answered
    BY <1>0 DEF InHand, Answered, Busy, Req!Received
  <2> QED
    BY <2>1, <2>2 DEF ApartInv
<1>7. HopeInv'
  BY <1>0, <1>1 DEF HopeInv, Hopes, Expected, Holding
<1> QED
  BY <1>2, <1>3, <1>4, <1>5, <1>6, <1>7

\* Every step keeps a request in one place.
LEMMA HoldStep ==
    ASSUME Req!RequestAssumption, HoldInv, [Req!Next]_(Req!vars)
    PROVE  HoldInv'
<1>1. CASE Req!Next
  BY <1>1, HoldProcess, HoldTake, HoldPost, HoldMakeNotification, HoldTestWaiting, HoldSuspend,
         HoldSearch, HoldHandleResponse, HoldRunSend, HoldEnd, HoldSubmitCleanup, HoldCancelGroup
     DEF Req!Next, Req!ThreadStep, Req!Leave
<1>2. CASE UNCHANGED Req!vars
  <2>1. Req!TypeOK'
    BY <1>2 DEF HoldInv, Req!TypeOK, Req!vars
  <2> QED
    BY <1>2, <2>1, HoldStill DEF Req!vars
<1> QED
  BY <1>1, <1>2

-----------------------------------------------------------------------------
(* Requests of agents: queries *)

\* What QueryInv says of request i.
Cared(i) ==
    \/ i \in Queued \cup InHand \cup Asleep
    \/ \E m \in Req!Received(made[i].from) : m.id = i

\* No connection comes back, and the program keeps its threads and groups.
LEMMA StagesGo ==
    ASSUME Req!TypeOK, [Req!Next]_(Req!vars)
    PROVE  /\ UNCHANGED <<home, threads, reliable>>
           /\ \A a \in Agents : /\ Req!Up(a)' => Req!Up(a)
                                /\ stage[a] = "left" => stage'[a] = "left"
<1>1. UNCHANGED <<home, threads, reliable>>
  BY DEF Req!Next, Req!ThreadStep, Req!Leave, Req!ProcessMessage, Req!Take, Req!Post,
         Req!MakeNotification, Req!TestWaiting, Req!Suspend, Req!Search, Req!HandleResponse,
         Req!RunSend, Req!EndConnection, Req!Remove, Req!SubmitCleanup, Req!RegroupCleanup,
         Req!CancelGroup, Req!others, Req!setting, Req!vars
<1>2. \/ stage' = stage
      \/ \E b \in Agents, s \in Req!Stages \ {"up"} : stage[b] # "left" /\ stage' = [stage EXCEPT ![b] = s]
  <2>1. ASSUME NEW b \in Agents, NEW from \in Req!Stages \ {"left"}, NEW to \in Req!Stages \ {"up"},
               Req!Passes(b, from, to)
        PROVE  \E s \in Req!Stages \ {"up"} : stage[b] # "left" /\ stage' = [stage EXCEPT ![b] = s]
    BY <2>1 DEF Req!Passes
  <2>2. ASSUME NEW b \in Agents, Req!Leave(b)
        PROVE  \E from \in Req!Stages \ {"left"}, to \in Req!Stages \ {"up"} : Req!Passes(b, from, to)
    <3>1. \/ Req!Passes(b, "up", "remove") \/ Req!Passes(b, "up", "refused")
          \/ Req!Passes(b, "remove", "submit") \/ Req!Passes(b, "submit", "regroup")
          \/ Req!Passes(b, "regroup", "cancel") \/ Req!Passes(b, "cancel", "left")
      BY <2>2 DEF Req!Leave, Req!EndConnection, Req!Remove, Req!SubmitCleanup, Req!RegroupCleanup,
                  Req!CancelGroup
    <3> QED
      BY <3>1 DEF Req!Stages
  <2>3. (\E b \in Agents : Req!Leave(b)) \/ stage' = stage
    BY DEF Req!Next, Req!ThreadStep, Req!ProcessMessage, Req!Take, Req!Post,
         Req!MakeNotification, Req!TestWaiting, Req!Suspend, Req!Search, Req!HandleResponse,
         Req!RunSend, Req!leaving, Req!vars
  <2> QED
    BY <2>1, <2>2, <2>3
<1>3. stage \in [Agents -> Req!Stages]
  BY DEF Req!TypeOK
<1> QED
  BY <1>1, <1>2, <1>3 DEF Req!Up

\* With a reliable search system no step loses a query of an agent that stays.
LEMMA QueryStep ==
    ASSUME Req!RequestAssumption, HoldInv, QueryInv, [Req!Next]_(Req!vars)
    PROVE  QueryInv'
<1> USE DEF HoldInv
<1>0. ASSUME NEW i \in DOMAIN made
      PROVE  made[i] \in Requests /\ i \in Nat \ {0}
  <2>1. made \in Seq(Requests)
    BY DEF Req!TypeOK, Requests
  <2> QED
    BY <2>1
<1>1. made' = made \/ \E r \in Requests : made' = Append(made, r)
  BY DEF Req!Next, Req!ThreadStep, Req!Leave, Req!ProcessMessage, Req!Take, Req!Post,
         Req!MakeNotification, Req!TestWaiting, Req!Suspend, Req!Search, Req!HandleResponse,
         Req!RunSend, Req!EndConnection, Req!Remove, Req!SubmitCleanup, Req!RegroupCleanup,
         Req!CancelGroup, Req!others, Req!vars, Requests
<1>2. HoldInv'
  BY HoldStep
<1> SUFFICES ASSUME reliable, NEW i \in DOMAIN made', NEW c, c = made'[i].from,
                    made'[i].op \in Req!Queries, Req!Up(c)', ~Req!Cancellable(c)'
             PROVE  Cared(i)'
  BY StagesGo DEF QueryInv, Cared
<1>3. c \in Agents
  <2>1. made' \in Seq(Requests)
    BY <1>2 DEF Req!TypeOK, Requests
  <2>2. made'[i] \in Requests
    BY <2>1
  <2> QED
    BY <2>2 DEF Requests
<1>4. Req!Up(c) /\ ~Req!Cancellable(c)
  BY <1>3, StagesGo DEF Req!Cancellable
<1>5. ASSUME NEW a \in Agents, NEW op \in Operations, NEW b \in Agents, Req!ProcessMessage(a, op, b)
      PROVE  Cared(i)'
  <2>0. UNCHANGED <<doing, sleepers, search, got>>
    BY <1>5 DEF Req!ProcessMessage
  <2>1. PICK task \in Req!Tasks : jobs' = Append(jobs, task) /\ task.req = Len(made) + 1
    BY <1>5, OneTaskMade
  <2>2. PICK r \in Requests : made' = Append(made, r)
    BY <1>5 DEF Req!ProcessMessage, Requests
  <2>3. Elements(jobs') = Elements(jobs) \cup {task}
    BY <2>1, PushElements, TasksTyped
  <2>4. CASE i \in DOMAIN made
    <3>1. made'[i] = made[i]
      BY <2>2, <2>4 DEF Req!TypeOK
    <3>2. Cared(i)
      BY <1>4, <2>4, <3>1 DEF QueryInv, Cared
    <3>3. Queued \subseteq Queued' /\ InHand' = InHand /\ Asleep' = Asleep
      BY <2>0, <2>3 DEF Queued, InHand, Asleep, Busy
    <3> QED
      BY <2>0, <3>1, <3>2, <3>3 DEF Cared, Req!Received
  <2>5. CASE i \notin DOMAIN made
    <3>1. i = task.req /\ i # 0
      BY <2>1, <2>2, <2>5 DEF Req!TypeOK
    <3>2. i \in Queued'
      BY <2>3, <3>1 DEF Queued
    <3> QED
      BY <3>2 DEF Cared
  <2> QED
    BY <2>4, <2>5
<1> SUFFICES ASSUME made' = made
             PROVE  Cared(i)'
  <2>1. CASE \E a, b \in Agents, op \in Operations : Req!ProcessMessage(a, op, b)
    BY <1>5, <2>1
  <2>2. CASE ~\E a, b \in Agents, op \in Operations : Req!ProcessMessage(a, op, b)
    <3>1. made' = made
      BY <2>2 DEF Req!Next, Req!ThreadStep, Req!Leave, Req!Take, Req!Post,
         Req!MakeNotification, Req!TestWaiting, Req!Suspend, Req!Search, Req!HandleResponse,
         Req!RunSend, Req!EndConnection, Req!Remove, Req!SubmitCleanup, Req!RegroupCleanup,
         Req!CancelGroup, Req!others, Req!vars
    <3> QED
      BY <3>1
  <2> QED
    BY <2>1, <2>2
<1>6. Cared(i) /\ i # 0 /\ i \in DOMAIN made /\ made[i].op \in Req!Queries /\ c = made[i].from
  BY <1>0, <1>4 DEF QueryInv, Cared
<1>7. ASSUME NEW t \in Workers, Req!Take(t)
      PROVE  Cared(i)'
  <2>1. /\ doing[t] = NoJob /\ jobs # <<>>
        /\ doing' = [doing EXCEPT ![t] = Head(jobs)] /\ jobs' = Tail(jobs)
        /\ UNCHANGED <<sleepers, search, got>>
    BY <1>7 DEF Req!Take
  <2>2. Head(jobs) \in Req!Tasks /\ Elements(jobs) = Elements(jobs') \cup {Head(jobs)}
    BY <2>1, PopElements, TasksTyped
  <2>3. doing'[t] = Head(jobs) /\ \A u \in Workers : u # t => doing'[u] = doing[u]
    BY <2>1 DEF Req!TypeOK
  <2>4. Head(jobs) # NoJob
    BY <2>2, TaskShape
  <2>5. Queued \cup InHand \subseteq (Queued \cup InHand)'
    BY <2>1, <2>2, <2>3, <2>4 DEF Queued, InHand, Busy
  <2>6. Asleep' = Asleep
    BY <2>1 DEF Asleep
  <2> QED
    BY <1>6, <2>1, <2>5, <2>6 DEF Cared, Req!Received
<1>8. ASSUME NEW t \in Workers, Busy(t), Req!Ends(t)
      PROVE  i \in InHand => i \in InHand' \/ i = doing[t].req
  BY <1>8, HandsShrink DEF OnceInv
<1>9. ASSUME NEW t \in Workers, Req!Suspend(t)
      PROVE  Cared(i)'
  <2>1. /\ Busy(t) /\ Req!Ends(t) /\ sleepers' = sleepers \cup {doing[t]} /\ UNCHANGED <<jobs, got>>
    BY <1>9 DEF Req!Suspend, Req!At, Busy
  <2>2. Queued' = Queued
    BY <2>1 DEF Queued
  <2>3. Asleep \subseteq Asleep' /\ (i = doing[t].req => i \in Asleep')
    BY <1>6, <2>1 DEF Asleep
  <2> QED
    BY <1>6, <1>8, <2>1, <2>2, <2>3 DEF Cared, Req!Received
<1>10. ASSUME NEW t \in Workers, Req!HandleResponse(t)
       PROVE  Cared(i)'
  <2>1. Busy(t) /\ Req!Ends(t) /\ UNCHANGED <<sleepers, search, got>>
    BY <1>10 DEF Req!HandleResponse, Req!At, Busy
  <2>2. Queued \subseteq Queued'
    <3>1. ASSUME NEW task \in Req!Tasks, jobs' = Append(jobs, task)
          PROVE  Queued \subseteq Queued'
      <4>1. Elements(jobs') = Elements(jobs) \cup {task}
        BY <3>1, PushElements, TasksTyped
      <4> QED
        BY <4>1 DEF Queued
    <3>2. ASSUME jobs' = jobs
          PROVE  Queued \subseteq Queued'
      BY <3>2 DEF Queued
    <3> QED
      BY <1>10, <3>1, <3>2, OneAnswerMade
  <2>3. ASSUME i = doing[t].req
        PROVE  i \in Queued'
    <3>1. PICK task \in Req!Tasks : jobs' = Append(jobs, task) /\ task.req = doing[t].req
      BY <1>6, <1>10, <2>3, OneAnswerMade
    <3>2. Elements(jobs') = Elements(jobs) \cup {task}
      BY <3>1, PushElements, TasksTyped
    <3> QED
      BY <1>6, <2>3, <3>1, <3>2 DEF Queued
  <2>4. Asleep' = Asleep
    BY <2>1 DEF Asleep
  <2> QED
    BY <1>6, <1>8, <2>1, <2>2, <2>3, <2>4 DEF Cared, Req!Received
<1>11. ASSUME NEW t \in Workers, Req!RunSend(t)
       PROVE  Cared(i)'
  <2>1. Busy(t) /\ Req!Ends(t) /\ UNCHANGED <<jobs, sleepers, search>>
    BY <1>11 DEF Req!RunSend, Req!At, Busy
  <2>2. Queued' = Queued /\ Asleep' = Asleep
    BY <2>1 DEF Queued, Asleep
  <2>3. PICK task : task = doing[t]
    OBVIOUS
  <2>4. /\ task \in Req!Tasks /\ task \in AllTasks /\ task.step = "send"
        /\ got' = IF Req!Up(task.agent) THEN [got EXCEPT ![task.agent] = Append(@, task.msg)] ELSE got
    BY <1>11, <2>1, <2>3, TasksTyped DEF Req!RunSend, Req!At, AllTasks
  <2>5. task \in Req!SendTasks /\ RightTask(task) /\ task.agent \in Agents
    BY <2>4, TaskShape DEF TaskInv
  <2>6. \A b \in Agents : Req!Received(b) \subseteq Req!Received(b)'
    <3>1. CASE ~Req!Up(task.agent)
      BY <2>4, <3>1 DEF Req!Received
    <3>2. CASE Req!Up(task.agent)
      <4>1. ASSUME NEW b \in Agents, NEW k \in DOMAIN got[b]
            PROVE  k \in DOMAIN got'[b] /\ got'[b][k] = got[b][k]
        <5>1. got[b] \in Seq(Req!Messages) /\ got \in [Agents -> Seq(Req!Messages)]
          BY DEF Req!TypeOK
        <5>2. CASE b # task.agent
          BY <2>4, <3>2, <5>1, <5>2
        <5>3. CASE b = task.agent
          <6>1. got'[b] = Append(got[b], task.msg)
            BY <2>4, <2>5, <3>2, <5>1, <5>3
          <6> QED
            BY <5>1, <6>1
        <5> QED
          BY <5>2, <5>3
      <4> QED
        BY <4>1 DEF Req!Received
    <3> QED
      BY <3>1, <3>2
  <2>7. ASSUME i = task.req
        PROVE  \E m \in Req!Received(c)' : m.id = i
    <3>1. task.msg.id = i /\ task.agent = c
      BY <1>6, <2>4, <2>5, <2>7 DEF RightTask, Req!Queries
    <3>2. got[c] \in Seq(Req!Messages) /\ got'[c] = Append(got[c], task.msg)
      BY <1>3, <1>4, <2>4, <3>1 DEF Req!TypeOK
    <3>3. Len(got[c]) + 1 \in DOMAIN got'[c] /\ got'[c][Len(got[c]) + 1] = task.msg
      BY <3>2
    <3> QED
      BY <3>1, <3>3 DEF Req!Received
  <2>8. (\E m \in Req!Received(c)' : m.id = i) => Cared(i)'
    BY <1>6 DEF Cared, Req!Received
  <2>9. (\E m \in Req!Received(c) : m.id = i) => Cared(i)'
    BY <1>3, <2>6, <2>8
  <2>10. i \in Queued \cup InHand \cup Asleep => Cared(i)'
    BY <1>8, <2>1, <2>2, <2>3, <2>7, <2>8 DEF Cared
  <2> QED
    BY <1>6, <2>9, <2>10 DEF Cared
<1>12. ASSUME Req!Search
       PROVE  Cared(i)'
  <2>1. got' = got
    BY <1>12 DEF Req!Search
  <2>2. InHand' = InHand
    BY <1>12, HandsInformed
  <2>3. CASE jobs' = jobs /\ sleepers' = sleepers
    BY <1>6, <2>1, <2>2, <2>3 DEF Cared, Queued, Asleep, Req!Received
  <2>4. ASSUME NEW task \in Req!SearchTasks, NEW w \in sleepers, jobs' = <<task>> \o jobs,
               sleepers' = sleepers \ {w}, task.req = w.req
        PROVE  Cared(i)'
    <3>1. Elements(jobs') = Elements(jobs) \cup {task}
      BY <2>4, FrontElements, TasksTyped DEF Req!Tasks
    <3>2. Queued \subseteq Queued' /\ (i = w.req => i \in Queued')
      BY <1>6, <2>4, <3>1 DEF Queued
    <3>3. i \in Asleep => i = w.req \/ i \in Asleep'
      BY <2>4 DEF Asleep
    <3> QED
      BY <1>6, <2>1, <2>2, <3>2, <3>3 DEF Cared, Req!Received
  <2> QED
    BY <1>12, <2>3, <2>4, ResponseQueued
<1>13. ASSUME NEW a \in Agents, Req!CancelGroup(a)
       PROVE  Cared(i)'
  <2>1. UNCHANGED <<doing, got>> /\ stage'[a] = "left" /\ home' = home
    BY <1>13 DEF Req!CancelGroup, Req!Passes, Req!TypeOK, Req!setting
  <2>2. PICK K \in SUBSET Req!Tasks :
              /\ \A x \in K : Req!GroupOf(x) = home[a]
              /\ Elements(jobs') = Elements(jobs) \ K
              /\ sleepers' = sleepers \ K
    BY <1>13, GroupErased
  <2>3. home[c] # home[a]
    BY <2>1 DEF Req!Cancellable
  <2>4. \A x \in AllTasks : x.req = i => x \notin K
    BY <1>6, <2>2, <2>3 DEF Req!GroupOf
  <2>5. (i \in Queued => i \in Queued') /\ (i \in Asleep => i \in Asleep')
    BY <2>2, <2>4 DEF Queued, Asleep, AllTasks
  <2>6. InHand' = InHand
    BY <2>1 DEF InHand, Busy
  <2> QED
    BY <1>6, <2>1, <2>5, <2>6 DEF Cared, Req!Received
<1>14. ASSUME NEW a \in Agents, Req!SubmitCleanup(a)
       PROVE  Cared(i)'
  <2>1. UNCHANGED <<doing, sleepers, got>> /\ jobs' = Append(jobs, Req!SearchTask(a, 0))
    BY <1>14 DEF Req!SubmitCleanup, Req!others
  <2>2. Elements(jobs') = Elements(jobs) \cup {Req!SearchTask(a, 0)}
    BY <2>1, PushElements, TasksTyped
  <2>3. Queued \subseteq Queued' /\ InHand' = InHand /\ Asleep' = Asleep
    BY <2>1, <2>2 DEF Queued, InHand, Asleep, Busy
  <2> QED
    BY <1>6, <2>1, <2>3 DEF Cared, Req!Received
<1>15. ASSUME UNCHANGED <<jobs, sleepers, got>>, InHand' = InHand
       PROVE  Cared(i)'
  BY <1>6, <1>15 DEF Cared, Queued, Asleep, Req!Received
<1>16. ASSUME NEW t \in Workers, Req!Post(t) \/ Req!MakeNotification(t) \/ Req!TestWaiting(t)
       PROVE  Cared(i)'
  <2>1. /\ Busy(t) /\ doing[t].step # "send" /\ UNCHANGED <<jobs, sleepers, got>>
        /\ \E s \in Posted \cup {"handleResponse"} : Req!Becomes(t, s)
    BY <1>16 DEF Req!Post, Req!MakeNotification, Req!TestWaiting, Req!At, Busy, Posted
  <2>2. InHand' = InHand
    BY <2>1, Advanced DEF OnceInv
  <2> QED
    BY <1>15, <2>1, <2>2
<1>17. ASSUME \/ UNCHANGED Req!vars
              \/ \E a \in Agents : Req!EndConnection(a) \/ Req!Remove(a) \/ Req!RegroupCleanup(a)
       PROVE  Cared(i)'
  <2>1. UNCHANGED <<jobs, doing, sleepers, got>>
    BY <1>17 DEF Req!vars, Req!EndConnection, Req!Remove, Req!RegroupCleanup, Req!others
  <2>2. InHand' = InHand
    BY <2>1 DEF InHand, Busy
  <2> QED
    BY <1>15, <2>1, <2>2
<1> QED
  BY <1>5, <1>7, <1>9, <1>10, <1>11, <1>12, <1>13, <1>14, <1>16, <1>17
     DEF Req!Next, Req!ThreadStep, Req!Leave

-----------------------------------------------------------------------------
(* Requests of agents: one thread *)

\* With one thread a task is taken only when no other is in hand.
LEMMA TakeAlone ==
    ASSUME Req!RequestAssumption, Req!TypeOK, NEW t \in Workers, Req!Take(t), threads = 1
    PROVE  \A u \in Workers : ~Busy(u)
<1> DEFINE S == {u \in Workers : doing[u] # NoJob}
<1>1. IsFiniteSet(S)
  BY FS_Subset, SameSizes DEF Req!RequestAssumption
<1>2. Cardinality(S) \in Nat /\ Cardinality(S) < 1
  BY <1>1, FS_CardinalityType, SameSizes DEF Req!Take
<1>3. Cardinality(S) = 0
  BY <1>2
<1>4. S = {}
  BY <1>1, <1>3, FS_EmptySet
<1> QED
  BY <1>4 DEF Busy

LEMMA BusyStep ==
    ASSUME Req!RequestAssumption, HoldInv, BusyInv, [Req!Next]_(Req!vars)
    PROVE  BusyInv'
<1> USE DEF HoldInv
<1>1. threads' = threads
  BY StagesGo
<1>2. ASSUME NEW t \in Workers, Req!Take(t)
      PROVE  BusyInv'
  <2>1. \A u \in Workers : u # t => doing'[u] = doing[u]
    BY <1>2 DEF Req!Take, Req!TypeOK
  <2> QED
    BY <1>1, <1>2, <2>1, TakeAlone DEF BusyInv, Busy
<1>3. ASSUME \A u \in Workers : Busy(u)' => Busy(u)
      PROVE  BusyInv'
  BY <1>1, <1>3 DEF BusyInv
<1>4. ASSUME NEW t \in Workers, Busy(t), Req!Ends(t)
      PROVE  BusyInv'
  BY <1>3, <1>4, HandsShrink DEF OnceInv, Busy
<1>5. ASSUME NEW t \in Workers, Req!Suspend(t) \/ Req!HandleResponse(t) \/ Req!RunSend(t)
      PROVE  Busy(t) /\ Req!Ends(t)
  BY <1>5 DEF Req!Suspend, Req!HandleResponse, Req!RunSend, Req!At, Busy
<1>6. ASSUME NEW t \in Workers, Req!Post(t) \/ Req!MakeNotification(t) \/ Req!TestWaiting(t)
      PROVE  BusyInv'
  <2>1. /\ Busy(t) /\ doing[t].step # "send"
        /\ \E s \in Posted \cup {"handleResponse"} : Req!Becomes(t, s)
    BY <1>6 DEF Req!Post, Req!MakeNotification, Req!TestWaiting, Req!At, Busy, Posted
  <2> QED
    BY <1>3, <2>1, Advanced DEF OnceInv
<1>7. ASSUME Req!Search
      PROVE  BusyInv'
  BY <1>3, <1>7, HandsInformed
<1>8. ASSUME doing' = doing
      PROVE  BusyInv'
  BY <1>3, <1>8 DEF Busy
<1>9. ASSUME ~\E t \in Workers : Req!ThreadStep(t), ~Req!Search
      PROVE  doing' = doing
  BY <1>9 DEF Req!Next, Req!ProcessMessage, Req!Leave, Req!EndConnection, Req!Remove,
       Req!SubmitCleanup, Req!RegroupCleanup, Req!CancelGroup, Req!others, Req!vars
<1> QED
  BY <1>2, <1>4, <1>5, <1>6, <1>7, <1>8, <1>9 DEF Req!ThreadStep

-----------------------------------------------------------------------------
(* Requests of agents: an agent that is gone *)

\* What a request that is not the agent's own, or is its clean-up, leaves of its rows.
LEMMA RowsOfAgent ==
    ASSUME Req!TypeOK, NEW e \in Req!Requests, NEW a \in Agents, NEW x \in Req!RowsAfter(e)
    PROVE  /\ e.req = 0 /\ e.agent = a => \A r \in x : r[1] # a
           /\ (e.req = 0 \/ e.agent # a) /\ (\A r \in rows : r[1] # a)
                 => \A r \in x : r[1] # a
<1>1. CASE e.req = 0
  <2>1. x = {r \in rows : r[1] # e.agent}
    BY <1>1 DEF Req!RowsAfter, Req!Op, Req!Updates
  <2> QED
    BY <1>1, <2>1
<1>2. CASE e.req # 0
  <2>1. \/ x \subseteq rows
        \/ x = rows \cup {<<e.agent, Req!Model(Req!Op(e))>>}
        \/ Req!Op(e) = "cleanup" /\ x = {r \in rows : r[1] # e.agent}
    BY DEF Req!RowsAfter
  <2> QED
    BY <1>2, <2>1
<1> QED
  BY <1>1, <1>2

\* At the end of the close handler the clean-up is in no group.
LEMMA CleanupRegrouped ==
    ASSUME Req!RequestAssumption, Req!TypeOK, [Req!Next]_(Req!vars), NEW a \in Agents,
           stage[a] \in {"cancel", "left"} => cleanGroup[a] = Req!NoGroup,
           stage'[a] \in {"cancel", "left"}
    PROVE  cleanGroup'[a] = Req!NoGroup
<1>1. stage \in [Agents -> Req!Stages] /\ cleanGroup \in [Agents -> Groups \cup {Req!NoGroup}]
  BY DEF Req!TypeOK
<1>2. ASSUME NEW b \in Agents, Req!EndConnection(b) \/ Req!Remove(b)
      PROVE  cleanGroup'[a] = Req!NoGroup
  BY <1>1, <1>2 DEF Req!EndConnection, Req!Remove, Req!Passes
<1>3. ASSUME NEW b \in Agents, Req!SubmitCleanup(b)
      PROVE  cleanGroup'[a] = Req!NoGroup
  <2>1. stage' = [stage EXCEPT ![b] = "regroup"]
        /\ \E g : cleanGroup' = [cleanGroup EXCEPT ![b] = g]
    BY <1>3 DEF Req!SubmitCleanup, Req!Passes
  <2>2. a # b
    BY <1>1, <2>1
  <2> QED
    BY <1>1, <2>1, <2>2
<1>4. ASSUME NEW b \in Agents, Req!RegroupCleanup(b)
      PROVE  cleanGroup'[a] = Req!NoGroup
  <2>1. stage' = [stage EXCEPT ![b] = "cancel"]
        /\ cleanGroup' = [cleanGroup EXCEPT ![b] = Req!NoGroup]
    BY <1>4 DEF Req!RegroupCleanup, Req!Passes, Req!Regrouped
  <2> QED
    BY <1>1, <2>1
<1>5. ASSUME NEW b \in Agents, Req!CancelGroup(b)
      PROVE  cleanGroup'[a] = Req!NoGroup
  <2>1. stage[b] = "cancel" /\ stage' = [stage EXCEPT ![b] = "left"] /\ cleanGroup' = cleanGroup
    BY <1>5 DEF Req!CancelGroup, Req!Passes
  <2> QED
    BY <1>1, <2>1
<1>6. ASSUME UNCHANGED <<stage, cleanGroup>>
      PROVE  cleanGroup'[a] = Req!NoGroup
  BY <1>6
<1>7. UNCHANGED <<stage, cleanGroup>> \/ \E b \in Agents : Req!Leave(b)
  BY DEF Req!Next, Req!ThreadStep, Req!ProcessMessage, Req!Take, Req!Post, Req!MakeNotification,
         Req!TestWaiting, Req!Suspend, Req!Search, Req!HandleResponse, Req!RunSend, Req!leaving,
         Req!vars
<1> QED
  BY <1>2, <1>3, <1>4, <1>5, <1>6, <1>7 DEF Req!Leave

\* The sets of Forgetting are constant.
LEMMA ForgettingNext ==
    ASSUME NEW a \in Agents
    PROVE  Forgetting(a)' <=>
              \/ LastIn(jobs', Cleanups(a), Posters(a))
              \/ /\ \A task \in Elements(jobs') : task \notin Posters(a)
                 /\ \E t \in Workers : doing'[t] \in Cleanups(a)
              \/ /\ \A task \in Elements(jobs') : task \notin Posters(a)
                 /\ \A t \in Workers : doing'[t] \notin Posters(a)
                 /\ \/ LastIn(search', Removal(a), Others(a))
                    \/ /\ \A e \in Elements(search') : e \notin Others(a)
                       /\ \A r \in rows' : r[1] # a
<1> HIDE DEF LastIn
<1> QED
  BY DEF Forgetting, NoPosters, Cleanups, Posters, Removal, Others

\* With one thread, and a search system that does not fail, no step brings back
\* an agent that is tidy.
LEMMA ForgettingStep ==
    ASSUME Req!RequestAssumption, HoldInv, BusyInv, GoneInv, [Req!Next]_(Req!vars),
           threads = 1, reliable, NEW a \in Agents, a \notin untidy', Leaving(a)'
    PROVE  Forgetting(a)'
<1> USE DEF HoldInv
<1>1. \A t, u \in Workers : Busy(t) /\ Busy(u) => t = u
  BY DEF BusyInv
<1>2. jobs \in Seq(Req!Tasks) /\ search \in Seq(Req!Requests)
  BY TasksTyped
<1>3. untidy \subseteq untidy'
  BY DEF Req!Next, Req!ThreadStep, Req!ProcessMessage, Req!Take, Req!Post, Req!MakeNotification,
         Req!TestWaiting, Req!Suspend, Req!Search, Req!HandleResponse, Req!RunSend, Req!leaving,
         Req!vars, Req!Leave, Req!EndConnection, Req!Remove, Req!SubmitCleanup,
         Req!RegroupCleanup, Req!CancelGroup
<1>4. Leaving(a) => Forgetting(a)
  BY <1>3 DEF GoneInv
<1>6. CASE Req!SubmitCleanup(a)
  <2>1. jobs' = Append(jobs, Req!SearchTask(a, 0)) /\ Req!SearchTask(a, 0) \in Cleanups(a)
    BY <1>6, CleanupTask DEF Req!SubmitCleanup, Cleanups
  <2>2. LastIn(jobs', Cleanups(a), Posters(a))
    BY <1>2, <2>1, LastPush
  <2> QED
    BY <2>2, ForgettingNext
<1> SUFFICES ASSUME Forgetting(a), ~Req!SubmitCleanup(a)
             PROVE  Forgetting(a)'
  <2>1. ASSUME ~Leaving(a)
        PROVE  Req!SubmitCleanup(a)
    <3>1. stage \in [Agents -> Req!Stages]
      BY DEF Req!TypeOK
    <3>2. \/ stage' = stage
          \/ \E b \in Agents : Req!EndConnection(b) \/ Req!Remove(b) \/ Req!SubmitCleanup(b)
                               \/ Req!RegroupCleanup(b) \/ Req!CancelGroup(b)
      BY DEF Req!Next, Req!ThreadStep, Req!ProcessMessage, Req!Take, Req!Post,
             Req!MakeNotification, Req!TestWaiting, Req!Suspend, Req!Search, Req!HandleResponse,
             Req!RunSend, Req!leaving, Req!vars, Req!Leave
    <3>3. stage' # stage
      BY <2>1 DEF Leaving
    <3> QED
      BY <2>1, <3>1, <3>2, <3>3 DEF Req!EndConnection, Req!Remove, Req!SubmitCleanup,
         Req!RegroupCleanup, Req!CancelGroup, Req!Passes, Leaving
  <2> QED
    BY <1>4, <1>6, <2>1
<1>7. ASSUME UNCHANGED <<doing, search, rows>>, NEW x \in Req!Tasks, x \notin Posters(a),
             jobs' = Append(jobs, x)
      PROVE  Forgetting(a)'
  <2>1. Elements(jobs') = Elements(jobs) \cup {x}
    BY <1>2, <1>7, PushElements
  <2>2. LastIn(jobs, Cleanups(a), Posters(a)) => LastIn(jobs', Cleanups(a), Posters(a))
    BY <1>2, <1>7, LastPush
  <2> QED
    BY <1>7, <2>1, <2>2, ForgettingNext DEF Forgetting, NoPosters
<1>8. ASSUME UNCHANGED <<jobs, doing, search, rows>>
      PROVE  Forgetting(a)'
  BY <1>8, ForgettingNext DEF Forgetting, NoPosters
<1>9. ASSUME NEW b \in Agents, NEW op \in Operations, NEW c \in Agents, Req!ProcessMessage(b, op, c)
      PROVE  Forgetting(a)'
  <2>1. UNCHANGED <<doing, search, rows>> /\ (b = a => a \in untidy')
    BY <1>9 DEF Req!ProcessMessage, Req!Up, Req!leaving, Leaving
  <2>2. PICK task \in Req!Tasks : jobs' = Append(jobs, task) /\ (task.step # "send" => task.agent = b)
    BY <1>9, OneTaskMade
  <2>3. task \notin Posters(a)
    BY <2>1, <2>2 DEF Posters
  <2> QED
    BY <1>7, <2>1, <2>2, <2>3
<1>10. ASSUME NEW b \in Agents, Req!SubmitCleanup(b)
       PROVE  Forgetting(a)'
  <2>1. UNCHANGED <<doing, search, rows>> /\ jobs' = Append(jobs, Req!SearchTask(b, 0))
    BY <1>10 DEF Req!SubmitCleanup, Req!others
  <2>2. Req!SearchTask(b, 0) \in Req!Tasks /\ Req!SearchTask(b, 0) \notin Posters(a)
    BY CleanupTask DEF Posters
  <2> QED
    BY <1>7, <2>1, <2>2
<1>11. ASSUME NEW t \in Workers, Req!Take(t)
       PROVE  Forgetting(a)'
  <2>1. /\ jobs # <<>>
        /\ doing' = [doing EXCEPT ![t] = Head(jobs)] /\ jobs' = Tail(jobs)
        /\ UNCHANGED <<search, rows>>
    BY <1>11 DEF Req!Take
  <2>2. Head(jobs) \in Req!Tasks /\ Elements(jobs) = Elements(jobs') \cup {Head(jobs)}
    BY <1>2, <2>1, PopElements
  <2>3. doing'[t] = Head(jobs) /\ \A u \in Workers : u # t => doing'[u] = doing[u]
    BY <2>1 DEF Req!TypeOK
  <2>4. \A u \in Workers : doing[u] \notin Cleanups(a)
    <3>1. \A u \in Workers : ~Busy(u)
      BY <1>11, TakeAlone
    <3> QED
      BY <3>1, TaskShape DEF Busy, Cleanups
  <2>5. CASE LastIn(jobs, Cleanups(a), Posters(a))
    <3>1. \/ LastIn(jobs', Cleanups(a), Posters(a))
          \/ Head(jobs) \in Cleanups(a) /\ \A y \in Elements(jobs') : y \notin Posters(a)
      BY <1>2, <2>1, <2>5, LastPop
    <3> QED
      BY <2>3, <3>1, ForgettingNext
  <2>6. CASE NoPosters(a)
    <3>1. /\ \A x \in Elements(jobs') : x \notin Posters(a)
          /\ \A u \in Workers : doing'[u] \notin Posters(a)
      BY <2>2, <2>3, <2>6 DEF NoPosters
    <3> QED
      BY <2>1, <2>4, <2>5, <3>1, ForgettingNext DEF Forgetting
  <2> QED
    BY <2>4, <2>5, <2>6 DEF Forgetting
<1>12. ASSUME NEW t \in Workers, doing[t] \notin Cleanups(a), doing'[t] \notin Posters(a),
              \A u \in Workers : u # t => doing'[u] = doing[u],
              UNCHANGED <<search, rows>>,
              jobs' = jobs \/ \E x \in Req!Tasks \ Posters(a) : jobs' = Append(jobs, x)
       PROVE  Forgetting(a)'
  <2>1. LastIn(jobs, Cleanups(a), Posters(a)) => LastIn(jobs', Cleanups(a), Posters(a))
    BY <1>2, <1>12, LastPush
  <2>2. \A x \in Elements(jobs') : x \notin Posters(a) \/ x \in Elements(jobs)
    <3>1. CASE jobs' = jobs
      BY <3>1
    <3>2. ASSUME NEW x \in Req!Tasks \ Posters(a), jobs' = Append(jobs, x)
          PROVE  \A y \in Elements(jobs') : y \notin Posters(a) \/ y \in Elements(jobs)
      <4>1. Elements(jobs') = Elements(jobs) \cup {x}
        BY <1>2, <3>2, PushElements
      <4> QED
        BY <4>1
    <3> QED
      BY <1>12, <3>1, <3>2
  <2>3. NoPosters(a) => \A u \in Workers : doing'[u] \notin Posters(a)
    BY <1>12 DEF NoPosters
  <2>4. \A u \in Workers : doing[u] \in Cleanups(a) => doing'[u] \in Cleanups(a)
    BY <1>12
  <2> QED
    BY <1>12, <2>1, <2>2, <2>3, <2>4, ForgettingNext DEF Forgetting, NoPosters
<1>13. ASSUME NEW t \in Workers, Req!Post(t)
       PROVE  Forgetting(a)'
  <2>1. /\ Busy(t) /\ doing[t].step = "createConv" /\ Req!Becomes(t, "posted")
        /\ UNCHANGED <<jobs, rows>>
    BY <1>13 DEF Req!Post, Req!At, Busy
  <2>2. "posted" \in Posted \cup {"handleResponse"} /\ doing[t].step # "send"
    BY <2>1 DEF Posted
  <2>3. doing'[t].step = "posted" /\ \A u \in Workers : u # t => doing'[u] = doing[u]
    BY <2>1, <2>2, Advanced DEF OnceInv
  <2>4. doing[t] \in Req!Tasks
    BY <2>1 DEF Req!TypeOK, Busy
  <2>5. PICK e \in Req!Requests : /\ search' = Append(search, e)
                                  /\ e.agent = doing[t].agent /\ e.req = doing[t].req
    BY <1>13, <2>4, TaskShape DEF Req!Post, Req!Requests
  <2>6. Elements(search') = Elements(search) \cup {e}
    BY <1>2, <2>5, PushElements
  <2>7. \A u \in Workers : u # t => doing'[u] = doing[u] /\ ~Busy(u)
    BY <1>1, <2>1, <2>3
  <2>8. \A u \in Workers : doing'[u] \notin Posters(a)
    <3>1. NoJob \notin Req!Tasks
      BY DEF Req!RequestAssumption
    <3> QED
      BY <2>3, <2>7, <3>1 DEF Posters, Busy
  <2>9. CASE LastIn(jobs, Cleanups(a), Posters(a))
    BY <2>1, <2>9, ForgettingNext
  <2>10. CASE /\ \A task \in Elements(jobs) : task \notin Posters(a)
              /\ \E u \in Workers : doing[u] \in Cleanups(a)
    <3>1. doing[t] \in Cleanups(a)
      BY <2>7, <2>10, TaskShape DEF Cleanups, Busy
    <3>2. e \in Removal(a)
      BY <2>5, <3>1 DEF Cleanups, Removal
    <3>3. LastIn(search', Removal(a), Others(a))
      BY <1>2, <2>5, <3>2, LastPush
    <3> QED
      BY <2>1, <2>8, <2>10, <3>3, ForgettingNext
  <2>11. CASE NoPosters(a) /\ (\/ LastIn(search, Removal(a), Others(a))
                               \/ /\ \A x \in Elements(search) : x \notin Others(a)
                                  /\ \A r \in rows : r[1] # a)
    <3>1. e \notin Others(a)
      BY <2>1, <2>4, <2>5, <2>11 DEF NoPosters, Posters, Others
    <3>2. LastIn(search, Removal(a), Others(a)) => LastIn(search', Removal(a), Others(a))
      BY <1>2, <2>5, <3>1, LastPush
    <3>3. \A task \in Elements(jobs') : task \notin Posters(a)
      BY <2>1, <2>11 DEF NoPosters
    <3> QED
      BY <2>1, <2>6, <2>8, <2>11, <3>1, <3>2, <3>3, ForgettingNext
  <2> QED
    BY <2>9, <2>10, <2>11 DEF Forgetting
<1>14. ASSUME NEW t \in Workers, Req!MakeNotification(t) \/ Req!TestWaiting(t)
       PROVE  Forgetting(a)'
  <2>1. /\ Busy(t) /\ doing[t].step \in {"posted", "noted"} /\ UNCHANGED <<jobs, search, rows>>
        /\ \E s \in Posted \cup {"handleResponse"} : Req!Becomes(t, s)
    BY <1>14 DEF Req!MakeNotification, Req!TestWaiting, Req!At, Busy, Posted
  <2>2. /\ doing'[t].step \in Posted \cup {"handleResponse"}
        /\ \A u \in Workers : u # t => doing'[u] = doing[u]
    BY <2>1, Advanced DEF OnceInv
  <2> QED
    BY <1>12, <2>1, <2>2 DEF Cleanups, Posters, Posted
<1>15. ASSUME NEW t \in Workers, Req!Suspend(t) \/ Req!HandleResponse(t) \/ Req!RunSend(t)
       PROVE  Forgetting(a)'
  <2>1. /\ Busy(t) /\ Req!Ends(t) /\ doing[t].step # "createConv" /\ UNCHANGED <<search, rows>>
    BY <1>15 DEF Req!Suspend, Req!HandleResponse, Req!RunSend, Req!At, Busy
  <2>2. doing'[t] = NoJob /\ \A u \in Workers : u # t => doing'[u] = doing[u]
    BY <2>1, HandsShrink DEF OnceInv
  <2>3. jobs' = jobs \/ \E x \in Req!Tasks : x.step = "send" /\ jobs' = Append(jobs, x)
    <3>1. CASE Req!HandleResponse(t)
      BY <3>1, OneAnswerMade
    <3>2. CASE Req!Suspend(t) \/ Req!RunSend(t)
      BY <3>2 DEF Req!Suspend, Req!RunSend
    <3> QED
      BY <1>15, <3>1, <3>2
  <2>4. NoJob \notin Posters(a) /\ \A x : x.step = "send" => x \notin Posters(a)
    BY DEF Posters, Req!RequestAssumption
  <2>5. jobs' = jobs \/ \E x \in Req!Tasks \ Posters(a) : jobs' = Append(jobs, x)
    BY <2>3, <2>4
  <2> QED
    BY <1>12, <2>1, <2>2, <2>4, <2>5 DEF Cleanups
<1>16. ASSUME Req!Search
       PROVE  Forgetting(a)'
  <2>1. PICK e \in Req!Requests : /\ e = Head(search) /\ search # <<>> /\ search' = Tail(search)
                                  /\ Elements(search) = Elements(search') \cup {e}
    BY <1>16, ResponseQueued
  <2>2. rows' \in Req!RowsAfter(e)
    BY <1>16, <2>1 DEF Req!Search
  <2>3. \A u \in Workers : /\ doing[u] \in Cleanups(a) => doing'[u] \in Cleanups(a)
                           /\ doing'[u] \in Posters(a) => doing[u] \in Posters(a)
    <3>1. \A u \in Workers : doing'[u].step = "createConv" /\ Busy(u) => doing'[u] = doing[u]
      BY <1>16, HandsInformed DEF Posted
    <3>2. \A u \in Workers : Busy(u)' <=> Busy(u)
      BY <1>16, HandsInformed
    <3>3. \A u \in Workers : Busy(u) => doing'[u].step = doing[u].step
      BY <1>16, HandsInformed
    <3>4. NoJob \notin Cleanups(a) /\ NoJob \notin Posters(a)
      BY DEF Cleanups, Posters, Req!RequestAssumption
    <3> QED
      BY <3>1, <3>2, <3>3, <3>4 DEF Cleanups, Posters, Busy
  <2>4. /\ LastIn(jobs, Cleanups(a), Posters(a)) => LastIn(jobs', Cleanups(a), Posters(a))
        /\ \A x \in Elements(jobs') : x \notin Posters(a) \/ x \in Elements(jobs)
    <3>1. CASE jobs' = jobs
      BY <3>1
    <3>2. ASSUME NEW task \in Req!SearchTasks, jobs' = <<task>> \o jobs, task.step = "handleResponse"
          PROVE  /\ LastIn(jobs, Cleanups(a), Posters(a)) => LastIn(jobs', Cleanups(a), Posters(a))
                 /\ \A x \in Elements(jobs') : x \notin Posters(a) \/ x \in Elements(jobs)
      <4>1. task \in Req!Tasks /\ task \notin Posters(a)
        BY <3>2 DEF Req!Tasks, Posters
      <4>2. Elements(jobs') = Elements(jobs) \cup {task}
        BY <1>2, <3>2, <4>1, FrontElements
      <4>3. LastIn(jobs, Cleanups(a), Posters(a)) => LastIn(jobs', Cleanups(a), Posters(a))
        BY <1>2, <3>2, <4>1, LastFront
      <4> QED
        BY <4>1, <4>2, <4>3
    <3> QED
      BY <1>16, <3>1, <3>2, ResponseQueued
  <2>5. NoPosters(a) => /\ \A x \in Elements(jobs') : x \notin Posters(a)
                        /\ \A u \in Workers : doing'[u] \notin Posters(a)
    BY <2>3, <2>4 DEF NoPosters
  <2>6. LastIn(search, Removal(a), Others(a)) =>
            \/ LastIn(search', Removal(a), Others(a))
            \/ e \in Removal(a) /\ \A x \in Elements(search') : x \notin Others(a)
    BY <1>2, <2>1, LastPop
  <2>7. e \in Removal(a) => \A r \in rows' : r[1] # a
    BY <2>2, RowsOfAgent DEF Removal
  <2>8. (\A x \in Elements(search) : x \notin Others(a)) /\ (\A r \in rows : r[1] # a)
            => \A r \in rows' : r[1] # a
    <3>1. e \notin Others(a) => e.req = 0 \/ e.agent # a
      BY DEF Others
    <3> QED
      BY <2>1, <2>2, <3>1, RowsOfAgent
  <2>9. (\A x \in Elements(search) : x \notin Others(a)) => \A x \in Elements(search') : x \notin Others(a)
    BY <2>1
  <2> QED
    BY <2>3, <2>4, <2>5, <2>6, <2>7, <2>8, <2>9, ForgettingNext DEF Forgetting
<1>17. ASSUME NEW b \in Agents, Req!CancelGroup(b)
       PROVE  Forgetting(a)'
  <2>1. UNCHANGED <<doing, search, rows>> /\ stage[b] = "cancel"
    BY <1>17 DEF Req!CancelGroup, Req!Passes
  <2>2. PICK K \in SUBSET Req!Tasks :
              /\ \A x \in K : Req!GroupOf(x) = home[b]
              /\ jobs' = Erase(jobs, K)
              /\ Elements(jobs') = Elements(jobs) \ K
              /\ untidy' = untidy \cup {d \in Agents \ {b} : \E x \in K : x.req = 0 /\ x.agent = d}
    BY <1>17, GroupErased
  <2>3. K \cap Cleanups(a) = {}
    <3>1. CASE b # a
      BY <2>2, <3>1 DEF Cleanups
    <3>2. CASE b = a
      <4>1. cleanGroup[a] = Req!NoGroup /\ home[a] \in Groups
        BY <2>1, <3>2 DEF GoneInv, Req!TypeOK
      <4>2. \A x \in Cleanups(a) : Req!GroupOf(x) = cleanGroup[a]
        BY DEF Cleanups, Req!GroupOf
      <4>3. Req!NoGroup \notin Groups
        BY DEF Req!RequestAssumption
      <4> QED
        BY <2>2, <3>2, <4>1, <4>2, <4>3
    <3> QED
      BY <3>1, <3>2
  <2>4. LastIn(jobs, Cleanups(a), Posters(a)) => LastIn(jobs', Cleanups(a), Posters(a))
    BY <1>2, <2>2, <2>3, LastErase
  <2> QED
    BY <2>1, <2>2, <2>4, ForgettingNext DEF Forgetting, NoPosters
<1>18. ASSUME \/ UNCHANGED Req!vars
              \/ \E b \in Agents : Req!EndConnection(b) \/ Req!Remove(b) \/ Req!RegroupCleanup(b)
       PROVE  Forgetting(a)'
  BY <1>8, <1>18 DEF Req!vars, Req!EndConnection, Req!Remove, Req!RegroupCleanup, Req!others
<1> QED
  BY <1>9, <1>10, <1>11, <1>13, <1>14, <1>15, <1>16, <1>17, <1>18
     DEF Req!Next, Req!ThreadStep, Req!Leave

LEMMA GoneStep ==
    ASSUME Req!RequestAssumption, HoldInv, BusyInv, GoneInv, [Req!Next]_(Req!vars)
    PROVE  GoneInv'
<1>1. Req!TypeOK
  BY DEF HoldInv
<1>2. \A a \in Agents : stage'[a] \in {"cancel", "left"} => cleanGroup'[a] = Req!NoGroup
  BY <1>1, CleanupRegrouped DEF GoneInv
<1>3. ASSUME threads' = 1, reliable', NEW a \in Agents \ untidy', Leaving(a)'
      PROVE  Forgetting(a)'
  BY <1>1, <1>3, StagesGo, ForgettingStep
<1>4. Req!NoGroup' = Req!NoGroup
  BY DEF Req!NoGroup
<1> QED
  BY <1>2, <1>3, <1>4 DEF GoneInv

-----------------------------------------------------------------------------
(* Requests of agents: the theorems *)

LEMMA RequestInit ==
    ASSUME Req!RequestAssumption, Req!Init
    PROVE  RequestIInv
<1>1. Req!TypeOK
  <2>1. threads \in 1 .. Req!Cardinality(Workers) /\ reliable \in BOOLEAN
    <3>1. PICK s \in Settings : threads = s[1] /\ reliable = s[2]
      BY DEF Req!Init
    <3>2. s \in (1 .. Req!Cardinality(Workers)) \X BOOLEAN
      BY <3>1 DEF Req!RequestAssumption
    <3> QED
      BY <3>1, <3>2
  <2> QED
    BY <2>1 DEF Req!Init, Req!TypeOK, Req!Stages
<1>2. /\ made = <<>> /\ jobs = <<>> /\ search = <<>> /\ sleepers = {}
      /\ (\A t \in Workers : doing[t] = NoJob) /\ (\A a \in Agents : got[a] = <<>>)
      /\ \A a \in Agents : stage[a] = "up"
  BY DEF Req!Init
<1>3. Elements(jobs) = {} /\ Elements(search) = {} /\ Holding = {} /\ \A t \in Workers : ~Busy(t)
  BY <1>2 DEF Elements, Holding, Busy
<1>4. \A a \in Agents : Req!Received(a) = {}
  BY <1>2 DEF Req!Received
<1>5. TaskInv /\ MessageInv /\ HopeInv
  BY <1>2, <1>3, <1>4 DEF TaskInv, MessageInv, HopeInv, AllTasks
<1>6. OnceInv
  BY <1>2, <1>3 DEF OnceInv, OnceEach, HandsOnce
<1>7. ApartInv
  BY <1>2, <1>3, <1>4 DEF ApartInv, Queued, InHand, Asleep, Answered
<1>8. QueryInv /\ BusyInv /\ GoneInv
  BY <1>2, <1>3 DEF QueryInv, BusyInv, GoneInv, Leaving
<1> QED
  BY <1>1, <1>5, <1>6, <1>7, <1>8 DEF RequestIInv, HoldInv

LEMMA RequestStep ==
    ASSUME Req!RequestAssumption, RequestIInv, [Req!Next]_(Req!vars)
    PROVE  RequestIInv'
  BY HoldStep, QueryStep, BusyStep, GoneStep DEF RequestIInv

LEMMA RequestIsRight ==
    ASSUME Req!RequestAssumption, HoldInv
    PROVE  Req!RequestInv
<1> USE DEF HoldInv
<1>1. \A a \in Agents : \A k \in DOMAIN got[a] : RightMessage(a, got[a][k])
  BY DEF MessageInv, Req!Received
<1>2. Req!OneAnswer
  BY <1>1 DEF Req!OneAnswer, OnceInv, RightMessage
<1>3. Req!MessageAsSent
  <2> SUFFICES ASSUME NEW a \in Agents, NEW k \in DOMAIN got[a], got[a][k].payload = "content"
               PROVE  /\ made[got[a][k].id].to = a /\ made[got[a][k].id].from = got[a][k].origin
                      /\ \A l \in DOMAIN got[a] :
                            got[a][l].payload = "content" /\ got[a][l].id = got[a][k].id => k = l
                      /\ \A n \in Req!Received(got[a][k].origin) :
                            n.id = got[a][k].id => n.payload = "content"
    BY DEF Req!MessageAsSent
  <2>1. made[got[a][k].id].to = a /\ made[got[a][k].id].from = got[a][k].origin
    BY <1>1 DEF RightMessage
  <2>2. got[a][k].origin \in Agents
    <3>1. made \in Seq(Requests)
      BY DEF Req!TypeOK, Requests
    <3>2. got[a][k].id \in DOMAIN made
      BY <1>1 DEF RightMessage
    <3>3. made[got[a][k].id] \in Requests
      BY <3>1, <3>2
    <3> QED
      BY <2>1, <3>3 DEF Requests
  <2>3. \A n \in Req!Received(got[a][k].origin) : n.id = got[a][k].id => n.payload = "content"
    BY <2>2 DEF OnceInv, Req!Received
  <2> QED
    BY <2>1, <2>3 DEF OnceInv
<1> QED
  BY <1>2, <1>3 DEF Req!RequestInv

LEMMA WorkingUnderway == Working = Req!Underway
  BY SameLists DEF Working, Holding, Req!Underway

\* A query that nobody works on and that is not answered has a task asleep that
\* missed the response: one that still hopes for it would have its request with the
\* search system.
LEMMA QueryIsAnswered ==
    ASSUME RequestIInv
    PROVE  Req!QueryAnswered
<1> SUFFICES ASSUME reliable, NEW i \in DOMAIN made,
                    made[i].op \in Req!Queries, Req!Up(made[i].from),
                    ~Req!Cancellable(made[i].from), \A task \in Working : task.req # i
             PROVE  \/ \E m \in Req!Received(made[i].from) : m.id = i
                    \/ \E task \in sleepers : task.req = i /\ task.result = "missed"
  BY WorkingUnderway DEF Req!QueryAnswered
<1>1. i \in Nat \ {0}
  BY DEF RequestIInv, HoldInv, Req!TypeOK
<1>2. i \notin Queued \cup InHand
  BY DEF Queued, InHand, Working, Holding, Busy
<1>3. i \in Asleep \/ \E m \in Req!Received(made[i].from) : m.id = i
  BY <1>2 DEF RequestIInv, QueryInv
<1>4. ASSUME NEW task \in sleepers, task.req = i
      PROVE  task.result = "missed"
  <2>1. task.step = "deferring" /\ RightTask(task)
    BY <1>4 DEF RequestIInv, HoldInv, TaskInv, AllTasks
  <2>2. task.result \in {"none", "missed"}
    BY <2>1 DEF RightTask, RightResult
  <2>3. ~Expected(task)
    BY <1>4 DEF Expected, Working
  <2>4. ~Hopes(task)
    BY <1>4, <2>3 DEF RequestIInv, HoldInv, HopeInv
  <2> QED
    BY <1>1, <1>4, <2>1, <2>2, <2>4 DEF Hopes, Posted
<1> QED
  BY <1>3, <1>4 DEF Asleep

LEMMA GoneIsClean ==
    ASSUME Req!RequestAssumption, RequestIInv
    PROVE  Req!GoneIsForgotten
<1> SUFFICES ASSUME threads = 1, reliable, NEW a \in Agents \ untidy, Leaving(a),
                    \A task \in Working : task.agent # a
             PROVE  ~\E r \in rows : r[1] = a
  BY WorkingUnderway DEF Req!GoneIsForgotten, Leaving
<1>1. Forgetting(a)
  BY DEF RequestIInv, GoneInv
<1>2. ~LastIn(jobs, Cleanups(a), Posters(a))
  BY DEF LastIn, Working, Elements, Cleanups
<1>3. \A t \in Workers : doing[t] \notin Cleanups(a)
  <2> SUFFICES ASSUME NEW t \in Workers, doing[t] \in Cleanups(a)
               PROVE  FALSE
    OBVIOUS
  <2>1. CASE doing[t] = NoJob
    <3>1. doing[t] \in Req!Tasks
      BY DEF Cleanups
    <3> QED
      BY <2>1, <3>1 DEF Req!RequestAssumption
  <2>2. CASE doing[t] # NoJob
    BY <2>2 DEF Working, Holding, Cleanups
  <2> QED
    BY <2>1, <2>2
<1>4. ~LastIn(search, Removal(a), Others(a))
  BY DEF LastIn, Working, Elements, Removal
<1> QED
  BY <1>1, <1>2, <1>3, <1>4 DEF Forgetting

\* The inductive invariant of the requests, for every set of agents, operations and
\* threads, every bound and either karma policy.
LEMMA RequestInvariant ==
    ASSUME RequestAssumption
    PROVE  Req!Spec => []RequestIInv
<1> USE DEF RequestAssumption
<1> QED
  BY RequestInit, RequestStep, PTL DEF Req!Spec

\* Whatever is refused, fails, comes late, is missed or is cancelled by an agent's end,
\* an agent receives at most one answer to a request, only to its own, and a message
\* reaches the agent it is for, once, under its sender's name (processMessage, the
\* search tasks, AgentToAgentMessageTask).
THEOREM RequestsCorrect ==
    ASSUME RequestAssumption
    PROVE  Req!Spec => []RequestInv
<1>1. RequestIInv => RequestInv
  BY RequestIsRight DEF RequestIInv, RequestAssumption, RequestInv
<1> QED
  BY <1>1, RequestInvariant, PTL

\* With a search system that never fails, a query of an agent that stays can be lost in
\* two ways and no other: when no task works on it, its answer is with the agent, or its
\* task missed the response and sleeps, or a connection with the same group number has
\* left (createConv, handleResponse, cancelTaskGroup).
THEOREM QueriesAnswered ==
    ASSUME RequestAssumption
    PROVE  Req!Spec => []QueryAnswered
<1>1. RequestIInv => QueryAnswered
  BY QueryIsAnswered DEF QueryAnswered
<1> QED
  BY <1>1, RequestInvariant, PTL

\* With one thread and a search system that never fails, nothing of an agent whose
\* clean-up was submitted stays registered once its tasks are over, unless a message of
\* it was processed after the end of its connection or another connection cancelled the
\* clean-up in the moment it shared its group (the close handler's removeRow).
THEOREM GoneForgotten ==
    ASSUME RequestAssumption
    PROVE  Req!Spec => []GoneIsForgotten
<1>1. RequestIInv => GoneIsForgotten
  BY GoneIsClean DEF GoneIsForgotten, RequestAssumption
<1> QED
  BY <1>1, RequestInvariant, PTL
=============================================================================
