-------------------------- MODULE SendQueue_proofs --------------------------
(***************************************************************************)
(* Proofs about SendQueue, for every set of senders, every limit of the    *)
(* queue and every size of the buffer.                                     *)
(***************************************************************************)
EXTENDS SendQueue, SequenceTheorems, TLAPS

\* The suspended set holds only tasks that are through with Taskpool::suspend.
SuspendedInv == \A s \in suspended : pc[s] = "suspended"

\* create_messages is entered with EndpointBase::mutex from run_sending, while no
\* write is in flight, or from complete_sending, while asio_sending is still set.
PumpInv ==
    /\ \A a \in Actors : InPump(a) => mutex = a \/ (a = Net /\ sending)
    /\ \A a \in Actors : mutex = a => InPump(a) /\ ~sending
    /\ pc[Net] = "clear" => sending

\* Whoever dispatches a Notification has its task.
TargetInv == \A a \in Actors : pc[a] \in {"dispatch", "makeRunnable"} => target \in Senders

\* There is a front message to serialise and to pop.
FrontInv == \A a \in Actors : pc[a] \in {"fill", "pop"} => txq # <<>>

ControlInv == TypeOK /\ SuspendedInv /\ PumpInv /\ TargetInv /\ FrontInv

\* Append keeps a sequence of messages one.
LEMMA AppendType ==
    ASSUME NEW q \in Seq(Senders), NEW m \in Senders
    PROVE  Append(q, m) \in Seq(Senders)
OBVIOUS

\* Two actors are never in create_messages.
LEMMA PumpIsUnique == ControlInv => OnePump
BY SendAssumption DEF ControlInv, TypeOK, PumpInv, OnePump, Actors

\* Every step keeps the control invariant.
LEMMA ControlStep ==
    ASSUME ControlInv, [Next]_vars
    PROVE  ControlInv'
<1> USE SendAssumption DEF ControlInv, Goto, endpoint, notification, tasks, wakeup
<1>1. ASSUME NEW s \in Senders, TakeToRun(s)
      PROVE  ControlInv'
  <2>1. TypeOK'
    BY <1>1 DEF TakeToRun, Actors, TypeOK, PC, TaskPC, PumpPC, TargetInv, FrontInv
  <2>2. SuspendedInv'
    BY <1>1 DEF TakeToRun, Actors, TypeOK, SuspendedInv
  <2>3. PumpInv'
    BY <1>1 DEF TakeToRun, Actors, TypeOK, SuspendedInv, PumpInv, InPump, PumpPC
  <2>4. TargetInv'
    BY <1>1
       DEF TakeToRun, Actors, TypeOK, SuspendedInv, PumpInv, TargetInv, InPump, PumpPC
  <2>5. FrontInv'
    BY <1>1
       DEF TakeToRun, Actors, TypeOK, SuspendedInv, PumpInv, FrontInv, InPump, PumpPC
  <2> QED
    BY <2>1, <2>2, <2>3, <2>4, <2>5
<1>2. ASSUME NEW s \in Senders, Send(s)
      PROVE  ControlInv'
  <2>1. TypeOK'
    <3>1. /\ txq' \in Seq(Senders) /\ accepted' \in Seq(Senders)
          /\ lost' \subseteq Senders
      <4>1. /\ txq' = txq \/ txq' = Append(txq, s)
            /\ accepted' = accepted \/ accepted' = Append(accepted, s)
            /\ lost' = lost \/ lost' = lost \cup {s}
        BY <1>2 DEF Send, PushBack
      <4>2. txq \in Seq(Senders) /\ accepted \in Seq(Senders) /\ lost \subseteq Senders
        BY DEF TypeOK
      <4>3. Append(txq, s) \in Seq(Senders) /\ Append(accepted, s) \in Seq(Senders)
        BY <4>2, AppendType
      <4> QED
        BY <4>1, <4>2, <4>3
    <3>2. pc' \in [Actors -> PC]
      <4>1. Goto(s, "run_sending") \/ Goto(s, "test")
        BY <1>2 DEF Send
      <4> QED
        BY <4>1 DEF TypeOK, Actors, PC, TaskPC, PumpPC
    <3>3. /\ waiting' \subseteq Senders
          /\ notified' \in [Senders -> BOOLEAN] /\ callback' \in [Senders -> BOOLEAN]
      BY <1>2 DEF Send, TypeOK
    <3> QED
      BY <1>2, <3>1, <3>2, <3>3 DEF Send, TypeOK
  <2>2. SuspendedInv'
    BY <1>2 DEF Send, PushBack, HasRoom, Actors, TypeOK, SuspendedInv
  <2>3. PumpInv'
    BY <1>2
       DEF Send, PushBack, HasRoom, Actors, TypeOK, SuspendedInv, PumpInv, InPump,
           PumpPC
  <2>4. TargetInv'
    BY <1>2
       DEF Send, PushBack, HasRoom, Actors, TypeOK, SuspendedInv, PumpInv, TargetInv,
           InPump, PumpPC
  <2>5. FrontInv'
    BY <1>2
       DEF Send, PushBack, HasRoom, Actors, TypeOK, SuspendedInv, PumpInv, FrontInv,
           InPump, PumpPC
  <2> QED
    BY <2>1, <2>2, <2>3, <2>4, <2>5
<1>3. ASSUME NEW s \in Senders, TestWaiting(s)
      PROVE  ControlInv'
  <2>1. TypeOK'
    BY <1>3 DEF TestWaiting, Actors, TypeOK, PC, TaskPC, PumpPC, TargetInv, FrontInv
  <2>2. SuspendedInv'
    BY <1>3 DEF TestWaiting, Actors, TypeOK, SuspendedInv
  <2>3. PumpInv'
    BY <1>3 DEF TestWaiting, Actors, TypeOK, SuspendedInv, PumpInv, InPump, PumpPC
  <2>4. TargetInv'
    BY <1>3
       DEF TestWaiting, Actors, TypeOK, SuspendedInv, PumpInv, TargetInv, InPump,
           PumpPC
  <2>5. FrontInv'
    BY <1>3
       DEF TestWaiting, Actors, TypeOK, SuspendedInv, PumpInv, FrontInv, InPump, PumpPC
  <2> QED
    BY <2>1, <2>2, <2>3, <2>4, <2>5
<1>4. ASSUME NEW s \in Senders, InstallCallback(s)
      PROVE  ControlInv'
  <2>1. TypeOK'
    BY <1>4 DEF InstallCallback, Actors, TypeOK, PC, TaskPC, PumpPC, TargetInv, FrontInv
  <2>2. SuspendedInv'
    BY <1>4 DEF InstallCallback, Actors, TypeOK, SuspendedInv
  <2>3. PumpInv'
    BY <1>4 DEF InstallCallback, Actors, TypeOK, SuspendedInv, PumpInv, InPump, PumpPC
  <2>4. TargetInv'
    BY <1>4
       DEF InstallCallback, Actors, TypeOK, SuspendedInv, PumpInv, TargetInv, InPump,
           PumpPC
  <2>5. FrontInv'
    BY <1>4
       DEF InstallCallback, Actors, TypeOK, SuspendedInv, PumpInv, FrontInv, InPump,
           PumpPC
  <2> QED
    BY <2>1, <2>2, <2>3, <2>4, <2>5
<1>5. ASSUME NEW s \in Senders, DispatchIfResolved(s)
      PROVE  ControlInv'
  <2>1. TypeOK'
    BY <1>5
       DEF DispatchIfResolved, Actors, TypeOK, PC, TaskPC, PumpPC, TargetInv, FrontInv
  <2>2. SuspendedInv'
    BY <1>5 DEF DispatchIfResolved, Actors, TypeOK, SuspendedInv
  <2>3. PumpInv'
    BY <1>5
       DEF DispatchIfResolved, Actors, TypeOK, SuspendedInv, PumpInv, InPump, PumpPC
  <2>4. TargetInv'
    BY <1>5
       DEF DispatchIfResolved, Actors, TypeOK, SuspendedInv, PumpInv, TargetInv,
           InPump, PumpPC
  <2>5. FrontInv'
    BY <1>5
       DEF DispatchIfResolved, Actors, TypeOK, SuspendedInv, PumpInv, FrontInv, InPump,
           PumpPC
  <2> QED
    BY <2>1, <2>2, <2>3, <2>4, <2>5
<1>6. ASSUME NEW s \in Senders, SuspendSetPool(s)
      PROVE  ControlInv'
  <2>1. TypeOK'
    BY <1>6 DEF SuspendSetPool, Actors, TypeOK, PC, TaskPC, PumpPC, TargetInv, FrontInv
  <2>2. SuspendedInv'
    BY <1>6 DEF SuspendSetPool, Actors, TypeOK, SuspendedInv
  <2>3. PumpInv'
    BY <1>6 DEF SuspendSetPool, Actors, TypeOK, SuspendedInv, PumpInv, InPump, PumpPC
  <2>4. TargetInv'
    BY <1>6
       DEF SuspendSetPool, Actors, TypeOK, SuspendedInv, PumpInv, TargetInv, InPump,
           PumpPC
  <2>5. FrontInv'
    BY <1>6
       DEF SuspendSetPool, Actors, TypeOK, SuspendedInv, PumpInv, FrontInv, InPump,
           PumpPC
  <2> QED
    BY <2>1, <2>2, <2>3, <2>4, <2>5
<1>7. ASSUME NEW s \in Senders, SuspendInsert(s)
      PROVE  ControlInv'
  <2>1. TypeOK'
    BY <1>7 DEF SuspendInsert, Actors, TypeOK, PC, TaskPC, PumpPC, TargetInv, FrontInv
  <2>2. SuspendedInv'
    BY <1>7 DEF SuspendInsert, Actors, TypeOK, SuspendedInv
  <2>3. PumpInv'
    BY <1>7 DEF SuspendInsert, Actors, TypeOK, SuspendedInv, PumpInv, InPump, PumpPC
  <2>4. TargetInv'
    BY <1>7
       DEF SuspendInsert, Actors, TypeOK, SuspendedInv, PumpInv, TargetInv, InPump,
           PumpPC
  <2>5. FrontInv'
    BY <1>7
       DEF SuspendInsert, Actors, TypeOK, SuspendedInv, PumpInv, FrontInv, InPump,
           PumpPC
  <2> QED
    BY <2>1, <2>2, <2>3, <2>4, <2>5
<1>8. ASSUME NEW a \in Actors, RunSending(a)
      PROVE  ControlInv'
  <2>1. TypeOK'
    BY <1>8
       DEF RunSending, Return, MayStart, Actors, TypeOK, PC, TaskPC, PumpPC, TargetInv,
           FrontInv
  <2>2. SuspendedInv'
    BY <1>8 DEF RunSending, Return, MayStart, Actors, TypeOK, SuspendedInv
  <2>3. PumpInv'
    BY <1>8
       DEF RunSending, Return, MayStart, Actors, TypeOK, SuspendedInv, PumpInv, InPump,
           PumpPC
  <2>4. TargetInv'
    BY <1>8
       DEF RunSending, Return, MayStart, Actors, TypeOK, SuspendedInv, PumpInv,
           TargetInv, InPump, PumpPC
  <2>5. FrontInv'
    BY <1>8
       DEF RunSending, Return, MayStart, Actors, TypeOK, SuspendedInv, PumpInv,
           FrontInv, InPump, PumpPC
  <2> QED
    BY <2>1, <2>2, <2>3, <2>4, <2>5
<1>9. ASSUME NEW a \in Actors, Filled(a)
      PROVE  ControlInv'
  <2>1. TypeOK'
    BY <1>9 DEF Filled, Return, Actors, TypeOK, PC, TaskPC, PumpPC, TargetInv, FrontInv
  <2>2. SuspendedInv'
    BY <1>9 DEF Filled, Return, Actors, TypeOK, SuspendedInv
  <2>3. PumpInv'
    <3>1. CASE mutex = a
      <4>1. ~sending /\ \A b \in Actors : InPump(b) => b = a
        BY <1>9, <3>1 DEF PumpInv
      <4>2. pc'[Net] /= "clear" /\ \A b \in Actors : ~InPump(b)'
        <5>1. pc' = [pc EXCEPT ![a] = IF a = Net THEN "idle" ELSE "done"]
          BY <1>9, <3>1 DEF Filled, Return
        <5>2. pc[Net] /= "clear"
          BY <4>1 DEF PumpInv
        <5> QED
          BY <4>1, <5>1, <5>2 DEF InPump, PumpPC, TypeOK, Actors
      <4>3. mutex' = NoOne
        BY <1>9, <3>1 DEF Filled
      <4> QED
        BY <4>2, <4>3 DEF PumpInv, Actors
    <3>2. CASE mutex /= a
      <4>1. a = Net /\ sending
        BY <1>9, <3>2 DEF Filled, PumpInv, InPump, PumpPC
      <4> QED
        BY <1>9, <3>2, <4>1 DEF Filled, Actors, TypeOK, PumpInv, InPump, PumpPC
    <3> QED
      BY <3>1, <3>2
  <2>4. TargetInv'
    BY <1>9
       DEF Filled, Return, Actors, TypeOK, SuspendedInv, PumpInv, TargetInv, InPump,
           PumpPC
  <2>5. FrontInv'
    BY <1>9
       DEF Filled, Return, Actors, TypeOK, SuspendedInv, PumpInv, FrontInv, InPump,
           PumpPC
  <2> QED
    BY <2>1, <2>2, <2>3, <2>4, <2>5
<1>10. ASSUME NEW a \in Actors, TestFull(a)
      PROVE  ControlInv'
  <2>1. TypeOK'
    BY <1>10
       DEF TestFull, IsTXQFull, Actors, TypeOK, PC, TaskPC, PumpPC, TargetInv, FrontInv
  <2>2. SuspendedInv'
    BY <1>10 DEF TestFull, IsTXQFull, Actors, TypeOK, SuspendedInv
  <2>3. PumpInv'
    BY <1>10
       DEF TestFull, IsTXQFull, Actors, TypeOK, SuspendedInv, PumpInv, InPump, PumpPC
  <2>4. TargetInv'
    BY <1>10
       DEF TestFull, IsTXQFull, Actors, TypeOK, SuspendedInv, PumpInv, TargetInv,
           InPump, PumpPC
  <2>5. FrontInv'
    BY <1>10
       DEF TestFull, IsTXQFull, Actors, TypeOK, SuspendedInv, PumpInv, FrontInv,
           InPump, PumpPC
  <2> QED
    BY <2>1, <2>2, <2>3, <2>4, <2>5
<1>11. ASSUME NEW a \in Actors, WakeSwap(a)
      PROVE  ControlInv'
  <2>1. TypeOK'
    BY <1>11 DEF WakeSwap, Actors, TypeOK, PC, TaskPC, PumpPC, TargetInv, FrontInv
  <2>2. SuspendedInv'
    BY <1>11 DEF WakeSwap, Actors, TypeOK, SuspendedInv
  <2>3. PumpInv'
    BY <1>11 DEF WakeSwap, Actors, TypeOK, SuspendedInv, PumpInv, InPump, PumpPC
  <2>4. TargetInv'
    BY <1>11
       DEF WakeSwap, Actors, TypeOK, SuspendedInv, PumpInv, TargetInv, InPump, PumpPC
  <2>5. FrontInv'
    BY <1>11
       DEF WakeSwap, Actors, TypeOK, SuspendedInv, PumpInv, FrontInv, InPump, PumpPC
  <2> QED
    BY <2>1, <2>2, <2>3, <2>4, <2>5
<1>12. ASSUME NEW a \in Actors, NotifyNext(a)
      PROVE  ControlInv'
  <2>1. TypeOK'
    <3>1. /\ local' \subseteq Senders /\ target' \in Senders \cup {NoOne}
          /\ notified' \in [Senders -> BOOLEAN]
      BY <1>12 DEF NotifyNext, TypeOK
    <3>2. pc' \in [Actors -> PC]
      BY <1>12 DEF NotifyNext, TypeOK, PC, TaskPC, PumpPC
    <3> QED
      BY <1>12, <3>1, <3>2 DEF NotifyNext, TypeOK
  <2>2. SuspendedInv'
    BY <1>12 DEF NotifyNext, Actors, TypeOK, SuspendedInv
  <2>3. PumpInv'
    BY <1>12 DEF NotifyNext, Actors, TypeOK, SuspendedInv, PumpInv, InPump, PumpPC
  <2>4. TargetInv'
    BY <1>12
       DEF NotifyNext, Actors, TypeOK, SuspendedInv, PumpInv, TargetInv, InPump, PumpPC
  <2>5. FrontInv'
    BY <1>12
       DEF NotifyNext, Actors, TypeOK, SuspendedInv, PumpInv, FrontInv, InPump, PumpPC
  <2> QED
    BY <2>1, <2>2, <2>3, <2>4, <2>5
<1>13. ASSUME NEW a \in Actors, Dispatch(a)
      PROVE  ControlInv'
  <2>1. TypeOK'
    BY <1>13 DEF Dispatch, Actors, TypeOK, PC, TaskPC, PumpPC, TargetInv, FrontInv
  <2>2. SuspendedInv'
    BY <1>13 DEF Dispatch, Actors, TypeOK, SuspendedInv
  <2>3. PumpInv'
    BY <1>13 DEF Dispatch, Actors, TypeOK, SuspendedInv, PumpInv, InPump, PumpPC
  <2>4. TargetInv'
    BY <1>13
       DEF Dispatch, Actors, TypeOK, SuspendedInv, PumpInv, TargetInv, InPump, PumpPC
  <2>5. FrontInv'
    BY <1>13
       DEF Dispatch, Actors, TypeOK, SuspendedInv, PumpInv, FrontInv, InPump, PumpPC
  <2> QED
    BY <2>1, <2>2, <2>3, <2>4, <2>5
<1>14. ASSUME NEW a \in Actors, MakeRunnable(a)
      PROVE  ControlInv'
  <2>1. TypeOK'
    BY <1>14 DEF MakeRunnable, Actors, TypeOK, PC, TaskPC, PumpPC, TargetInv, FrontInv
  <2>2. SuspendedInv'
    BY <1>14 DEF MakeRunnable, Actors, TypeOK, SuspendedInv
  <2>3. PumpInv'
    BY <1>14 DEF MakeRunnable, Actors, TypeOK, SuspendedInv, PumpInv, InPump, PumpPC
  <2>4. TargetInv'
    <3>1. \A b \in Actors \ {a} : ~InPump(b)
      BY <1>14, PumpIsUnique DEF MakeRunnable, OnePump, InPump, PumpPC
    <3>2. \A b \in Actors : pc'[b] \notin {"dispatch", "makeRunnable"}
      <4> SUFFICES ASSUME NEW b \in Actors
                   PROVE  pc'[b] \notin {"dispatch", "makeRunnable"}
        OBVIOUS
      <4>1. pc'[b] \in {"notify", "queued"} \/ (b /= a /\ pc'[b] = pc[b])
        BY <1>14 DEF MakeRunnable, TypeOK
      <4> QED
        BY <3>1, <4>1 DEF InPump, PumpPC
    <3> QED
      BY <3>2 DEF TargetInv
  <2>5. FrontInv'
    BY <1>14
       DEF MakeRunnable, Actors, TypeOK, SuspendedInv, PumpInv, FrontInv, InPump,
           PumpPC
  <2> QED
    BY <2>1, <2>2, <2>3, <2>4, <2>5
<1>15. ASSUME NEW a \in Actors, FillOne(a)
      PROVE  ControlInv'
  <2>1. TypeOK'
    <3>1. txq /= <<>>
      BY <1>15 DEF FillOne, FrontInv
    <3>2. Head(txq) \in Senders
      BY <3>1, HeadTailProperties DEF TypeOK
    <3>3. sendBuffer' \in Seq(Senders)
      <4>1. sendBuffer' = sendBuffer \/ sendBuffer' = Append(sendBuffer, Head(txq))
        BY <1>15 DEF FillOne
      <4>2. sendBuffer \in Seq(Senders)
        BY DEF TypeOK
      <4>3. Append(sendBuffer, Head(txq)) \in Seq(Senders)
        BY <3>2, <4>2, AppendType
      <4> QED
        BY <4>1, <4>2, <4>3
    <3>4. pc' \in [Actors -> PC]
      BY <1>15 DEF FillOne, TypeOK, PC, TaskPC, PumpPC
    <3> QED
      BY <1>15, <3>3, <3>4 DEF FillOne, TypeOK
  <2>2. SuspendedInv'
    BY <1>15 DEF FillOne, Actors, TypeOK, SuspendedInv
  <2>3. PumpInv'
    BY <1>15 DEF FillOne, Actors, TypeOK, SuspendedInv, PumpInv, InPump, PumpPC
  <2>4. TargetInv'
    BY <1>15
       DEF FillOne, Actors, TypeOK, SuspendedInv, PumpInv, TargetInv, InPump, PumpPC
  <2>5. FrontInv'
    BY <1>15
       DEF FillOne, Actors, TypeOK, SuspendedInv, PumpInv, FrontInv, InPump, PumpPC
  <2> QED
    BY <2>1, <2>2, <2>3, <2>4, <2>5
<1>16. ASSUME NEW a \in Actors, PopFront(a)
      PROVE  ControlInv'
  <2>1. TypeOK'
    BY <1>16 DEF PopFront, Actors, TypeOK, PC, TaskPC, PumpPC, TargetInv, FrontInv
  <2>2. SuspendedInv'
    BY <1>16 DEF PopFront, Actors, TypeOK, SuspendedInv
  <2>3. PumpInv'
    BY <1>16 DEF PopFront, Actors, TypeOK, SuspendedInv, PumpInv, InPump, PumpPC
  <2>4. TargetInv'
    BY <1>16
       DEF PopFront, Actors, TypeOK, SuspendedInv, PumpInv, TargetInv, InPump, PumpPC
  <2>5. FrontInv'
    BY <1>16
       DEF PopFront, Actors, TypeOK, SuspendedInv, PumpInv, FrontInv, InPump, PumpPC
  <2> QED
    BY <2>1, <2>2, <2>3, <2>4, <2>5
<1>17. ASSUME CompleteSending
      PROVE  ControlInv'
  <2>1. TypeOK'
    BY <1>17
       DEF CompleteSending, Written, Actors, TypeOK, PC, TaskPC, PumpPC, TargetInv,
           FrontInv
  <2>2. SuspendedInv'
    BY <1>17 DEF CompleteSending, Written, Actors, TypeOK, SuspendedInv
  <2>3. PumpInv'
    BY <1>17
       DEF CompleteSending, Written, Actors, TypeOK, SuspendedInv, PumpInv, InPump,
           PumpPC
  <2>4. TargetInv'
    BY <1>17
       DEF CompleteSending, Written, Actors, TypeOK, SuspendedInv, PumpInv, TargetInv,
           InPump, PumpPC
  <2>5. FrontInv'
    BY <1>17
       DEF CompleteSending, Written, Actors, TypeOK, SuspendedInv, PumpInv, FrontInv,
           InPump, PumpPC
  <2> QED
    BY <2>1, <2>2, <2>3, <2>4, <2>5
<1>18. ASSUME ClearSending
      PROVE  ControlInv'
  <2>1. TypeOK'
    BY <1>18
       DEF ClearSending, AfterClear, Actors, TypeOK, PC, TaskPC, PumpPC, TargetInv,
           FrontInv
  <2>2. SuspendedInv'
    BY <1>18 DEF ClearSending, AfterClear, Actors, TypeOK, SuspendedInv
  <2>3. PumpInv'
    BY <1>18
       DEF ClearSending, AfterClear, Actors, TypeOK, SuspendedInv, PumpInv, InPump,
           PumpPC
  <2>4. TargetInv'
    BY <1>18
       DEF ClearSending, AfterClear, Actors, TypeOK, SuspendedInv, PumpInv, TargetInv,
           InPump, PumpPC
  <2>5. FrontInv'
    BY <1>18
       DEF ClearSending, AfterClear, Actors, TypeOK, SuspendedInv, PumpInv, FrontInv,
           InPump, PumpPC
  <2> QED
    BY <2>1, <2>2, <2>3, <2>4, <2>5
<1>19. ASSUME Close
      PROVE  ControlInv'
  <2>1. TypeOK'
    BY <1>19 DEF Close, Actors, TypeOK, PC, TaskPC, PumpPC, TargetInv, FrontInv
  <2>2. SuspendedInv'
    BY <1>19 DEF Close, Actors, TypeOK, SuspendedInv
  <2>3. PumpInv'
    BY <1>19 DEF Close, Actors, TypeOK, SuspendedInv, PumpInv, InPump, PumpPC
  <2>4. TargetInv'
    BY <1>19 DEF Close, Actors, TypeOK, SuspendedInv, PumpInv, TargetInv, InPump, PumpPC
  <2>5. FrontInv'
    BY <1>19 DEF Close, Actors, TypeOK, SuspendedInv, PumpInv, FrontInv, InPump, PumpPC
  <2> QED
    BY <2>1, <2>2, <2>3, <2>4, <2>5
<1>20. ASSUME UNCHANGED vars
      PROVE  ControlInv'
  BY <1>20
     DEF vars, TypeOK, PC, TaskPC, PumpPC, TargetInv, FrontInv, SuspendedInv, PumpInv,
         InPump
<1> QED
  BY <1>1, <1>2, <1>3, <1>4, <1>5, <1>6, <1>7, <1>8, <1>9, <1>10, <1>11, <1>12, <1>13, <1>14, <1>15, <1>16, <1>17, <1>18, <1>19, <1>20
     DEF Next, SenderStep, Pump, Actors

-----------------------------------------------------------------------------
(* The data *)

\* A registered waiter faces a full queue, or the loop is about to look.
SeenInv == waiting # {} => \/ Len(txq) >= Limit
                           \/ \E a \in Actors : pc[a] \in {"full?", "wake"}

\* Queued messages have a write in flight or an actor on its way to start one.
StrandInv ==
    alive /\ (txq # <<>> \/ sendBuffer # <<>>) /\ ~sending
    => \E a \in Actors : InPump(a) \/ pc[a] = "run_sending"

\* run_sending leaves create_messages with nothing to write only if nothing is
\* queued, or if who queued it waits for the mutex.
FilledInv ==
    \A a \in Actors :
       mutex = a /\ pc[a] = "filled" /\ sendBuffer = <<>> /\ txq # <<>>
       => \E b \in Actors : pc[b] = "run_sending"

\* Some actor has serialised the front message and not popped it yet.
AtPop == \E a \in Actors : pc[a] = "pop"

\* Steps that leave the messages where they are.
Rest == UNCHANGED <<txq, sendBuffer, wire, accepted>> /\ AtPop' = AtPop

\* Only four actions move a message.
LEMMA FourMovers ==
    ASSUME ControlInv, [Next]_vars
    PROVE  \/ \E s \in Senders : Send(s)
           \/ \E a \in Actors : FillOne(a) \/ PopFront(a)
           \/ CompleteSending
           \/ Rest
<1> USE SendAssumption DEF ControlInv, Goto, endpoint, notification, tasks, wakeup
<1>1. ASSUME NEW s \in Senders, TakeToRun(s)
      PROVE  Rest
  BY <1>1 DEF TakeToRun, Rest, AtPop, Actors, TypeOK, SuspendedInv
<1>2. ASSUME NEW s \in Senders, TestWaiting(s)
      PROVE  Rest
  BY <1>2 DEF TestWaiting, Rest, AtPop, Actors, TypeOK, SuspendedInv
<1>3. ASSUME NEW s \in Senders, InstallCallback(s)
      PROVE  Rest
  BY <1>3 DEF InstallCallback, Rest, AtPop, Actors, TypeOK, SuspendedInv
<1>4. ASSUME NEW s \in Senders, DispatchIfResolved(s)
      PROVE  Rest
  BY <1>4 DEF DispatchIfResolved, Rest, AtPop, Actors, TypeOK, SuspendedInv
<1>5. ASSUME NEW s \in Senders, SuspendSetPool(s)
      PROVE  Rest
  BY <1>5 DEF SuspendSetPool, Rest, AtPop, Actors, TypeOK, SuspendedInv
<1>6. ASSUME NEW s \in Senders, SuspendInsert(s)
      PROVE  Rest
  BY <1>6 DEF SuspendInsert, Rest, AtPop, Actors, TypeOK, SuspendedInv
<1>7. ASSUME NEW a \in Actors, RunSending(a)
      PROVE  Rest
  BY <1>7 DEF RunSending, Return, MayStart, Rest, AtPop, Actors, TypeOK, SuspendedInv
<1>8. ASSUME NEW a \in Actors, Filled(a)
      PROVE  Rest
  BY <1>8 DEF Filled, Return, Rest, AtPop, Actors, TypeOK, SuspendedInv
<1>9. ASSUME NEW a \in Actors, TestFull(a)
      PROVE  Rest
  BY <1>9 DEF TestFull, IsTXQFull, Rest, AtPop, Actors, TypeOK, SuspendedInv
<1>10. ASSUME NEW a \in Actors, WakeSwap(a)
      PROVE  Rest
  BY <1>10 DEF WakeSwap, Rest, AtPop, Actors, TypeOK, SuspendedInv
<1>11. ASSUME NEW a \in Actors, NotifyNext(a)
      PROVE  Rest
  BY <1>11 DEF NotifyNext, Rest, AtPop, Actors, TypeOK, SuspendedInv
<1>12. ASSUME NEW a \in Actors, Dispatch(a)
      PROVE  Rest
  BY <1>12 DEF Dispatch, Rest, AtPop, Actors, TypeOK, SuspendedInv
<1>13. ASSUME NEW a \in Actors, MakeRunnable(a)
      PROVE  Rest
  BY <1>13 DEF MakeRunnable, Rest, AtPop, Actors, TypeOK, SuspendedInv
<1>14. ASSUME ClearSending
      PROVE  Rest
  BY <1>14 DEF ClearSending, AfterClear, Rest, AtPop, Actors, TypeOK, SuspendedInv
<1>15. ASSUME Close
      PROVE  Rest
  BY <1>15 DEF Close, Rest, AtPop, Actors, TypeOK, SuspendedInv
<1>16. ASSUME UNCHANGED vars
      PROVE  Rest
  BY <1>16 DEF vars, Rest, AtPop
<1> QED
  BY <1>1, <1>2, <1>3, <1>4, <1>5, <1>6, <1>7, <1>8, <1>9, <1>10, <1>11, <1>12, <1>13, <1>14, <1>15, <1>16
     DEF Next, SenderStep, Pump, Actors

\* Every step keeps the queue and the buffer within their limits.
LEMMA BoundStep ==
    ASSUME ControlInv, QueuesBounded, [Next]_vars
    PROVE  QueuesBounded'
<1> USE SendAssumption DEF ControlInv, QueuesBounded, TypeOK
<1>1. ASSUME NEW s \in Senders, Send(s)
      PROVE  QueuesBounded'
  BY <1>1 DEF Send, PushBack, HasRoom
<1>2. ASSUME NEW a \in Actors, FillOne(a)
      PROVE  QueuesBounded'
  BY <1>2 DEF FillOne
<1>3. ASSUME NEW a \in Actors, PopFront(a)
      PROVE  QueuesBounded'
  BY <1>3 DEF PopFront, FrontInv
<1>4. ASSUME CompleteSending
      PROVE  QueuesBounded'
  BY <1>4 DEF CompleteSending
<1>5. ASSUME Rest
      PROVE  QueuesBounded'
  BY <1>5 DEF Rest
<1> QED
  BY <1>1, <1>2, <1>3, <1>4, <1>5, FourMovers

\* Appending after the parts is appending to the last part.
LEMMA AppendLast ==
    ASSUME NEW u \in Seq(Senders), NEW v \in Seq(Senders), NEW m \in Senders
    PROVE  Append(u \o v, m) = u \o Append(v, m)
OBVIOUS

\* The front message can move from the queue to the end of what is before it.
LEMMA MoveFront ==
    ASSUME NEW u \in Seq(Senders), NEW v \in Seq(Senders), v # <<>>
    PROVE  u \o v = Append(u, Head(v)) \o Tail(v)
<1>1. /\ Head(v) \in Senders /\ Tail(v) \in Seq(Senders) /\ Len(Tail(v)) = Len(v) - 1
      /\ \A i \in 1..Len(Tail(v)) : Tail(v)[i] = v[i + 1]
  BY HeadTailProperties
<1>2. Append(u, Head(v)) \in Seq(Senders)
  BY <1>1
<1> DEFINE x == Append(u, Head(v)) \o Tail(v)
           y == u \o v
<1>3. x \in Seq(Senders) /\ y \in Seq(Senders)
  BY <1>1, <1>2, ConcatProperties
<1>4. Len(x) = Len(y)
  BY <1>1, <1>2, ConcatProperties, LenProperties
<1>5. ASSUME NEW i \in 1..Len(y)
      PROVE  y[i] = x[i]
  BY <1>1, <1>2, <1>5
<1> HIDE DEF x, y
<1>6. x = y
  BY <1>3, <1>4, <1>5, SeqEqual
<1> QED
  BY <1>6 DEF x, y

\* Every step keeps the accepted messages in order.
LEMMA OrderStep ==
    ASSUME ControlInv, AcceptedInOrder, [Next]_vars
    PROVE  AcceptedInOrder'
<1> DEFINE out == wire \o sendBuffer
<1> USE DEF ControlInv
<1>1. Unserialised = IF AtPop THEN Tail(txq) ELSE txq
  BY DEF Unserialised, AtPop
<1>2. Unserialised' = IF AtPop' THEN Tail(txq') ELSE txq'
  BY DEF Unserialised, AtPop
<1>3. AtPop => txq # <<>>
  BY DEF AtPop, FrontInv
<1>4. Unserialised \in Seq(Senders) /\ out \in Seq(Senders)
  BY <1>1, <1>3, HeadTailProperties, ConcatProperties DEF TypeOK
<1>5. ASSUME NEW s \in Senders, Send(s)
      PROVE  AcceptedInOrder'
  <2>1. AtPop' = AtPop
    BY <1>5, SendAssumption DEF Send, AtPop, Goto, TypeOK, Actors
  <2>2. UNCHANGED <<wire, sendBuffer>>
    BY <1>5 DEF Send
  <2>3. CASE UNCHANGED <<txq, accepted>>
    BY <1>1, <1>2, <2>1, <2>2, <2>3 DEF AcceptedInOrder
  <2>4. CASE txq' = Append(txq, s) /\ accepted' = Append(accepted, s)
    <3>1. AtPop => Tail(txq') = Append(Tail(txq), s)
      BY <1>3, <2>4 DEF TypeOK
    <3>2. Unserialised' = Append(Unserialised, s)
      BY <1>1, <1>2, <2>1, <2>4, <3>1
    <3>3. accepted' = out \o Append(Unserialised, s)
      BY <1>4, <2>4, AppendLast DEF AcceptedInOrder
    <3> QED
      BY <2>2, <3>2, <3>3 DEF AcceptedInOrder
  <2> QED
    BY <1>5, <2>3, <2>4 DEF Send, PushBack
<1>6. ASSUME NEW a \in Actors, FillOne(a)
      PROVE  AcceptedInOrder'
  <2>1. txq # <<>>
    BY <1>6 DEF FillOne, FrontInv
  <2>2. ~AtPop
    BY <1>6, PumpIsUnique DEF FillOne, AtPop, OnePump, InPump, PumpPC
  <2>3. CASE UNCHANGED sendBuffer
    <3>1. ~AtPop'
      BY <1>6, <2>2, <2>3 DEF FillOne, AtPop, Goto, TypeOK
    <3> QED
      BY <1>1, <1>2, <1>6, <2>2, <2>3, <3>1 DEF FillOne, AcceptedInOrder
  <2>4. CASE sendBuffer' = Append(sendBuffer, Head(txq)) /\ Goto(a, "pop")
    <3>1. AtPop'
      BY <2>4 DEF AtPop, Goto, TypeOK
    <3>2. out' = Append(out, Head(txq))
      BY <1>6, <2>1, <2>4, HeadTailProperties, AppendLast DEF FillOne, TypeOK
    <3>3. out \o txq = Append(out, Head(txq)) \o Tail(txq)
      BY <1>4, <2>1, MoveFront DEF TypeOK
    <3> QED
      BY <1>1, <1>2, <1>6, <2>2, <3>1, <3>2, <3>3 DEF FillOne, AcceptedInOrder
  <2> QED
    BY <1>6, <2>3, <2>4 DEF FillOne
<1>7. ASSUME NEW a \in Actors, PopFront(a)
      PROVE  AcceptedInOrder'
  <2>1. AtPop
    BY <1>7 DEF PopFront, AtPop
  <2>2. ~AtPop'
    BY <1>7, PumpIsUnique DEF PopFront, AtPop, OnePump, InPump, PumpPC, Goto, TypeOK
  <2> QED
    BY <1>1, <1>2, <1>7, <2>1, <2>2 DEF PopFront, AcceptedInOrder
<1>8. ASSUME CompleteSending
      PROVE  AcceptedInOrder'
  <2>1. AtPop' = AtPop
    BY <1>8, SendAssumption DEF CompleteSending, AtPop, Goto, TypeOK, Actors
  <2>2. out' = out
    BY <1>4, <1>8, ConcatEmptySeq DEF CompleteSending, Written
  <2> QED
    BY <1>1, <1>2, <1>8, <2>1, <2>2 DEF CompleteSending, AcceptedInOrder
<1>9. ASSUME Rest
      PROVE  AcceptedInOrder'
  BY <1>1, <1>2, <1>9 DEF Rest, AcceptedInOrder
<1> QED
  BY <1>5, <1>6, <1>7, <1>8, <1>9, FourMovers

\* Every step keeps waiters in sight.
LEMMA SeenStep ==
    ASSUME ControlInv, SeenInv, [Next]_vars
    PROVE  SeenInv'
<1> USE SendAssumption DEF ControlInv, Goto, endpoint, notification, tasks, wakeup
<1>1. ASSUME NEW s \in Senders, TakeToRun(s)
      PROVE  SeenInv'
  BY <1>1 DEF TakeToRun, Actors, TypeOK, SeenInv, SuspendedInv, FrontInv
<1>2. ASSUME NEW s \in Senders, Send(s)
      PROVE  SeenInv'
  BY <1>2 DEF Send, PushBack, HasRoom, Actors, TypeOK, SeenInv, SuspendedInv, FrontInv
<1>3. ASSUME NEW s \in Senders, TestWaiting(s)
      PROVE  SeenInv'
  BY <1>3 DEF TestWaiting, Actors, TypeOK, SeenInv, SuspendedInv, FrontInv
<1>4. ASSUME NEW s \in Senders, InstallCallback(s)
      PROVE  SeenInv'
  BY <1>4 DEF InstallCallback, Actors, TypeOK, SeenInv, SuspendedInv, FrontInv
<1>5. ASSUME NEW s \in Senders, DispatchIfResolved(s)
      PROVE  SeenInv'
  BY <1>5 DEF DispatchIfResolved, Actors, TypeOK, SeenInv, SuspendedInv, FrontInv
<1>6. ASSUME NEW s \in Senders, SuspendSetPool(s)
      PROVE  SeenInv'
  BY <1>6 DEF SuspendSetPool, Actors, TypeOK, SeenInv, SuspendedInv, FrontInv
<1>7. ASSUME NEW s \in Senders, SuspendInsert(s)
      PROVE  SeenInv'
  BY <1>7 DEF SuspendInsert, Actors, TypeOK, SeenInv, SuspendedInv, FrontInv
<1>8. ASSUME NEW a \in Actors, RunSending(a)
      PROVE  SeenInv'
  BY <1>8
     DEF RunSending, Return, MayStart, Actors, TypeOK, SeenInv, SuspendedInv, FrontInv
<1>9. ASSUME NEW a \in Actors, Filled(a)
      PROVE  SeenInv'
  BY <1>9 DEF Filled, Return, Actors, TypeOK, SeenInv, SuspendedInv, FrontInv
<1>10. ASSUME NEW a \in Actors, TestFull(a)
      PROVE  SeenInv'
  BY <1>10 DEF TestFull, IsTXQFull, Actors, TypeOK, SeenInv, SuspendedInv, FrontInv
<1>11. ASSUME NEW a \in Actors, WakeSwap(a)
      PROVE  SeenInv'
  BY <1>11 DEF WakeSwap, Actors, TypeOK, SeenInv, SuspendedInv, FrontInv
<1>12. ASSUME NEW a \in Actors, NotifyNext(a)
      PROVE  SeenInv'
  BY <1>12 DEF NotifyNext, Actors, TypeOK, SeenInv, SuspendedInv, FrontInv
<1>13. ASSUME NEW a \in Actors, Dispatch(a)
      PROVE  SeenInv'
  BY <1>13 DEF Dispatch, Actors, TypeOK, SeenInv, SuspendedInv, FrontInv
<1>14. ASSUME NEW a \in Actors, MakeRunnable(a)
      PROVE  SeenInv'
  BY <1>14 DEF MakeRunnable, Actors, TypeOK, SeenInv, SuspendedInv, FrontInv
<1>15. ASSUME NEW a \in Actors, FillOne(a)
      PROVE  SeenInv'
  BY <1>15 DEF FillOne, Actors, TypeOK, SeenInv, SuspendedInv, FrontInv
<1>16. ASSUME NEW a \in Actors, PopFront(a)
      PROVE  SeenInv'
  BY <1>16 DEF PopFront, Actors, TypeOK, SeenInv, SuspendedInv, FrontInv
<1>17. ASSUME CompleteSending
      PROVE  SeenInv'
  BY <1>17 DEF CompleteSending, Written, Actors, TypeOK, SeenInv, SuspendedInv, FrontInv
<1>18. ASSUME ClearSending
      PROVE  SeenInv'
  BY <1>18 DEF ClearSending, AfterClear, Actors, TypeOK, SeenInv, SuspendedInv, FrontInv
<1>19. ASSUME Close
      PROVE  SeenInv'
  BY <1>19 DEF Close, Actors, TypeOK, SeenInv, SuspendedInv, FrontInv
<1>20. ASSUME UNCHANGED vars
      PROVE  SeenInv'
  BY <1>20 DEF vars, TypeOK, SeenInv, SuspendedInv, FrontInv
<1> QED
  BY <1>1, <1>2, <1>3, <1>4, <1>5, <1>6, <1>7, <1>8, <1>9, <1>10, <1>11, <1>12, <1>13, <1>14, <1>15, <1>16, <1>17, <1>18, <1>19, <1>20
     DEF Next, SenderStep, Pump, Actors

\* No step leaves a message behind.
LEMMA StrandStep ==
    ASSUME ControlInv, StrandInv, FilledInv, [Next]_vars
    PROVE  (StrandInv /\ FilledInv)'
<1> USE SendAssumption DEF ControlInv, Goto, endpoint, notification, tasks, wakeup
<1>1. ASSUME NEW s \in Senders, TakeToRun(s)
      PROVE  (StrandInv /\ FilledInv)'
  <2>1. StrandInv'
    BY <1>1
       DEF TakeToRun, Actors, TypeOK, SuspendedInv, PumpInv, StrandInv, FilledInv,
           InPump, PumpPC
  <2>2. FilledInv'
    BY <1>1
       DEF TakeToRun, Actors, TypeOK, SuspendedInv, PumpInv, FilledInv, InPump, PumpPC
  <2> QED
    BY <2>1, <2>2
<1>2. ASSUME NEW s \in Senders, Send(s)
      PROVE  (StrandInv /\ FilledInv)'
  <2>1. StrandInv'
    BY <1>2
       DEF Send, PushBack, HasRoom, Actors, TypeOK, SuspendedInv, PumpInv, StrandInv,
           FilledInv, InPump, PumpPC
  <2>2. FilledInv'
    BY <1>2
       DEF Send, PushBack, HasRoom, Actors, TypeOK, SuspendedInv, PumpInv, FilledInv,
           InPump, PumpPC
  <2> QED
    BY <2>1, <2>2
<1>3. ASSUME NEW s \in Senders, TestWaiting(s)
      PROVE  (StrandInv /\ FilledInv)'
  <2>1. StrandInv'
    BY <1>3
       DEF TestWaiting, Actors, TypeOK, SuspendedInv, PumpInv, StrandInv, FilledInv,
           InPump, PumpPC
  <2>2. FilledInv'
    BY <1>3
       DEF TestWaiting, Actors, TypeOK, SuspendedInv, PumpInv, FilledInv, InPump,
           PumpPC
  <2> QED
    BY <2>1, <2>2
<1>4. ASSUME NEW s \in Senders, InstallCallback(s)
      PROVE  (StrandInv /\ FilledInv)'
  <2>1. StrandInv'
    BY <1>4
       DEF InstallCallback, Actors, TypeOK, SuspendedInv, PumpInv, StrandInv,
           FilledInv, InPump, PumpPC
  <2>2. FilledInv'
    BY <1>4
       DEF InstallCallback, Actors, TypeOK, SuspendedInv, PumpInv, FilledInv, InPump,
           PumpPC
  <2> QED
    BY <2>1, <2>2
<1>5. ASSUME NEW s \in Senders, DispatchIfResolved(s)
      PROVE  (StrandInv /\ FilledInv)'
  <2>1. StrandInv'
    BY <1>5
       DEF DispatchIfResolved, Actors, TypeOK, SuspendedInv, PumpInv, StrandInv,
           FilledInv, InPump, PumpPC
  <2>2. FilledInv'
    BY <1>5
       DEF DispatchIfResolved, Actors, TypeOK, SuspendedInv, PumpInv, FilledInv,
           InPump, PumpPC
  <2> QED
    BY <2>1, <2>2
<1>6. ASSUME NEW s \in Senders, SuspendSetPool(s)
      PROVE  (StrandInv /\ FilledInv)'
  <2>1. StrandInv'
    BY <1>6
       DEF SuspendSetPool, Actors, TypeOK, SuspendedInv, PumpInv, StrandInv, FilledInv,
           InPump, PumpPC
  <2>2. FilledInv'
    BY <1>6
       DEF SuspendSetPool, Actors, TypeOK, SuspendedInv, PumpInv, FilledInv, InPump,
           PumpPC
  <2> QED
    BY <2>1, <2>2
<1>7. ASSUME NEW s \in Senders, SuspendInsert(s)
      PROVE  (StrandInv /\ FilledInv)'
  <2>1. StrandInv'
    BY <1>7
       DEF SuspendInsert, Actors, TypeOK, SuspendedInv, PumpInv, StrandInv, FilledInv,
           InPump, PumpPC
  <2>2. FilledInv'
    BY <1>7
       DEF SuspendInsert, Actors, TypeOK, SuspendedInv, PumpInv, FilledInv, InPump,
           PumpPC
  <2> QED
    BY <2>1, <2>2
<1>8. ASSUME NEW a \in Actors, RunSending(a)
      PROVE  (StrandInv /\ FilledInv)'
  <2>1. StrandInv'
    BY <1>8
       DEF RunSending, Return, MayStart, Actors, TypeOK, SuspendedInv, PumpInv,
           StrandInv, FilledInv, InPump, PumpPC
  <2>2. FilledInv'
    BY <1>8
       DEF RunSending, Return, MayStart, Actors, TypeOK, SuspendedInv, PumpInv,
           FilledInv, InPump, PumpPC
  <2> QED
    BY <2>1, <2>2
<1>9. ASSUME NEW a \in Actors, Filled(a)
      PROVE  (StrandInv /\ FilledInv)'
  <2>1. StrandInv'
    BY <1>9
       DEF Filled, Return, Actors, TypeOK, SuspendedInv, PumpInv, StrandInv, FilledInv,
           InPump, PumpPC
  <2>2. FilledInv'
    BY <1>9
       DEF Filled, Return, Actors, TypeOK, SuspendedInv, PumpInv, FilledInv, InPump,
           PumpPC
  <2> QED
    BY <2>1, <2>2
<1>10. ASSUME NEW a \in Actors, TestFull(a)
      PROVE  (StrandInv /\ FilledInv)'
  <2>1. StrandInv'
    BY <1>10
       DEF TestFull, IsTXQFull, Actors, TypeOK, SuspendedInv, PumpInv, StrandInv,
           FilledInv, InPump, PumpPC
  <2>2. FilledInv'
    BY <1>10
       DEF TestFull, IsTXQFull, Actors, TypeOK, SuspendedInv, PumpInv, FilledInv,
           InPump, PumpPC
  <2> QED
    BY <2>1, <2>2
<1>11. ASSUME NEW a \in Actors, WakeSwap(a)
      PROVE  (StrandInv /\ FilledInv)'
  <2>1. StrandInv'
    BY <1>11
       DEF WakeSwap, Actors, TypeOK, SuspendedInv, PumpInv, StrandInv, FilledInv,
           InPump, PumpPC
  <2>2. FilledInv'
    BY <1>11
       DEF WakeSwap, Actors, TypeOK, SuspendedInv, PumpInv, FilledInv, InPump, PumpPC
  <2> QED
    BY <2>1, <2>2
<1>12. ASSUME NEW a \in Actors, NotifyNext(a)
      PROVE  (StrandInv /\ FilledInv)'
  <2>1. StrandInv'
    BY <1>12
       DEF NotifyNext, Actors, TypeOK, SuspendedInv, PumpInv, StrandInv, FilledInv,
           InPump, PumpPC
  <2>2. FilledInv'
    BY <1>12
       DEF NotifyNext, Actors, TypeOK, SuspendedInv, PumpInv, FilledInv, InPump, PumpPC
  <2> QED
    BY <2>1, <2>2
<1>13. ASSUME NEW a \in Actors, Dispatch(a)
      PROVE  (StrandInv /\ FilledInv)'
  <2>1. StrandInv'
    BY <1>13
       DEF Dispatch, Actors, TypeOK, SuspendedInv, PumpInv, StrandInv, FilledInv,
           InPump, PumpPC
  <2>2. FilledInv'
    BY <1>13
       DEF Dispatch, Actors, TypeOK, SuspendedInv, PumpInv, FilledInv, InPump, PumpPC
  <2> QED
    BY <2>1, <2>2
<1>14. ASSUME NEW a \in Actors, MakeRunnable(a)
      PROVE  (StrandInv /\ FilledInv)'
  <2>1. StrandInv'
    BY <1>14
       DEF MakeRunnable, Actors, TypeOK, SuspendedInv, PumpInv, StrandInv, FilledInv,
           InPump, PumpPC
  <2>2. FilledInv'
    BY <1>14
       DEF MakeRunnable, Actors, TypeOK, SuspendedInv, PumpInv, FilledInv, InPump,
           PumpPC
  <2> QED
    BY <2>1, <2>2
<1>15. ASSUME NEW a \in Actors, FillOne(a)
      PROVE  (StrandInv /\ FilledInv)'
  <2>1. StrandInv'
    BY <1>15
       DEF FillOne, Actors, TypeOK, SuspendedInv, PumpInv, StrandInv, FilledInv,
           InPump, PumpPC
  <2>2. FilledInv'
    BY <1>15
       DEF FillOne, Actors, TypeOK, SuspendedInv, PumpInv, FilledInv, InPump, PumpPC
  <2> QED
    BY <2>1, <2>2
<1>16. ASSUME NEW a \in Actors, PopFront(a)
      PROVE  (StrandInv /\ FilledInv)'
  <2>1. StrandInv'
    BY <1>16
       DEF PopFront, Actors, TypeOK, SuspendedInv, PumpInv, StrandInv, FilledInv,
           InPump, PumpPC
  <2>2. FilledInv'
    BY <1>16
       DEF PopFront, Actors, TypeOK, SuspendedInv, PumpInv, FilledInv, InPump, PumpPC
  <2> QED
    BY <2>1, <2>2
<1>17. ASSUME CompleteSending
      PROVE  (StrandInv /\ FilledInv)'
  <2>1. StrandInv'
    BY <1>17
       DEF CompleteSending, Written, Actors, TypeOK, SuspendedInv, PumpInv, StrandInv,
           FilledInv, InPump, PumpPC
  <2>2. FilledInv'
    BY <1>17
       DEF CompleteSending, Written, Actors, TypeOK, SuspendedInv, PumpInv, FilledInv,
           InPump, PumpPC
  <2> QED
    BY <2>1, <2>2
<1>18. ASSUME ClearSending
      PROVE  (StrandInv /\ FilledInv)'
  <2>1. StrandInv'
    BY <1>18
       DEF ClearSending, AfterClear, Actors, TypeOK, SuspendedInv, PumpInv, StrandInv,
           FilledInv, InPump, PumpPC
  <2>2. FilledInv'
    BY <1>18
       DEF ClearSending, AfterClear, Actors, TypeOK, SuspendedInv, PumpInv, FilledInv,
           InPump, PumpPC
  <2> QED
    BY <2>1, <2>2
<1>19. ASSUME Close
      PROVE  (StrandInv /\ FilledInv)'
  <2>1. StrandInv'
    BY <1>19
       DEF Close, Actors, TypeOK, SuspendedInv, PumpInv, StrandInv, FilledInv, InPump,
           PumpPC
  <2>2. FilledInv'
    BY <1>19 DEF Close, Actors, TypeOK, SuspendedInv, PumpInv, FilledInv, InPump, PumpPC
  <2> QED
    BY <2>1, <2>2
<1>20. ASSUME UNCHANGED vars
      PROVE  (StrandInv /\ FilledInv)'
  BY <1>20 DEF vars, TypeOK, SuspendedInv, PumpInv, StrandInv, FilledInv, InPump, PumpPC
<1> QED
  BY <1>1, <1>2, <1>3, <1>4, <1>5, <1>6, <1>7, <1>8, <1>9, <1>10, <1>11, <1>12, <1>13, <1>14, <1>15, <1>16, <1>17, <1>18, <1>19, <1>20
     DEF Next, SenderStep, Pump, Actors

-----------------------------------------------------------------------------
(* The theorems *)

Inv == ControlInv /\ QueuesBounded /\ AcceptedInOrder /\ SeenInv /\ StrandInv /\ FilledInv

\* The invariant holds initially.
LEMMA InitInv == Init => Inv
<1> SUFFICES ASSUME Init PROVE Inv
  OBVIOUS
<1>1. TypeOK
  <2>1. pc \in [Actors -> PC]
    BY DEF Init, PC, TaskPC
  <2>2. <<>> \in Seq(Senders)
    OBVIOUS
  <2> QED
    BY <2>1, <2>2 DEF Init, TypeOK
<1>2. \A a \in Actors : pc[a] \in {"idle", "queued"}
  BY DEF Init
<1>3. ControlInv
  BY <1>1, <1>2, SendAssumption
     DEF Init, ControlInv, SuspendedInv, PumpInv, TargetInv, FrontInv, InPump, PumpPC, Actors
<1>4. AcceptedInOrder
  <2>1. Unserialised = <<>>
    BY <1>2 DEF Init, Unserialised
  <2> QED
    BY <2>1 DEF Init, AcceptedInOrder
<1>5. QueuesBounded
  BY SendAssumption DEF Init, QueuesBounded
<1>6. SeenInv /\ StrandInv /\ FilledInv
  BY <1>2 DEF Init, SeenInv, StrandInv, FilledInv
<1> QED
  BY <1>3, <1>4, <1>5, <1>6 DEF Inv

\* The invariant holds in every reachable state.
LEMMA InvHolds == Spec => []Inv
<1>1. Inv /\ [Next]_vars => Inv'
  BY ControlStep, BoundStep, OrderStep, SeenStep, StrandStep DEF Inv
<1> QED
  BY <1>1, InitInv, PTL DEF Spec

\* The state of a connection's send side is well typed.
THEOREM TypeCorrect == Spec => []TypeOK
<1>1. Inv => TypeOK
  BY DEF Inv, ControlInv
<1> QED
  BY <1>1, InvHolds, PTL

\* create_messages never runs twice at a time, although complete_sending runs it
\* without the mutex.
THEOREM PumpAlone == Spec => []OnePump
<1>1. Inv => OnePump
  BY PumpIsUnique DEF Inv
<1> QED
  BY <1>1, InvHolds, PTL

\* txq keeps to BUFFER_SIZE_LIMIT and the buffer to its capacity.
THEOREM BoundsKept == Spec => []QueuesBounded
<1>1. Inv => QueuesBounded
  BY DEF Inv
<1> QED
  BY <1>1, InvHolds, PTL

\* What send() queued goes to the wire once and in order.
THEOREM InOrder == Spec => []AcceptedInOrder
<1>1. Inv => AcceptedInOrder
  BY DEF Inv
<1> QED
  BY <1>1, InvHolds, PTL

\* run_sending's early exit on asio_sending leaves no message behind.
THEOREM NothingStranded == Spec => []NoStrandedMessage
<1>1. Inv => NoStrandedMessage
  <2> SUFFICES ASSUME Inv, alive, txq \o sendBuffer # <<>>, ~sending
               PROVE  \E a \in Actors : InPump(a) \/ pc[a] = "run_sending"
    BY DEF NoStrandedMessage, InPump, PumpPC
  <2>1. txq # <<>> \/ sendBuffer # <<>>
    OBVIOUS
  <2> QED
    BY <2>1 DEF Inv, StrandInv
<1> QED
  BY <1>1, InvHolds, PTL

\* A waiter is registered only while the queue is full or the waking loop is at
\* work.
THEOREM WaitersSeen == Spec => []WaiterIsSeen
<1>1. Inv => WaiterIsSeen
  BY DEF Inv, SeenInv, WaiterIsSeen, InPump, PumpPC
<1> QED
  BY <1>1, InvHolds, PTL

\* Types, limits and one user of the send buffer at a time, for any number of
\* senders: the parts of SendInv together.
THEOREM SendCorrect == Spec => []SendInv
<1> QED
  BY TypeCorrect, BoundsKept, PumpAlone, PTL DEF SendInv

-----------------------------------------------------------------------------
(* The channel *)

\* The tasks that have not put their message into the queue.
Unsent == {s \in Senders : pc[s] \in {"queued", "send", "test", "install", "redispatch",
                                      "unmark", "insert", "suspended"}}

\* A message is queued once: its task does not come back to send().
OnceInv == \A i \in DOMAIN accepted : accepted[i] \notin Unsent

\* A step that queues nothing and brings no task back to send().
NoneComesBack == UNCHANGED accepted /\ Unsent' \subseteq Unsent

\* Whatever queues nothing brings no task back: makeRunnable() only finds tasks
\* that are suspended.
LEMMA BackStep ==
    ASSUME ControlInv, [Next]_vars
    PROVE  NoneComesBack \/ \E s \in Senders : Send(s)
<1> USE SendAssumption DEF ControlInv, Goto, endpoint, notification, tasks, wakeup
<1>1. ASSUME NEW s \in Senders, TakeToRun(s)
      PROVE  NoneComesBack
  BY <1>1 DEF TakeToRun, NoneComesBack, Unsent, Actors, TypeOK, SuspendedInv
<1>2. ASSUME NEW s \in Senders, TestWaiting(s)
      PROVE  NoneComesBack
  BY <1>2 DEF TestWaiting, NoneComesBack, Unsent, Actors, TypeOK, SuspendedInv
<1>3. ASSUME NEW s \in Senders, InstallCallback(s)
      PROVE  NoneComesBack
  BY <1>3 DEF InstallCallback, NoneComesBack, Unsent, Actors, TypeOK, SuspendedInv
<1>4. ASSUME NEW s \in Senders, DispatchIfResolved(s)
      PROVE  NoneComesBack
  BY <1>4 DEF DispatchIfResolved, NoneComesBack, Unsent, Actors, TypeOK, SuspendedInv
<1>5. ASSUME NEW s \in Senders, SuspendSetPool(s)
      PROVE  NoneComesBack
  BY <1>5 DEF SuspendSetPool, NoneComesBack, Unsent, Actors, TypeOK, SuspendedInv
<1>6. ASSUME NEW s \in Senders, SuspendInsert(s)
      PROVE  NoneComesBack
  BY <1>6 DEF SuspendInsert, NoneComesBack, Unsent, Actors, TypeOK, SuspendedInv
<1>7. ASSUME NEW a \in Actors, RunSending(a)
      PROVE  NoneComesBack
  BY <1>7 DEF RunSending, Return, MayStart, NoneComesBack, Unsent, Actors, TypeOK, SuspendedInv
<1>8. ASSUME NEW a \in Actors, Filled(a)
      PROVE  NoneComesBack
  BY <1>8 DEF Filled, Return, NoneComesBack, Unsent, Actors, TypeOK, SuspendedInv
<1>9. ASSUME NEW a \in Actors, TestFull(a)
      PROVE  NoneComesBack
  BY <1>9 DEF TestFull, IsTXQFull, NoneComesBack, Unsent, Actors, TypeOK, SuspendedInv
<1>10. ASSUME NEW a \in Actors, WakeSwap(a)
      PROVE  NoneComesBack
  BY <1>10 DEF WakeSwap, NoneComesBack, Unsent, Actors, TypeOK, SuspendedInv
<1>11. ASSUME NEW a \in Actors, NotifyNext(a)
      PROVE  NoneComesBack
  BY <1>11 DEF NotifyNext, NoneComesBack, Unsent, Actors, TypeOK, SuspendedInv
<1>12. ASSUME NEW a \in Actors, Dispatch(a)
      PROVE  NoneComesBack
  BY <1>12 DEF Dispatch, NoneComesBack, Unsent, Actors, TypeOK, SuspendedInv
<1>13. ASSUME NEW a \in Actors, MakeRunnable(a)
      PROVE  NoneComesBack
  BY <1>13 DEF MakeRunnable, NoneComesBack, Unsent, Actors, TypeOK, SuspendedInv
<1>14. ASSUME NEW a \in Actors, FillOne(a)
      PROVE  NoneComesBack
  BY <1>14 DEF FillOne, NoneComesBack, Unsent, Actors, TypeOK, SuspendedInv
<1>15. ASSUME NEW a \in Actors, PopFront(a)
      PROVE  NoneComesBack
  BY <1>15 DEF PopFront, NoneComesBack, Unsent, Actors, TypeOK, SuspendedInv
<1>16. ASSUME CompleteSending
      PROVE  NoneComesBack
  BY <1>16 DEF CompleteSending, NoneComesBack, Unsent, Actors, TypeOK, SuspendedInv
<1>17. ASSUME ClearSending
      PROVE  NoneComesBack
  BY <1>17 DEF ClearSending, AfterClear, NoneComesBack, Unsent, Actors, TypeOK, SuspendedInv
<1>18. ASSUME Close
      PROVE  NoneComesBack
  BY <1>18 DEF Close, NoneComesBack, Unsent, Actors, TypeOK, SuspendedInv
<1>19. ASSUME UNCHANGED vars
      PROVE  NoneComesBack
  BY <1>19 DEF vars, NoneComesBack, Unsent
<1> QED
  BY <1>1, <1>2, <1>3, <1>4, <1>5, <1>6, <1>7, <1>8, <1>9, <1>10, <1>11, <1>12, <1>13, <1>14, <1>15, <1>16, <1>17, <1>18, <1>19
     DEF Next, SenderStep, Pump, Actors

\* Every step keeps the messages queued once.
LEMMA OnceStep ==
    ASSUME ControlInv, OnceInv, [Next]_vars
    PROVE  OnceInv'
<1>1. CASE NoneComesBack
  BY <1>1 DEF NoneComesBack, OnceInv
<1>2. ASSUME NEW s \in Senders, Send(s)
      PROVE  OnceInv'
  <2>1. Unsent' \subseteq Unsent
    BY <1>2 DEF Send, Goto, Unsent, ControlInv, TypeOK, Actors
  <2>2. CASE UNCHANGED accepted
    BY <2>1, <2>2 DEF OnceInv
  <2>3. CASE accepted' = Append(accepted, s) /\ Goto(s, "run_sending")
    <3>1. s \notin Unsent'
      BY <2>3 DEF Goto, Unsent, ControlInv, TypeOK, Actors
    <3>2. /\ DOMAIN accepted' = 1..(Len(accepted) + 1) /\ DOMAIN accepted = 1..Len(accepted)
          /\ accepted'[Len(accepted) + 1] = s
          /\ \A i \in 1..Len(accepted) : accepted'[i] = accepted[i]
      BY <2>3, AppendProperties DEF ControlInv, TypeOK
    <3>3. Len(accepted) \in Nat
      BY LenProperties DEF ControlInv, TypeOK
    <3>4. ASSUME NEW i \in 1..(Len(accepted) + 1)
          PROVE  accepted'[i] \notin Unsent'
      BY <2>1, <3>1, <3>2, <3>3 DEF OnceInv
    <3> QED
      BY <3>2, <3>4 DEF OnceInv
  <2> QED
    BY <1>2, <2>2, <2>3 DEF Send, PushBack
<1> QED
  BY <1>1, <1>2, BackStep

\* The parts of the accepted messages, grouped the other way.
LEMMA Regroup ==
    ASSUME NEW u \in Seq(Senders), NEW v \in Seq(Senders), NEW w \in Seq(Senders)
    PROVE  (u \o v) \o w = u \o (v \o w)
<1> DEFINE x == (u \o v) \o w
           y == u \o (v \o w)
<1>1. /\ u \o v \in Seq(Senders) /\ v \o w \in Seq(Senders)
      /\ x \in Seq(Senders) /\ y \in Seq(Senders) /\ Len(x) = Len(y)
  BY ConcatProperties
<1>2. \A i \in 1..Len(x) : x[i] = y[i]
  BY ConcatProperties
<1> HIDE DEF x, y
<1>3. x = y
  BY <1>1, <1>2, SeqEqual
<1> QED
  BY <1>3 DEF x, y

\* What is delivered first and kept after it together are the whole.
LEMMA DeliverAll ==
    ASSUME NEW u \in Seq(Senders), NEW v \in Seq(Senders)
    PROVE  /\ SubSeq(u \o v, 1, Len(u)) = u
           /\ SubSeq(u \o v, Len(u) + 1, Len(u \o v)) = v
<1> DEFINE w == u \o v
           x == SubSeq(w, 1, Len(u))
           y == SubSeq(w, Len(u) + 1, Len(w))
<1>1. /\ w \in Seq(Senders) /\ Len(w) = Len(u) + Len(v)
      /\ \A i \in 1..Len(u) : w[i] = u[i]
      /\ \A i \in 1..Len(v) : w[Len(u) + i] = v[i]
      /\ Len(u) \in Nat /\ Len(v) \in Nat
  BY ConcatProperties, LenProperties
<1> HIDE DEF w
<1>2. x \in Seq(Senders) /\ Len(x) = Len(u) /\ \A i \in 1..Len(u) : x[i] = w[i]
  BY <1>1
<1>3. y \in Seq(Senders) /\ Len(y) = Len(v) /\ \A i \in 1..Len(v) : y[i] = w[Len(u) + i]
  BY <1>1
<1> HIDE DEF x, y
<1>4. x = u
  BY <1>1, <1>2, SeqEqual
<1>5. y = v
  BY <1>1, <1>3, SeqEqual
<1> QED
  BY <1>4, <1>5 DEF x, y, w

\* Every step of the transmit queue is a step of the channel or leaves it alone.
LEMMA ChannelStep ==
    ASSUME Inv, OnceInv, [Next]_vars
    PROVE  [Channel!Next]_(Channel!channelVars)
<1> DEFINE held == sendBuffer \o Unserialised
<1> USE DEF Inv, ControlInv
<1>1. Unserialised = IF AtPop THEN Tail(txq) ELSE txq
  BY DEF Unserialised, AtPop
<1>2. Unserialised' = IF AtPop' THEN Tail(txq') ELSE txq'
  BY DEF Unserialised, AtPop
<1>3. AtPop => txq # <<>>
  BY DEF AtPop, FrontInv
<1>4. Unserialised \in Seq(Senders) /\ Len(Unserialised) <= Len(txq) /\ held \in Seq(Senders)
  BY <1>1, <1>3, HeadTailProperties, ConcatProperties, LenProperties DEF TypeOK
<1>5. ASSUME held' = held, wire' = wire
      PROVE  UNCHANGED Channel!channelVars
  BY <1>5 DEF Channel!channelVars
<1>6. ASSUME NEW s \in Senders, Send(s)
      PROVE  Channel!Accept(s) \/ UNCHANGED Channel!channelVars
  <2>1. AtPop' = AtPop
    BY <1>6, SendAssumption DEF Send, AtPop, Goto, TypeOK, Actors
  <2>2. UNCHANGED <<wire, sendBuffer>>
    BY <1>6 DEF Send
  <2>3. CASE UNCHANGED txq
    BY <1>1, <1>2, <1>5, <2>1, <2>2, <2>3
  <2>4. CASE HasRoom /\ txq' = Append(txq, s)
    <3>1. AtPop => Tail(txq') = Append(Tail(txq), s)
      BY <1>3, <2>4 DEF TypeOK
    <3>2. Unserialised' = Append(Unserialised, s)
      BY <1>1, <1>2, <2>1, <2>4, <3>1
    <3>3. held' = Append(held, s)
      BY <1>4, <2>2, <3>2, AppendLast DEF TypeOK
    <3>4. Len(held) < Limit + Space
      <4>1. Len(held) = Len(sendBuffer) + Len(Unserialised)
        BY <1>4, ConcatProperties DEF TypeOK
      <4> QED
        BY <1>4, <2>4, <4>1, SendAssumption, LenProperties
           DEF HasRoom, QueuesBounded, TypeOK
    <3>5. s \in Unsent
      BY <1>6 DEF Send, Unsent
    <3>6. /\ \A i \in DOMAIN held : held[i] # s
          /\ \A i \in DOMAIN wire : wire[i] # s
      <4>1. accepted = wire \o held
        <5>1. (wire \o sendBuffer) \o Unserialised = wire \o (sendBuffer \o Unserialised)
          BY <1>4, Regroup DEF TypeOK
        <5> QED
          BY <5>1 DEF AcceptedInOrder
      <4>2. /\ Len(accepted) = Len(wire) + Len(held)
            /\ \A i \in 1..Len(wire) : accepted[i] = wire[i]
            /\ \A i \in 1..Len(held) : accepted[Len(wire) + i] = held[i]
        BY <1>4, <4>1, ConcatProperties DEF TypeOK
      <4> HIDE DEF held
      <4>3. \A i \in 1..Len(accepted) : accepted[i] # s
        BY <3>5, LenProperties DEF OnceInv, TypeOK
      <4>4. /\ DOMAIN held = 1..Len(held) /\ DOMAIN wire = 1..Len(wire)
            /\ Len(held) \in Nat /\ Len(wire) \in Nat
        BY <1>4, LenProperties DEF TypeOK
      <4> QED
        BY <4>2, <4>3, <4>4
    <3> QED
      BY <2>2, <3>3, <3>4, <3>6 DEF Channel!Accept
  <2> QED
    BY <1>6, <2>3, <2>4 DEF Send, PushBack
<1>7. ASSUME NEW a \in Actors, FillOne(a)
      PROVE  UNCHANGED Channel!channelVars
  <2>1. txq # <<>>
    BY <1>7 DEF FillOne, FrontInv
  <2>2. ~AtPop
    BY <1>7, PumpIsUnique DEF FillOne, AtPop, OnePump, InPump, PumpPC
  <2>3. CASE UNCHANGED sendBuffer
    <3>1. ~AtPop'
      BY <1>7, <2>2, <2>3 DEF FillOne, AtPop, Goto, TypeOK
    <3> QED
      BY <1>1, <1>2, <1>5, <1>7, <2>2, <2>3, <3>1 DEF FillOne
  <2>4. CASE sendBuffer' = Append(sendBuffer, Head(txq)) /\ Goto(a, "pop")
    <3>1. AtPop'
      BY <2>4 DEF AtPop, Goto, TypeOK
    <3>2. sendBuffer \o txq = Append(sendBuffer, Head(txq)) \o Tail(txq)
      BY <2>1, MoveFront DEF TypeOK
    <3> QED
      BY <1>1, <1>2, <1>5, <1>7, <2>2, <2>4, <3>1, <3>2 DEF FillOne
  <2> QED
    BY <1>7, <2>3, <2>4 DEF FillOne
<1>8. ASSUME NEW a \in Actors, PopFront(a)
      PROVE  UNCHANGED Channel!channelVars
  <2>1. AtPop
    BY <1>8 DEF PopFront, AtPop
  <2>2. ~AtPop'
    BY <1>8, PumpIsUnique DEF PopFront, AtPop, OnePump, InPump, PumpPC, Goto, TypeOK
  <2> QED
    BY <1>1, <1>2, <1>5, <1>8, <2>1, <2>2 DEF PopFront
<1>9. ASSUME CompleteSending
      PROVE  Channel!Deliver \/ UNCHANGED Channel!channelVars
  <2>1. AtPop' = AtPop
    BY <1>9, SendAssumption DEF CompleteSending, AtPop, Goto, TypeOK, Actors
  <2>2. Unserialised' = Unserialised
    BY <1>1, <1>2, <1>9, <2>1 DEF CompleteSending
  <2>3. held' = Unserialised /\ wire' = wire \o sendBuffer
    BY <1>4, <1>9, <2>2, ConcatEmptySeq DEF CompleteSending, Written
  <2>4. CASE sendBuffer = <<>>
    BY <1>4, <1>5, <2>3, <2>4, ConcatEmptySeq DEF TypeOK
  <2>5. CASE sendBuffer # <<>>
    <3> DEFINE n == Len(sendBuffer)
    <3>1. n \in 1..Len(held)
      <4>1. n \in Nat \ {0} /\ Len(Unserialised) \in Nat
        BY <1>4, <2>5, EmptySeq, LenProperties DEF TypeOK
      <4>2. Len(held) = n + Len(Unserialised)
        BY <1>4, ConcatProperties DEF TypeOK
      <4> QED
        BY <4>1, <4>2
    <3>2. SubSeq(held, 1, n) = sendBuffer /\ SubSeq(held, n + 1, Len(held)) = Unserialised
      BY <1>4, DeliverAll DEF TypeOK
    <3> QED
      BY <2>3, <3>1, <3>2 DEF Channel!Deliver
  <2> QED
    BY <2>4, <2>5
<1>10. ASSUME Rest
      PROVE  UNCHANGED Channel!channelVars
  BY <1>1, <1>2, <1>5, <1>10 DEF Rest
<1> QED
  BY <1>6, <1>7, <1>8, <1>9, <1>10, FourMovers DEF Channel!Next

\* The transmit queue, its buffer and the write in flight are a bounded channel
\* that takes a message once and keeps the order.
THEOREM QueueIsChannel == Spec => ChannelKept
<1>1. Init => Channel!Init
  <2> SUFFICES ASSUME Init PROVE Channel!Init
    OBVIOUS
  <2>1. Unserialised = <<>>
    BY DEF Init, Unserialised
  <2> QED
    BY <2>1 DEF Init, Channel!Init
<1>2. Init => OnceInv
  BY DEF Init, OnceInv
<1>3. OnceInv /\ Inv /\ [Next]_vars => OnceInv'
  BY OnceStep DEF Inv
<1>4. OnceInv /\ Inv /\ [Next]_vars => [Channel!Next]_(Channel!channelVars)
  BY ChannelStep
<1> QED
  BY <1>1, <1>2, <1>3, <1>4, InvHolds, PTL DEF Spec, ChannelKept, Channel!Spec

=============================================================================
