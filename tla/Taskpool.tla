------------------------------ MODULE Taskpool ------------------------------
(***************************************************************************)
(* The task pool of the server: threading/src/cpp/lib/Taskpool.cpp (the    *)
(* queues and the worker loop) and Task.cpp (the operations callers use).  *)
(*                                                                         *)
(* There is one pool, the default one, so Task::pool is modelled by        *)
(* whether the pointer is set.  Threads are the worker threads in          *)
(* Taskpool::run; Clients stand for every other thread of control that     *)
(* calls a Task or Taskpool operation (asio threads, the main thread, the  *)
(* bodies of running tasks acting on other tasks).  A block the code       *)
(* executes under Taskpool::mutex is one action; what the code reads or    *)
(* writes outside the mutex is a separate action.                          *)
(*                                                                         *)
(* Time is abstract: a delay is any finite time (Expire ends it) and a     *)
(* timed wait ends at any moment (the deadline is always finite, and the   *)
(* condition variable may wake spuriously).                                *)
(***************************************************************************)
EXTENDS ListErase

CONSTANTS
    Tasks,       \* the Task objects
    Threads,     \* worker threads
    Clients,     \* other callers
    NoTask,      \* the null TaskP
    Nobody,      \* Taskpool::mutex is not held across steps
    GroupOf,     \* Task::group_id of every task
    Periodic,    \* the tasks whose run() submits themselves again, delayed
    MaxWakes,    \* bound: calls of Task::makeRunnable
    MaxRearms,   \* bound: delayed re-submissions by periodic tasks
    CanStop      \* whether some client may call Taskpool::stop

Actors == Threads \cup Clients

ASSUME ConstantsAssumption ==
    /\ Threads # {}
    /\ Threads \cap Clients = {}
    /\ NoTask \notin Tasks
    /\ Nobody \notin Actors
    /\ Periodic \subseteq Tasks
    /\ IsFiniteSet(Tasks)
    /\ DOMAIN GroupOf = Tasks
    /\ MaxWakes \in Nat
    /\ MaxRearms \in Nat
    /\ CanStop \in BOOLEAN

VARIABLES
    pool,        \* Task::pool is set
    cancelled,   \* Task::cancelled
    pending,     \* pending_tasks
    suspended,   \* suspended_tasks
    future,      \* future_tasks; ripe: the due time has come
    running,     \* running_tasks
    quit,        \* Taskpool::quit
    mutex,       \* the client that holds Taskpool::mutex for ever, or Nobody
    pc,          \* where each actor is
    hand,        \* the task it works on (mytask in run(), this in Task::...)
    status,      \* the ExitState a worker thread got from the task's run()
    batch,       \* the local list of cancelTaskGroup
    torn,        \* actors whose unlocked insert overlaps another change
    fresh,       \* tasks not yet submitted by their creator
    finished,    \* history: tasks whose last run() ended
    lost,        \* history: tasks a torn insert dropped from suspended_tasks
    wakes, rearms

queues == <<pending, suspended, future>>
history == <<fresh, finished, lost>>
bounds == <<wakes, rearms>>
vars == <<pool, cancelled, pending, suspended, future, running, quit, mutex, pc,
          hand, status, batch, torn, fresh, finished, lost, wakes, rearms>>

ExitState == {"DEFER", "COMPLETE", "ERRORED", "CANCELLED"}
FutureTask == [task : Tasks, ripe : BOOLEAN]
PC == {"top", "await", "asleep", "woken", "recheck", "future", "pending", "mark",
       "run", "body", "after", "unmark", "suspend", "insert",
       "idle", "push", "wake", "remove", "batch", "stuck", "exit"}

TypeOK ==
    /\ pool \in [Tasks -> BOOLEAN]
    /\ cancelled \in [Tasks -> BOOLEAN]
    /\ pending \in Seq(Tasks)
    /\ suspended \subseteq Tasks
    /\ future \subseteq FutureTask
    /\ running \in [Threads -> Tasks \cup {NoTask}]
    /\ quit \in BOOLEAN
    /\ mutex \in Clients \cup {Nobody}
    /\ pc \in [Actors -> PC]
    /\ hand \in [Actors -> Tasks \cup {NoTask}]
    /\ status \in [Threads -> ExitState]
    /\ batch \in [Clients -> SUBSET Tasks]
    /\ torn \subseteq Actors
    /\ fresh \subseteq Tasks
    /\ finished \subseteq Tasks
    /\ lost \subseteq Tasks
    /\ wakes \in 0..MaxWakes
    /\ rearms \in 0..MaxRearms

Init ==
    /\ pool = [t \in Tasks |-> FALSE]
    /\ cancelled = [t \in Tasks |-> FALSE]
    /\ pending = <<>>
    /\ suspended = {}
    /\ future = {}
    /\ running = [th \in Threads |-> NoTask]
    /\ quit = FALSE
    /\ mutex = Nobody
    /\ pc = [a \in Actors |-> IF a \in Threads THEN "top" ELSE "idle"]
    /\ hand = [a \in Actors |-> NoTask]
    /\ status = [th \in Threads |-> "COMPLETE"]
    /\ batch = [c \in Clients |-> {}]
    /\ torn = {}
    /\ fresh = Tasks
    /\ finished = {}
    /\ lost = {}
    /\ wakes = MaxWakes
    /\ rearms = MaxRearms

-----------------------------------------------------------------------------
(* Helpers *)

\* Taskpool::mutex can be taken.
Unlocked == mutex = Nobody

Goto(a, l) == pc' = [pc EXCEPT ![a] = l]

\* Variant: nobody is notified.
GotoAndNotifyOne_Silent(a, l) == Goto(a, l)

\* a moves to l, and work_available.notify_one() moves one sleeper.
GotoAndNotifyOne(a, l) ==
    LET asleep == {th \in Threads : pc[th] = "asleep"}
    IN  IF asleep = {}
        THEN Goto(a, l)
        ELSE \E th \in asleep : pc' = [pc EXCEPT ![a] = l, ![th] = "woken"]

\* A change of suspended_tasks by actor a, under the mutex or not, tears the
\* inserts that other actors have under way without it.
Tear(a) == torn' = torn \cup {b \in Actors \ {a} : pc[b] = "insert"}

TearIf(a, changes) == IF changes THEN Tear(a) ELSE UNCHANGED torn

-----------------------------------------------------------------------------
(* The worker loop: Taskpool::run *)

CheckQuit(th) ==
    /\ pc[th] = "top"
    /\ Goto(th, IF quit THEN "exit" ELSE "await")
    /\ UNCHANGED <<pool, cancelled, queues, running, quit, mutex, hand, status,
                   batch, torn, history, bounds>>

\* Sleep only when pending_tasks is empty; the test and the start of the wait
\* are one critical section.
AwaitWork(th) ==
    /\ pc[th] = "await"
    /\ Unlocked
    /\ Goto(th, IF pending = <<>> THEN "asleep" ELSE "recheck")
    /\ UNCHANGED <<pool, cancelled, queues, running, quit, mutex, hand, status,
                   batch, torn, history, bounds>>

\* wait_until returns at its deadline (lockless_getNextWakeTime is finite) or
\* spuriously.
WaitTimesOut(th) ==
    /\ pc[th] = "asleep"
    /\ Goto(th, "woken")
    /\ UNCHANGED <<pool, cancelled, queues, running, quit, mutex, hand, status,
                   batch, torn, history, bounds>>

\* Variant: timers are looked at only when the queue was not empty.
FirstLook_SkipsTimers(th) == IF pc[th] = "recheck" THEN "future" ELSE "pending"

\* Timers come before pending tasks.
FirstLook(th) == "future"

\* A woken thread first gets the mutex back; then quit is read again.
RecheckQuit(th) ==
    /\ \/ pc[th] = "recheck"
       \/ pc[th] = "woken" /\ Unlocked
    /\ Goto(th, IF quit THEN "exit" ELSE FirstLook(th))
    /\ UNCHANGED <<pool, cancelled, queues, running, quit, mutex, hand, status,
                   batch, torn, history, bounds>>

Due == {f \in future : f.ripe}
DeadDue == {f \in Due : cancelled[f.task]}

\* Variant: the pool pointer is not cleared.
Take_KeepsPool(th, t) ==
    /\ hand' = [hand EXCEPT ![th] = t]
    /\ Goto(th, "mark")
    /\ UNCHANGED pool

\* mytask = t; mytask -> pool = 0.
Take(th, t) ==
    /\ hand' = [hand EXCEPT ![th] = t]
    /\ pool' = [pool EXCEPT ![t] = FALSE]
    /\ Goto(th, "mark")

\* Variant: with no timer due, back to the top of the loop.
SecondLook_Never == "top"

SecondLook == "pending"

\* lockless_getNextFutureWork: cancelled entries met on the way to a live one
\* are discarded.  Which due entries come first depends on due times the model
\* does not keep, so any subset of the cancelled ones may be met.
TakeFuture(th) ==
    /\ pc[th] = "future"
    /\ Unlocked
    /\ \/ \E f \in Due \ DeadDue, dead \in SUBSET DeadDue :
             /\ future' = future \ (dead \cup {f})
             /\ Take(th, f.task)
       \/ /\ Due = DeadDue
          /\ future' = future \ DeadDue
          /\ Goto(th, SecondLook)
          /\ UNCHANGED <<hand, pool>>
    /\ UNCHANGED <<cancelled, pending, suspended, running, quit, mutex, status,
                   batch, torn, history, bounds>>

TakePending(th) ==
    /\ pc[th] = "pending"
    /\ Unlocked
    /\ \/ /\ pending # <<>>
          /\ Take(th, Head(pending))
          /\ pending' = Tail(pending)
       \/ /\ pending = <<>>
          /\ Goto(th, "top")
          /\ UNCHANGED <<hand, pool, pending>>
    /\ UNCHANGED <<cancelled, suspended, future, running, quit, mutex, status,
                   batch, torn, history, bounds>>

MarkRunning(th) ==
    /\ pc[th] = "mark"
    /\ Unlocked
    /\ running' = [running EXCEPT ![th] = hand[th]]
    /\ Goto(th, "run")
    /\ UNCHANGED <<pool, cancelled, queues, quit, mutex, hand, status, batch,
                   torn, history, bounds>>

\* isCancelled() is read once, before runThunk().
CheckCancelled(th) ==
    /\ pc[th] = "run"
    /\ IF cancelled[hand[th]]
       THEN /\ status' = [status EXCEPT ![th] = "CANCELLED"]
            /\ Goto(th, "unmark")
       ELSE /\ Goto(th, "body")
            /\ UNCHANGED status
    /\ UNCHANGED <<pool, cancelled, queues, running, quit, mutex, hand, batch,
                   torn, history, bounds>>

\* run() of a task that does not submit itself again: it defers, completes, or
\* throws (ERRORED).
RunOnce(th) ==
    /\ pc[th] = "body"
    /\ hand[th] \notin Periodic
    /\ \E s \in {"DEFER", "COMPLETE", "ERRORED"} :
          /\ status' = [status EXCEPT ![th] = s]
          /\ finished' = IF s = "DEFER" THEN finished ELSE finished \cup {hand[th]}
    /\ Goto(th, "unmark")
    /\ UNCHANGED <<pool, cancelled, queues, running, quit, mutex, hand, batch,
                   torn, fresh, lost, bounds>>

\* run() of a periodic task (OefHeartbeatTask, KarmaRefreshTask): submit itself
\* delayed, then COMPLETE; or COMPLETE for good when its endpoint is gone.
\* Task::submit(pool, delay) does nothing when the pool is already set.
RunPeriodic(th) ==
    LET t == hand[th] IN
    /\ pc[th] = "body"
    /\ t \in Periodic
    /\ status' = [status EXCEPT ![th] = "COMPLETE"]
    /\ \/ /\ finished' = finished \cup {t}
          /\ Goto(th, "unmark")
          /\ UNCHANGED <<pool, rearms>>
       \/ /\ rearms > 0
          /\ rearms' = rearms - 1
          /\ Goto(th, IF pool[t] THEN "unmark" ELSE "after")
          /\ pool' = [pool EXCEPT ![t] = TRUE]
          /\ UNCHANGED finished
    /\ UNCHANGED <<cancelled, queues, running, quit, mutex, hand, batch, torn,
                   fresh, lost, wakes>>

\* running_tasks.erase, then the switch on the status.
UnmarkRunning(th) ==
    /\ pc[th] = "unmark"
    /\ Unlocked
    /\ running' = [running EXCEPT ![th] = NoTask]
    /\ IF status[th] = "DEFER"
       THEN /\ Goto(th, "suspend")
            /\ UNCHANGED hand
       ELSE /\ Goto(th, "top")
            /\ hand' = [hand EXCEPT ![th] = NoTask]
    /\ UNCHANGED <<pool, cancelled, queues, quit, mutex, status, batch, torn,
                   history, bounds>>

\* Taskpool::suspend runs without the mutex: first the pool pointer ...
SuspendSetPool(th) ==
    /\ pc[th] = "suspend"
    /\ pool' = [pool EXCEPT ![hand[th]] = TRUE]
    /\ Goto(th, "insert")
    /\ UNCHANGED <<cancelled, queues, running, quit, mutex, hand, status, batch,
                   torn, history, bounds>>

-----------------------------------------------------------------------------
(* Steps shared by the worker threads and the other callers *)

Return(a) ==
    /\ Goto(a, IF a \in Threads THEN "top" ELSE "idle")
    /\ hand' = [hand EXCEPT ![a] = NoTask]

\* ... then the insert into the std::set.  An insert that another change of the
\* set overlapped is undefined behaviour: nodes, the new one included, may be
\* lost from the tree.
SuspendInsert(a) ==
    /\ pc[a] = "insert"
    /\ \E dropped \in IF a \in torn THEN SUBSET (suspended \cup {hand[a]}) ELSE {{}} :
          /\ suspended' = (suspended \cup {hand[a]}) \ dropped
          /\ lost' = lost \cup dropped
    /\ torn' = (torn \cup {b \in Actors : pc[b] = "insert"}) \ {a}
    /\ Return(a)
    /\ UNCHANGED <<pool, cancelled, pending, future, running, quit, mutex, status,
                   batch, fresh, finished, bounds>>

\* Variant: the bare task.
Entry_Bare(t) == t

Entry(t) == [task |-> t, ripe |-> FALSE]

\* Taskpool::after: no notify.
After(a) ==
    /\ pc[a] = "after"
    /\ Unlocked
    /\ future' = future \cup {Entry(hand[a])}
    /\ IF a \in Threads
       THEN Goto(a, "unmark") /\ UNCHANGED hand
       ELSE Return(a)
    /\ UNCHANGED <<pool, cancelled, pending, suspended, running, quit, mutex,
                   status, batch, torn, history, bounds>>

\* The clock passes the due time of a future task.
Expire ==
    \E f \in future :
       /\ ~f.ripe
       /\ future' = (future \ {f}) \cup {[f EXCEPT !.ripe = TRUE]}
       /\ UNCHANGED <<pool, cancelled, pending, suspended, running, quit, mutex,
                      pc, hand, status, batch, torn, history, bounds>>

-----------------------------------------------------------------------------
(* The operations of Task and Taskpool that callers use *)

\* Task::submit(): the creator submits a new task once.  The pool pointer is
\* set first, then Taskpool::submit asks isRunnable() and takes the mutex, or
\* suspends the task without it.
Submit(c, t) ==
    /\ pc[c] = "idle"
    /\ t \in fresh
    /\ fresh' = fresh \ {t}
    /\ pool' = [pool EXCEPT ![t] = TRUE]
    /\ hand' = [hand EXCEPT ![c] = t]
    /\ \E runnable \in BOOLEAN : Goto(c, IF runnable THEN "push" ELSE "insert")
    /\ UNCHANGED <<cancelled, queues, running, quit, mutex, status, batch, torn,
                   finished, lost, bounds>>

SubmitPush(c) ==
    /\ pc[c] = "push"
    /\ Unlocked
    /\ pending' = Append(pending, hand[c])
    /\ GotoAndNotifyOne(c, "idle")
    /\ hand' = [hand EXCEPT ![c] = NoTask]
    /\ UNCHANGED <<pool, cancelled, suspended, future, running, quit, mutex,
                   status, batch, torn, history, bounds>>

\* Task::submit(delay) of a new task.
SubmitDelayed(c, t) ==
    /\ pc[c] = "idle"
    /\ t \in fresh
    /\ fresh' = fresh \ {t}
    /\ pool' = [pool EXCEPT ![t] = TRUE]
    /\ hand' = [hand EXCEPT ![c] = t]
    /\ Goto(c, "after")
    /\ UNCHANGED <<cancelled, queues, running, quit, mutex, status, batch, torn,
                   finished, lost, bounds>>

\* Task::makeRunnable reads the pool pointer without a lock; with no pool the
\* call only counts ("makeRunnable.no-taskpool").
Wake(c, t) ==
    /\ pc[c] = "idle"
    /\ t \notin fresh
    /\ wakes > 0
    /\ wakes' = wakes - 1
    /\ IF pool[t]
       THEN /\ Goto(c, "wake")
            /\ hand' = [hand EXCEPT ![c] = t]
       ELSE UNCHANGED <<pc, hand>>
    /\ UNCHANGED <<pool, cancelled, queues, running, quit, mutex, status, batch,
                   torn, history, rearms>>

\* Variant: the task stays in suspended_tasks.
Unsuspended_Kept(t) == suspended

Unsuspended(t) == suspended \ {t}

\* Taskpool::makeRunnable moves a suspended task to the front of the queue.
WakeMove(c) ==
    LET t == hand[c] IN
    /\ pc[c] = "wake"
    /\ Unlocked
    /\ \/ /\ t \in suspended
          /\ suspended' = Unsuspended(t)
          /\ pending' = <<t>> \o pending
          /\ GotoAndNotifyOne(c, "idle")
          /\ Tear(c)
       \/ /\ t \notin suspended
          /\ Goto(c, "idle")
          /\ UNCHANGED <<suspended, pending, torn>>
    /\ hand' = [hand EXCEPT ![c] = NoTask]
    /\ UNCHANGED <<pool, cancelled, future, running, quit, mutex, status, batch,
                   history, bounds>>

\* Task::cancel sets the flag and, when the pool pointer is set, goes on to
\* Taskpool::remove.
Cancel(c, t) ==
    /\ pc[c] = "idle"
    /\ t \notin fresh
    /\ cancelled' = [cancelled EXCEPT ![t] = TRUE]
    /\ IF pool[t]
       THEN /\ Goto(c, "remove")
            /\ hand' = [hand EXCEPT ![c] = t]
       ELSE UNCHANGED <<pc, hand>>
    /\ UNCHANGED <<pool, queues, running, quit, mutex, status, batch, torn,
                   history, bounds>>

\* Taskpool::remove: pending_tasks and suspended_tasks, not future_tasks.
Remove(t) ==
    /\ pending' = Erase(pending, {t})
    /\ suspended' = suspended \ {t}

RemoveCancelled(c) ==
    /\ pc[c] = "remove"
    /\ Unlocked
    /\ Remove(hand[c])
    /\ TearIf(c, hand[c] \in suspended)
    /\ Return(c)
    /\ UNCHANGED <<pool, cancelled, future, running, quit, mutex, status, batch,
                   history, bounds>>

\* Taskpool::cancelTaskGroup, locked part: the group's pending and suspended
\* tasks move to a local list.  Running and future tasks are not looked at.
CancelTaskGroup(c, g) ==
    LET victims == {t \in Elements(pending) \cup suspended : GroupOf[t] = g} IN
    /\ pc[c] = "idle"
    /\ Unlocked
    /\ victims # {}
    /\ pending' = Erase(pending, victims)
    /\ suspended' = suspended \ victims
    /\ TearIf(c, victims \cap suspended # {})
    /\ batch' = [batch EXCEPT ![c] = victims]
    /\ Goto(c, "batch")
    /\ UNCHANGED <<pool, cancelled, future, running, quit, mutex, hand, status,
                   history, bounds>>

\* ... then, unlocked, t -> cancel() for each: the flag, and remove() once more.
CancelNext(c) ==
    /\ pc[c] = "batch"
    /\ Unlocked
    /\ \E t \in batch[c] :
          /\ cancelled' = [cancelled EXCEPT ![t] = TRUE]
          /\ batch' = [batch EXCEPT ![c] = @ \ {t}]
          /\ Goto(c, IF batch[c] = {t} THEN "idle" ELSE "batch")
          /\ IF pool[t]
             THEN Remove(t) /\ TearIf(c, t \in suspended)
             ELSE UNCHANGED <<pending, suspended, torn>>
    /\ UNCHANGED <<pool, future, running, quit, mutex, hand, status, history, bounds>>

-----------------------------------------------------------------------------
(* Taskpool::stop cancels every pending and then every running task while it *)
(* holds the mutex; Task::cancel of a task whose pool is set calls           *)
(* Taskpool::remove, which locks the same std::mutex again and never         *)
(* returns.                                                                  *)

RunningTasks == {running[th] : th \in Threads} \ {NoTask}

StopReturns(c) ==
    /\ \A t \in Elements(pending) \cup RunningTasks : ~pool[t]
    /\ cancelled' = [t \in Tasks |-> \/ cancelled[t]
                                     \/ t \in Elements(pending) \cup RunningTasks]
    /\ pending' = <<>>
    /\ pc' = [a \in Actors |-> IF pc[a] = "asleep" THEN "woken"
                               ELSE IF a = c THEN "exit" ELSE pc[a]]
    /\ UNCHANGED mutex

\* The tasks before the first one with a pool are cancelled, then that one.
StopRelocks(c) ==
    /\ \/ \E i \in DOMAIN pending :
             /\ pool[pending[i]]
             /\ \A j \in 1..(i - 1) : ~pool[pending[j]]
             /\ cancelled' = [t \in Tasks |-> \/ cancelled[t]
                                              \/ \E j \in 1..i : pending[j] = t]
             /\ UNCHANGED pending
       \/ /\ \A t \in Elements(pending) : ~pool[t]
          /\ pending' = <<>>
          /\ \E t \in RunningTasks, before \in SUBSET RunningTasks :
                /\ pool[t]
                /\ \A u \in before : ~pool[u]
                /\ cancelled' = [u \in Tasks |-> \/ cancelled[u]
                                                 \/ u \in Elements(pending) \cup before \cup {t}]
    /\ mutex' = c
    /\ Goto(c, "stuck")

Stop(c) ==
    /\ CanStop
    /\ pc[c] = "idle"
    /\ Unlocked
    /\ ~quit
    /\ quit' = TRUE
    /\ StopReturns(c) \/ StopRelocks(c)
    /\ UNCHANGED <<pool, suspended, future, running, hand, status, batch, torn,
                   history, bounds>>

-----------------------------------------------------------------------------
ThreadStep(th) ==
    \/ CheckQuit(th) \/ AwaitWork(th) \/ WaitTimesOut(th) \/ RecheckQuit(th)
    \/ TakeFuture(th) \/ TakePending(th) \/ MarkRunning(th) \/ CheckCancelled(th)
    \/ RunOnce(th) \/ RunPeriodic(th) \/ UnmarkRunning(th) \/ SuspendSetPool(th)
    \/ SuspendInsert(th) \/ After(th)

\* The rest of a call that a client has begun.
ClientStep(c) ==
    \/ SubmitPush(c) \/ SuspendInsert(c) \/ After(c) \/ WakeMove(c)
    \/ RemoveCancelled(c) \/ CancelNext(c)

ClientCall(c) ==
    \/ \E t \in Tasks : Submit(c, t) \/ SubmitDelayed(c, t) \/ Wake(c, t) \/ Cancel(c, t)
    \/ \E t \in Tasks : CancelTaskGroup(c, GroupOf[t])
    \/ Stop(c)

Next ==
    \/ \E th \in Threads : ThreadStep(th)
    \/ \E c \in Clients : ClientStep(c) \/ ClientCall(c)
    \/ Expire

Spec == Init /\ [][Next]_vars

\* Threads run, calls that began go on, and time passes; nobody has to call.
Fairness ==
    /\ \A th \in Threads : WF_vars(ThreadStep(th))
    /\ \A c \in Clients : WF_vars(ClientStep(c))
    /\ WF_vars(Expire)

FairSpec == Spec /\ Fairness

-----------------------------------------------------------------------------
(* Properties *)

FutureTasks == {f.task : f \in future}

\* Worker thread th is responsible for the task in its hand.  After run() ended
\* in anything but DEFER the thread only drops its reference (a periodic task
\* may be queued, even running elsewhere, by then).
Holds(th) ==
    \/ pc[th] \in {"mark", "run", "body", "after", "suspend", "insert"}
    \/ pc[th] = "unmark" /\ status[th] = "DEFER"

\* Client c is between setting the pool pointer and queueing the task.
Queues(c) == pc[c] \in {"push", "after", "insert"}

Owns(a) == IF a \in Threads THEN Holds(a) ELSE Queues(a)

Owner(t, a) == Owns(a) /\ hand[a] = t

\* A task is in one place at a time: once in one queue, or in the hand of one
\* actor.  No two threads run the same task, and no wake, cancel or re-submission
\* in any order queues it twice.  (Taskpool::run, makeRunnable, suspend, after.)
OnePlace ==
    /\ \A i, j \in DOMAIN pending : pending[i] = pending[j] => i = j
    /\ Elements(pending) \cap suspended = {}
    /\ Elements(pending) \cap FutureTasks = {}
    /\ suspended \cap FutureTasks = {}
    /\ \A f, g \in future : f.task = g.task => f = g
    /\ \A a \in Actors : Owns(a) =>
          hand[a] \notin Elements(pending) \cup suspended \cup FutureTasks
    /\ \A a, b \in Actors : Owns(a) /\ Owns(b) /\ hand[a] = hand[b] => a = b

\* No task vanishes: a submitted task that was neither cancelled nor ended is in
\* a queue, in somebody's hand or being cancelled, unless a torn insert lost it.
\* The unlocked insert of Taskpool::suspend is the only way to lose a task.
NoTaskVanishes ==
    \A t \in Tasks : ~cancelled[t] =>
       \/ t \in fresh \cup finished \cup lost
       \/ t \in Elements(pending) \cup suspended \cup FutureTasks
       \/ \E a \in Actors : Owner(t, a)
       \/ \E c \in Clients : t \in batch[c]

\* While there is pending work some worker is on its way to it: it is never
\* left to the time-out of a sleeping thread (submit and makeRunnable notify
\* one thread only; run() sleeps only on an empty queue).
WorkHasAWorker ==
    pending # <<>> /\ ~quit => \E th \in Threads : pc[th] \notin {"asleep", "exit"}

\* cancel() and makeRunnable() reach a task through Task::pool, so a queued task
\* must have it set; and a task taken to run must not, or submitting itself again
\* would be skipped as "already in pool".
PoolPointerRight ==
    /\ \A t \in Elements(pending) \cup suspended \cup FutureTasks : pool[t]
    /\ \A th \in Threads : pc[th] \in {"mark", "run", "body"} => ~pool[hand[th]]

\* Every pending task is taken by a thread or cancelled, when only finitely many
\* wakes (which overtake it) and timers (which are taken first) come.
PendingIsTaken == \A t \in Tasks : t \in Elements(pending) ~> t \notin Elements(pending)

\* Every delayed task leaves the timer queue, although after() wakes nobody.
TimerFires == \A t \in Tasks : t \in FutureTasks ~> t \notin FutureTasks

-----------------------------------------------------------------------------
(* What one would expect from the code's own words, and what it does not do *)
(* (the README, Known deviations).                                          *)

\* stop() comes back to its caller (the test servers join the worker threads
\* after it and then print "BYE").
StopComesBack == quit ~> mutex = Nobody /\ \A th \in Threads : pc[th] = "exit"
=============================================================================
