----------------------------- MODULE SendQueue -----------------------------
(***************************************************************************)
(* Back-pressure on an endpoint's transmit queue.  Send tasks              *)
(* (mt-core/tasks-base TSendProtoTask.hpp, AgentToAgentMessageTask.hpp)    *)
(* put one message each into EndpointBase::txq, or register a Notification *)
(* with the endpoint's Waitable and defer.  Whoever fills the send buffer  *)
(* (EndpointBase::create_messages, ProtoMessageSender::checkForSpace) wakes *)
(* the waiters when the queue has room.                                    *)
(*                                                                         *)
(* Each task is one thread of control, from the moment a worker takes it   *)
(* until it is suspended again; "net" is the asio thread that completes    *)
(* the single write in flight.  txq_mutex, the Waitable's mutex and        *)
(* Taskpool::mutex protect single actions; EndpointBase::mutex is held     *)
(* while run_sending fills the buffer and is a variable.                   *)
(***************************************************************************)
EXTENDS Integers, Sequences

CONSTANTS
    Senders,   \* the send tasks; a task also stands for its message
    Net,       \* the asio completion thread
    NoOne,     \* no actor, no task
    Limit,     \* BUFFER_SIZE_LIMIT, in messages
    Space,     \* the send buffer's capacity, in messages
    CanClose   \* whether the connection may go down

Actors == Senders \cup {Net}

ASSUME SendAssumption ==
    /\ Net \notin Senders
    /\ NoOne \notin Actors
    /\ Limit \in Nat \ {0}
    /\ Space \in Nat \ {0}
    /\ CanClose \in BOOLEAN

VARIABLES
    alive,     \* *state == RUNNING_ENDPOINT
    txq,       \* EndpointBase::txq
    sendBuffer,\* the messages serialised into sendBuffer
    wire,      \* what the peer has been sent
    sending,   \* asio_sending
    mutex,     \* EndpointBase::mutex: its holder
    pc,        \* where each actor is
    waiting,   \* Waitable::waiting: tasks whose Notification is registered
    notified,  \* the task's Notification left state WAITING
    callback,  \* the task's Notification holds its success callback
    defers,    \* what Waiting() told the task
    pool,      \* Task::pool is set
    suspended, \* Taskpool::suspended_tasks
    local,     \* waiting_local of Waitable::wake
    target,    \* the task whose Notification is being dispatched
    accepted,  \* history: the messages send() queued, in order
    lost       \* history: the messages send() took and the list dropped

endpoint == <<alive, txq, sendBuffer, wire, sending, mutex, accepted, lost>>
notification == <<notified, callback, defers>>
tasks == <<pool, suspended>>
wakeup == <<local, target>>
vars == <<alive, txq, sendBuffer, wire, sending, mutex, pc, waiting, notified,
          callback, defers, pool, suspended, local, target, accepted,
          lost>>

TaskPC == {"queued", "send", "test", "install", "redispatch", "unmark",
           "insert", "suspended", "done"}
PumpPC == {"full?", "wake", "notify", "dispatch", "makeRunnable", "fill", "pop",
           "filled"}
PC == TaskPC \cup PumpPC \cup {"idle", "clear", "run_sending"}

TypeOK ==
    /\ alive \in BOOLEAN
    /\ txq \in Seq(Senders)
    /\ sendBuffer \in Seq(Senders)
    /\ wire \in Seq(Senders)
    /\ sending \in BOOLEAN
    /\ mutex \in Actors \cup {NoOne}
    /\ pc \in [Actors -> PC]
    /\ waiting \subseteq Senders
    /\ notified \in [Senders -> BOOLEAN]
    /\ callback \in [Senders -> BOOLEAN]
    /\ defers \in [Senders -> BOOLEAN]
    /\ pool \in [Senders -> BOOLEAN]
    /\ suspended \subseteq Senders
    /\ local \subseteq Senders
    /\ target \in Senders \cup {NoOne}
    /\ accepted \in Seq(Senders)
    /\ lost \subseteq Senders

\* Every task has been submitted and is in pending_tasks.
Init ==
    /\ alive = TRUE
    /\ txq = <<>> /\ sendBuffer = <<>> /\ wire = <<>> /\ accepted = <<>>
    /\ sending = FALSE
    /\ mutex = NoOne
    /\ pc = [a \in Actors |-> IF a = Net THEN "idle" ELSE "queued"]
    /\ waiting = {}
    /\ notified = [s \in Senders |-> FALSE]
    /\ callback = [s \in Senders |-> FALSE]
    /\ defers = [s \in Senders |-> FALSE]
    /\ pool = [s \in Senders |-> TRUE]
    /\ suspended = {}
    /\ local = {}
    /\ target = NoOne
    /\ lost = {}

Goto(a, l) == pc' = [pc EXCEPT ![a] = l]

-----------------------------------------------------------------------------
(* run() of a send task, and the pool's part before and after it *)

\* Taskpool::run pops the task: its pool pointer is cleared.
TakeToRun(s) ==
    /\ pc[s] = "queued"
    /\ pool' = [pool EXCEPT ![s] = FALSE]
    /\ Goto(s, "send")
    /\ UNCHANGED <<endpoint, waiting, notification, suspended, wakeup>>

\* push_back under txq_mutex races with the pop_front of checkForSpace, which
\* does not take it.  When both work on the only node of the std::list, the new
\* node may end up linked to the removed one: it is lost.
PushRaces == Len(txq) = 1 /\ \E a \in Actors : pc[a] = "pop"

\* Variant: the message goes to the front.
PushBack_Front(s) ==
    /\ txq' = <<s>> \o txq
    /\ accepted' = Append(accepted, s)
    /\ UNCHANGED lost

PushBack(s) ==
    \/ /\ txq' = Append(txq, s)
       /\ accepted' = Append(accepted, s)
       /\ UNCHANGED lost
    \/ /\ PushRaces
       /\ lost' = lost \cup {s}
       /\ UNCHANGED <<txq, accepted>>

HasRoom == Len(txq) < Limit

\* EndpointBase::send, under txq_mutex: queue the message, or register a new
\* Notification (whose callbacks are not set yet).
Send(s) ==
    /\ pc[s] = "send"
    /\ \/ /\ HasRoom
          /\ PushBack(s)
          /\ Goto(s, "run_sending")
          /\ UNCHANGED <<waiting, notified, callback>>
       \/ /\ ~HasRoom
          /\ waiting' = waiting \cup {s}
          /\ notified' = [notified EXCEPT ![s] = FALSE]
          /\ callback' = [callback EXCEPT ![s] = FALSE]
          /\ Goto(s, "test")
          /\ UNCHANGED <<txq, accepted, lost>>
    /\ UNCHANGED <<alive, sendBuffer, wire, sending, mutex, defers, tasks, wakeup>>

\* ... . Then(...) . Waiting(): the answer decides between DEFER and COMPLETE.
TestWaiting(s) ==
    /\ pc[s] = "test"
    /\ defers' = [defers EXCEPT ![s] = ~notified[s]]
    /\ Goto(s, "install")
    /\ UNCHANGED <<endpoint, waiting, notified, callback, tasks, wakeup>>

\* The temporary NotificationBuilder dies: its callbacks move to the
\* Notification without a lock ...
InstallCallback(s) ==
    /\ pc[s] = "install"
    /\ callback' = [callback EXCEPT ![s] = TRUE]
    /\ Goto(s, "redispatch")
    /\ UNCHANGED <<endpoint, waiting, notified, defers, tasks, wakeup>>

\* ... and are dispatched here when the Notification was resolved meanwhile.
\* The callback is makeRunnable(): the running task has no pool, so that only
\* counts.  Afterwards run() defers, or goes on as if the message were queued.
DispatchIfResolved(s) ==
    /\ pc[s] = "redispatch"
    /\ callback' = [callback EXCEPT ![s] = @ /\ ~notified[s]]
    /\ Goto(s, IF defers[s] THEN "unmark" ELSE "run_sending")
    /\ UNCHANGED <<endpoint, waiting, notified, defers, tasks, wakeup>>

\* Taskpool::suspend: the pool pointer, then the set.
SuspendSetPool(s) ==
    /\ pc[s] = "unmark"
    /\ pool' = [pool EXCEPT ![s] = TRUE]
    /\ Goto(s, "insert")
    /\ UNCHANGED <<endpoint, waiting, notification, suspended, wakeup>>

SuspendInsert(s) ==
    /\ pc[s] = "insert"
    /\ suspended' = suspended \cup {s}
    /\ Goto(s, "suspended")
    /\ UNCHANGED <<endpoint, waiting, notification, pool, wakeup>>

-----------------------------------------------------------------------------
(* EndpointBase::run_sending and complete_sending *)

\* Where an actor goes on when run_sending returns.
Return(a) == Goto(a, IF a = Net THEN "idle" ELSE "done")

\* Variant: asio_sending is not looked at.
MayStart_IgnoresFlag == alive

\* No write is in flight and the connection is up.
MayStart == ~sending /\ alive

RunSending(a) ==
    /\ pc[a] = "run_sending"
    /\ mutex = NoOne
    /\ \/ /\ ~MayStart
          /\ Return(a)
          /\ UNCHANGED <<sending, mutex>>
       \/ /\ MayStart
          /\ sendBuffer = <<>>
          /\ mutex' = a
          /\ Goto(a, "full?")
          /\ UNCHANGED sending
       \/ /\ MayStart
          /\ sendBuffer # <<>>
          /\ sending' = TRUE
          /\ Return(a)
          /\ UNCHANGED mutex
    /\ UNCHANGED <<alive, txq, sendBuffer, wire, accepted, lost, waiting,
                   notification, tasks, wakeup>>

\* create_messages came back: start a write if there is anything to write.
\* In complete_sending it runs without the mutex and before asio_sending is
\* cleared.
Filled(a) ==
    /\ pc[a] = "filled"
    /\ IF mutex = a
       THEN /\ mutex' = NoOne
            /\ sending' = (sendBuffer # <<>>)
            /\ Return(a)
       ELSE /\ Goto(a, "clear")
            /\ UNCHANGED <<mutex, sending>>
    /\ UNCHANGED <<alive, txq, sendBuffer, wire, accepted, lost, waiting,
                   notification, tasks, wakeup>>

Written == wire \o sendBuffer

\* The write in flight ends: everything in sendBuffer is out.  On a connection
\* that is down the handler returns at once, with asio_sending still set.
CompleteSending ==
    /\ pc[Net] = "idle"
    /\ sending
    /\ alive
    /\ wire' = Written
    /\ sendBuffer' = <<>>
    /\ Goto(Net, "full?")
    /\ UNCHANGED <<alive, txq, sending, mutex, accepted, lost, waiting,
                   notification, tasks, wakeup>>

\* Variant: complete_sending ends without run_sending.
AfterClear_NoKick == "idle"

AfterClear == "run_sending"

ClearSending ==
    /\ pc[Net] = "clear"
    /\ mutex = NoOne
    /\ sending' = FALSE
    /\ Goto(Net, AfterClear)
    /\ UNCHANGED <<alive, txq, sendBuffer, wire, mutex, accepted, lost, waiting,
                   notification, tasks, wakeup>>

\* The connection goes down (eof, error or close on the reading side).
Close ==
    /\ CanClose
    /\ alive
    /\ alive' = FALSE
    /\ UNCHANGED <<txq, sendBuffer, wire, sending, mutex, accepted, lost, pc, waiting,
                   notification, tasks, wakeup>>

-----------------------------------------------------------------------------
(* ProtoMessageSender::checkForSpace, run by actor a *)

IsTXQFull == Len(txq) >= Limit

\* Variant: the waiters are not woken.
TestFull_NoWake(a) ==
    /\ pc[a] = "full?"
    /\ Goto(a, IF txq = <<>> THEN "filled" ELSE "fill")
    /\ UNCHANGED <<endpoint, waiting, notification, tasks, wakeup>>

\* Loop head: IsTXQFull, under txq_mutex.
TestFull(a) ==
    /\ pc[a] = "full?"
    /\ Goto(a, IF IsTXQFull THEN "fill" ELSE "wake")
    /\ UNCHANGED <<endpoint, waiting, notification, tasks, wakeup>>

\* Waitable::wake takes the whole list under its lock ...
WakeSwap(a) ==
    /\ pc[a] = "wake"
    /\ local' = waiting
    /\ waiting' = {}
    /\ Goto(a, "notify")
    /\ UNCHANGED <<endpoint, notification, tasks, target>>

\* ... and resolves each Notification: its state under the notification's lock,
\* then the callback, if one is there, without it.  After the last one, an
\* empty queue ends the loop.
NotifyNext(a) ==
    /\ pc[a] = "notify"
    /\ \/ \E s \in local :
             /\ local' = local \ {s}
             /\ target' = s
             /\ notified' = [notified EXCEPT ![s] = TRUE]
             /\ Goto(a, "dispatch")
       \/ /\ local = {}
          /\ Goto(a, IF txq = <<>> THEN "filled" ELSE "fill")
          /\ UNCHANGED <<local, target, notified>>
    /\ UNCHANGED <<endpoint, waiting, callback, defers, tasks>>

\* DispatchCallbacks: Task::makeRunnable goes no further without a pool.
Dispatch(a) ==
    /\ pc[a] = "dispatch"
    /\ callback' = [callback EXCEPT ![target] = FALSE]
    /\ IF callback[target] /\ pool[target]
       THEN Goto(a, "makeRunnable") /\ UNCHANGED target
       ELSE Goto(a, "notify") /\ target' = NoOne
    /\ UNCHANGED <<endpoint, waiting, notified, defers, tasks, local>>

\* Taskpool::makeRunnable, under its mutex.
MakeRunnable(a) ==
    /\ pc[a] = "makeRunnable"
    /\ suspended' = suspended \ {target}
    /\ pc' = [pc EXCEPT ![a] = "notify",
                        ![target] = IF target \in suspended THEN "queued" ELSE @]
    /\ target' = NoOne
    /\ UNCHANGED <<endpoint, waiting, notification, pool, local>>

\* Serialise the front message, or leave when it does not fit ...
FillOne(a) ==
    /\ pc[a] = "fill"
    /\ IF Len(sendBuffer) < Space
       THEN /\ sendBuffer' = Append(sendBuffer, Head(txq))
            /\ Goto(a, "pop")
       ELSE /\ Goto(a, "filled")
            /\ UNCHANGED sendBuffer
    /\ UNCHANGED <<alive, txq, wire, sending, mutex, accepted, lost, waiting,
                   notification, tasks, wakeup>>

\* ... and pop it, without txq_mutex.
PopFront(a) ==
    /\ pc[a] = "pop"
    /\ txq' = Tail(txq)
    /\ Goto(a, "full?")
    /\ UNCHANGED <<alive, sendBuffer, wire, sending, mutex, accepted, lost, waiting,
                   notification, tasks, wakeup>>

-----------------------------------------------------------------------------
SenderStep(s) ==
    \/ TakeToRun(s) \/ Send(s) \/ TestWaiting(s) \/ InstallCallback(s)
    \/ DispatchIfResolved(s) \/ SuspendSetPool(s) \/ SuspendInsert(s)

Pump(a) ==
    \/ RunSending(a) \/ Filled(a) \/ TestFull(a) \/ WakeSwap(a) \/ NotifyNext(a)
    \/ Dispatch(a) \/ MakeRunnable(a) \/ FillOne(a) \/ PopFront(a)

Next ==
    \/ \E s \in Senders : SenderStep(s) \/ Pump(s)
    \/ Pump(Net) \/ CompleteSending \/ ClearSending
    \/ Close

Spec == Init /\ [][Next]_vars

\* Worker threads run the tasks that are runnable, and asio completes writes.
Fairness ==
    /\ \A s \in Senders : WF_vars(SenderStep(s)) /\ WF_vars(Pump(s))
    /\ WF_vars(Pump(Net) \/ CompleteSending \/ ClearSending)

FairSpec == Spec /\ Fairness

-----------------------------------------------------------------------------
(* Properties *)

\* The messages of txq that are not serialised yet.
Unserialised == IF \E a \in Actors : pc[a] = "pop" THEN Tail(txq) ELSE txq

\* What send() queued is on the wire, in the send buffer or in txq, once and in
\* the order of queueing, whatever the interleaving of senders, completions
\* and the close.  (send, create_messages, checkForSpace, complete_sending.)
AcceptedInOrder == accepted = wire \o sendBuffer \o Unserialised

Channel == INSTANCE MessageChannel WITH
    Messages <- Senders, Capacity <- Limit + Space,
    inTransit <- sendBuffer \o Unserialised, delivered <- wire

\* The transmit queue, its buffer and the write in flight are a bounded channel
\* in which a message is never reordered and never sent a second time, also by
\* a task that is woken and runs again.  (send, checkForSpace, complete_sending.)
ChannelKept == Channel!Spec

\* txq never holds more than BUFFER_SIZE_LIMIT messages, and the buffer is never
\* overfilled.
QueuesBounded == Len(txq) <= Limit /\ Len(sendBuffer) <= Space

InPump(a) == pc[a] \in PumpPC

\* At most one actor is in create_messages: asio_sending, set by the thread that
\* starts a write and cleared by its completion, keeps run_sending out while
\* complete_sending fills the buffer without the mutex.
OnePump == \A a, b \in Actors : InPump(a) /\ InPump(b) => a = b

\* No stranded message: when no actor is at work in the endpoint, a running
\* connection with queued messages has a write in flight (run_sending's early
\* exit on asio_sending never leaves a message behind).
NoStrandedMessage ==
    /\ alive
    /\ txq \o sendBuffer # <<>>
    /\ \A a \in Actors : pc[a] \in {"queued", "send", "test", "install", "redispatch",
                                    "unmark", "insert", "suspended", "done", "idle"}
    => sending

\* A waiter is registered only while the queue is full or somebody who will look
\* at it is still in the loop that wakes waiters.
WaiterIsSeen ==
    waiting # {} /\ alive => \/ Len(txq) >= Limit
                             \/ \E a \in Actors : InPump(a)

\* Every accepted message reaches the wire, unless the connection ends.
\* (run_sending, complete_sending, create_messages.)
AcceptedIsSent == \A s \in Senders :
    s \in {accepted[i] : i \in DOMAIN accepted} ~> s \in {wire[i] : i \in DOMAIN wire} \/ ~alive

\* Types, limits and one user of the send buffer at a time (send, run_sending,
\* complete_sending, create_messages).
SendInv == TypeOK /\ QueuesBounded /\ OnePump

-----------------------------------------------------------------------------
(* What one would expect from the code's own words, and what it does not do *)
(* (the README, Known deviations).                                          *)

\* A send task that completes has put its message into the queue
\* ("Message sent to: " in AgentToAgentMessageTask::run).
CompleteMeansAccepted == \A s \in Senders :
    pc[s] = "done" => s \in {accepted[i] : i \in DOMAIN accepted} \cup lost

\* A deferred send is resumed once the queue has room.
DeferredIsResumed == \A s \in Senders : pc[s] = "suspended" ~> pc[s] # "suspended"
=============================================================================
