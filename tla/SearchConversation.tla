------------------------- MODULE SearchConversation -------------------------
(***************************************************************************)
(* Conversations with the search system.  A search task (query, update,    *)
(* remove, address update) starts a conversation and sleeps until it is    *)
(* answered; one worker task (TNonBlockingWorkerTask) sends the requests   *)
(* of all conversations over one connection, which it opens itself; the    *)
(* reader of that connection hands answers to the conversations.           *)
(***************************************************************************)
EXTENDS Naturals, Sequences, FiniteSets

CONSTANTS
    Convs,       \* conversations, and the tasks that have them
    NoConv,
    N,           \* TNONBLOCKINGWORKERTASK_SIZE
    TxLimit,     \* BUFFER_SIZE_LIMIT of the connection's transmit queue
    Worlds       \* which tasks there are, and what may happen outside: see the assumption

Idents == 1 .. Cardinality(Convs)

ASSUME SearchAssumption ==
    /\ IsFiniteSet(Convs)
    /\ NoConv \notin Convs
    /\ N \in Nat \ {0} /\ TxLimit \in Nat \ {0}
    /\ \A w \in Worlds :
          /\ w.requests \subseteq Convs
          /\ w.outside \subseteq {"link fails", "response", "error", "agent leaves"}

VARIABLES
    task,        \* where each search task is
    ident,       \* the identifier it took for its conversation
    nextIdent,   \* OutboundSearchConversationCreator::ident
    byIdent,     \* ident2conversation
    note,        \* the notification the task waits on
    replies,     \* conversation: responses received
    failed,      \* conversation: handleError was called
    worker,      \* where the worker task is
    queue,       \* its queue
    current,     \* its current entries, all of them not started
    todo,        \* entries of current its loop has still to visit
    link,        \* the connection is usable
    txq,         \* its transmit queue
    wire,        \* requests the search system has
    dropped,     \* history: requests dropped by a full queue
    cut,         \* history: requests lost with a connection
    answered,    \* history: requests the search system answered
    world        \* the one of Worlds this behaviour is in

tasks == <<task, ident, nextIdent, byIdent, note>>
conversations == <<replies, failed>>
workers == <<worker, queue, current, todo>>
network == <<link, txq, wire>>
history == <<dropped, cut, answered, world>>
vars == <<task, ident, nextIdent, byIdent, note, replies, failed, worker, queue, current, todo,
          link, txq, wire, dropped, cut, answered, world>>

\* Search tasks of agents, and address updates, one for each connection to the
\* search system (a bound on these).
Requests == world.requests
Addresses == Convs \ world.requests

TaskStates == {"unborn", "new", "counting", "starting", "posted", "noted", "deferring", "suspended", "woken",
               "done", "errored", "cancelled"}
WorkerStates == {"pending", "fill", "work", "test", "deferring", "suspended"}

TypeOK ==
    /\ task \in [Convs -> TaskStates]
    /\ ident \in [Convs -> Idents \cup {0}]
    /\ nextIdent \in 1 .. Cardinality(Convs) + 1
    /\ byIdent \in [Idents -> Convs \cup {NoConv}]
    /\ note \in [Convs -> {"none", "waiting", "resolved"}]
    /\ replies \in [Convs -> Nat]
    /\ failed \subseteq Convs
    /\ worker \in WorkerStates
    /\ queue \in Seq(Convs)
    /\ current \subseteq Convs /\ Cardinality(current) <= N
    /\ todo \subseteq current
    /\ link \in BOOLEAN
    /\ txq \in Seq(Convs) /\ Len(txq) <= TxLimit
    /\ wire \subseteq Convs
    /\ dropped \subseteq Convs /\ cut \subseteq Convs /\ answered \subseteq Convs
    /\ world \in Worlds

\* The worker is submitted when the creator is made.
Init ==
    /\ world \in Worlds
    /\ task = [c \in Convs |-> IF c \in Requests THEN "new" ELSE "unborn"]
    /\ ident = [c \in Convs |-> 0]
    /\ nextIdent = 1
    /\ byIdent = [i \in Idents |-> NoConv]
    /\ note = [c \in Convs |-> "none"]
    /\ replies = [c \in Convs |-> 0]
    /\ failed = {}
    /\ worker = "pending"
    /\ queue = <<>>
    /\ current = {}
    /\ todo = {}
    /\ link = FALSE
    /\ txq = <<>>
    /\ wire = {}
    /\ dropped = {}
    /\ cut = {}
    /\ answered = {}

Become(c, s) == task' = [task EXCEPT ![c] = s]

-----------------------------------------------------------------------------
(* SearchConversationTask::createConv *)

\* start(): this_id = ident++, on an integer that other threads increment too, ...
ReadIdent(c) ==
    /\ task[c] = "new"
    /\ Become(c, "counting")
    /\ ident' = [ident EXCEPT ![c] = nextIdent]
    /\ UNCHANGED <<nextIdent, byIdent, note, conversations, workers, network, history>>

WriteIdent(c) ==
    /\ task[c] = "counting"
    /\ Become(c, "starting")
    /\ nextIdent' = ident[c] + 1
    /\ UNCHANGED <<ident, byIdent, note, conversations, workers, network, history>>

\* makeRunnable() of the worker moves it only if it is suspended.
Posted == IF worker = "suspended" THEN "pending" ELSE worker

\* Another thread is changing ident2conversation, which no lock protects.
MapRace(c) == \E d \in Convs \ {c} : task[d] = "starting"

\* ... ident2conversation[this_id] = conv, and post() to the worker.
StartConversation(c) ==
    /\ task[c] = "starting"
    /\ Become(c, "posted")
    /\ \/ byIdent' = [byIdent EXCEPT ![ident[c]] = c]
       \/ MapRace(c) /\ UNCHANGED byIdent
    /\ queue' = Append(queue, c)
    /\ worker' = Posted
    /\ UNCHANGED <<ident, nextIdent, note, conversations, current, todo, network, history>>

\* conversation -> makeNotification()
MakeNotification(c) ==
    /\ task[c] = "posted"
    /\ Become(c, "noted")
    /\ note' = [note EXCEPT ![c] = "waiting"]
    /\ UNCHANGED <<ident, nextIdent, byIdent, conversations, workers, network, history>>

\* Then(...).Waiting(): sleep, or go on at once.
TestWaiting(c) ==
    /\ task[c] = "noted"
    /\ Become(c, IF note[c] = "waiting" THEN "deferring" ELSE "woken")
    /\ UNCHANGED <<ident, nextIdent, byIdent, note, conversations, workers, network, history>>

\* Taskpool::suspend
Suspend(c) ==
    /\ task[c] = "deferring"
    /\ Become(c, "suspended")
    /\ UNCHANGED <<ident, nextIdent, byIdent, note, conversations, workers, network, history>>

\* handleResponse(): no response is an error that is not reported to the agent;
\* only a query looks at the status, and the address update at nothing.
HandleResponse(c) ==
    /\ task[c] = "woken"
    /\ \/ /\ c \in Addresses \/ replies[c] > 0
          /\ Become(c, "done")
       \/ /\ c \in Requests /\ (replies[c] = 0 \/ c \in failed)
          /\ Become(c, "errored")
    /\ UNCHANGED <<ident, nextIdent, byIdent, note, conversations, workers, network, history>>

\* The agent is gone: cancelTaskGroup takes its queued and suspended tasks.
CancelTask(c) ==
    /\ "agent leaves" \in world.outside
    /\ c \in Requests
    /\ task[c] \in {"new", "suspended", "woken"}
    /\ Become(c, "cancelled")
    /\ UNCHANGED <<ident, nextIdent, byIdent, note, conversations, workers, network, history>>

-----------------------------------------------------------------------------
(* TNonBlockingWorkerTask::run *)

\* The loop that fills current stops at N entries.
Batch == IF Len(queue) < N - Cardinality(current) THEN Len(queue) ELSE N - Cardinality(current)

FillCurrent ==
    LET moved == {queue[i] : i \in 1 .. Batch}
    IN  /\ worker \in {"pending", "fill"}
        /\ worker' = "work"
        /\ queue' = SubSeq(queue, Batch + 1, Len(queue))
        /\ current' = current \cup moved
        /\ todo' = current \cup moved
        /\ UNCHANGED <<tasks, conversations, network, history>>

\* current.erase
Finished(c) == current \ {c}

\* process() returns COMPLETE: the request is sent, or dropped by a full queue;
\* nobody looks at what send() returned.
SendInitiator(c, q) ==
    /\ \/ /\ Len(q) < TxLimit
          /\ txq' = Append(q, c)
          /\ UNCHANGED dropped
       \/ /\ Len(q) >= TxLimit
          /\ txq' = q
          /\ dropped' = dropped \cup {c}
    /\ current' = Finished(c)

Process(c) ==
    /\ worker = "work"
    /\ c \in todo
    /\ link
    /\ SendInitiator(c, txq)
    /\ todo' = todo \ {c}
    /\ UNCHANGED <<tasks, conversations, worker, queue, link, wire, cut, answered, world>>

\* Address updates that may still come; which one comes next makes no difference.
Unborn == {a \in Addresses : task[a] = "unborn"}

\* connect(): a new endpoint replaces the old one, and the address of this core
\* is registered by a task of its own.
ProcessConnecting(c) ==
    /\ worker = "work"
    /\ c \in todo
    /\ ~link
    /\ Unborn # {}
    /\ Become(CHOOSE a \in Unborn : TRUE, "new")
    /\ link' = TRUE
    /\ cut' = cut \cup {txq[i] : i \in DOMAIN txq} \cup wire
    /\ wire' = {}
    /\ SendInitiator(c, <<>>)
    /\ todo' = todo \ {c}
    /\ UNCHANGED <<ident, nextIdent, byIdent, note, conversations, worker, queue, answered, world>>

\* Variant: an entry that could not be sent is erased all the same.
Refused_Erased(c) == current \ {c}

\* NOT_STARTED: the entry stays in current.
Refused(c) == current

ProcessFails(c) ==
    /\ "link fails" \in world.outside
    /\ worker = "work"
    /\ c \in todo
    /\ ~link
    /\ current' = Refused(c)
    /\ todo' = todo \ {c}
    /\ UNCHANGED <<tasks, conversations, worker, queue, network, history>>

LoopEnds ==
    /\ worker = "work"
    /\ todo = {}
    /\ worker' = "test"
    /\ UNCHANGED <<tasks, conversations, queue, current, todo, network, history>>

\* Variant: a full batch ends the run.
MayDefer_Always == TRUE

\* The queue is looked at without the lock.
MayDefer == queue = <<>> \/ Cardinality(current) >= N

TestQueue ==
    /\ worker = "test"
    /\ worker' = IF MayDefer THEN "deferring" ELSE "fill"
    /\ UNCHANGED <<tasks, conversations, queue, current, todo, network, history>>

SuspendWorker ==
    /\ worker = "deferring"
    /\ worker' = "suspended"
    /\ UNCHANGED <<tasks, conversations, queue, current, todo, network, history>>

-----------------------------------------------------------------------------
(* The connection and the search system *)

Transmit ==
    /\ link
    /\ txq # <<>>
    /\ txq' = Tail(txq)
    /\ wire' = wire \cup {Head(txq)}
    /\ UNCHANGED <<tasks, conversations, workers, link, history>>

\* Nothing tells the conversations that the connection has ended.
LinkEnds ==
    /\ "link fails" \in world.outside
    /\ link
    /\ link' = FALSE
    /\ UNCHANGED <<tasks, conversations, workers, txq, wire, history>>

\* What the reader finds in ident2conversation for request r; a lookup while
\* another thread inserts may miss it.
Found(r) == {byIdent[ident[r]]} \cup (IF MapRace(r) THEN {NoConv} ELSE {})

\* wake(): the callback makes the task runnable, if it exists and is suspended.
Woken(c) == IF task[c] = "suspended" THEN "woken" ELSE task[c]

\* A response, which is kept if it can be parsed, and wakes the task.
HandleMessage(r) ==
    /\ "response" \in world.outside
    /\ link
    /\ r \in wire
    /\ wire' = wire \ {r}
    /\ answered' = answered \cup {r}
    /\ \/ \E c \in Found(r) \ {NoConv} :
             /\ \/ /\ replies' = [replies EXCEPT ![c] = @ + 1]
                   /\ failed' = failed \ {c}
                \/ /\ failed' = failed \cup {c}
                   /\ UNCHANGED replies
             /\ note' = [note EXCEPT ![c] = IF @ = "waiting" THEN "resolved" ELSE @]
             /\ Become(c, IF note[c] = "waiting" THEN Woken(c) ELSE task[c])
       \/ NoConv \in Found(r) /\ UNCHANGED <<replies, failed, note, task>>
    /\ UNCHANGED <<ident, nextIdent, byIdent, workers, link, txq, dropped, cut, world>>

\* handleError() records the error.
HandleError(r) ==
    /\ "error" \in world.outside
    /\ link
    /\ r \in wire
    /\ wire' = wire \ {r}
    /\ answered' = answered \cup {r}
    /\ \E c \in Found(r) : failed' = failed \cup ({c} \ {NoConv})
    /\ UNCHANGED <<tasks, replies, workers, link, txq, dropped, cut, world>>

-----------------------------------------------------------------------------
TaskStep(c) ==
    \/ ReadIdent(c) \/ WriteIdent(c) \/ StartConversation(c) \/ MakeNotification(c)
    \/ TestWaiting(c) \/ Suspend(c) \/ HandleResponse(c)

WorkerStep ==
    \/ FillCurrent \/ LoopEnds \/ TestQueue \/ SuspendWorker
    \/ \E c \in Convs : Process(c) \/ ProcessConnecting(c) \/ ProcessFails(c)

Next ==
    \/ \E c \in Convs : TaskStep(c) \/ CancelTask(c)
    \/ WorkerStep
    \/ Transmit \/ LinkEnds
    \/ \E r \in Convs : HandleMessage(r) \/ HandleError(r)

Spec == Init /\ [][Next]_vars

\* The pool runs the worker when it is runnable; nobody else need do anything.
FairSpec == Spec /\ WF_vars(WorkerStep)

-----------------------------------------------------------------------------
(* Properties *)

WithWorker(c) == c \in current \/ \E i \in DOMAIN queue : queue[i] = c

\* However posts, failed connects, reconnects and the loops of run() interleave,
\* a posted request is in exactly one place: with the worker, in the transmit
\* queue, with the search system or answered, unless a full transmit queue or the
\* end of a connection took it.  None is sent twice, none is forgotten.
NoRequestLost ==
    \A c \in Convs :
       LET places == <<c \in current, \E i \in DOMAIN queue : queue[i] = c,
                       \E i \in DOMAIN txq : txq[i] = c, c \in wire, c \in answered,
                       c \in dropped, c \in cut>>
           posted == ident[c] # 0 /\ task[c] \notin {"counting", "starting"}
       IN  Cardinality({i \in DOMAIN places : places[i]}) = IF posted THEN 1 ELSE 0

\* A request that waits when the worker is made runnable is sent (or dropped by a
\* full queue) however many wait, provided connecting works: the loops of run()
\* come back for what did not fit into current.
AwakeSends ==
    \A c \in Convs :
       "link fails" \notin world.outside /\ worker = "pending" /\ WithWorker(c) ~> ~WithWorker(c)

\* Types (among them the size of the worker's batch), and each request in its place.
SearchInv == TypeOK /\ NoRequestLost

-----------------------------------------------------------------------------
(* What one would expect from the code's own words, and what it does not do *)
(* (the README, Known deviations).                                          *)

\* post() makes the worker runnable ("now make this task runnable."): it does not
\* sleep while there is a request it could take.
PostWakesWorker ==
    worker = "suspended" => queue = <<>> \/ Cardinality(current) >= N

\* The reader wakes the conversation an error is for ("wakeup!!").
ErrorWakes == \A c \in Convs : c \in failed /\ task[c] = "suspended" => note[c] # "waiting"

\* The reader wakes the conversation a response is for ("wakeup!!").
ResponseWakes == \A c \in Convs : replies[c] > 0 /\ task[c] = "suspended" => note[c] # "waiting"
=============================================================================
