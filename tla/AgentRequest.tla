---------------------------- MODULE AgentRequest ----------------------------
(***************************************************************************)
(* What an agent that is logged in can ask for, and what becomes of it:    *)
(* the dispatch of its messages (OefFunctionsTaskFactory.cpp), the search  *)
(* tasks (SearchQueryTask, SearchUpdateTask, SearchRemoveTask), messages   *)
(* to other agents (AgentToAgentMessageTask.hpp), the answers, and the     *)
(* end of the connection, which cancels the agent's tasks and removes it   *)
(* from the search system.                                                 *)
(*                                                                         *)
(* Other modules have the parts in detail: Taskpool and SendQueue the      *)
(* tasks, SearchConversation how a request and its response travel,        *)
(* AgentSession the endpoints.  Here a task that waits for room on a       *)
(* connection is woken, a connection takes what is sent, and requests      *)
(* reach the search system in the order in which createConv posted them.   *)
(* An agent has one connection and a key of its own, and the name it       *)
(* registers is its key, without an alias.                                 *)
(***************************************************************************)
EXTENDS Integers, Sequences, FiniteSets, ListErase

CONSTANTS
    Agents,
    NoAgent,
    Threads,       \* threads of the task pool
    NoTask,
    Groups,        \* numbers of task groups, but 0
    Operations,    \* what agents ask for
    MaxRequests,   \* bound: requests in a behaviour
    Settings,      \* how the program may run: <<threads, reliable>>
    MaxEvents,     \* bound for each of them: requests and ends of connections
    KarmaRefuses   \* the karma policy may refuse an operation

Updates == {"REGISTER_SERVICE", "REGISTER_DESCRIPTION"}
Removes == {"UNREGISTER_SERVICE", "UNREGISTER_DESCRIPTION"}
Queries == {"SEARCH_AGENTS", "SEARCH_SERVICES", "SEARCH_SERVICES_WIDE"}

VARIABLES
    online,     \* the registry: agents to be found there
    stage,      \* how far the end of an agent's connection has come
    reading,    \* agents with a message still in processMessage when theirs ended
    made,       \* the requests, [from, op, to]; a request's msg_id is its index
    pending,    \* the pool's queue
    running,    \* per thread: its task
    suspended,  \* tasks that wait for a response
    search,     \* requests on their way to the search system, [agent, req]
    rows,       \* what the search system knows: <<agent, kind of model>>
    got,        \* messages each agent has received
    cleanGroup, \* the task group of each agent's clean-up
    untidy,     \* history: agents with a message processed after the end of their
                \* connection, or whose clean-up was cancelled with another's tasks
    home,       \* the task group of each agent's connection
    threads,    \* how many threads the pool has
    reliable    \* the search system never fails

setting == <<home, threads, reliable>>
leaving == <<online, stage, reading, cleanGroup, untidy>>
vars == <<online, stage, reading, made, pending, running, suspended, search, rows, got,
          cleanGroup, untidy, home, threads, reliable>>

\* Where the close handler is: "left" after it, "refused" if karma threw in it.
Stages == {"up", "remove", "submit", "regroup", "cancel", "left", "refused"}

Up(a) == stage[a] = "up"

\* Group 0, in which no connection is.
NoGroup == 0

\* What the search system may answer.
Outcomes == {"success", "failure", "unreadable"}

Ids == 1 .. MaxRequests

\* An answer or, with the request of the other agent, a message from it.
Messages ==
    [id : Ids, payload : {"error", "agents", "dialogue", "content"},
     op : Updates \cup Removes \cup Queries \cup {"SEND_MESSAGE", "OTHER"},
     origin : Agents \cup {NoAgent}]

NoMessage == [id |-> 0, payload |-> "none", op |-> "OTHER", origin |-> NoAgent]

\* A search task (or the clean-up, for request 0) and a task that sends a message.
\* The result is that of the conversation; "missed": it came, and woke nobody.
SearchTasks ==
    [agent : Agents, req : Ids \cup {0},
     step : {"createConv", "posted", "noted", "deferring", "handleResponse"},
     result : Outcomes \cup {"none", "missed"}, msg : {NoMessage}]
SendTasks ==
    [agent : Agents, req : Ids, step : {"send"}, result : {"none"}, msg : Messages]
Tasks == SearchTasks \cup SendTasks
Requests == [agent : Agents, req : Ids \cup {0}]

\* Assumed by MCAgentRequest.
RequestAssumption ==
    /\ NoAgent \notin Agents
    /\ NoGroup \notin Groups
    /\ Operations \subseteq Updates \cup Removes \cup Queries \cup {"SEND_MESSAGE", "OTHER"}
    /\ MaxRequests \in Nat \ {0}
    /\ KarmaRefuses \in BOOLEAN
    /\ IsFiniteSet(Threads)
    /\ Settings \subseteq (1 .. Cardinality(Threads)) \X BOOLEAN
    /\ MaxEvents \in [Settings -> Nat \ {0}]
    /\ NoTask \notin Tasks

\* The values of the variables.
TypeOK ==
    /\ online \subseteq Agents
    /\ stage \in [Agents -> Stages]
    /\ reading \subseteq Agents
    /\ made \in Seq([from : Agents, op : Operations, to : Agents])
    /\ pending \in Seq(Tasks)
    /\ running \in [Threads -> Tasks \cup {NoTask}]
    /\ suspended \subseteq SearchTasks
    /\ search \in Seq(Requests)
    /\ rows \subseteq Agents \X {"service", "description"}
    /\ got \in [Agents -> Seq(Messages)]
    /\ cleanGroup \in [Agents -> Groups \cup {NoGroup}]
    /\ untidy \subseteq Agents
    /\ home \in [Agents -> Groups]
    /\ threads \in 1 .. Cardinality(Threads)
    /\ reliable \in BOOLEAN

\* A connection's group is ident, the number of live endpoints when it came, the
\* listener's own one included: two connections may have the same.
Init ==
    /\ online = Agents
    /\ stage = [a \in Agents |-> "up"]
    /\ reading = {}
    /\ cleanGroup = [a \in Agents |-> NoGroup]
    /\ untidy = {}
    /\ home \in [Agents -> Groups]
    /\ made = <<>>
    /\ pending = <<>>
    /\ running = [t \in Threads |-> NoTask]
    /\ suspended = {}
    /\ search = <<>>
    /\ rows = {}
    /\ got = [a \in Agents |-> <<>>]
    /\ \E s \in Settings : threads = s[1] /\ reliable = s[2]

-----------------------------------------------------------------------------
(* OefFunctionsTaskFactory::processMessage *)

SendTask(to, m) ==
    [agent |-> to, req |-> m.id, step |-> "send", result |-> "none", msg |-> m]

SearchTask(a, i) ==
    [agent |-> a, req |-> i, step |-> "createConv", result |-> "none", msg |-> NoMessage]

\* The answer for an XError ("ERROR") or an XKarma ("KARMA").
ErrorMessage(i, op) == [id |-> i, payload |-> "error", op |-> op, origin |-> NoAgent]

\* AgentToAgentMessageTask: the receiver is looked up once, when the task is
\* made; if it is not there the sender gets a dialogue error.
MessageTask(i, a, b) ==
    IF b \in online
    THEN SendTask(b, [id |-> i, payload |-> "content", op |-> "SEND_MESSAGE", origin |-> a])
    ELSE SendTask(a, [id |-> i, payload |-> "dialogue", op |-> "SEND_MESSAGE", origin |-> b])

ServeTask(i, a, op, b) ==
    CASE op = "SEND_MESSAGE" -> MessageTask(i, a, b)
      [] op = "OTHER" -> SendTask(a, ErrorMessage(i, op))
      [] OTHER -> SearchTask(a, i)

\* Variant: after the refusal the request is served all the same.
Refusal_GoesOn(i, a, op, b) == <<SendTask(a, ErrorMessage(i, op)), ServeTask(i, a, op, b)>>

\* karma.perform throws before the task is made.
Refusal(i, a, op, b) == <<SendTask(a, ErrorMessage(i, op))>>

\* More may happen in this behaviour.
Eventful ==
    Len(made) + Cardinality({a \in Agents : ~Up(a)}) < MaxEvents[<<threads, reliable>>]

\* A message of an agent that is connected, or the one that was being processed when
\* a write failed.  (An agent that is no longer in the registry and sends a message
\* takes the program down: AgentSession!SenderIsKnown.)
ProcessMessage(a, op, b) ==
    LET i == Len(made) + 1
    IN  /\ Up(a) \/ a \in reading
        /\ i <= MaxRequests /\ Eventful
        /\ op = "SEND_MESSAGE" => a \in online
        /\ op # "SEND_MESSAGE" => b = a   \* only a message has a receiver
        /\ made' = Append(made, [from |-> a, op |-> op, to |-> b])
        /\ \/ pending' = Append(pending, ServeTask(i, a, op, b))
           \/ KarmaRefuses /\ pending' = pending \o Refusal(i, a, op, b)
        /\ reading' = reading \ {a}
        /\ untidy' = IF Up(a) THEN untidy ELSE untidy \cup {a}
        /\ UNCHANGED <<online, stage, cleanGroup, running, suspended, search, rows, got, setting>>

-----------------------------------------------------------------------------
(* The task pool and the search tasks *)

Take(t) ==
    /\ running[t] = NoTask
    /\ Cardinality({u \in Threads : running[u] # NoTask}) < threads
    /\ pending # <<>>
    /\ running' = [running EXCEPT ![t] = Head(pending)]
    /\ pending' = Tail(pending)
    /\ UNCHANGED <<leaving, made, suspended, search, rows, got, setting>>

At(t, step) == running[t] # NoTask /\ running[t].step = step

Becomes(t, step) == running' = [running EXCEPT ![t].step = step]

Ends(t) == running' = [running EXCEPT ![t] = NoTask]

\* SearchConversationTask::createConv: startConversation() posts the request, ...
Post(t) ==
    /\ At(t, "createConv")
    /\ search' = Append(search, [agent |-> running[t].agent, req |-> running[t].req])
    /\ Becomes(t, "posted")
    /\ UNCHANGED <<leaving, made, pending, suspended, rows, got, setting>>

\* ... makeNotification() is a new one, whatever came before it, ...
MakeNotification(t) ==
    /\ At(t, "posted")
    /\ Becomes(t, "noted")
    /\ UNCHANGED <<leaving, made, pending, suspended, search, rows, got, setting>>

\* ... Waiting() tells whether to sleep or to go on with handleResponse, ...
TestWaiting(t) ==
    /\ At(t, "noted")
    /\ Becomes(t, IF running[t].result \in Outcomes THEN "handleResponse" ELSE "deferring")
    /\ UNCHANGED <<leaving, made, pending, suspended, search, rows, got, setting>>

\* ... and the pool suspends a task that is to sleep.
Suspend(t) ==
    /\ At(t, "deferring")
    /\ suspended' = suspended \cup {running[t]}
    /\ Ends(t)
    /\ UNCHANGED <<leaving, made, pending, search, rows, got, setting>>

Op(task) == IF task.req = 0 THEN "cleanup" ELSE made[task.req].op

Model(op) == IF op \in {"REGISTER_SERVICE", "UNREGISTER_SERVICE"} THEN "service" ELSE "description"

\* What the search system makes of a request (make_request_proto): an update has
\* the agent's key and a model, the clean-up has `all' set, and the removal of a
\* description comes with an empty model, of which we know nothing.
RowsAfter(task) ==
    CASE Op(task) \in Updates -> {rows \cup {<<task.agent, Model(Op(task))>>}}
      [] Op(task) = "UNREGISTER_SERVICE" -> {rows \ {<<task.agent, "service">>}}
      [] Op(task) = "UNREGISTER_DESCRIPTION" -> {rows, rows \ {<<task.agent, "description">>}}
      [] Op(task) = "cleanup" -> {{r \in rows : r[1] # task.agent}}
      [] OTHER -> {rows}

\* A response leaves its mark with the running task it is for: it resolves the
\* notification, if there is one to be looked at yet, and else wakes nobody.
Informed(task, request, o) ==
    IF [agent |-> task.agent, req |-> task.req] # request THEN task
    ELSE IF task.step = "noted" THEN [task EXCEPT !.result = o]
    ELSE IF task.step \in {"posted", "deferring"} THEN [task EXCEPT !.result = "missed"]
    ELSE task

\* The search system takes a request and answers; the response makes the task
\* runnable if it is asleep, before all others.
Search ==
    /\ search # <<>>
    /\ LET request == Head(search)
           sleeping == {task \in suspended : task.agent = request.agent /\ task.req = request.req}
       IN  \E o \in Outcomes :
             /\ o = "failure" => Op(request) \notin Queries
             /\ reliable => o = "success"
             /\ rows' \in IF o = "success" THEN RowsAfter(request)
                          ELSE IF o = "failure" THEN {rows} ELSE RowsAfter(request) \cup {rows}
             /\ running' = [t \in Threads |-> IF running[t] = NoTask THEN NoTask
                                              ELSE Informed(running[t], request, o)]
             /\ \/ sleeping = {} /\ UNCHANGED <<suspended, pending>>
                \/ \E task \in sleeping :
                      /\ suspended' = suspended \ {task}
                      /\ pending' = <<[task EXCEPT !.step = "handleResponse", !.result = o]>> \o pending
    /\ search' = Tail(search)
    /\ UNCHANGED <<leaving, made, got, setting>>

\* SearchUpdateTask and SearchRemoveTask each name one operation.
ErrorOperation(task) ==
    IF Op(task) \in Updates THEN "REGISTER_SERVICE" ELSE "UNREGISTER_SERVICE"

\* sendReply is not set for the clean-up.
HasReply(task) == task.req # 0

\* Variant: a query is answered as the others are, for a failure only.
Answer_Failure(task) ==
    IF task.result = "failure" THEN <<ErrorMessage(task.req, ErrorOperation(task))>> ELSE <<>>

\* handleResponse(): a response that cannot be read is an error of which the
\* agent hears nothing; a query is answered; of the others only a failure is.
Answer(task) ==
    CASE task.result = "success" /\ Op(task) \in Queries ->
            <<[id |-> task.req, payload |-> "agents", op |-> Op(task), origin |-> NoAgent]>>
      [] task.result = "failure" -> <<ErrorMessage(task.req, ErrorOperation(task))>>
      [] OTHER -> <<>>

HandleResponse(t) ==
    /\ At(t, "handleResponse")
    /\ LET task == running[t]
           answer == IF HasReply(task) THEN Answer(task) ELSE <<>>
       IN  pending' = pending \o [k \in DOMAIN answer |-> SendTask(task.agent, answer[k])]
    /\ Ends(t)
    /\ UNCHANGED <<leaving, made, suspended, search, rows, got, setting>>

\* TSendProtoTask, AgentToAgentMessageTask: a connection that has ended takes
\* messages for nobody.
RunSend(t) ==
    /\ At(t, "send")
    /\ LET a == running[t].agent
       IN  got' = IF Up(a) THEN [got EXCEPT ![a] = Append(@, running[t].msg)] ELSE got
    /\ Ends(t)
    /\ UNCHANGED <<leaving, made, pending, suspended, search, rows, setting>>

-----------------------------------------------------------------------------
(* Agents leave: the close handler, on a thread of asio *)

\* What the handler leaves alone at each step but the last two.
others == <<made, running, suspended, search, rows, got, setting>>

Passes(a, from, to) == stage[a] = from /\ stage' = [stage EXCEPT ![a] = to]

\* A connection ends, if by a failed write then perhaps in the middle of a message;
\* karma may throw at the charge for it.
EndConnection(a) ==
    /\ Eventful
    /\ \/ Passes(a, "up", "remove")
       \/ KarmaRefuses /\ Passes(a, "up", "refused")
    /\ reading' \in {reading, reading \cup {a}}
    /\ UNCHANGED <<online, pending, cleanGroup, untidy, others>>

\* endpointClosed(): Agents::remove, ...
Remove(a) ==
    /\ Passes(a, "remove", "submit")
    /\ online' = online \ {a}
    /\ UNCHANGED <<reading, pending, cleanGroup, untidy, others>>

\* ... the clean-up, in the group of the thread: that of the last agent it had a
\* message from, if any, ...
SubmitCleanup(a) ==
    /\ Passes(a, "submit", "regroup")
    /\ pending' = Append(pending, SearchTask(a, 0))
    /\ \E g \in {NoGroup} \cup {home[b] : b \in Agents} : cleanGroup' = [cleanGroup EXCEPT ![a] = g]
    /\ UNCHANGED <<online, reading, untidy, others>>

\* Variant: the clean-up goes to the group of the agent.
Regrouped_Own(a) == home[a]

Regrouped(a) == NoGroup

\* ... and convTask -> setGroupId(0).
RegroupCleanup(a) ==
    /\ Passes(a, "regroup", "cancel")
    /\ cleanGroup' = [cleanGroup EXCEPT ![a] = Regrouped(a)]
    /\ UNCHANGED <<online, reading, pending, untidy, others>>

\* A task is in the group of the thread that made it: that of the sender of its
\* request, for the answers to it too (runThunk).
GroupOf(task) ==
    IF task.req = 0 THEN cleanGroup[task.agent] ELSE home[made[task.req].from]

\* cancelTaskGroup, of every task that waits or sleeps in a group of that number,
\* whoever it is of.
CancelGroup(a) ==
    LET cancelled == {task \in Elements(pending) \cup suspended : GroupOf(task) = home[a]}
    IN  /\ Passes(a, "cancel", "left")
        /\ pending' = Erase(pending, cancelled)
        /\ suspended' = suspended \ cancelled
        /\ untidy' = untidy \cup {b \in Agents \ {a} :
                                    \E task \in cancelled : task.req = 0 /\ task.agent = b}
        /\ UNCHANGED <<online, reading, made, running, search, rows, got, cleanGroup, setting>>

Leave(a) ==
    \/ EndConnection(a) \/ Remove(a) \/ SubmitCleanup(a) \/ RegroupCleanup(a) \/ CancelGroup(a)

-----------------------------------------------------------------------------
ThreadStep(t) ==
    \/ Take(t) \/ Post(t) \/ MakeNotification(t) \/ TestWaiting(t) \/ Suspend(t)
    \/ HandleResponse(t) \/ RunSend(t)

Next ==
    \/ \E a, b \in Agents, op \in Operations : ProcessMessage(a, op, b)
    \/ \E t \in Threads : ThreadStep(t)
    \/ Search
    \/ \E a \in Agents : Leave(a)

Spec == Init /\ [][Next]_vars

-----------------------------------------------------------------------------
(* Properties *)

Received(a) == {got[a][k] : k \in DOMAIN got[a]}

\* Across refusals, dialogue errors, failures and responses that come late, an
\* agent receives at most one answer to a request, and only to its own.
OneAnswer ==
    \A a \in Agents : \A k, l \in DOMAIN got[a] :
        LET m == got[a][k] IN
        m.payload # "content" =>
            /\ made[m.id].from = a
            /\ got[a][l].payload # "content" /\ got[a][l].id = m.id => k = l

\* A message reaches the agent it is for, once, under the name of its sender,
\* and its sender then gets no error for it.
MessageAsSent ==
    \A a \in Agents : \A k, l \in DOMAIN got[a] :
        LET m == got[a][k] IN
        m.payload = "content" =>
            /\ made[m.id].to = a /\ made[m.id].from = m.origin
            /\ got[a][l].payload = "content" /\ got[a][l].id = m.id => k = l
            /\ \A n \in Received(m.origin) : n.id = m.id => n.payload = "content"

\* The tasks somebody still works on.
Underway ==
    Elements(pending) \cup Elements(search) \cup ({running[t] : t \in Threads} \ {NoTask})

\* When the tasks of an agent that is gone are over, the search system has nothing of
\* it: nothing overtakes the clean-up of the close handler ("Sending removeRow to
\* search..."), which its own end does not cancel.  So it is with one thread, unless
\* the agent is untidy: a message of it was processed after the goodbye, or the end of
\* another connection took the clean-up in the moment it shared its group.
GoneIsForgotten ==
    threads = 1 /\ reliable =>
        \A a \in Agents \ untidy :
            stage[a] \in {"regroup", "cancel", "left"} /\ (\A task \in Underway : task.agent # a)
                => ~\E r \in rows : r[1] = a

\* Agents a connection that has left shared its group with.
Cancellable(a) == \E b \in Agents : stage[b] = "left" /\ home[b] = home[a]

\* When nobody works on it any more, the query of an agent that has stayed is
\* answered, with its result or a refusal (processMessage, handleResponse).  There are
\* two ways to lose it and no other, whatever else ends or is cancelled meanwhile:
\* the response came before or after createConv looked for it, and the task sleeps;
\* or a connection with the same group number has ended.
QueryAnswered ==
    reliable =>
        \A i \in DOMAIN made :
            /\ made[i].op \in Queries
            /\ Up(made[i].from) /\ ~Cancellable(made[i].from)
            /\ \A task \in Underway : task.req # i
            => \/ \E m \in Received(made[i].from) : m.id = i
               \/ \E task \in suspended : task.req = i /\ task.result = "missed"

\* Types, answers and messages: processMessage, the search tasks and the messages
\* between agents.
RequestInv == TypeOK /\ OneAnswer /\ MessageAsSent

-----------------------------------------------------------------------------
(* What one would expect from the code's own words, and what it does not do *)
(* (the README, Known deviations).                                          *)

\* An error names the operation that failed: processMessage and handleResponse
\* of the three search tasks agree on what an operation is called.
ErrorNamesOperation ==
    \A a \in Agents : \A m \in Received(a) : m.payload = "error" => m.op = made[m.id].op

\* An agent that stays has an answer to its query, or will have one: a response wakes
\* the task that waits for it (the callback of createConv calls makeRunnable), and an
\* agent that leaves cancels tasks of its own (cancelTaskGroup(myGroupId)).
QueryNeverLost ==
    reliable =>
        \A i \in DOMAIN made :
            made[i].op \in Queries /\ Up(made[i].from) /\ (\A task \in Underway : task.req # i)
                => \E m \in Received(made[i].from) : m.id = i

\* The clean-up is the last the search system hears of an agent: also when its last
\* message was being processed at the goodbye, or another connection ends just then.
GoneForGood ==
    threads = 1 /\ reliable =>
        \A a \in Agents :
            stage[a] = "left" /\ (\A task \in Underway : task.agent # a) => ~\E r \in rows : r[1] = a
=============================================================================
