---------------------------- MODULE AgentSession ----------------------------
(***************************************************************************)
(* Connections of agents from accept to clean-up: the listener             *)
(* (Listener.cpp, Oefv1Listener.cpp), the endpoint of an agent             *)
(* (OefAgentEndpoint.cpp), the handshake, the functions offered after it,  *)
(* the registry (Agents.cpp) and the login time-out.                       *)
(*                                                                         *)
(* Below this module lies Endpoint: a connection delivers one message at a *)
(* time, calls at most one close handler, and starts nothing after it.     *)
(* Handlers run on asio threads, so the close handler called for a failed  *)
(* write may overlap with a message.                                       *)
(***************************************************************************)
EXTENDS Integers, FiniteSets

CONSTANTS
    Threads,      \* threads that run asio handlers
    MaxConns,     \* bound: connections accepted in a behaviour
    Keys,         \* public keys of agents
    NoConn, NoKey,
    KarmaRefuses, \* the karma policy may throw (never with KarmaPolicyNone)
    IOErrors      \* reads and writes may fail, not only end

Conns == 1 .. MaxConns

ASSUME SessionAssumption ==
    /\ MaxConns \in Nat \ {0}
    /\ NoConn \notin Conns
    /\ NoKey \notin Keys
    /\ KarmaRefuses \in BOOLEAN /\ IOErrors \in BOOLEAN

VARIABLES
    phase,     \* the connection as EndpointBase sees it
    sock,      \* the socket is open
    goodbye,   \* a close handler has been taken
    factory,   \* OefAgentEndpoint::factory
    key,       \* public_key_ of the factory
    loggedin,  \* states["loggedin"]
    ident,     \* the connection's number and task group
    timer,     \* its OefLoginTimeoutTask
    cleanup,   \* its SearchRemoveTask: [state, group]
    held,      \* connections whose endpoint a task of the pool keeps
    registry,  \* Agents::agents
    pc, cur,   \* per thread: the handler it is in, for which connection
    tgroup,    \* per thread: thread_group_id
    crashed,   \* a null or dead object was used
    added,     \* history: Agents::add was called for the connection
    excused    \* history: its clean-up was skipped or overtaken (see RegistryFresh)

connection == <<phase, sock, goodbye>>
history == <<added, excused>>
vars == <<phase, sock, goodbye, factory, key, loggedin, ident, timer, cleanup, held, registry,
          pc, cur, tgroup, crashed, added, excused>>

Phases == {"unborn", "listening", "running", "failed", "dead"}

\* "orphan": OefFunctionsTaskFactory without an endpoint.
Factories == {"none", "id", "answer", "functions", "orphan", "null"}

Reading == {"dispatch", "login", "loggedin", "successor"}
Closing == {"charge", "closed", "submit", "group", "reset", "cancel"}

NoTask == [state |-> "none", group |-> 0]

TypeOK ==
    /\ phase \in [Conns -> Phases]
    /\ sock \in [Conns -> BOOLEAN]
    /\ goodbye \in [Conns -> BOOLEAN]
    /\ factory \in [Conns -> Factories]
    /\ key \in [Conns -> Keys \cup {NoKey}]
    /\ loggedin \in [Conns -> BOOLEAN]
    /\ ident \in [Conns -> 0 .. MaxConns]
    /\ timer \in [Conns -> {"none", "armed", "closing", "done"}]
    /\ cleanup \in [Conns -> [state : {"none", "queued", "ran", "cancelled"},
                              group : 0 .. MaxConns]]
    /\ held \subseteq Conns
    /\ registry \in [Keys -> Conns \cup {NoConn}]
    /\ pc \in [Threads -> {"idle"} \cup Reading \cup Closing]
    /\ cur \in [Threads -> Conns \cup {NoConn}]
    /\ \A t \in Threads : pc[t] = "idle" <=> cur[t] = NoConn
    /\ tgroup \in [Threads -> 0 .. MaxConns]
    /\ crashed \in {"no", "factory", "source"}

\* The first endpoint is created when the listener starts.
Init ==
    /\ phase = [c \in Conns |-> IF c = 1 THEN "listening" ELSE "unborn"]
    /\ sock = [c \in Conns |-> FALSE]
    /\ goodbye = [c \in Conns |-> FALSE]
    /\ factory = [c \in Conns |-> IF c = 1 THEN "id" ELSE "none"]
    /\ key = [c \in Conns |-> NoKey]
    /\ loggedin = [c \in Conns |-> FALSE]
    /\ ident = [c \in Conns |-> IF c = 1 THEN 1 ELSE 0]
    /\ timer = [c \in Conns |-> "none"]
    /\ cleanup = [c \in Conns |-> NoTask]
    /\ held = {}
    /\ registry = [k \in Keys |-> NoConn]
    /\ pc = [t \in Threads |-> "idle"]
    /\ cur = [t \in Threads |-> NoConn]
    /\ tgroup = [t \in Threads |-> 0]
    /\ crashed = "no"
    /\ added = [c \in Conns |-> FALSE]
    /\ excused = [c \in Conns |-> FALSE]

-----------------------------------------------------------------------------
(* Who keeps an endpoint alive: the listener, the handlers at work, the     *)
(* registry, its factory, which points back to it, the time-out while it    *)
(* looks at it, its clean-up task, and the tasks of the pool that send      *)
(* (TSendProtoTask), talk to the search for it, or have a message of        *)
(* another agent for it (AgentToAgentMessageTask::agent_).                  *)

Busy(c, places) == \E t \in Threads : cur[t] = c /\ pc[t] \in places

Alive(c) ==
    \/ phase[c] = "listening"
    \/ factory[c] \in {"id", "answer", "functions"}
    \/ Busy(c, Reading \cup Closing)
    \/ \E k \in Keys : registry[k] = c
    \/ timer[c] = "closing"
    \/ cleanup[c].state = "queued"
    \/ c \in held

\* count++; ident = count.get(): the number of live endpoints, the new one
\* included.
NextIdent == Cardinality({c \in Conns : Alive(c)}) + 1

\* The program has not gone down.
Up == crashed = "no"

At(t, l) == Up /\ pc[t] = l

Goto(t, l, c) ==
    /\ pc' = [pc EXCEPT ![t] = l]
    /\ cur' = [cur EXCEPT ![t] = IF l = "idle" THEN NoConn ELSE c]

MayRefuse == KarmaRefuses

-----------------------------------------------------------------------------
(* Listener::handle_accept: OefAgentEndpoint::go arms the login time-out and
   starts the connection, start_accept creates the next endpoint.  karma may
   refuse the login (onStart): the socket is closed and nobody is told.  The
   peer may be gone already: go() throws before start_accept.              *)

Accept(t, c) ==
    /\ At(t, "idle")
    /\ phase[c] = "listening"
    /\ timer' = [timer EXCEPT ![c] = "armed"]
    /\ \E outcome \in {"ok", "refused", "gone"} :
          LET next == IF outcome = "gone" THEN {} ELSE {d \in Conns : d = c + 1}
          IN  /\ outcome = "refused" => MayRefuse
              /\ outcome = "gone" => IOErrors
              /\ phase' = [d \in Conns |->
                             IF d = c THEN (IF outcome = "ok" THEN "running" ELSE "failed")
                             ELSE IF d \in next THEN "listening" ELSE phase[d]]
              /\ sock' = [sock EXCEPT ![c] = (outcome = "ok")]
              /\ factory' = [d \in Conns |-> IF d \in next THEN "id" ELSE factory[d]]
              /\ ident' = [d \in Conns |-> IF d \in next THEN NextIdent ELSE ident[d]]
    /\ UNCHANGED <<goodbye, key, loggedin, cleanup, held, registry, pc, cur, tgroup, crashed, history>>

\* Variant: the time-out never finds the connection.
TimesOut_Never(c) == FALSE

TimesOut(c) == ~loggedin[c]

\* OefLoginTimeoutTask::run looks at the endpoint, if it still exists, ...
TimerLooks(c) ==
    /\ Up
    /\ timer[c] = "armed"
    /\ timer' = [timer EXCEPT ![c] = IF Alive(c) /\ TimesOut(c) THEN "closing" ELSE "done"]
    /\ UNCHANGED <<connection, factory, key, loggedin, ident, cleanup, held, registry, pc, cur, tgroup,
                   crashed, history>>

\* ... and closes its socket.
TimerCloses(c) ==
    /\ Up
    /\ timer[c] = "closing"
    /\ timer' = [timer EXCEPT ![c] = "done"]
    /\ sock' = [sock EXCEPT ![c] = FALSE]
    /\ UNCHANGED <<phase, goodbye, factory, key, loggedin, ident, cleanup, held, registry, pc, cur,
                   tgroup, crashed, history>>

-----------------------------------------------------------------------------
(* The end of a connection. *)

\* A close handler is taken, once, and the endpoint marked dead.
TakeHandler(t, c) ==
    /\ phase' = [phase EXCEPT ![c] = "dead"]
    /\ sock' = [sock EXCEPT ![c] = FALSE]
    /\ goodbye' = [goodbye EXCEPT ![c] = TRUE]
    /\ Goto(t, IF goodbye[c] THEN "idle" ELSE "charge", c)

\* The read in flight ends: the peer has closed, or the socket was closed here.
ReadEnds(t, c) ==
    /\ At(t, "idle")
    /\ phase[c] = "running"
    /\ ~Busy(c, Reading)
    /\ TakeHandler(t, c)
    /\ UNCHANGED <<factory, key, loggedin, ident, timer, cleanup, held, registry, tgroup, crashed, history>>

\* The read fails: complete_reading marks the error before error() looks.
ReadFails(t, c) ==
    /\ IOErrors
    /\ At(t, "idle")
    /\ phase[c] = "running"
    /\ ~Busy(c, Reading)
    /\ phase' = [phase EXCEPT ![c] = "dead"]
    /\ sock' = [sock EXCEPT ![c] = FALSE]
    /\ excused' = [excused EXCEPT ![c] = TRUE]
    /\ UNCHANGED <<goodbye, factory, key, loggedin, ident, timer, cleanup, held, registry, pc, cur,
                   tgroup, crashed, added>>

\* A write fails, perhaps while a message of the connection is processed.
WriteFails(t, c) ==
    /\ IOErrors
    /\ At(t, "idle")
    /\ phase[c] = "running"
    /\ TakeHandler(t, c)
    /\ excused' = [excused EXCEPT ![c] = @ \/ Busy(c, Reading)]
    /\ UNCHANGED <<factory, key, loggedin, ident, timer, cleanup, held, registry, tgroup, crashed, added>>

\* karma.perform("eof") and its like: a refusal leaves the handler.
Charge(t) ==
    LET c == cur[t]
    IN  /\ At(t, "charge")
        /\ \/ Goto(t, "closed", c) /\ UNCHANGED excused
           \/ /\ MayRefuse
              /\ Goto(t, "idle", c)
              /\ excused' = [excused EXCEPT ![c] = TRUE]
        /\ UNCHANGED <<connection, factory, key, loggedin, ident, timer, cleanup, held, registry, tgroup,
                       crashed, added>>

\* Variant: the registry is left alone.
Without_Nothing(k) == registry

\* Agents::remove
Without(k) == [registry EXCEPT ![k] = NoConn]

\* factory -> endpointClosed(): nothing during the handshake.
EndpointClosed(t) ==
    LET c == cur[t]
    IN  /\ At(t, "closed")
        /\ \/ /\ factory[c] \in {"functions", "orphan"}
              /\ registry' = Without(key[c])
              /\ Goto(t, "submit", c)
           \/ /\ factory[c] \in {"id", "answer"}
              /\ Goto(t, "reset", c)
              /\ UNCHANGED registry
        /\ UNCHANGED <<connection, factory, key, loggedin, ident, timer, cleanup, held, tgroup, crashed,
                       history>>

\* The task that removes the agent from the search is born in the group of the
\* thread, and submitted ...
SubmitCleanup(t) ==
    LET c == cur[t]
    IN  /\ At(t, "submit")
        /\ cleanup' = [cleanup EXCEPT ![c] = [state |-> "queued", group |-> tgroup[t]]]
        /\ Goto(t, "group", c)
        /\ UNCHANGED <<connection, factory, key, loggedin, ident, timer, held, registry, tgroup, crashed,
                       history>>

\* ... before it is moved to group 0.
RegroupCleanup(t) ==
    LET c == cur[t]
    IN  /\ At(t, "group")
        /\ cleanup' = [cleanup EXCEPT ![c].group = 0]
        /\ Goto(t, "reset", c)
        /\ UNCHANGED <<connection, factory, key, loggedin, ident, timer, held, registry, tgroup, crashed,
                       history>>

\* Variant: the factory, and with it the endpoint, is kept.
Reset_Kept(c) == factory

\* factory.reset()
Reset(c) == [factory EXCEPT ![c] = "null"]

ResetFactory(t) ==
    LET c == cur[t]
    IN  /\ At(t, "reset")
        /\ factory' = Reset(c)
        /\ Goto(t, "cancel", c)
        /\ UNCHANGED <<connection, key, loggedin, ident, timer, cleanup, held, registry, tgroup, crashed,
                       history>>

\* cancelTaskGroup(myGroupId), of every queued task in that group: the endpoints
\* they kept may be let go, though not where a task is running or in another group.
CancelGroup(t) ==
    LET c == cur[t]
    IN  /\ At(t, "cancel")
        /\ cleanup' = [d \in Conns |->
                         IF cleanup[d].state = "queued" /\ cleanup[d].group = ident[c]
                         THEN [cleanup[d] EXCEPT !.state = "cancelled"] ELSE cleanup[d]]
        /\ \E gone \in SUBSET {d \in held : ident[d] = ident[c]} : held' = held \ gone
        /\ Goto(t, "idle", c)
        /\ UNCHANGED <<connection, factory, key, loggedin, ident, timer, registry, tgroup, crashed,
                       history>>

\* The pool runs the clean-up task, which then waits for the search system.
RunCleanup(c) ==
    /\ Up
    /\ cleanup[c].state = "queued"
    /\ cleanup' = [cleanup EXCEPT ![c].state = "ran"]
    /\ held' = held \cup {c}
    /\ UNCHANGED <<connection, factory, key, loggedin, ident, timer, registry, pc, cur, tgroup,
                   crashed, history>>

\* The last task of the pool that kept the endpoint ends, if it ever does: one that
\* sleeps on a full queue or for the search system may not.
LetGo(c) ==
    /\ Up
    /\ c \in held
    /\ held' = held \ {c}
    /\ UNCHANGED <<connection, factory, key, loggedin, ident, timer, cleanup, registry, pc, cur,
                   tgroup, crashed, history>>

\* OefHeartbeatTask, from the login on, finds the endpoint by a weak pointer and
\* submits a ping, or closes the socket because karma objects to the missed ones.
Ping(c) ==
    /\ Up
    /\ Alive(c)
    /\ loggedin[c] \/ Busy(c, {"loggedin"})
    /\ \/ held' = held \cup {c} /\ UNCHANGED sock
       \/ MayRefuse /\ sock' = [sock EXCEPT ![c] = FALSE] /\ UNCHANGED held
    /\ UNCHANGED <<phase, goodbye, factory, key, loggedin, ident, timer, cleanup, registry, pc, cur,
                   tgroup, crashed, history>>

-----------------------------------------------------------------------------
(* Messages. *)

\* A message is complete; the connection was alive when the read completed.
\* karma.perform("message") may throw, which ends in proto_error.
Deliver(t, c) ==
    /\ At(t, "idle")
    /\ phase[c] = "running" /\ sock[c]
    /\ ~Busy(c, Reading)
    /\ \/ /\ Goto(t, "dispatch", c)
          /\ tgroup' = [tgroup EXCEPT ![t] = ident[c]]
          /\ UNCHANGED connection
       \/ /\ MayRefuse
          /\ TakeHandler(t, c)
          /\ UNCHANGED tgroup
    /\ UNCHANGED <<factory, key, loggedin, ident, timer, cleanup, held, registry, crashed, history>>

\* A message that cannot be parsed throws before anything is changed.
Malformed(t) ==
    /\ At(t, "dispatch")
    /\ factory[cur[t]] # "null"
    /\ TakeHandler(t, cur[t])
    /\ UNCHANGED <<factory, key, loggedin, ident, timer, cleanup, held, registry, tgroup, crashed, history>>

\* Handshake: the agent's ID.
TakeID(t) ==
    LET c == cur[t]
    IN  /\ At(t, "dispatch")
        /\ factory[c] = "id"
        /\ \E k \in Keys : key' = [key EXCEPT ![c] = k]
        /\ held' = held \cup {c}   \* the phrase
        /\ factory' = [factory EXCEPT ![c] = "answer"]
        /\ Goto(t, "idle", c)
        /\ UNCHANGED <<connection, loggedin, ident, timer, cleanup, registry, tgroup, crashed, history>>

\* Handshake: the answer.  Agents::add, ...
TakeAnswer(t) ==
    LET c == cur[t]
    IN  /\ At(t, "dispatch")
        /\ factory[c] = "answer"
        /\ held' = held \cup {c}   \* the status
        /\ registry' = [registry EXCEPT ![key[c]] = c]
        /\ added' = [added EXCEPT ![c] = TRUE]
        /\ Goto(t, "login", c)
        /\ UNCHANGED <<connection, factory, key, loggedin, ident, timer, cleanup, tgroup, crashed,
                       excused>>

\* ... karma.perform("login"), which may throw with the agent already added, ...
PerformLogin(t) ==
    LET c == cur[t]
    IN  /\ At(t, "login")
        /\ \/ Goto(t, "loggedin", c) /\ UNCHANGED <<connection, excused>>
           \/ /\ MayRefuse
              /\ excused' = [excused EXCEPT ![c] = TRUE]
              /\ TakeHandler(t, c)
        /\ UNCHANGED <<factory, key, loggedin, ident, timer, cleanup, held, registry, tgroup, crashed, added>>

\* ... setState("loggedin", true), ...
SetLoggedIn(t) ==
    LET c == cur[t]
    IN  /\ At(t, "loggedin")
        /\ loggedin' = [loggedin EXCEPT ![c] = TRUE]
        /\ Goto(t, "successor", c)
        /\ UNCHANGED <<connection, factory, key, ident, timer, cleanup, held, registry, tgroup, crashed,
                       history>>

\* ... and the successor, which takes its endpoint from the factory in place,
\* if there is one.
SetFactory(t) ==
    LET c == cur[t]
    IN  /\ At(t, "successor")
        /\ factory' = [factory EXCEPT ![c] = IF @ = "null" THEN "orphan" ELSE "functions"]
        /\ Goto(t, "idle", c)
        /\ UNCHANGED <<connection, key, loggedin, ident, timer, cleanup, held, registry, tgroup, crashed,
                       history>>

\* OefFunctionsTaskFactory::processMessage: a request, or a refusal that is
\* answered or ends in proto_error.
Serve(t) ==
    LET c == cur[t]
    IN  /\ At(t, "dispatch")
        /\ factory[c] = "functions"
        /\ \/ /\ Goto(t, "idle", c)
              /\ held' \in {held, held \cup {c}}
              /\ UNCHANGED connection
           \/ MayRefuse /\ TakeHandler(t, c) /\ UNCHANGED held
        /\ UNCHANGED <<factory, key, loggedin, ident, timer, cleanup, registry, tgroup, crashed, history>>

\* A message to another agent: AgentToAgentMessageTask asks the agent found under
\* the sender's own key for its name, and keeps the receiver or, if there is none,
\* the sender.
SendMessage(t) ==
    LET c == cur[t]
        source == registry[key[c]]
    IN  /\ At(t, "dispatch")
        /\ factory[c] = "functions"
        /\ \/ source = NoConn /\ crashed' = "source" /\ UNCHANGED held
           \/ /\ source # NoConn /\ UNCHANGED crashed
              /\ \E k \in Keys : registry[k] # NoConn /\ held' = held \cup {registry[k]}
        /\ Goto(t, "idle", c)
        /\ UNCHANGED <<connection, factory, key, loggedin, ident, timer, cleanup, registry, tgroup,
                       history>>

\* The close handler has reset the factory under a thread that uses it: the
\* program may go down (or go on, by the actions above).
UseDeadFactory(t) ==
    /\ Up
    /\ pc[t] \in Reading
    /\ factory[cur[t]] = "null"
    /\ crashed' = "factory"
    /\ UNCHANGED <<connection, factory, key, loggedin, ident, timer, cleanup, held, registry, pc, cur,
                   tgroup, history>>

-----------------------------------------------------------------------------
Handle(t) ==
    \/ Charge(t) \/ EndpointClosed(t) \/ SubmitCleanup(t) \/ RegroupCleanup(t)
    \/ ResetFactory(t) \/ CancelGroup(t)
    \/ Malformed(t) \/ TakeID(t) \/ TakeAnswer(t) \/ PerformLogin(t) \/ SetLoggedIn(t) \/ SetFactory(t)
    \/ Serve(t) \/ SendMessage(t) \/ UseDeadFactory(t)

Timer(c) == TimerLooks(c) \/ TimerCloses(c)

Next ==
    \/ \E t \in Threads : Handle(t)
    \/ \E t \in Threads, c \in Conns :
          Accept(t, c) \/ Deliver(t, c) \/ ReadEnds(t, c) \/ ReadFails(t, c) \/ WriteFails(t, c)
    \/ \E c \in Conns : Timer(c) \/ RunCleanup(c) \/ LetGo(c) \/ Ping(c)

Spec == Init /\ [][Next]_vars

-----------------------------------------------------------------------------
(* Properties *)

\* When the handlers of a closed connection are done, the registry does not hold
\* it, unless karma refused its login or its goodbye, the read error was not
\* reported, or the goodbye overtook its handshake: although several connections
\* may use one key and endpointClosed() removes the key whoever holds it.
RegistryFresh ==
    \A k \in Keys, c \in Conns :
       registry[k] = c /\ phase[c] = "dead" /\ ~Busy(c, Reading \cup Closing) => excused[c]

\* An agent that is logged in drops out of the registry only through another
\* connection with the same key.
AgentFindable ==
    \A c \in Conns :
       loggedin[c] /\ ~goodbye[c] =>
          \/ registry[key[c]] = c
          \/ \E d \in Conns \ {c} : added[d] /\ key[d] = key[c]

\* When its time-out has run, a connection that was started is logged in or
\* closed, whatever other connections, their task groups and failures have done
\* to it.  (OefLoginTimeoutTask::run, which finds the endpoint by a weak pointer.)
LoginOrOut ==
    \A c \in Conns :
       phase[c] = "running" /\ timer[c] = "done" => loggedin[c] \/ ~sock[c]

\* Endpoint and factory keep each other alive.  When the handlers of a closed
\* connection are done, whether the peer, the time-out or a failed write has ended
\* it, nothing keeps the endpoint but tasks: its clean-up, the time-out that looks at
\* it and what the pool has for it; except where RegistryFresh has its exceptions.
\* (The close handlers in OefAgentEndpoint::setup.)
EndpointsAreFreed ==
    \A c \in Conns :
       /\ phase[c] = "dead"
       /\ ~Busy(c, Reading \cup Closing)
       /\ timer[c] # "closing" /\ cleanup[c].state # "queued" /\ c \notin held
       => ~Alive(c) \/ excused[c]

\* Types, and the registry against the connections: through handshakes, late closes
\* and exceptions in the close handlers (Agents, endpointClosed) it neither keeps
\* whom it should not nor misses whom it should have.
SessionInv == TypeOK /\ RegistryFresh /\ AgentFindable

-----------------------------------------------------------------------------
(* What one would expect from the code's own words, and what it does not do *)
(* (the README, Known deviations).                                          *)

\* The clean-up that endpointClosed() announces ("Sending removeRow to search...")
\* is not cancelled by the end of another connection.
CleanupIsSent == \A c \in Conns : cleanup[c].state # "cancelled"

\* The end of a connection ends its tasks too (cancelTaskGroup in the close handlers)
\* and with them the endpoint: it is not kept by a message of another agent that
\* sleeps on its full queue, or by a task of its own that was running.
ClosedIsGone ==
    \A c \in Conns :
       /\ phase[c] = "dead"
       /\ ~Busy(c, Reading \cup Closing)
       /\ timer[c] # "closing" /\ cleanup[c].state # "queued"
       => ~Alive(c) \/ excused[c]

\* processMessage() of a logged-in agent processes the message or throws
\* ("Process the message, throw exceptions if they're bad."): it finds the agent
\* it works for.
SenderIsKnown == crashed # "source"
=============================================================================
