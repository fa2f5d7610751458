---------------------------- MODULE CoreServer ----------------------------
(***************************************************************************)
(* The earlier core server (the binary oef-node-old): accepting agents,    *)
(* the handshake, the agent directory and the dialogue messages between    *)
(* sessions.  All of it runs in handlers of one io_context: one at a time  *)
(* under run_in_thread(), several at a time under run().                   *)
(***************************************************************************)
EXTENDS Naturals

CONSTANTS
    Conns,       \* connections
    Keys,        \* public keys
    Dialogues,   \* messages from one agent to another
    ThreadCounts, \* how many threads may run the io_context
    AcceptErrors \* whether an accept may fail (no descriptors left)

NoConn == "no connection"
NoKey == "no key"

ASSUME CoreServerAssumption ==
    /\ ThreadCounts \subseteq Nat \ {0}
    /\ AcceptErrors \in BOOLEAN
    /\ NoConn \notin Conns
    /\ NoKey \notin Keys

VARIABLES
    threads,     \* threads that run the io_context: 1 for run_in_thread()
    accepting,   \* accepts outstanding at the acceptor
    conn,        \* where the handlers of a connection are
    key,         \* the public key of a connection
    up,          \* the agent's end of the connection is there
    status,      \* Server_Connected(true): not due, due, sent
    directory,   \* sessions_ of the AgentDirectory
    dialogue     \* a dialogue message: its state, sender and receiver

vars == <<threads, accepting, conn, key, up, status, directory, dialogue>>

Undelivered == [state |-> "none", from |-> NoConn, to |-> NoConn]

TypeOK ==
    /\ threads \in ThreadCounts
    /\ accepting \in 0 .. threads
    /\ conn \in [Conns -> {"none", "identifying", "answering", "added", "reading", "ended"}]
    /\ key \in [Conns -> Keys \cup {NoKey}]
    /\ up \in [Conns -> BOOLEAN]
    /\ status \in [Conns -> {"no", "due", "sent"}]
    /\ directory \in [Keys -> Conns \cup {NoConn}]
    /\ dialogue \in [Dialogues -> [state : {"none", "sending", "delivered", "failed", "reported"},
                                   from : Conns \cup {NoConn}, to : Conns \cup {NoConn}]]

\* run(): every thread begins with an accept of its own.
Init ==
    /\ threads \in ThreadCounts
    /\ accepting = threads
    /\ conn = [c \in Conns |-> "none"]
    /\ key = [c \in Conns |-> NoKey]
    /\ up = [c \in Conns |-> FALSE]
    /\ status = [c \in Conns |-> "no"]
    /\ directory = [k \in Keys |-> NoConn]
    /\ dialogue = [d \in Dialogues |-> Undelivered]

Goto(c, where) == conn' = [conn EXCEPT ![c] = where]

\* A single thread runs the answer handler to its end before it takes another.
Idle == threads = 1 => \A c \in Conns : status[c] # "due"

-----------------------------------------------------------------------------
(* Accepting *)

\* do_accept() after newSession
Rearmed == accepting

Accept(c) ==
    /\ Idle
    /\ accepting > 0
    /\ conn[c] = "none"
    /\ Goto(c, "identifying")
    /\ up' = [up EXCEPT ![c] = TRUE]
    /\ accepting' = Rearmed
    /\ UNCHANGED <<threads, key, status, directory, dialogue>>

\* The acceptor reports the error and does not call the continuation.
AcceptFails ==
    /\ Idle
    /\ AcceptErrors
    /\ accepting > 0
    /\ accepting' = accepting - 1
    /\ UNCHANGED <<threads, conn, key, up, status, directory, dialogue>>

-----------------------------------------------------------------------------
(* The handshake *)

\* exist() reads the map without the lock: while another thread adds or removes
\* a session it may miss one that is there.
ExistSays(c, k) ==
    {directory[k] # NoConn} \cup
    {FALSE : d \in {e \in Conns \ {c} : threads > 1 /\ conn[e] \in {"answering", "reading"}}}

\* The agent's ID: the phrase is sent, or a failure.
Identify(c, k) ==
    /\ Idle
    /\ conn[c] = "identifying"
    /\ up[c]
    /\ key' = [key EXCEPT ![c] = k]
    /\ \E exists \in ExistSays(c, k) : Goto(c, IF exists THEN "ended" ELSE "answering")
    /\ UNCHANGED <<threads, accepting, up, status, directory, dialogue>>

\* Variant: the session replaces one that is there.
MayAdd_Replace(k) == TRUE

\* add() asks again, under the lock.
MayAdd(k) == directory[k] = NoConn

\* The answer to the phrase: the session is added, or refused "(interleaved)".
Answer(c) ==
    /\ Idle
    /\ conn[c] = "answering"
    /\ up[c]
    /\ \/ /\ MayAdd(key[c])
          /\ directory' = [directory EXCEPT ![key[c]] = c]
          /\ status' = [status EXCEPT ![c] = "due"]
          /\ Goto(c, "added")
       \/ /\ ~MayAdd(key[c])
          /\ Goto(c, "ended")
          /\ UNCHANGED <<directory, status>>
    /\ UNCHANGED <<threads, accepting, key, up, dialogue>>

\* session->start()
Start(c) ==
    /\ conn[c] = "added"
    /\ Goto(c, "reading")
    /\ UNCHANGED <<threads, accepting, key, up, status, directory, dialogue>>

SendStatus(c) ==
    /\ conn[c] # "added"
    /\ status[c] = "due"
    /\ status' = [status EXCEPT ![c] = "sent"]
    /\ UNCHANGED <<threads, accepting, conn, key, up, directory, dialogue>>

\* A read error before there is a session.
HandshakeFails(c) ==
    /\ Idle
    /\ conn[c] \in {"identifying", "answering"}
    /\ ~up[c]
    /\ Goto(c, "ended")
    /\ UNCHANGED <<threads, accepting, key, up, status, directory, dialogue>>

-----------------------------------------------------------------------------
(* The session *)

\* Variant: a session that ends stays in the directory.
Removed_Not(k) == directory

\* agentDirectory_.remove: by key, whatever session is there
Removed(k) == [directory EXCEPT ![k] = NoConn]

ReadFails(c) ==
    /\ Idle
    /\ conn[c] = "reading"
    /\ ~up[c]
    /\ directory' = Removed(key[c])
    /\ Goto(c, "ended")
    /\ UNCHANGED <<threads, accepting, key, up, status, dialogue>>

\* process_message: the message is passed on, or its sender told that nobody is there.
ProcessMessage(d, c, k) ==
    /\ Idle
    /\ conn[c] = "reading"
    /\ dialogue[d].state = "none"
    /\ dialogue' = [dialogue EXCEPT ![d] =
           [state |-> IF directory[k] = NoConn THEN "reported" ELSE "sending",
            from |-> c, to |-> directory[k]]]
    /\ UNCHANGED <<threads, accepting, conn, key, up, status, directory>>

\* The write handler of AsioComm calls its continuation for a success only.
WriteDone(d) ==
    /\ Idle
    /\ dialogue[d].state = "sending"
    /\ dialogue' = [dialogue EXCEPT ![d].state =
                       IF up[dialogue[d].to] THEN "delivered" ELSE "failed"]
    /\ UNCHANGED <<threads, accepting, conn, key, up, status, directory>>

\* The agent goes, or its network.
Disconnect(c) ==
    /\ up[c]
    /\ up' = [up EXCEPT ![c] = FALSE]
    /\ UNCHANGED <<threads, accepting, conn, key, status, directory, dialogue>>

-----------------------------------------------------------------------------
Handlers(c) == Start(c) \/ SendStatus(c) \/ HandshakeFails(c) \/ ReadFails(c)

Next ==
    \/ AcceptFails
    \/ \E c \in Conns : Accept(c) \/ Answer(c) \/ Handlers(c) \/ Disconnect(c)
    \/ \E c \in Conns, k \in Keys : Identify(c, k) \/ \E d \in Dialogues : ProcessMessage(d, c, k)
    \/ \E d \in Dialogues : WriteDone(d)

Spec == Init /\ [][Next]_vars

\* The io_context runs the handlers that are ready; agents need not do anything.
FairSpec ==
    /\ Spec
    /\ \A c \in Conns : WF_vars(Handlers(c))
    /\ \A d \in Dialogues : WF_vars(WriteDone(d))

-----------------------------------------------------------------------------
(* Properties *)

\* "Each connected agent have one Agent Session [...] registred in the Agent
\* Directory": however handshakes with one key interleave and whatever exist()
\* said, a session that runs is the one its key leads to, and the directory holds
\* no session that has ended.  So remove(key) takes no other session's entry.
OneSession ==
    \A c \in Conns :
        conn[c] \in {"added", "reading"} <=> \E k \in Keys : directory[k] = c /\ key[c] = k

\* With one thread the first thing an agent hears after its answer is
\* Server_Connected: no dialogue message of another agent, or to another, is
\* between the add() that makes the session known and the status.
StatusFirst ==
    threads = 1 =>
    \A d \in Dialogues, c \in Conns :
        c \in {dialogue[d].from, dialogue[d].to} => status[c] = "sent"

\* An agent whose connection broke can come back: its key is given up, wherever
\* in the handshake or in the session the connection broke.
KeyReleased ==
    \A c \in Conns, k \in Keys : directory[k] = c /\ ~up[c] ~> directory[k] # c

\* Types, one session for a key, and its status before anything else.
ServerInv == TypeOK /\ OneSession /\ StatusFirst

-----------------------------------------------------------------------------
(* What one would expect from the code's own words, and what it does not do *)
(* (the README, Known deviations).                                          *)

\* The continuation of an accept is called "with the newly created Communicator,
\* or error", so the server does not stop accepting.
KeepsAccepting == accepting > 0

\* A message for another agent is delivered, or its sender hears of the failure:
\* the continuation of send_async is there "to handle successful transmission,
\* or errors".
FailureReported ==
    \A d \in Dialogues :
        dialogue[d].state = "sending" ~> dialogue[d].state \in {"delivered", "reported"}
=============================================================================
