------------------------------ MODULE Endpoint ------------------------------
(***************************************************************************)
(* The life of one connection: basic_comms/src/cpp/EndpointBase.cpp, from  *)
(* go() to the close handlers (onEof, onError, onProtoError) that let the  *)
(* owner clean up (OefAgentEndpoint::setup).                               *)
(*                                                                         *)
(* Three threads of control meet here: the accept thread in go() (Start),  *)
(* and the asio threads that run complete_reading (Rd) and                 *)
(* complete_sending (Wr), besides task threads that call run_sending and   *)
(* socket().close().  A block under EndpointBase::mutex is one action; each *)
(* unlocked access to the atomic *state is an action too.                  *)
(*                                                                         *)
(* How a write fills the buffer is the subject of SendQueue; here a write  *)
(* is one of at most MaxWrites, and at most MaxReads reads deliver data.   *)
(***************************************************************************)
EXTENDS Integers, Sequences, FiniteSets

CONSTANTS
    MaxReads,   \* bound: reads that deliver data
    MaxWrites   \* bound: writes with something to send

ASSUME EndpointAssumption == MaxReads \in Nat /\ MaxWrites \in Nat

VARIABLES
    state,      \* the bits of *state
    open,       \* the socket is open
    handlers,   \* onEof, onError and onProtoError are set (always together)
    pc,         \* where Start, Rd and Wr are
    code,       \* the error_code Rd and Wr were called with
    copy,       \* local_handler_copy of Rd and Wr
    reads,      \* async reads in flight
    writes,     \* async writes in flight
    asio_reading,
    asio_sending,
    read_needed,\* read_needed > 0
    fired,      \* history: the close handlers that were called
    readsLeft, writesLeft

vars == <<state, open, handlers, pc, code, copy, reads, writes, asio_reading,
          asio_sending, read_needed, fired, readsLeft, writesLeft>>
io == <<reads, writes, asio_reading, asio_sending, read_needed>>
bounds == <<readsLeft, writesLeft>>

Bits == {"RUNNING", "CLOSED", "EOF", "ERRORED"}
Kinds == {"eof", "error", "proto"}
Codes == {"ok", "eof", "aborted", "error"}
PC == {"go", "onStart", "running", "need", "threw", "idle", "enter", "eof", "eofTest",
       "error", "proto", "lock", "call", "close", "message", "clear", "run"}

TypeOK ==
    /\ state \subseteq Bits
    /\ open \in BOOLEAN
    /\ handlers \in BOOLEAN
    /\ pc \in [{"Start", "Rd", "Wr"} -> PC]
    /\ code \in [{"Rd", "Wr"} -> Codes]
    /\ copy \in [{"Rd", "Wr"} -> Kinds \cup {"none"}]
    /\ reads \in Nat
    /\ writes \in Nat
    /\ asio_reading \in BOOLEAN
    /\ asio_sending \in BOOLEAN
    /\ read_needed \in BOOLEAN
    /\ fired \in Seq(Kinds)
    /\ readsLeft \in 0..MaxReads
    /\ writesLeft \in 0..MaxWrites

Init ==
    /\ state = {}
    /\ open = TRUE
    /\ handlers = TRUE
    /\ pc = [a \in {"Start", "Rd", "Wr"} |-> IF a = "Start" THEN "go" ELSE "idle"]
    /\ code = [a \in {"Rd", "Wr"} |-> "ok"]
    /\ copy = [a \in {"Rd", "Wr"} |-> "none"]
    /\ reads = 0
    /\ writes = 0
    /\ asio_reading = FALSE
    /\ asio_sending = FALSE
    /\ read_needed = FALSE
    /\ fired = <<>>
    /\ readsLeft = MaxReads
    /\ writesLeft = MaxWrites

\* Variant: a test of the RUNNING bit alone.
Running_BitTest == "RUNNING" \in state

Running == state = {"RUNNING"}           \* *state == RUNNING_ENDPOINT
Dead == state \ {"RUNNING"} # {}         \* *state > RUNNING_ENDPOINT

Goto(a, l) == pc' = [pc EXCEPT ![a] = l]

-----------------------------------------------------------------------------
(* go() *)

\* remote_endpoint() throws when the peer is already gone.
GoRemote ==
    /\ pc["Start"] = "go"
    /\ \/ Goto("Start", "onStart")
       \/ Goto("Start", "threw")
    /\ UNCHANGED <<state, open, handlers, code, copy, io, fired, bounds>>

\* onStart may throw (the karma policy refuses the login).
GoOnStart ==
    /\ pc["Start"] = "onStart"
    /\ \/ UNCHANGED <<state, open>>
       \/ state' = state \cup {"ERRORED", "CLOSED"} /\ open' = FALSE
    /\ Goto("Start", "running")
    /\ UNCHANGED <<handlers, code, copy, io, fired, bounds>>

GoRunning ==
    /\ pc["Start"] = "running"
    /\ state' = state \cup {"RUNNING"}
    /\ Goto("Start", "need")
    /\ UNCHANGED <<open, handlers, code, copy, io, fired, bounds>>

GoReadNeeded ==
    /\ pc["Start"] = "need"
    /\ read_needed' = TRUE
    /\ Goto("Start", "run")
    /\ UNCHANGED <<state, open, handlers, code, copy, reads, writes, asio_reading,
                   asio_sending, fired, bounds>>

-----------------------------------------------------------------------------
(* run_reading and run_sending *)

\* With no free space in the read buffer no read is started, and asio_reading
\* stays set.
RunReading(a) ==
    /\ pc[a] = "run"
    /\ a \in {"Start", "Rd"}
    /\ \/ /\ asio_reading \/ ~Running \/ ~read_needed
          /\ UNCHANGED <<reads, asio_reading, read_needed>>
       \/ /\ ~asio_reading /\ Running /\ read_needed
          /\ read_needed' = FALSE
          /\ asio_reading' = TRUE
          /\ \E full \in BOOLEAN : reads' = IF full THEN reads ELSE reads + 1
    /\ Goto(a, "idle")
    /\ UNCHANGED <<state, open, handlers, code, copy, writes, asio_sending, fired, bounds>>

CanWrite == ~asio_sending /\ Running /\ writesLeft > 0

StartWrite ==
    /\ asio_sending' = TRUE
    /\ writes' = writes + 1
    /\ writesLeft' = writesLeft - 1

\* A send task calls run_sending (whose early exits change nothing).
TaskSends ==
    /\ CanWrite
    /\ StartWrite
    /\ UNCHANGED <<state, open, handlers, pc, code, copy, reads, asio_reading,
                   read_needed, fired, readsLeft>>

RunSending ==
    /\ pc["Wr"] = "run"
    /\ \/ CanWrite /\ StartWrite
       \/ ~CanWrite /\ UNCHANGED <<writes, asio_sending, writesLeft>>
    /\ Goto("Wr", "idle")
    /\ UNCHANGED <<state, open, handlers, code, copy, reads, asio_reading,
                   read_needed, fired, readsLeft>>

\* OefAgentEndpoint::close, and the heartbeat when karma runs out: the socket
\* only, not *state.
SocketClose ==
    /\ open
    /\ open' = FALSE
    /\ UNCHANGED <<state, handlers, pc, code, copy, io, fired, bounds>>

-----------------------------------------------------------------------------
(* Completions.  On an open socket an operation may succeed or fail; on a   *)
(* closed one it is aborted, or fails because it was started too late.      *)

Outcomes(canSucceed) ==
    IF open THEN {"eof", "error"} \cup (IF canSucceed THEN {"ok"} ELSE {})
            ELSE {"aborted", "error"}

ReadCompletes ==
    /\ reads > 0
    /\ pc["Rd"] = "idle"
    /\ reads' = reads - 1
    /\ \E c \in Outcomes(readsLeft > 0) :
          /\ code' = [code EXCEPT !["Rd"] = c]
          /\ readsLeft' = IF c = "ok" THEN readsLeft - 1 ELSE readsLeft
    /\ Goto("Rd", "enter")
    /\ UNCHANGED <<state, open, handlers, copy, writes, asio_reading, asio_sending,
                   read_needed, fired, writesLeft>>

\* A completion never overlaps the run_sending at the end of the one before: that
\* call has the effects of TaskSends, which may come at any time.
WriteCompletes ==
    /\ writes > 0
    /\ pc["Wr"] = "idle"
    /\ writes' = writes - 1
    /\ \E c \in Outcomes(TRUE) : code' = [code EXCEPT !["Wr"] = c]
    /\ Goto("Wr", "enter")
    /\ UNCHANGED <<state, open, handlers, copy, reads, asio_reading, asio_sending,
                   read_needed, fired, bounds>>

\* On a connection already marked dead the handler returns at once.
Enter(a) ==
    /\ pc[a] = "enter"
    /\ Goto(a, IF Dead THEN "idle"
               ELSE IF code[a] \in {"eof", "aborted"} THEN "eof"
               ELSE IF code[a] = "error" THEN "error"
               ELSE IF a = "Rd" THEN "message" ELSE "clear")
    /\ UNCHANGED <<state, open, handlers, code, copy, io, fired, bounds>>

\* checkForMessage hands every complete message to the owner; it, or the owner,
\* may throw.
ReadMessage ==
    /\ pc["Rd"] = "message"
    /\ \/ Goto("Rd", "clear")
       \/ Goto("Rd", "proto")
    /\ UNCHANGED <<state, open, handlers, code, copy, io, fired, bounds>>

ReadClear ==
    /\ pc["Rd"] = "clear"
    /\ read_needed' = TRUE
    /\ asio_reading' = FALSE
    /\ Goto("Rd", "run")
    /\ UNCHANGED <<state, open, handlers, code, copy, reads, writes, asio_sending,
                   fired, bounds>>

WriteClear ==
    /\ pc["Wr"] = "clear"
    /\ asio_sending' = FALSE
    /\ Goto("Wr", "run")
    /\ UNCHANGED <<state, open, handlers, code, copy, reads, writes, asio_reading,
                   read_needed, fired, bounds>>

-----------------------------------------------------------------------------
(* eof(), error() and proto_error(): a test of *state without the lock, the *)
(* locked part that takes the handler, and the call.                        *)

\* complete_reading and complete_sending set CLOSED ...
MarkClosed(a) ==
    /\ pc[a] = "eof"
    /\ state' = state \cup {"CLOSED"}
    /\ Goto(a, "eofTest")
    /\ UNCHANGED <<open, handlers, code, copy, io, fired, bounds>>

\* ... then eof() looks at the EOF bit.
EofTest(a) ==
    /\ pc[a] = "eofTest"
    /\ Goto(a, IF "EOF" \in state THEN "idle" ELSE "lock")
    /\ UNCHANGED <<state, open, handlers, code, copy, io, fired, bounds>>

\* Where error() returns to: complete_reading goes on to close().
AfterError(a) == IF a = "Rd" THEN "close" ELSE "idle"

\* complete_reading sets ERRORED before it calls error(), which looks at that
\* bit; complete_sending does not.
BeforeError(a) == IF a = "Rd" THEN state \cup {"ERRORED"} ELSE state

ErrorTest(a) ==
    /\ pc[a] = "error"
    /\ state' = BeforeError(a)
    /\ Goto(a, IF "ERRORED" \in BeforeError(a) THEN AfterError(a) ELSE "lock")
    /\ UNCHANGED <<open, handlers, code, copy, io, fired, bounds>>

ProtoErrorTest ==
    /\ pc["Rd"] = "proto"
    /\ Goto("Rd", IF "ERRORED" \in state THEN "idle" ELSE "lock")
    /\ UNCHANGED <<state, open, handlers, code, copy, io, fired, bounds>>

\* Which of the three functions actor a is in, and the bit that function sets.
Kind(a) ==
    IF code[a] = "ok" THEN "proto" ELSE IF code[a] = "error" THEN "error" ELSE "eof"

OwnBit(a) == IF Kind(a) = "eof" THEN "EOF" ELSE "ERRORED"

\* Variant: the copy is made after the handlers were cleared.
LocalCopy_Late(a) == "none"

LocalCopy(a) == IF handlers THEN Kind(a) ELSE "none"

\* Variant: the handlers stay set.
ClearHandlers_Forgotten == UNCHANGED handlers

\* All three handlers are cleared, whichever was taken.
ClearHandlers == handlers' = FALSE

TakeHandler(a) ==
    /\ pc[a] = "lock"
    /\ state' = state \cup {OwnBit(a), "CLOSED"}
    /\ open' = FALSE
    /\ copy' = [copy EXCEPT ![a] = LocalCopy(a)]
    /\ ClearHandlers
    /\ Goto(a, "call")
    /\ UNCHANGED <<code, io, fired, bounds>>

CallHandler(a) ==
    /\ pc[a] = "call"
    /\ fired' = IF copy[a] = "none" THEN fired ELSE Append(fired, copy[a])
    /\ copy' = [copy EXCEPT ![a] = "none"]
    /\ Goto(a, IF Kind(a) = "error" THEN AfterError(a) ELSE "idle")
    /\ UNCHANGED <<state, open, handlers, code, io, bounds>>

\* EndpointBase::close
Close ==
    /\ pc["Rd"] = "close"
    /\ state' = state \cup {"CLOSED"}
    /\ open' = FALSE
    /\ Goto("Rd", "idle")
    /\ UNCHANGED <<handlers, code, copy, io, fired, bounds>>

-----------------------------------------------------------------------------
StartStep == GoRemote \/ GoOnStart \/ GoRunning \/ GoReadNeeded \/ RunReading("Start")

Handler(a) ==
    \/ Enter(a) \/ MarkClosed(a) \/ EofTest(a) \/ ErrorTest(a) \/ TakeHandler(a) \/ CallHandler(a)

ReadStep ==
    \/ ReadCompletes \/ ReadMessage \/ ReadClear \/ RunReading("Rd")
    \/ ProtoErrorTest \/ Close \/ Handler("Rd")

WriteStep == WriteCompletes \/ WriteClear \/ RunSending \/ Handler("Wr")

Next == StartStep \/ ReadStep \/ WriteStep \/ TaskSends \/ SocketClose

Spec == Init /\ [][Next]_vars

\* Threads go on with what they began, and every operation completes in the end
\* (in the model a read without data left ends with eof or an error).
FairSpec == Spec /\ WF_vars(StartStep) /\ WF_vars(ReadStep) /\ WF_vars(WriteStep)

-----------------------------------------------------------------------------
(* Properties *)

\* At most one close handler is ever called, although reader and writer may be
\* in eof(), error() and proto_error() at the same time: the owner's clean-up
\* (endpointClosed, factory.reset) must not run twice.
AtMostOneGoodbye == Len(fired) <= 1

\* Completion handler a still works on its buffer (run_reading and run_sending
\* come after the flag is cleared).
Busy(a) == IF pc[a] \in {"idle", "run"} THEN 0 ELSE 1

\* There is never more than one read and one write in flight or being
\* completed: the buffers have one user each.  (The asio_* flags against calls of
\* run_reading and run_sending by the start, the completions and the tasks.)
OneOperationEachWay == reads + Busy("Rd") <= 1 /\ writes + Busy("Wr") <= 1

\* Once the owner was told of the end, no read or write starts and no completion
\* begins to hand data over.  One whose look at *state came before the end may be in
\* checkForMessage then: that last hand-over reaches the owner late.
NothingStartsAfterGoodbye ==
    [][fired # <<>> => /\ reads' <= reads
                       /\ writes' <= writes
                       /\ pc'["Rd"] = "message" => pc["Rd"] = "message"]_vars

\* A handler that was taken is called.
OwnerIsTold == ~handlers ~> fired # <<>>

\* Types, one close handler at most and one user of each buffer at a time, however
\* go(), the completions, the tasks and eof(), error() and proto_error() interleave.
EndpointInv == TypeOK /\ AtMostOneGoodbye /\ OneOperationEachWay

-----------------------------------------------------------------------------
(* What one would expect from the code's own words, and what it does not do *)
(* (the README, Known deviations).                                          *)

\* When complete_reading is done with a connection because of a read error, the
\* owner is told ("We are done with this thing!").
ReadErrorIsReported == pc["Rd"] = "close" ~> fired # <<>>

\* A completion on a connection that has ended hands nothing over ("complete_reading
\* on already dead socket"): checkForMessage is not at work when the owner is told.
GoodbyeIsLast == fired # <<>> => pc["Rd"] # "message"
=============================================================================
