--------------------------- MODULE Endpoint_proofs ---------------------------
(***************************************************************************)
(* Proofs about the life of a connection, for every number of reads and    *)
(* writes, and about its heartbeat, for every bound on pings and policy.   *)
(***************************************************************************)
EXTENDS MCConnection, TLAPS

Ends == {"Rd", "Wr"}

\* The close handlers are set until one of them is taken, and what was taken is
\* either still a local copy or has been called.  A connection whose handlers are
\* gone is marked closed.
GoodbyeInv ==
    /\ handlers => fired = <<>> /\ \A a \in Ends : copy[a] = "none"
    /\ \A a \in Ends : copy[a] # "none" => fired = <<>>
    /\ copy["Rd"] = "none" \/ copy["Wr"] = "none"
    /\ Len(fired) <= 1
    /\ ~handlers => "CLOSED" \in state

\* Whoever uses a buffer has set its flag.
FlagInv ==
    /\ reads + Busy("Rd") <= 1
    /\ writes + Busy("Wr") <= 1
    /\ reads + Busy("Rd") = 1 => asio_reading
    /\ writes + Busy("Wr") = 1 => asio_sending

Inv == TypeOK /\ GoodbyeInv /\ FlagInv

\* The invariant holds initially.
LEMMA InitInv == Init => Inv
<1> SUFFICES ASSUME Init PROVE Inv
  OBVIOUS
<1>1. TypeOK
  <2>1. readsLeft \in 0..MaxReads /\ writesLeft \in 0..MaxWrites /\ fired \in Seq(Kinds)
    BY EndpointAssumption DEF Init
  <2>2. pc \in [{"Start", "Rd", "Wr"} -> PC]
    BY DEF Init, PC
  <2> QED
    BY <2>1, <2>2 DEF Init, TypeOK, Bits, Codes, Kinds
<1>2. GoodbyeInv
  BY DEF Init, GoodbyeInv, Ends
<1>3. FlagInv
  BY DEF Init, FlagInv, Busy
<1> QED
  BY <1>1, <1>2, <1>3 DEF Inv
\* Every step keeps the invariant.
LEMMA InvStep == Inv /\ [Next]_vars => Inv'
<1> SUFFICES ASSUME Inv, [Next]_vars
             PROVE  Inv'
  OBVIOUS
<1> USE DEF Inv, Ends, io, bounds
<1>1. ASSUME GoRemote
      PROVE  Inv'
  <2>1. TypeOK'
    BY <1>1 DEF TypeOK, PC, GoRemote, Goto
  <2>2. GoodbyeInv'
    BY <1>1 DEF TypeOK, GoodbyeInv, GoRemote, Goto
  <2>3. FlagInv'
    BY <1>1 DEF TypeOK, FlagInv, Busy, GoRemote, Goto
  <2> QED
    BY <2>1, <2>2, <2>3
<1>2. ASSUME GoOnStart
      PROVE  Inv'
  <2>1. TypeOK'
    BY <1>2 DEF TypeOK, PC, GoOnStart, Bits, Goto
  <2>2. GoodbyeInv'
    BY <1>2 DEF TypeOK, GoodbyeInv, GoOnStart, Bits, Goto
  <2>3. FlagInv'
    BY <1>2 DEF TypeOK, FlagInv, Busy, GoOnStart, Bits, Goto
  <2> QED
    BY <2>1, <2>2, <2>3
<1>3. ASSUME GoRunning
      PROVE  Inv'
  <2>1. TypeOK'
    BY <1>3 DEF TypeOK, PC, GoRunning, Bits, Goto
  <2>2. GoodbyeInv'
    BY <1>3 DEF TypeOK, GoodbyeInv, GoRunning, Bits, Goto
  <2>3. FlagInv'
    BY <1>3 DEF TypeOK, FlagInv, Busy, GoRunning, Bits, Goto
  <2> QED
    BY <2>1, <2>2, <2>3
<1>4. ASSUME GoReadNeeded
      PROVE  Inv'
  <2>1. TypeOK'
    BY <1>4 DEF TypeOK, PC, GoReadNeeded, io, Goto
  <2>2. GoodbyeInv'
    BY <1>4 DEF TypeOK, GoodbyeInv, GoReadNeeded, io, Goto
  <2>3. FlagInv'
    BY <1>4 DEF TypeOK, FlagInv, Busy, GoReadNeeded, io, Goto
  <2> QED
    BY <2>1, <2>2, <2>3
<1>5. ASSUME NEW a \in {"Start", "Rd"}, RunReading(a)
      PROVE  Inv'
  <2>1. TypeOK'
    <3>1. reads' \in Nat /\ asio_reading' \in BOOLEAN /\ read_needed' \in BOOLEAN
      <4>1. reads' = reads \/ reads' = reads + 1
        BY <1>5 DEF RunReading
      <4>2. asio_reading' = asio_reading \/ asio_reading' = TRUE
        BY <1>5 DEF RunReading
      <4>3. read_needed' = read_needed \/ read_needed' = FALSE
        BY <1>5 DEF RunReading
      <4>4. reads' \in Nat
        BY <4>1 DEF TypeOK
      <4> QED
        BY <4>2, <4>3, <4>4 DEF TypeOK
    <3>2. pc' \in [{"Start", "Rd", "Wr"} -> PC]
      BY <1>5 DEF TypeOK, RunReading, Goto, PC
    <3> QED
      BY <1>5, <3>1, <3>2 DEF TypeOK, RunReading
  <2>2. GoodbyeInv'
    BY <1>5 DEF TypeOK, GoodbyeInv, RunReading, Running, Goto
  <2>3. FlagInv'
    BY <1>5 DEF TypeOK, FlagInv, Busy, RunReading, Running, Goto
  <2> QED
    BY <2>1, <2>2, <2>3
<1>6. ASSUME TaskSends
      PROVE  Inv'
  <2>1. TypeOK'
    <3>1. writes' \in Nat /\ writesLeft' \in 0..MaxWrites
      BY <1>6, EndpointAssumption DEF TypeOK, TaskSends, CanWrite, StartWrite
    <3> QED
      BY <1>6, <3>1 DEF TypeOK, TaskSends, StartWrite
  <2>2. GoodbyeInv'
    BY <1>6 DEF TypeOK, GoodbyeInv, TaskSends, CanWrite, StartWrite, Goto
  <2>3. FlagInv'
    BY <1>6 DEF TypeOK, FlagInv, Busy, TaskSends, CanWrite, StartWrite, Goto
  <2> QED
    BY <2>1, <2>2, <2>3
<1>7. ASSUME RunSending
      PROVE  Inv'
  <2>1. TypeOK'
    <3>1. writes' \in Nat /\ writesLeft' \in 0..MaxWrites
      BY <1>7, EndpointAssumption DEF TypeOK, RunSending, CanWrite, StartWrite
    <3>2. asio_sending' \in BOOLEAN
      BY <1>7 DEF TypeOK, RunSending, StartWrite
    <3>3. pc' \in [{"Start", "Rd", "Wr"} -> PC]
      BY <1>7 DEF TypeOK, RunSending, Goto, PC
    <3> QED
      BY <1>7, <3>1, <3>2, <3>3 DEF TypeOK, RunSending
  <2>2. GoodbyeInv'
    BY <1>7 DEF TypeOK, GoodbyeInv, RunSending, CanWrite, StartWrite, Goto
  <2>3. FlagInv'
    BY <1>7 DEF TypeOK, FlagInv, Busy, RunSending, CanWrite, StartWrite, Goto
  <2> QED
    BY <2>1, <2>2, <2>3
<1>8. ASSUME SocketClose
      PROVE  Inv'
  <2>1. TypeOK'
    BY <1>8 DEF TypeOK, PC, SocketClose, Goto
  <2>2. GoodbyeInv'
    BY <1>8 DEF TypeOK, GoodbyeInv, SocketClose, Goto
  <2>3. FlagInv'
    BY <1>8 DEF TypeOK, FlagInv, Busy, SocketClose, Goto
  <2> QED
    BY <2>1, <2>2, <2>3
<1>9. ASSUME ReadCompletes
      PROVE  Inv'
  <2>1. TypeOK'
    <3>1. reads' \in Nat
      BY <1>9 DEF TypeOK, ReadCompletes
    <3>2. readsLeft' \in 0..MaxReads
      BY <1>9, EndpointAssumption DEF TypeOK, ReadCompletes, Outcomes
    <3>3. code' \in [{"Rd", "Wr"} -> Codes]
      BY <1>9 DEF TypeOK, ReadCompletes, Outcomes, Codes
    <3>4. pc' \in [{"Start", "Rd", "Wr"} -> PC]
      BY <1>9 DEF TypeOK, ReadCompletes, Goto, PC
    <3> QED
      BY <1>9, <3>1, <3>2, <3>3, <3>4 DEF TypeOK, ReadCompletes
  <2>2. GoodbyeInv'
    BY <1>9 DEF TypeOK, GoodbyeInv, ReadCompletes, Outcomes, Codes, Goto
  <2>3. FlagInv'
    BY <1>9 DEF TypeOK, FlagInv, Busy, ReadCompletes, Outcomes, Codes, Goto
  <2> QED
    BY <2>1, <2>2, <2>3
<1>10. ASSUME WriteCompletes
      PROVE  Inv'
  <2>1. TypeOK'
    BY <1>10 DEF TypeOK, PC, WriteCompletes, Outcomes, Codes, Goto
  <2>2. GoodbyeInv'
    BY <1>10 DEF TypeOK, GoodbyeInv, WriteCompletes, Outcomes, Codes, Goto
  <2>3. FlagInv'
    BY <1>10 DEF TypeOK, FlagInv, Busy, WriteCompletes, Outcomes, Codes, Goto
  <2> QED
    BY <2>1, <2>2, <2>3
<1>11. ASSUME NEW a \in Ends, Enter(a)
      PROVE  Inv'
  <2>1. TypeOK'
    BY <1>11 DEF TypeOK, PC, Enter, Goto
  <2>2. GoodbyeInv'
    BY <1>11 DEF TypeOK, GoodbyeInv, Enter, Goto
  <2>3. FlagInv'
    BY <1>11 DEF TypeOK, FlagInv, Busy, Enter, Goto
  <2> QED
    BY <2>1, <2>2, <2>3
<1>12. ASSUME ReadMessage
      PROVE  Inv'
  <2>1. TypeOK'
    BY <1>12 DEF TypeOK, PC, ReadMessage, Goto
  <2>2. GoodbyeInv'
    BY <1>12 DEF TypeOK, GoodbyeInv, ReadMessage, Goto
  <2>3. FlagInv'
    BY <1>12 DEF TypeOK, FlagInv, Busy, ReadMessage, Goto
  <2> QED
    BY <2>1, <2>2, <2>3
<1>13. ASSUME ReadClear
      PROVE  Inv'
  <2>1. TypeOK'
    BY <1>13 DEF TypeOK, PC, ReadClear, Goto
  <2>2. GoodbyeInv'
    BY <1>13 DEF TypeOK, GoodbyeInv, ReadClear, Goto
  <2>3. FlagInv'
    BY <1>13 DEF TypeOK, FlagInv, Busy, ReadClear, Goto
  <2> QED
    BY <2>1, <2>2, <2>3
<1>14. ASSUME WriteClear
      PROVE  Inv'
  <2>1. TypeOK'
    BY <1>14 DEF TypeOK, PC, WriteClear, Goto
  <2>2. GoodbyeInv'
    BY <1>14 DEF TypeOK, GoodbyeInv, WriteClear, Goto
  <2>3. FlagInv'
    BY <1>14 DEF TypeOK, FlagInv, Busy, WriteClear, Goto
  <2> QED
    BY <2>1, <2>2, <2>3
<1>15. ASSUME NEW a \in Ends, MarkClosed(a)
      PROVE  Inv'
  <2>1. TypeOK'
    BY <1>15 DEF TypeOK, PC, MarkClosed, Bits, Goto
  <2>2. GoodbyeInv'
    BY <1>15 DEF TypeOK, GoodbyeInv, MarkClosed, Bits, Goto
  <2>3. FlagInv'
    BY <1>15 DEF TypeOK, FlagInv, Busy, MarkClosed, Bits, Goto
  <2> QED
    BY <2>1, <2>2, <2>3
<1>16. ASSUME NEW a \in Ends, EofTest(a)
      PROVE  Inv'
  <2>1. TypeOK'
    BY <1>16 DEF TypeOK, PC, EofTest, Goto
  <2>2. GoodbyeInv'
    BY <1>16 DEF TypeOK, GoodbyeInv, EofTest, Goto
  <2>3. FlagInv'
    BY <1>16 DEF TypeOK, FlagInv, Busy, EofTest, Goto
  <2> QED
    BY <2>1, <2>2, <2>3
<1>17. ASSUME NEW a \in Ends, ErrorTest(a)
      PROVE  Inv'
  <2>1. TypeOK'
    BY <1>17 DEF TypeOK, PC, ErrorTest, BeforeError, AfterError, Bits, Goto
  <2>2. GoodbyeInv'
    BY <1>17 DEF TypeOK, GoodbyeInv, ErrorTest, BeforeError, AfterError, Bits, Goto
  <2>3. FlagInv'
    BY <1>17 DEF TypeOK, FlagInv, Busy, ErrorTest, BeforeError, AfterError, Bits, Goto
  <2> QED
    BY <2>1, <2>2, <2>3
<1>18. ASSUME ProtoErrorTest
      PROVE  Inv'
  <2>1. TypeOK'
    BY <1>18 DEF TypeOK, PC, ProtoErrorTest, Goto
  <2>2. GoodbyeInv'
    BY <1>18 DEF TypeOK, GoodbyeInv, ProtoErrorTest, Goto
  <2>3. FlagInv'
    BY <1>18 DEF TypeOK, FlagInv, Busy, ProtoErrorTest, Goto
  <2> QED
    BY <2>1, <2>2, <2>3
<1>19. ASSUME NEW a \in Ends, TakeHandler(a)
      PROVE  Inv'
  <2>1. TypeOK'
    BY <1>19 DEF TypeOK, PC, TakeHandler, LocalCopy, ClearHandlers, Kind, OwnBit, Bits, Kinds, Codes, Goto
  <2>2. GoodbyeInv'
    BY <1>19 DEF TypeOK, GoodbyeInv, TakeHandler, LocalCopy, ClearHandlers, Kind, OwnBit, Bits, Kinds, Codes, Goto
  <2>3. FlagInv'
    BY <1>19 DEF TypeOK, FlagInv, Busy, TakeHandler, LocalCopy, ClearHandlers, Kind, OwnBit, Bits, Kinds, Codes, Goto
  <2> QED
    BY <2>1, <2>2, <2>3
<1>20. ASSUME NEW a \in Ends, CallHandler(a)
      PROVE  Inv'
  <2>1. TypeOK'
    BY <1>20 DEF TypeOK, PC, CallHandler, AfterError, Kind, Kinds, Goto
  <2>2. GoodbyeInv'
    BY <1>20 DEF TypeOK, GoodbyeInv, CallHandler, AfterError, Kind, Kinds, Goto
  <2>3. FlagInv'
    BY <1>20 DEF TypeOK, FlagInv, Busy, CallHandler, AfterError, Kind, Kinds, Goto
  <2> QED
    BY <2>1, <2>2, <2>3
<1>21. ASSUME Close
      PROVE  Inv'
  <2>1. TypeOK'
    BY <1>21 DEF TypeOK, PC, Close, Bits, Goto
  <2>2. GoodbyeInv'
    BY <1>21 DEF TypeOK, GoodbyeInv, Close, Bits, Goto
  <2>3. FlagInv'
    BY <1>21 DEF TypeOK, FlagInv, Busy, Close, Bits, Goto
  <2> QED
    BY <2>1, <2>2, <2>3
<1>22. ASSUME UNCHANGED vars
      PROVE  Inv'
  BY <1>22 DEF vars, TypeOK, GoodbyeInv, FlagInv, Busy
<1> QED
  BY <1>1, <1>2, <1>3, <1>4, <1>5, <1>6, <1>7, <1>8, <1>9, <1>10, <1>11, <1>12, <1>13, <1>14, <1>15, <1>16, <1>17, <1>18, <1>19, <1>20, <1>21, <1>22
     DEF Next, StartStep, ReadStep, WriteStep, Handler

\* Type correctness of a connection.
THEOREM TypeCorrect == Spec => []TypeOK
<1>1. Inv => TypeOK
  BY DEF Inv
<1> QED
  BY <1>1, InitInv, InvStep, PTL DEF Spec

\* The owner is told of the end at most once, whichever of the reader and the
\* writer meets it first and however eof(), error() and proto_error() interleave.
THEOREM GoodbyeOnce == Spec => []AtMostOneGoodbye
<1>1. Inv => AtMostOneGoodbye
  BY DEF Inv, GoodbyeInv, AtMostOneGoodbye
<1> QED
  BY <1>1, InitInv, InvStep, PTL DEF Spec

\* At any time at most one read and at most one write is in flight or using its
\* buffer.
THEOREM OneUser == Spec => []OneOperationEachWay
<1>1. Inv => OneOperationEachWay
  BY DEF Inv, FlagInv, OneOperationEachWay
<1> QED
  BY <1>1, InitInv, InvStep, PTL DEF Spec

\* What a step may do once the owner was told.
Quiet ==
    /\ reads' <= reads
    /\ writes' <= writes
    /\ pc'["Rd"] = "message" => pc["Rd"] = "message"

\* No step starts an operation or hands over data once the owner was told: the
\* connection is marked closed, which run_reading, run_sending and the completions
\* look at.
LEMMA QuietStep ==
    ASSUME Inv, [Next]_vars, fired # <<>>
    PROVE  Quiet
<1> USE DEF io, Goto, Quiet, Ends
<1>0. ~Running /\ Dead /\ reads \in Nat /\ writes \in Nat
      /\ pc \in [{"Start", "Rd", "Wr"} -> PC]
  BY DEF Inv, GoodbyeInv, Running, Dead, TypeOK
<1>1. StartStep => Quiet
  BY <1>0 DEF StartStep, GoRemote, GoOnStart, GoRunning, GoReadNeeded, RunReading
<1>2. ASSUME NEW a \in Ends, Handler(a)
      PROVE  Quiet
  BY <1>0, <1>2 DEF Handler, Enter, MarkClosed, EofTest, ErrorTest, AfterError, TakeHandler,
                    CallHandler
<1>3. ReadStep => Quiet
  BY <1>0, <1>2 DEF ReadStep, ReadCompletes, ReadMessage, ReadClear, RunReading,
                    ProtoErrorTest, Close
<1>4. WriteStep => Quiet
  <2>1. WriteCompletes => Quiet
    BY <1>0 DEF WriteCompletes
  <2>2. WriteClear => Quiet
    BY <1>0 DEF WriteClear
  <2>3. RunSending => Quiet
    BY <1>0 DEF RunSending, CanWrite
  <2> QED
    BY <1>2, <2>1, <2>2, <2>3 DEF WriteStep
<1>5. TaskSends \/ SocketClose \/ UNCHANGED vars => Quiet
  BY <1>0 DEF TaskSends, CanWrite, SocketClose, vars
<1> QED
  BY <1>1, <1>3, <1>4, <1>5 DEF Next

\* After the goodbye (error, eof and proto_error) no read or write starts and no
\* completion begins to hand a message over; a hand-over that had begun may still
\* reach checkForMessage.
THEOREM QuietAfterGoodbye == Spec => NothingStartsAfterGoodbye
<1>1. Inv /\ [Next]_vars
      => [fired # <<>> => /\ reads' <= reads
                          /\ writes' <= writes
                          /\ pc'["Rd"] = "message" => pc["Rd"] = "message"]_vars
  BY QuietStep DEF Quiet
<1> QED
  BY <1>1, InitInv, InvStep, PTL DEF Spec, NothingStartsAfterGoodbye

\* Types, one close handler at most and one user of each buffer: the parts of
\* EndpointInv together.
THEOREM EndpointCorrect == Spec => []EndpointInv
<1> QED
  BY TypeCorrect, GoodbyeOnce, OneUser, PTL DEF EndpointInv

-----------------------------------------------------------------------------
(* The heartbeat *)

\* The counters of the heartbeat go up and down modulo Wrap.
LEMMA CountModulo ==
    ASSUME NEW x \in 0 .. Wrap - 1
    PROVE  /\ (x + 1) % Wrap = IF x = Wrap - 1 THEN 0 ELSE x + 1
           /\ (x + Wrap - 1) % Wrap = IF x = 0 THEN Wrap - 1 ELSE x - 1
<1>1. Wrap \in Nat /\ Wrap > 0
  BY HeartbeatFits DEF Beating!HeartbeatAssumption
<1>2. Wrap % Wrap = 0 /\ (Wrap - 1) % Wrap = Wrap - 1
  BY <1>1
<1>3. CASE x = 0
  BY <1>1, <1>2, <1>3
<1>4. CASE x = Wrap - 1
  BY <1>1, <1>2, <1>4
<1>5. CASE x # 0 /\ x # Wrap - 1
  BY <1>1, <1>5
<1> QED
  BY <1>3, <1>4, <1>5

\* The pings that the agent has to answer.
Owed == pings + inflight

\* Of an agent that answers each ping, the count is what it owes, but for a ping
\* that is submitted and not yet counted: then it is one less, below zero if the
\* pong has overtaken the counting.
CountInv ==
    answers = "each" /\ socket =>
       outstanding = IF beat # "counting" THEN Owed ELSE IF Owed = 0 THEN Wrap - 1 ELSE Owed - 1

BeatInv == Beating!TypeOK /\ Owed <= MaxOut /\ CountInv

LEMMA InitBeatInv == Beating!Init => BeatInv
<1>1. Wrap \in Nat /\ MaxOut \in Nat /\ Wrap > 0
  BY HeartbeatFits DEF Beating!HeartbeatAssumption
<1> SUFFICES ASSUME Beating!Init PROVE BeatInv
  OBVIOUS
<1>2. beat = "waiting" /\ outstanding = 0 /\ pings = 0 /\ inflight = 0
  BY DEF Beating!Init
<1>3. socket \in BOOLEAN /\ owner \in {"open", "reset", "kept"} /\ answers \in {"each", "never", "any"} /\ prompt \in BOOLEAN
  BY Zenon DEF Beating!Init
<1>4. 0 \in 0 .. Wrap - 1 /\ 0 \in 0 .. MaxOut
  BY <1>1
<1>5. Beating!TypeOK
  BY <1>2, <1>3, <1>4 DEF Beating!TypeOK
<1> QED
  BY <1>1, <1>2, <1>5 DEF BeatInv, Owed, CountInv

\* Every step of the heartbeat keeps it.
LEMMA BeatStep == BeatInv /\ [Beating!Next]_heartbeatVars => BeatInv'
<1> SUFFICES ASSUME BeatInv, [Beating!Next]_heartbeatVars
             PROVE  BeatInv'
  OBVIOUS
<1> USE DEF BeatInv, Beating!world
<1>0. Wrap \in Nat /\ MaxOut \in Nat /\ Wrap > 0 /\ MaxOut < Wrap
  BY HeartbeatFits DEF Beating!HeartbeatAssumption
<1>1. ASSUME Beating!Lock \/ Beating!TestOutstanding
      PROVE  BeatInv'
  <2>1. /\ beat # "counting" /\ beat' # "counting" /\ beat' \in Beating!Running \cup {"waiting", "gone"}
        /\ UNCHANGED <<outstanding, pings, inflight, socket, owner, answers, prompt>>
    BY <1>1 DEF Beating!Lock, Beating!TestOutstanding, Beating!Running
  <2> QED
    BY <2>1 DEF Owed, CountInv, Beating!TypeOK
<1>2. ASSUME Beating!PerformKarma
      PROVE  BeatInv'
  <2>1. /\ beat # "counting" /\ beat' # "counting" /\ beat' \in Beating!Running \cup {"waiting", "gone"}
        /\ UNCHANGED <<outstanding, pings, owner, answers, prompt>>
        /\ UNCHANGED <<socket, inflight>> \/ (socket' = FALSE /\ inflight' = 0)
    BY <1>2 DEF Beating!PerformKarma, Beating!CloseSocket, Beating!Running
  <2>5. 0 \in 0 .. MaxOut
    BY <1>0
  <2>6. socket' \in BOOLEAN
    BY Zenon, <2>1 DEF Beating!TypeOK
  <2>7. inflight' \in 0 .. MaxOut
    BY <2>1, <2>5 DEF Beating!TypeOK
  <2>2. Beating!TypeOK'
    BY <2>1, <2>6, <2>7 DEF Beating!TypeOK
  <2>3. (Owed <= MaxOut)'
    BY <1>0, <2>1 DEF Owed, Beating!TypeOK
  <2>4. CountInv'
    BY <2>1 DEF CountInv, Owed
  <2> QED
    BY <2>2, <2>3, <2>4
<1>3. ASSUME Beating!SubmitPing
      PROVE  BeatInv'
  <2>1. /\ beat = "pinging" /\ beat' = "counting" /\ pings' = pings + 1 /\ pings + inflight < MaxOut
        /\ UNCHANGED <<outstanding, inflight, socket, owner, answers, prompt>>
    BY <1>3 DEF Beating!SubmitPing
  <2>2. pings \in Nat /\ inflight \in Nat
    BY <1>0 DEF Beating!TypeOK
  <2>3. Beating!TypeOK'
    BY <1>0, <2>1, <2>2 DEF Beating!TypeOK, Beating!Running
  <2>4. (Owed <= MaxOut)'
    BY <1>0, <2>1, <2>2 DEF Owed
  <2>5. CountInv'
    BY <1>0, <2>1, <2>2 DEF CountInv, Owed
  <2> QED
    BY <2>3, <2>4, <2>5
<1>4. ASSUME Beating!CountPing
      PROVE  BeatInv'
  <2>1. /\ beat = "counting" /\ beat' = "waiting" /\ outstanding' = (outstanding + 1) % Wrap
        /\ UNCHANGED <<pings, inflight, socket, owner, answers, prompt>>
    BY <1>4 DEF Beating!CountPing
  <2>2. pings \in Nat /\ inflight \in Nat /\ outstanding \in 0 .. Wrap - 1
    BY <1>0 DEF Beating!TypeOK
  <2>3. outstanding' = IF outstanding = Wrap - 1 THEN 0 ELSE outstanding + 1
    BY <2>1, <2>2, CountModulo
  <2>4. Beating!TypeOK'
    BY <1>0, <2>1, <2>2, <2>3 DEF Beating!TypeOK
  <2>5. (Owed <= MaxOut)'
    BY <2>1 DEF Owed
  <2>6. CountInv'
    BY <1>0, <2>1, <2>2, <2>3 DEF CountInv, Owed
  <2> QED
    BY <2>4, <2>5, <2>6
<1>5. ASSUME Beating!RunPing
      PROVE  BeatInv'
  <2>1. /\ pings > 0 /\ pings' = pings - 1
        /\ inflight' = IF socket THEN inflight + 1 ELSE inflight
        /\ UNCHANGED <<beat, outstanding, socket, owner, answers, prompt>>
    BY <1>5 DEF Beating!RunPing
  <2>2. pings \in Nat /\ inflight \in Nat
    BY <1>0 DEF Beating!TypeOK
  <2>3. Owed' <= Owed /\ (socket => Owed' = Owed) /\ pings' \in Nat /\ inflight' \in Nat
    BY <2>1, <2>2 DEF Owed
  <2>4. pings' \in 0 .. MaxOut /\ inflight' \in 0 .. MaxOut /\ Owed' <= MaxOut
    BY <1>0, <2>1, <2>2, <2>3 DEF Owed
  <2>5. Beating!TypeOK'
    BY <2>1, <2>4 DEF Beating!TypeOK
  <2>6. CountInv'
    BY <2>1, <2>3 DEF CountInv
  <2> QED
    BY <2>4, <2>5, <2>6
<1>6. ASSUME Beating!Pong
      PROVE  BeatInv'
  <2>1. /\ inflight > 0 /\ inflight' = inflight - 1 /\ outstanding' = (outstanding + Wrap - 1) % Wrap
        /\ UNCHANGED <<beat, pings, socket, owner, answers, prompt>>
    BY <1>6 DEF Beating!Pong, Beating!CountedDown
  <2>2. pings \in Nat /\ inflight \in Nat /\ outstanding \in 0 .. Wrap - 1
    BY <1>0 DEF Beating!TypeOK
  <2>3. outstanding' = IF outstanding = 0 THEN Wrap - 1 ELSE outstanding - 1
    BY <2>1, <2>2, CountModulo
  <2>4. inflight' \in 0 .. MaxOut /\ outstanding' \in 0 .. Wrap - 1
    BY <1>0, <2>1, <2>2, <2>3 DEF Owed
  <2>5. Beating!TypeOK'
    BY <2>1, <2>4 DEF Beating!TypeOK
  <2>6. (Owed <= MaxOut)'
    BY <1>0, <2>1, <2>2 DEF Owed
  <2>7. CountInv'
    BY <1>0, <2>1, <2>2, <2>3 DEF CountInv, Owed
  <2> QED
    BY <2>5, <2>6, <2>7
<1>7. ASSUME Beating!StrayPong
      PROVE  BeatInv'
  <2>1. /\ answers = "any" /\ outstanding' = (outstanding + Wrap - 1) % Wrap
        /\ UNCHANGED <<beat, pings, inflight, socket, owner, answers, prompt>>
    BY <1>7 DEF Beating!StrayPong, Beating!CountedDown
  <2>2. outstanding \in 0 .. Wrap - 1
    BY DEF Beating!TypeOK
  <2>3. outstanding' = IF outstanding = 0 THEN Wrap - 1 ELSE outstanding - 1
    BY <2>1, <2>2, CountModulo
  <2>4. outstanding' \in 0 .. Wrap - 1
    BY <1>0, <2>2, <2>3
  <2>5. Beating!TypeOK'
    BY <2>1, <2>4 DEF Beating!TypeOK
  <2> QED
    BY <2>1, <2>5 DEF Owed, CountInv
<1>8. ASSUME Beating!ConnectionEnds
      PROVE  BeatInv'
  <2>1. /\ ~socket' /\ inflight' = 0
        /\ UNCHANGED <<beat, outstanding, pings, owner, answers, prompt>>
    BY <1>8 DEF Beating!ConnectionEnds, Beating!CloseSocket
  <2>2. pings \in Nat /\ inflight \in Nat /\ 0 \in 0 .. MaxOut
    BY <1>0 DEF Beating!TypeOK
  <2>3. socket' \in BOOLEAN
    BY Zenon, <1>8 DEF Beating!ConnectionEnds, Beating!CloseSocket
  <2>4. Beating!TypeOK'
    BY <2>1, <2>2, <2>3 DEF Beating!TypeOK
  <2>5. (Owed <= MaxOut)'
    BY <1>0, <2>1, <2>2 DEF Owed
  <2>6. CountInv'
    BY <2>1 DEF CountInv
  <2> QED
    BY <2>4, <2>5, <2>6
<1>9. ASSUME Beating!HandleClose
      PROVE  BeatInv'
  <2>1. /\ ~socket /\ pings' \in {0, pings}
        /\ UNCHANGED <<beat, outstanding, inflight, socket, answers, prompt>>
    BY <1>9 DEF Beating!HandleClose
  <2>2. pings \in Nat /\ inflight \in Nat /\ 0 \in 0 .. MaxOut
    BY <1>0 DEF Beating!TypeOK
  <2>3. owner' \in {"open", "reset", "kept"}
    BY Zenon, <1>9 DEF Beating!HandleClose
  <2>4. Beating!TypeOK'
    BY <2>1, <2>2, <2>3 DEF Beating!TypeOK
  <2>5. (Owed <= MaxOut)'
    <3>1. inflight' = inflight /\ (pings' = 0 \/ pings' = pings)
      BY <2>1
    <3>2. Owed <= MaxOut
      OBVIOUS
    <3> QED
      BY <1>0, <3>1, <3>2, <2>2 DEF Owed
  <2>6. CountInv'
    BY <2>1 DEF CountInv
  <2> QED
    BY <2>4, <2>5, <2>6
<1>10. ASSUME UNCHANGED heartbeatVars
       PROVE  BeatInv'
  BY <1>10 DEF heartbeatVars, Owed, CountInv, Beating!TypeOK
<1> QED
  BY <1>1, <1>2, <1>3, <1>4, <1>5, <1>6, <1>7, <1>8, <1>9, <1>10
     DEF Beating!Next, Beating!Beat

LEMMA BeatInvSuffices == BeatInv => HeartbeatInv
  BY DEF BeatInv, CountInv, Owed, HeartbeatInv, Beating!HeartbeatInv,
     Beating!ChargedWhatIsOwed

\* An agent that answers each ping is charged for the pings it owes and never for a
\* count that has wrapped below zero, for every bound on pings and every policy,
\* although its pong may be counted before the ping is.
THEOREM ChargesRight == Beating!Spec => []HeartbeatInv
<1>1. BeatInv /\ [Beating!Next]_(Beating!vars) => BeatInv'
  BY BeatStep DEF Beating!vars, heartbeatVars
<1> QED
  BY <1>1, InitBeatInv, BeatInvSuffices, PTL DEF Beating!Spec
=============================================================================
