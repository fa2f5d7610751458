------------------------------ MODULE MCBytes ------------------------------
(***************************************************************************)
(* The way of bytes: RingBuffer as an implementation of ByteQueue, and     *)
(* Framing on top of a ByteQueue, side by side in one run.  A behaviour is *)
(* one of either; the other one stays where it began.                      *)
(***************************************************************************)
EXTENDS RingBuffer

CONSTANTS Base, FieldSize, DetectLimit, MaxBody, MaxRead, Connections, Leaders, Payloads, MaxMessages

VARIABLES part, connection, sent, wire, data, phase, needed, current, consumed, endianness, events

Framing == INSTANCE Framing

ASSUME FramingFits == Framing!FramingAssumption

\* Empty, small, at the limit and beyond it.
SomePayloads == {<<>>, <<1>>, <<0, 3>>, <<1, 0, 0>>}
SomeLeaders == {<<>>, <<0>>, <<2>>}

\* An agent, the search system, and an agent that is not understood: the other
\* byte order, a web socket and a buffer that a message fills.
SomeConnections ==
    {[fields |-> 1, order |-> "LITTLE", buffer |-> 9, webSocket |-> FALSE],
     [fields |-> 2, order |-> "NETWORK", buffer |-> 13, webSocket |-> FALSE],
     [fields |-> 1, order |-> "NETWORK", buffer |-> 6, webSocket |-> TRUE]}

framingVars ==
    <<connection, sent, wire, data, phase, needed, current, consumed, endianness, events>>

BytesInit ==
    /\ Init
    /\ Framing!Init
    /\ \/ part = "ring" /\ connection = CHOOSE c \in Connections : TRUE
       \/ part = "framing" /\ \A i \in Cells : store[i] = CHOOSE b \in Bytes : TRUE

RingStep == part = "ring" /\ Next /\ UNCHANGED <<part, framingVars>>

FramingStep == part = "framing" /\ Framing!Next /\ UNCHANGED <<part, vars>>

\* The fairness of Framing.
Receives == part = "framing" /\ Framing!Receive /\ UNCHANGED <<part, vars>>
Scans == part = "framing" /\ Framing!Scan /\ UNCHANGED <<part, vars>>

BytesSpec ==
    /\ BytesInit
    /\ [][RingStep \/ FramingStep]_<<part, vars, framingVars>>
    /\ WF_framingVars(Receives) /\ WF_framingVars(Scans)

-----------------------------------------------------------------------------
(* The properties of Framing *)

\* Messages are delivered as they were sent and in order, and nothing is taken from
\* the buffer that has not arrived (Framing).
FramingInv == Framing!FramingInv

\* What was sent is delivered, or the connection has ended (Framing).
AllDelivered == Framing!AllDelivered
=============================================================================
