------------------------------ MODULE Framing ------------------------------
(***************************************************************************)
(* How bytes become messages: the peer frames messages, the connection     *)
(* delivers bytes in pieces of any size, complete_reading puts them into   *)
(* the read buffer and checkForMessage cuts it into messages.  Agents use  *)
(* one size field in an order that is detected; the search system uses     *)
(* two, in network order, for a leader and a payload.  The read buffer is  *)
(* the ByteQueue that RingBuffer implements.                               *)
(***************************************************************************)
EXTENDS Naturals, Sequences

CONSTANTS
    Base,         \* values of a byte (256)
    FieldSize,    \* bytes of a size field, sizeof(uint32_t)
    DetectLimit,  \* sizes below it decide the byte order (65535)
    MaxBody,      \* larger messages are refused (10000)
    MaxRead,      \* bytes a read of a socket returns at most
    Connections,  \* the kinds of connections
    Leaders,      \* what the search system sends before a payload
    Payloads,     \* what peers send
    MaxMessages   \* bound: messages of the peer

Byte == 0 .. Base - 1

\* A connection: the size fields of a header (1 for ProtoMessageReader, 2 for
\* ProtoPathMessageReader), the byte order of the peer, readBufferSize, and whether
\* it is an EndpointWebSocket.
Kinds ==
    [fields : {1, 2}, order : {"LITTLE", "NETWORK"}, buffer : Nat \ {0}, webSocket : BOOLEAN]

\* A number divided by Base again and again: what is left above each digit.
Quotients(n) ==
    LET q[i \in 0 .. FieldSize] == IF i = 0 THEN n ELSE q[i - 1] \div Base
    IN  q

\* n < Base ^ FieldSize
FitsField(n) == Quotients(n)[FieldSize] = 0

\* Assumed by MCBytes.
FramingAssumption ==
    /\ Base \in Nat \ {0, 1} /\ FieldSize \in Nat \ {0}
    /\ MaxBody \in Nat /\ DetectLimit \in Nat /\ MaxBody < DetectLimit
    /\ MaxRead \in Nat \ {0} /\ MaxMessages \in Nat
    /\ Connections \subseteq {c \in Kinds : c.fields = 2 => c.order = "NETWORK"}
    /\ Leaders \cup Payloads \subseteq Seq(Byte)
    /\ FitsField(DetectLimit - 1) /\ \A s \in Leaders \cup Payloads : FitsField(Len(s))

VARIABLES
    connection,
    sent,        \* messages the peer has sent
    wire,        \* bytes on their way
    data,        \* the read buffer
    phase,       \* "reading", "scanning", "stuck" or "closed"
    needed,      \* read_needed, while reading
    current,     \* ConstCharArrayBuffer::current, while scanning
    consumed,    \* bytes of finished messages, while scanning
    endianness,
    events       \* calls of onComplete and onError

vars == <<connection, sent, wire, data, phase, needed, current, consumed, endianness, events>>

Fields == connection.fields
PeerOrder == connection.order
BufferSize == connection.buffer
WebSocket == connection.webSocket

TypeOK ==
    /\ connection \in Connections
    /\ sent \in Seq([leader : Leaders \cup {<<>>}, payload : Payloads]) /\ Len(sent) <= MaxMessages
    /\ wire \in Seq(Byte) /\ data \in Seq(Byte) /\ Len(data) <= BufferSize
    /\ phase \in {"reading", "scanning", "stuck", "closed"}
    /\ needed \in 0 .. BufferSize
    /\ current \in Nat /\ consumed \in Nat
    /\ endianness \in {"DUNNO", "LITTLE", "NETWORK"}

Init ==
    /\ connection \in Connections
    /\ sent = <<>> /\ wire = <<>> /\ data = <<>>
    /\ phase = "reading"
    /\ needed = 1
    /\ current = 0 /\ consumed = 0
    /\ endianness = IF Fields = 1 THEN "DUNNO" ELSE "NETWORK"
    /\ events = <<>>

-----------------------------------------------------------------------------
(* Framing of a message *)

\* write() and write_little_endian() of an uint32_t
Digits(n, order) ==
    [i \in 1 .. FieldSize |->
        Quotients(n)[IF order = "LITTLE" THEN i - 1 ELSE FieldSize - i] % Base]

\* read() and read_little_endian(), from the highest digit down
Value(s, order) ==
    LET val[i \in 0 .. FieldSize] ==
          IF i = 0 THEN 0
          ELSE val[i - 1] * Base + s[IF order = "LITTLE" THEN FieldSize + 1 - i ELSE i]
    IN  val[FieldSize]

Encode(m) ==
    (IF Fields = 1 THEN Digits(Len(m.payload), PeerOrder)
     ELSE Digits(Len(m.leader), PeerOrder) \o Digits(Len(m.payload), PeerOrder))
    \o m.leader \o m.payload

PeerSends ==
    /\ Len(sent) < MaxMessages
    /\ \E l \in (IF Fields = 1 THEN {<<>>} ELSE Leaders), p \in Payloads :
          LET m == [leader |-> l, payload |-> p]
          IN  sent' = Append(sent, m) /\ wire' = wire \o Encode(m)
    /\ UNCHANGED <<connection, data, phase, needed, current, consumed, endianness, events>>

-----------------------------------------------------------------------------
(* Reading *)

Drop(s, n) == SubSeq(s, n + 1, Len(s))

\* complete_reading: n bytes go into the buffer and checkForMessage begins.
CompleteReading(n) ==
    /\ data' = data \o SubSeq(wire, 1, n)
    /\ wire' = Drop(wire, n)
    /\ phase' = "scanning"
    /\ needed' = 0
    /\ current' = 0 /\ consumed' = 0
    /\ UNCHANGED <<connection, sent, endianness, events>>

\* getSpaceBuffers
Room == BufferSize - Len(data)

\* boost::asio::async_read with transfer_at_least(needed)
Receive ==
    /\ ~WebSocket
    /\ phase = "reading"
    /\ \E n \in needed .. needed - 1 + MaxRead :
          /\ n <= Len(wire) /\ n <= Room
          /\ CompleteReading(n)

\* async_read_at_least: a read completes with a piece.  It counts bytes in a
\* variable that is gone by then, so a piece of any size may be taken for enough ...
ReceivePiece ==
    /\ WebSocket
    /\ phase = "reading"
    /\ \E n \in 1 .. Len(wire) : n <= Room /\ CompleteReading(n)

\* ... or not; then the next piece is read into the same space.
ReceiveAgain ==
    /\ WebSocket
    /\ phase = "reading"
    /\ \E n \in 1 .. Len(wire) : n <= Room /\ wire' = Drop(wire, n)
    /\ UNCHANGED <<connection, sent, data, phase, needed, current, consumed, endianness, events>>

-----------------------------------------------------------------------------
(* checkForMessage, one action per turn of its loop *)

\* getDataBuffers
Offered == IF Len(data) < BufferSize THEN data ELSE <<>>

Remaining(at) == Len(Offered) - at

HeadSize == Fields * FieldSize

\* FieldSize calls of uflow(); past the end it returns eof, all bits set.
Field(at) == [i \in 1 .. FieldSize |-> IF at + i <= Len(Offered) THEN Offered[at + i] ELSE Base - 1]

\* What reading a size field yields: the size, where reading ended and the byte
\* order from now on; nothing if the order cannot be found out.  When the field is
\* no small number in little-endian order, the next field is tried in network order.
ReadField(at, order) ==
    LET little == Value(Field(at), "LITTLE")
        next == Value(Field(at + FieldSize), "NETWORK")
        nextEnd == IF at + 2 * FieldSize < Len(Offered) THEN at + 2 * FieldSize ELSE Len(Offered)
    IN  IF order # "DUNNO"
        THEN {[size |-> Value(Field(at), order), end |-> at + FieldSize, order |-> order]}
        ELSE IF little < DetectLimit
        THEN {[size |-> little, end |-> at + FieldSize, order |-> "LITTLE"]}
        ELSE {f \in {[size |-> next, end |-> nextEnd, order |-> "NETWORK"]} : f.size < DetectLimit}

\* What ParseFromIstream makes of a leader, by its first byte.
LeaderStatus(l) ==
    IF l = <<>> THEN "onError" ELSE IF l[1] = 0 THEN "onComplete" ELSE IF l[1] = 1 THEN "onError" ELSE "bad"

\* The call a message leads to, or "bad" for one that is refused.
CallFor(leader, payload) ==
    LET call == IF Len(leader) + Len(payload) > MaxBody THEN "bad"
                ELSE IF Fields = 1 THEN "onComplete"
                ELSE LeaderStatus(leader)
    IN  [call |-> call, payload |-> IF call = "onComplete" THEN payload ELSE <<>>]

\* Variant: the bytes that are already there are asked for again.
StillNeeded_Whole(size, at) == size

StillNeeded(size, at) == size - Remaining(at)

\* The loop ends: markDataUsed, read_needed and run_reading.  When there is no room
\* for a byte nothing is started, and asio_reading stays set.
FinishScan(n) ==
    LET room == BufferSize - (Len(data) - consumed)
    IN  /\ data' = Drop(data, consumed)
        /\ needed' = IF n > room THEN room ELSE n
        /\ phase' = IF needed' = 0 THEN "stuck" ELSE "reading"
        /\ current' = 0 /\ consumed' = 0
        /\ UNCHANGED <<connection, sent, wire, events>>

ScanHeadMissing ==
    /\ phase = "scanning"
    /\ Remaining(current) < HeadSize
    /\ FinishScan(StillNeeded(HeadSize, current))
    /\ UNCHANGED endianness

\* The exception goes to proto_error, which closes the connection.
Refuse ==
    /\ phase' = "closed"
    /\ UNCHANGED <<connection, sent, wire, data, needed, current, consumed, events>>

\* The sizes of leader and payload, and where the leader begins.
Header ==
    IF Fields = 1
    THEN {[leader |-> 0, payload |-> f.size, begin |-> f.end, order |-> f.order] :
             f \in ReadField(current, endianness)}
    ELSE {[leader |-> Value(Field(current), "NETWORK"),
           payload |-> Value(Field(current + FieldSize), "NETWORK"),
           begin |-> current + HeadSize, order |-> endianness]}

BodyMissing(h) == Remaining(h.begin) < h.leader + h.payload

ScanNoOrder ==
    /\ phase = "scanning"
    /\ Remaining(current) >= HeadSize
    /\ Header = {}
    /\ Refuse
    /\ UNCHANGED endianness

ScanTooLarge ==
    /\ phase = "scanning"
    /\ Remaining(current) >= HeadSize
    /\ \E h \in Header :
          /\ h.leader + h.payload > MaxBody
          /\ endianness' = h.order
    /\ Refuse

ScanBodyMissing ==
    /\ phase = "scanning"
    /\ Remaining(current) >= HeadSize
    /\ \E h \in Header :
          /\ h.leader + h.payload <= MaxBody
          /\ BodyMissing(h)
          /\ endianness' = h.order
          /\ FinishScan(StillNeeded(h.leader + h.payload, h.begin))

\* Variant: the header of a message is not counted.
Used_NoHead(h) == h.leader + h.payload

\* consumed += head_size; consumed += body_size
Used(h) == HeadSize + h.leader + h.payload

LeaderOf(h) == SubSeq(Offered, h.begin + 1, h.begin + h.leader)

PayloadOf(h) == SubSeq(Offered, h.begin + h.leader + 1, h.begin + h.leader + h.payload)

ScanMessage ==
    /\ phase = "scanning"
    /\ Remaining(current) >= HeadSize
    /\ \E h \in Header :
          /\ h.leader + h.payload <= MaxBody
          /\ ~BodyMissing(h)
          /\ endianness' = h.order
          /\ \/ CallFor(LeaderOf(h), PayloadOf(h)).call = "bad" /\ Refuse
             \/ /\ CallFor(LeaderOf(h), PayloadOf(h)).call # "bad"
                /\ events' = Append(events, CallFor(LeaderOf(h), PayloadOf(h)))
                /\ consumed' = consumed + Used(h)
                /\ current' = h.begin + h.leader + h.payload
                /\ UNCHANGED <<connection, sent, wire, data, phase, needed>>

Scan == ScanHeadMissing \/ ScanNoOrder \/ ScanTooLarge \/ ScanBodyMissing \/ ScanMessage

-----------------------------------------------------------------------------
Next == PeerSends \/ Receive \/ ReceivePiece \/ ReceiveAgain \/ Scan

Spec == Init /\ [][Next]_vars

\* The socket reads what has arrived; the peer need not send more.
FairSpec == Spec /\ WF_vars(Receive) /\ WF_vars(Scan)

-----------------------------------------------------------------------------
(* Properties *)

\* The search system over TCP, and agents in little-endian order.  The first size of
\* an agent decides the order, so it has to be below DetectLimit.
Understood ==
    /\ ~WebSocket
    /\ Fields = 1 => PeerOrder = "LITTLE" /\ \A p \in Payloads : Len(p) < DetectLimit

\* However the bytes are cut into pieces, the handlers see the messages of the
\* peer, whole and in order, and the connection is given up only over a message
\* that is too large or has no leader.  (checkForMessage, complete_reading.)
InOrder ==
    Understood =>
    /\ Len(events) <= Len(sent)
    /\ \A i \in DOMAIN events : events[i] = CallFor(sent[i].leader, sent[i].payload)
    /\ phase = "closed" =>
          /\ Len(events) < Len(sent)
          /\ LET m == sent[Len(events) + 1] IN CallFor(m.leader, m.payload).call = "bad"

\* A message that was sent gets to its handler although the peer sends nothing
\* after it, unless the connection is closed: checkForMessage never asks for
\* bytes beyond the message it waits for, and the buffer never fills up.
AllDelivered ==
    \A k \in 1 .. MaxMessages :
       Understood /\ Len(sent) >= k ~> Len(events) >= k \/ phase = "closed"

\* Whatever bytes arrive, checkForMessage stays within them: the part it hands
\* to markDataUsed is there, which keeps the free space within the buffer.
NoOverrun ==
    phase = "scanning" =>
       /\ current <= Len(Offered)
       /\ consumed <= current

\* Types, messages in order and no byte beyond the data (checkForMessage).
FramingInv == TypeOK /\ InOrder /\ NoOverrun

=============================================================================
