----------------------------- MODULE RingBuffer -----------------------------
(***************************************************************************)
(* RingBuffer: Size bytes of store between one producer and one consumer.  *)
(* The producer (create_messages, or the socket) asks for the free cells,  *)
(* fills some and marks them used; the consumer (the socket, or            *)
(* checkForMessage) asks for the cells with data, reads them and marks     *)
(* them used.  Each call holds the mutex, nothing holds it in between.     *)
(***************************************************************************)
EXTENDS Naturals, Sequences

CONSTANTS
    Bytes,
    Size

ASSUME RingAssumption ==
    /\ Size \in Nat \ {0}
    /\ Bytes # {}

VARIABLES
    store,
    freeSpace,
    readp,
    writep,
    space,      \* cells the producer was given; <<>> if it has none
    filled,     \* how many of them it has filled
    view,       \* cells the consumer was given
    seen,       \* bytes it has read there
    taken       \* history: the bytes it last marked as used

vars == <<store, freeSpace, readp, writep, space, filled, view, seen, taken>>

Cells == 0 .. Size - 1

TypeOK ==
    /\ store \in [Cells -> Bytes]
    /\ freeSpace \in 0 .. Size
    /\ readp \in Cells /\ writep \in Cells
    /\ space \in Seq(Cells) /\ view \in Seq(Cells)
    /\ filled \in 0 .. Len(space)
    /\ seen \in Seq(Bytes) /\ Len(seen) <= Len(view)
    /\ taken \in Seq(Bytes)

\* clear()
Init ==
    /\ store \in [Cells -> Bytes]
    /\ freeSpace = Size
    /\ readp = 0
    /\ writep = 0
    /\ space = <<>>
    /\ filled = 0
    /\ view = <<>>
    /\ seen = <<>>
    /\ taken = <<>>

lockless_getDataAvailable == Size - freeSpace

-----------------------------------------------------------------------------
\* std::min(p + amount, size) - p
FirstPart(p, amount) == (IF p + amount < Size THEN p + amount ELSE Size) - p

\* Variant: the two buffers are given in the wrong order.
Buffers_Swapped(p, amount) ==
    LET second == amount - FirstPart(p, amount)
    IN  [i \in 1 .. amount |-> IF i <= second THEN i - 1 ELSE p + i - second - 1]

\* The cells of the two buffers from p on: one up to the end, one from the start.
Buffers(p, amount) ==
    [i \in 1 .. amount |-> IF i <= FirstPart(p, amount) THEN p + i - 1
                                                         ELSE i - FirstPart(p, amount) - 1]

\* Variant: the free cells are taken to begin at the start of the store.
SpaceOffered_Fixed == Buffers(0, freeSpace)

\* The cells getSpaceBuffers returns.
SpaceOffered == Buffers(writep, freeSpace)

\* The cells getDataBuffers returns: none if every cell has data.
DataOffered ==
    IF lockless_getDataAvailable < Size THEN Buffers(readp, lockless_getDataAvailable) ELSE <<>>

GetSpaceBuffers ==
    /\ space = <<>>
    /\ space' = SpaceOffered
    /\ UNCHANGED <<store, freeSpace, readp, writep, filled, view, seen, taken>>

\* The next of the cells is filled.
Fill ==
    /\ filled < Len(space)
    /\ \E b \in Bytes : store' = [store EXCEPT ![space[filled + 1]] = b]
    /\ filled' = filled + 1
    /\ UNCHANGED <<freeSpace, readp, writep, space, view, seen, taken>>

\* p += amount; p %= size
Advanced(p, amount) == (p + amount) % Size

MarkSpaceUsed ==
    /\ space # <<>>
    /\ writep' = Advanced(writep, filled)
    /\ freeSpace' = freeSpace - filled
    /\ space' = <<>>
    /\ filled' = 0
    /\ UNCHANGED <<store, readp, view, seen, taken>>

GetDataBuffers ==
    /\ view = <<>>
    /\ view' = DataOffered
    /\ UNCHANGED <<store, freeSpace, readp, writep, space, filled, seen, taken>>

\* The next of the cells is read.
Look ==
    /\ Len(seen) < Len(view)
    /\ seen' = Append(seen, store[view[Len(seen) + 1]])
    /\ UNCHANGED <<store, freeSpace, readp, writep, space, filled, view, taken>>

\* All that was seen, or a part of it, is used.
MarkDataUsed ==
    /\ view # <<>>
    /\ \E amount \in 0 .. Len(seen) :
          /\ readp' = Advanced(readp, amount)
          /\ freeSpace' = freeSpace + amount
          /\ taken' = SubSeq(seen, 1, amount)
    /\ view' = <<>>
    /\ seen' = <<>>
    /\ UNCHANGED <<store, writep, space, filled>>

-----------------------------------------------------------------------------
Next ==
    \/ GetSpaceBuffers \/ Fill \/ MarkSpaceUsed
    \/ GetDataBuffers \/ Look \/ MarkDataUsed

Spec == Init /\ [][Next]_vars

-----------------------------------------------------------------------------
(* Properties *)

\* The bytes in use, oldest first.
Content == [i \in 1 .. lockless_getDataAvailable |-> store[(readp + i - 1) % Size]]

Queue == INSTANCE ByteQueue WITH content <- Content, Capacity <- Size

\* While the producer fills cells it was given before and the consumer reads cells
\* it was given before, in any order, bytes come out as they went in: none is
\* overwritten before it is read, none is read twice, across the end of the store.
QueueKept == Queue!Spec

\* No cell is with the producer and with the consumer at a time, although both
\* hold what they were given while the other one moves its pointer.
Apart ==
    \A i \in DOMAIN space, j \in DOMAIN view : space[i] # view[j]

\* Types (indices and counts within the store), and the two sides apart.
RingInv == TypeOK /\ Apart

-----------------------------------------------------------------------------
(* What one would expect from the code's own words, and what it does not do *)
(* (the README, Known deviations).                                          *)

\* run_sending hands data over when some is available ("ok data available").
DataIsOffered == lockless_getDataAvailable > 0 => DataOffered # <<>>
=============================================================================
