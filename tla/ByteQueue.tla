----------------------------- MODULE ByteQueue -----------------------------
(***************************************************************************)
(* What a ring buffer promises its two users: a bounded queue of bytes.    *)
(* Put appends, Take removes from the front the bytes that the consumer    *)
(* has seen.                                                               *)
(***************************************************************************)
EXTENDS Naturals, Sequences

CONSTANTS Bytes, Capacity

VARIABLES
    content,   \* the bytes in the queue
    taken      \* the bytes the last Take returned

queueVars == <<content, taken>>

Init == content = <<>> /\ taken = <<>>

Put ==
    /\ \E n \in 0 .. Capacity - Len(content) :
          \E s \in [1 .. n -> Bytes] : content' = content \o s
    /\ UNCHANGED taken

Take ==
    \E n \in 0 .. Len(content) :
       /\ taken' = SubSeq(content, 1, n)
       /\ content' = SubSeq(content, n + 1, Len(content))

Next == Put \/ Take

Spec == Init /\ [][Next]_queueVars
=============================================================================
