--------------------------- MODULE MessageChannel ---------------------------
(***************************************************************************)
(* What the transmit queue of an endpoint promises the tasks that send: a  *)
(* bounded first-in first-out channel that takes each message once and     *)
(* hands batches of them, oldest first, to the peer.  SendQueue implements *)
(* it.                                                                     *)
(***************************************************************************)
EXTENDS Naturals, Sequences

CONSTANTS Messages, Capacity

VARIABLES
    inTransit,   \* the messages the channel holds
    delivered    \* the messages the peer has

channelVars == <<inTransit, delivered>>

Init == inTransit = <<>> /\ delivered = <<>>

Accept(m) ==
    /\ \A i \in DOMAIN inTransit : inTransit[i] # m
    /\ \A i \in DOMAIN delivered : delivered[i] # m
    /\ Len(inTransit) < Capacity
    /\ inTransit' = Append(inTransit, m)
    /\ UNCHANGED delivered

Deliver ==
    \E n \in 1 .. Len(inTransit) :
        /\ delivered' = delivered \o SubSeq(inTransit, 1, n)
        /\ inTransit' = SubSeq(inTransit, n + 1, Len(inTransit))

Next == Deliver \/ \E m \in Messages : Accept(m)

Spec == Init /\ [][Next]_channelVars
=============================================================================
