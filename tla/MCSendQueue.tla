---------------------------- MODULE MCSendQueue ----------------------------
(* SendQueue on small instances. *)
EXTENDS SendQueue, TLC

SenderSymmetry == Permutations(Senders)
=============================================================================
