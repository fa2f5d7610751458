------------------------ MODULE MCSearchConversation ------------------------
(* An instance of SearchConversation. *)
EXTENDS SearchConversation

CONSTANTS c1, c2, c3

Three == {c1, c2, c3}

\* A request and two connections, where everything may happen; two requests and a
\* connection that holds.
FoulAndFair ==
    {[requests |-> {c1}, outside |-> {"link fails", "response", "error", "agent leaves"}],
     [requests |-> {c1, c2}, outside |-> {}]}
=============================================================================
