------------------------------ MODULE MCKarma ------------------------------
(* Instances of Karma: a policy with the events the core performs. *)
EXTENDS Karma, TLC

CONSTANTS t1, t2, a1, a2

TwoThreads == {t1, t2}
TwoAccounts == {a1, a2}

\* Both threads perform events for a1, one of them also for a2.
OneShared == (t1 :> {a1}) @@ (t2 :> {a1, a2})

EventNames == {"login", "message", "eof", "refresh", "*"}

Policy ==
    ("login" :> [op |-> "add", n |-> -1]) @@
    ("message" :> [op |-> "add", n |-> -2]) @@
    ("eof" :> [op |-> "disconnect", n |-> 0]) @@
    ("refresh" :> [op |-> "add", n |-> 1]) @@
    ("*" :> [op |-> "none", n |-> 0])

SomeActions == {<<"login", "message">>, <<"login">>, <<"eof">>}
=============================================================================
