----------------------------- MODULE Heartbeat -----------------------------
(***************************************************************************)
(* Heartbeats.  Once a second a task of the connection charges the agent   *)
(* for the pings it has not answered, submits a task that sends a ping and *)
(* counts it; the reader of the connection counts the pongs down.  The     *)
(* task ends when the endpoint is gone.                                    *)
(***************************************************************************)
EXTENDS Integers

CONSTANTS
    Wrap,        \* outstanding_heartbeats is counted modulo this (2^32)
    MaxOut,      \* bound: pings on their way at a time
    Policy       \* effect of comms.outstanding_heartbeats.<n>

HeartbeatAssumption ==
    /\ Wrap \in Nat /\ MaxOut \in Nat \ {0} /\ MaxOut < Wrap
    /\ Policy \in [0 .. Wrap - 1 -> {"pay", "deny", "X"}]

VARIABLES
    beat,          \* where the OefHeartbeatTask is
    outstanding,   \* outstanding_heartbeats
    pings,         \* ping tasks not yet run; each holds the endpoint
    inflight,      \* pings that the agent has not answered
    open,          \* the socket is open
    owner,         \* OefAgentEndpoint: "open", or what became of it at the end, see HandleClose
    answers,       \* the agent answers each ping at most once ("each"), none, or as it likes
    prompt         \* the pool runs a ping task before the next heartbeat is due

world == <<answers, prompt>>
vars == <<beat, outstanding, pings, inflight, open, owner, answers, prompt>>

Running == {"testing", "charging", "pinging", "counting"}

TypeOK ==
    /\ beat \in Running \cup {"waiting", "gone"}
    /\ outstanding \in 0 .. Wrap - 1
    /\ pings \in 0 .. MaxOut /\ inflight \in 0 .. MaxOut
    /\ open \in BOOLEAN /\ owner \in {"open", "reset", "kept"}
    /\ answers \in {"each", "never", "any"} /\ prompt \in BOOLEAN

\* The task is submitted at login.
Init ==
    /\ beat = "waiting"
    /\ outstanding = 0
    /\ pings = 0
    /\ inflight = 0
    /\ open = TRUE
    /\ owner = "open"
    /\ answers \in {"each", "never", "any"}
    /\ prompt \in BOOLEAN

\* Variant: the task holds the endpoint between its runs.
EndpointAlive_Held == owner # "reset" \/ pings > 0 \/ beat # "gone"

\* Somebody holds the endpoint: its connection, a ping task, a heartbeat.
EndpointAlive == owner # "reset" \/ pings > 0 \/ beat \in Running

-----------------------------------------------------------------------------
(* OefHeartbeatTask::run and OefAgentEndpoint::heartbeat *)

Lock ==
    /\ beat = "waiting"
    /\ prompt => pings = 0
    /\ beat' = IF EndpointAlive THEN "testing" ELSE "gone"
    /\ UNCHANGED <<outstanding, pings, inflight, open, owner, world>>

TestOutstanding ==
    /\ beat = "testing"
    /\ beat' = IF outstanding > 0 THEN "charging" ELSE "pinging"
    /\ UNCHANGED <<outstanding, pings, inflight, open, owner, world>>

\* Variant: the refusal is ignored.
CloseSocket_Not == UNCHANGED <<open, inflight>>

\* socket().close(): what was on its way is lost.
CloseSocket == open' = FALSE /\ inflight' = 0

\* karma.perform, of the count as it is now.  XKarma closes the socket; XDisconnect
\* passes through heartbeat() and run() into the pool, which drops the task.
PerformKarma ==
    /\ beat = "charging"
    /\ \/ Policy[outstanding] = "pay" /\ beat' = "pinging" /\ UNCHANGED <<open, inflight>>
       \/ Policy[outstanding] = "deny" /\ beat' = "waiting" /\ CloseSocket
       \/ Policy[outstanding] = "X" /\ beat' = "gone" /\ UNCHANGED <<open, inflight>>
    /\ UNCHANGED <<outstanding, pings, owner, world>>

SubmitPing ==
    /\ beat = "pinging"
    /\ pings + inflight < MaxOut
    /\ pings' = pings + 1
    /\ beat' = "counting"
    /\ UNCHANGED <<outstanding, inflight, open, owner, world>>

CountPing ==
    /\ beat = "counting"
    /\ outstanding' = (outstanding + 1) % Wrap
    /\ beat' = "waiting"
    /\ UNCHANGED <<pings, inflight, open, owner, world>>

-----------------------------------------------------------------------------
(* The ping task and the agent *)

RunPing ==
    /\ pings > 0
    /\ pings' = pings - 1
    /\ inflight' = IF open THEN inflight + 1 ELSE inflight
    /\ UNCHANGED <<beat, outstanding, open, owner, world>>

\* Variant: the count stops at zero.
CountedDown_Floor == IF outstanding = 0 THEN 0 ELSE outstanding - 1

\* heartbeat_recvd
CountedDown == (outstanding + Wrap - 1) % Wrap

Pong ==
    /\ open
    /\ answers # "never"
    /\ inflight > 0
    /\ inflight' = inflight - 1
    /\ outstanding' = CountedDown
    /\ UNCHANGED <<beat, pings, open, owner, world>>

\* A pong that nobody asked for.
StrayPong ==
    /\ open
    /\ answers = "any"
    /\ outstanding' = CountedDown
    /\ UNCHANGED <<beat, pings, inflight, open, owner, world>>

ConnectionEnds ==
    /\ open
    /\ CloseSocket
    /\ UNCHANGED <<beat, outstanding, pings, owner, world>>

\* The operations on a closed socket end, and the close handler gives the endpoint up;
\* its group cancel may take the ping tasks.  Its karma.perform may throw before that,
\* and a read error that is not an end of file calls no handler: then the endpoint and
\* its factory keep each other.
HandleClose ==
    /\ ~open
    /\ owner = "open"
    /\ \/ owner' = "reset" /\ pings' \in {0, pings}
       \/ owner' = "kept" /\ UNCHANGED pings
    /\ UNCHANGED <<beat, outstanding, inflight, open, world>>

-----------------------------------------------------------------------------
Beat == Lock \/ TestOutstanding \/ PerformKarma \/ SubmitPing \/ CountPing

Next == Beat \/ RunPing \/ Pong \/ StrayPong \/ ConnectionEnds \/ HandleClose

Spec == Init /\ [][Next]_vars

\* The pool's timer and threads run; the agent need not do anything.
FairSpec == Spec /\ WF_vars(Beat) /\ WF_vars(RunPing) /\ WF_vars(HandleClose)

-----------------------------------------------------------------------------
(* Properties *)

\* An agent that answers each ping once is charged for what it owes and never for
\* a count that has wrapped below zero, although its pong may be counted down
\* before the ping was counted up: the wrap is over when heartbeat() looks.
ChargedWhatIsOwed ==
    answers = "each" /\ open /\ beat # "counting" => outstanding = pings + inflight

\* A silent agent is cut off once karma refuses it.
SilentIsClosed == answers = "never" /\ open ~> ~open

\* The heartbeat stops after the connection has ended, whatever it was doing, and
\* does not keep the endpoint with its own pings, if the pool sends them in time and
\* unless the close handler threw or was not called.
HeartbeatEnds == prompt /\ ~open ~> beat = "gone" \/ owner = "kept"

\* Types, and what heartbeat() charges for.
HeartbeatInv == TypeOK /\ ChargedWhatIsOwed

-----------------------------------------------------------------------------
(* What one would expect from the code's own words, and what it does not do *)
(* (the README, Known deviations).                                          *)

\* An effect X disconnects the agent ("Disconnect due to Karma policy"): the
\* heartbeat stops only for a connection that is closed.
XDisconnects == beat = "gone" => ~open

\* OefHeartbeatTask stops when the endpoint is gone, which is to follow from the end
\* of the connection in every case.
HeartbeatAlwaysEnds == prompt /\ ~open ~> beat = "gone"
=============================================================================
