---------------------------- MODULE MCConnection ----------------------------
(***************************************************************************)
(* What goes on beside the messages of a connection: its life (Endpoint)   *)
(* and its heartbeat (Heartbeat), side by side in one run.  A behaviour is *)
(* one of either; the other one stays where it began.                      *)
(***************************************************************************)
EXTENDS Endpoint

CONSTANTS Wrap, MaxOut, Policy

VARIABLES part, beat, outstanding, pings, inflight, socket, owner, answers, prompt

Beating == INSTANCE Heartbeat WITH open <- socket

ASSUME HeartbeatFits == Beating!HeartbeatAssumption

\* Karma refuses at three pings and disconnects at a count that has just wrapped;
\* other counts are paid for.
DenyAtThree ==
    [n \in 0 .. Wrap - 1 |-> CASE n = 3 -> "deny" [] n = Wrap - 1 -> "X" [] OTHER -> "pay"]

heartbeatVars == <<beat, outstanding, pings, inflight, socket, owner, answers, prompt>>

ConnectionInit ==
    /\ Init
    /\ Beating!Init
    /\ \/ part = "endpoint" /\ answers = "any" /\ prompt
       \/ part = "heartbeat"

EndpointStep == part = "endpoint" /\ Next /\ UNCHANGED <<part, heartbeatVars>>

HeartbeatStep == part = "heartbeat" /\ Beating!Next /\ UNCHANGED <<part, vars>>

\* The fairness of Endpoint and of Heartbeat.
Starts == part = "endpoint" /\ StartStep /\ UNCHANGED <<part, heartbeatVars>>
Reads == part = "endpoint" /\ ReadStep /\ UNCHANGED <<part, heartbeatVars>>
Writes == part = "endpoint" /\ WriteStep /\ UNCHANGED <<part, heartbeatVars>>
Beats == part = "heartbeat" /\ Beating!Beat /\ UNCHANGED <<part, vars>>
PingRuns == part = "heartbeat" /\ Beating!RunPing /\ UNCHANGED <<part, vars>>
CloseRuns == part = "heartbeat" /\ Beating!HandleClose /\ UNCHANGED <<part, vars>>

ConnectionSpec ==
    /\ ConnectionInit
    /\ [][EndpointStep \/ HeartbeatStep]_<<part, vars, heartbeatVars>>
    /\ WF_vars(Starts) /\ WF_vars(Reads) /\ WF_vars(Writes)
    /\ WF_heartbeatVars(Beats) /\ WF_heartbeatVars(PingRuns) /\ WF_heartbeatVars(CloseRuns)

-----------------------------------------------------------------------------
(* The properties of Heartbeat *)

\* OefAgentEndpoint::heartbeat charges an agent for the pings it owes, never for a
\* count that has wrapped (Heartbeat).
HeartbeatInv == Beating!HeartbeatInv

\* A silent agent is cut off once karma refuses it (Heartbeat).
SilentIsClosed == Beating!SilentIsClosed

\* The OefHeartbeatTask ends after its connection, unless the owner was not told or
\* threw when it was (Heartbeat).
HeartbeatEnds == Beating!HeartbeatEnds
=============================================================================
