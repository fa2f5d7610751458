---------------------------- MODULE PoolRequests ----------------------------
(***************************************************************************)
(* AgentRequest on a pool of its own: `jobs', `doing' and `sleepers' are   *)
(* the pool's queue, what its Workers hold and the tasks that wait for the *)
(* search system, under names that are not those of Taskpool.              *)
(***************************************************************************)

CONSTANTS
    Agents, NoAgent, Workers, NoJob, Groups, Operations, MaxRequests, MaxEvents, Settings, KarmaRefuses

VARIABLES online, stage, reading, made, jobs, doing, sleepers, search, rows, got, cleanGroup, untidy,
          home, threads, reliable

Req == INSTANCE AgentRequest WITH
    Threads <- Workers, NoTask <- NoJob,
    pending <- jobs, running <- doing, suspended <- sleepers

RequestAssumption == Req!RequestAssumption
RequestSpec == Req!Spec

\* An agent has at most one answer to a request, and only to its own, and a message
\* is as it was sent (processMessage, the search tasks' handleResponse,
\* AgentToAgentMessageTask).
RequestInv == Req!RequestInv

\* When nobody works on it any more, the query of an agent that has stayed is
\* answered, if the search system never fails, unless its task missed the response or
\* a connection with the same group number has left (processMessage, createConv,
\* handleResponse, cancelTaskGroup).
QueryAnswered == Req!QueryAnswered

\* When the tasks of an agent that is gone are over, the search system has nothing of
\* it, with one thread and a search system that never fails, unless a message of it was
\* processed late or its clean-up was cancelled with the tasks of another (the close
\* handler's clean-up, "Sending removeRow to search...").
GoneIsForgotten == Req!GoneIsForgotten
=============================================================================
