---------------------------- MODULE MCLegacyCore ----------------------------
(***************************************************************************)
(* The earlier core server: its connections, sessions and dialogues        *)
(* (CoreServer), and the requests of its sessions to the OEF Search        *)
(* (OefSearchClient), side by side in one run.  A behaviour is one of      *)
(* either; the other one stays where it began.                             *)
(***************************************************************************)
EXTENDS CoreServer

CONSTANTS Requests, Op, Word, Xor, Settings

VARIABLES part, setting, req, writes, ready, handles, receiving, processing, outcome,
          description, link, atSearch, answers, held

Client == INSTANCE OefSearchClient

ASSUME ClientFits == Client!OefSearchClientAssumption

clientVars == <<setting, req, writes, ready, handles, receiving, processing, outcome,
                description, link, atSearch, answers, held>>

Three == 1 .. 3

\* A description, its removal and a search.
SomeOps == <<"register", "unregister", "search">>

\* Exclusive or, of three bits.
XorOfBits ==
    [p \in (0 .. Word - 1) \X (0 .. Word - 1) |->
        LET Bit(b) == b * ((p[1] \div b + p[2] \div b) % 2) IN Bit(1) + Bit(2) + Bit(4)]

\* The third request shares its id with the first: of one agent, whose message ids
\* differ by the bit that is shifted out; of two agents, whose hashes differ as their
\* shifted message ids do.  Or no two ids are the same, and nothing fails.
SomeSettings ==
    <<[agent |-> <<"a", "a", "a">>, msgId |-> <<1, 2, 5>>, hash |-> [a |-> 9],
       threads |-> 2, faults |-> {"link", "header"}],
      [agent |-> <<"a", "a", "b">>, msgId |-> <<1, 2, 3>>, hash |-> [a |-> 9, b |-> 5],
       threads |-> 2, faults |-> {"header"}],
      [agent |-> <<"a", "a", "b">>, msgId |-> <<1, 2, 1>>, hash |-> [a |-> 9, b |-> 5],
       threads |-> 1, faults |-> {}]>>

LegacyInit ==
    /\ Init
    /\ Client!Init
    /\ \/ part = "server" /\ setting = 1
       \/ part = "client" /\ threads = 1

ServerStep == part = "server" /\ Next /\ UNCHANGED <<part, clientVars>>

ClientStep == part = "client" /\ Client!Next /\ UNCHANGED <<part, vars>>

\* The fairness of CoreServer and of OefSearchClient.
HandlersRun(c) == part = "server" /\ Handlers(c) /\ UNCHANGED <<part, clientVars>>
WriteEnds(d) == part = "server" /\ WriteDone(d) /\ UNCHANGED <<part, clientVars>>
ClientRuns == part = "client" /\ Client!System /\ UNCHANGED <<part, vars>>
SearchServes == part = "client" /\ Client!Serve /\ UNCHANGED <<part, vars>>

LegacySpec ==
    /\ LegacyInit
    /\ [][ServerStep \/ ClientStep]_<<part, vars, clientVars>>
    /\ \A c \in Conns : WF_vars(HandlersRun(c))
    /\ \A d \in Dialogues : WF_vars(WriteEnds(d))
    /\ WF_clientVars(ClientRuns) /\ WF_clientVars(SearchServes)

-----------------------------------------------------------------------------
(* The properties of OefSearchClient *)

\* A request is answered once at most, and with an answer of its id (OefSearchClient).
ClientInv == Client!ClientInv

\* Under one thread and without faults every request is answered (OefSearchClient).
AllAnswered == Client!AllAnswered
=============================================================================
