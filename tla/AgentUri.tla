------------------------------ MODULE AgentUri ------------------------------
(***************************************************************************)
(* The names of agents: OEFURI::URI (mt-core/tasks/src/cpp/utils.hpp) and  *)
(* the way a name takes from its registration through a search result to   *)
(* the message that is sent to it (OefFunctionsTaskFactory.cpp,            *)
(* SearchQueryTask.cpp, AgentToAgentMessageTask.hpp).                      *)
(*                                                                         *)
(* A string is the sequence of the pieces between its slashes, so that the *)
(* concatenation of strings with a slash in between is \o, and the empty   *)
(* string is << <<>> >>.  A piece is a sequence of characters.             *)
(***************************************************************************)
EXTENDS Naturals, Sequences, SequencesExt

CONSTANTS
    Chars,       \* the characters of strings, with the colon and without the slash
    Pieces,      \* the pieces of the strings an agent sends
    MaxPieces,   \* bound: pieces of an agent_uri
    Keys,        \* public keys, any strings
    tcp          \* the name of the default protocol

Empty == << <<>> >>

\* Assumed by MCLibrary.
NamesAssumption ==
    /\ ":" \in Chars
    /\ Pieces \subseteq Seq(Chars) /\ tcp \in Seq(Chars)
    /\ MaxPieces \in Nat
    /\ \A k \in Keys : k \in Seq(Seq(Chars)) /\ k # <<>>

VARIABLES
    stage,
    key,        \* the public key of the agent that registers
    agent_uri,  \* the field of its envelope
    name,       \* the key of its row in the search system
    dest,       \* the name another agent is told, and sends to
    receiver,   \* the key looked up in the registry
    target      \* the target_uri of the message

vars == <<stage, key, agent_uri, name, dest, receiver, target>>

-----------------------------------------------------------------------------
(* OEFURI::URI *)

\* The fields that a new URI has.
NewURI ==
    [protocol |-> <<tcp>>, coreURI |-> Empty, coreKey |-> Empty, namespaces |-> <<>>,
     agentKey |-> Empty, agentAlias |-> Empty, empty |-> TRUE]

\* getline gives no empty piece after a last slash; split puts it back.  Of the
\* empty string there are no pieces.
split(s) == IF s = Empty THEN <<>> ELSE s

toString(u) ==
    Front(u.protocol) \o <<Append(Last(u.protocol), ":")>> \o Empty
        \o u.coreURI \o u.coreKey
        \o (IF u.namespaces = <<>> THEN Empty ELSE u.namespaces)
        \o u.agentKey \o u.agentAlias

agentPartAsString(u) == IF u.agentAlias = Empty THEN u.agentKey ELSE u.agentKey \o u.agentAlias

\* The pieces from the fifth to the last but two, each of them a namespace.
Namespaces(vec) == SubSeq(vec, 5, Len(vec) - 2)

\* The last character of the first piece is taken for the colon, the second
\* piece is not looked at, and fewer than seven pieces are ignored.
parse(s) ==
    LET vec == split(s)
        n == Len(vec)
    IN  IF n < 7 THEN NewURI
        ELSE [protocol |-> <<IF vec[1] = <<>> THEN <<>> ELSE Front(vec[1])>>,
              coreURI |-> <<vec[3]>>, coreKey |-> <<vec[4]>>, namespaces |-> Namespaces(vec),
              agentKey |-> <<vec[n - 1]>>, agentAlias |-> <<vec[n]>>, empty |-> FALSE]

\* Variant: an alias is taken for the key.
parseAgent_Alias(s) ==
    LET vec == split(s)
    IN  IF Len(s) = 1 THEN [NewURI EXCEPT !.agentKey = s]
        ELSE IF Len(vec) # 2 THEN NewURI
        ELSE [NewURI EXCEPT !.empty = FALSE, !.agentKey = <<vec[2]>>, !.agentAlias = <<vec[1]>>]

parseAgent(s) ==
    LET vec == split(s)
    IN  IF Len(s) = 1 THEN [NewURI EXCEPT !.agentKey = s]
        ELSE IF Len(vec) # 2 THEN NewURI
        ELSE [NewURI EXCEPT !.empty = FALSE, !.agentKey = <<vec[1]>>, !.agentAlias = <<vec[2]>>]

-----------------------------------------------------------------------------
(* The way of a name *)

Init ==
    /\ stage = "register"
    /\ key \in Keys
    /\ agent_uri \in UNION {[1 .. n -> Pieces] : n \in 1 .. MaxPieces}
    /\ name = Empty
    /\ dest = Empty
    /\ receiver = Empty
    /\ target = Empty

\* processMessage: whatever the agent calls itself, the key is the one it
\* logged in with.
RegisteredName == agentPartAsString([parse(agent_uri) EXCEPT !.agentKey = key])

Register ==
    /\ stage = "register"
    /\ stage' = "search"
    /\ name' = RegisteredName
    /\ UNCHANGED <<key, agent_uri, dest, receiver, target>>

\* SearchQueryTask: a wide search hands on the names as they are.
Found ==
    /\ stage = "search"
    /\ stage' = "send"
    /\ dest' \in {agentPartAsString(parseAgent(name)), name}
    /\ UNCHANGED <<key, agent_uri, name, receiver, target>>

\* AgentToAgentMessageTask, for a message without a target_uri.
SendMessage ==
    /\ stage = "send"
    /\ stage' = "sent"
    /\ receiver' = parseAgent(dest).agentKey
    /\ target' = toString(parseAgent(dest))
    /\ UNCHANGED <<key, agent_uri, name, dest>>

Next == Register \/ Found \/ SendMessage

Spec == Init /\ [][Next]_vars

-----------------------------------------------------------------------------
(* Properties *)

\* The key has no slash.
PlainKey == Len(key) = 1

\* The name a search finds leads to the agent that registered it, if its key has no
\* slash, whatever agent_uri it sent with its registration, with or without an alias.
FoundIsReachable == PlainKey /\ stage = "sent" => receiver = key

\* The target_uri the core makes up (create_message) is read by the receiver as
\* its own key, if that has no slash, and the alias it was sent to.
TargetNamesAgent ==
    PlainKey /\ stage = "sent" =>
        LET u == parse(target)
        IN  u.agentKey = key /\ agentPartAsString(u) = dest

\* What parse() reads survives being written and read again, also with empty
\* pieces and with a last slash.
RoundTrip ==
    LET u == parse(agent_uri)
    IN  ~u.empty => parse(toString(u)) = u

\* The uses of a name fit together: what is written is read and, for keys without a
\* slash, what is found can be sent to and a message names its receiver (parseAgent,
\* split, toString).
NamesAgree == RoundTrip /\ FoundIsReachable /\ TargetNamesAgent

-----------------------------------------------------------------------------
(* What one would expect from the code's own words, and what it does not do *)
(* (the README, Known deviations).                                          *)

\* The name a search finds leads to the agent that registered it, whatever string the
\* agent logged in with as its public key.
AnyKeyIsReachable == stage = "sent" => receiver = key
=============================================================================
