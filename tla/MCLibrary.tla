----------------------------- MODULE MCLibrary -----------------------------
(***************************************************************************)
(* The algorithms on data, each with all its inputs of bounded size: the   *)
(* query language (Schema), the names of agents (AgentUri) and addresses   *)
(* (Uri).  A behaviour is one of one of them.                              *)
(***************************************************************************)
EXTENDS Schema, Addressing

VARIABLE part

ASSUME NamesFit == Names!NamesAssumption /\ Addr!UriAssumption

agentVars == <<stage, key, agent_uri, name, dest, receiver, target>>
addressVars == <<written, uri>>

-----------------------------------------------------------------------------
(* Inputs of the query language *)

\* The square of a distance in the plane is not a distance on a sphere, but it tells
\* near from far.
GridDist ==
    [pq \in (0 .. Side * Side - 1) \X (0 .. Side * Side - 1) |->
        LET dx == Lon(pq[1]) - Lon(pq[2])
            dy == Lat(pq[1]) - Lat(pq[2])
        IN  dx * dx + dy * dy]

MapsOf(names, values) == UNION {[D -> values] : D \in SUBSET names}

\* One attribute of every type with every constraint on it.
AllConstraints ==
    UNION {{Relation(op, t, v) : v \in ValuesOf(t), op \in {"EQ", "NOTEQ", "LT", "LTEQ", "GT", "GTEQ"}}
             \cup {Set(op, t, vs) : vs \in SUBSET ValuesOf(t), op \in {"IN", "NOTIN"}} : t \in Types}
    \cup UNION {{Range(t, a, b) : a, b \in ValuesOf(t)} : t \in Types \ {"BOOL"}}
    \cup {Distance(p, d) : p \in ValuesOf("LOCATION"), d \in 0 .. 2}

OneAttribute ==
    [models |-> {<<>>} \cup [{1} -> [name : {"a"}, type : Types, required : BOOLEAN]],
     values |-> MapsOf({"a"}, Value),
     leaves |-> {"a"} \X AllConstraints,
     maxOps |-> 1]

\* Two attributes and a few constraints to be combined.
Combinations ==
    [models |-> UNION {[1 .. n -> {[name |-> "a", type |-> "INT", required |-> TRUE],
                                   [name |-> "b", type |-> "INT", required |-> FALSE],
                                   [name |-> "a", type |-> "BOOL", required |-> FALSE]}] : n \in 0 .. 2},
     values |-> MapsOf({"a", "b"}, [type : {"INT", "BOOL"}, v : {0, 1}] \cup
                                   [type : Types \ {"INT", "BOOL"}, v : {0}]),
     leaves |-> {<<"a", Relation("LT", "INT", 1)>>, <<"b", Set("NOTIN", "INT", {1})>>,
                 <<"c", Relation("EQ", "BOOL", 0)>>},
     maxOps |-> 4]

SomeScopes == <<OneAttribute, Combinations>>

\* With Half = 2, two of them are beyond an int, one on each side.
SomeInts == {-3, -1, 0, 1, 2}

-----------------------------------------------------------------------------
(* Names and addresses: keys with and without a slash, the empty key, and a *)
(* port that its field cuts off                                             *)

SomePieces == {<<>>, <<"a">>, <<"a", ":">>}
SomeKeys == {<< <<"k">> >>, << <<"a">> >>, << <<>> >>, << <<"a">>, <<"k">> >>}
tcpString == <<"t">>
SomePorts == {0, 1, 3333, 2^15, 2^16 - 1, 2^16}

-----------------------------------------------------------------------------
AgentAtRest ==
    /\ stage = "rest"
    /\ key = Names!Empty /\ agent_uri = Names!Empty /\ name = Names!Empty
    /\ dest = Names!Empty /\ receiver = Names!Empty /\ target = Names!Empty
AddressAtRest == written = <<>> /\ uri = Addr!NewUri
SchemaAtRest ==
    /\ scope = 1 /\ model = <<>>
    /\ sent = [mine |-> TRUE, values |-> NoValues] /\ made = "not"
    /\ query = <<>> /\ ops = 0

LibraryInit ==
    \/ part = "schema" /\ Init /\ AgentAtRest /\ AddressAtRest
    \/ part = "agent" /\ SchemaAtRest /\ Names!Init /\ AddressAtRest
    \/ part = "address" /\ SchemaAtRest /\ AgentAtRest /\ Addr!Init

SchemaStep == part = "schema" /\ Next /\ UNCHANGED <<part, agentVars, addressVars>>
AgentStep == part = "agent" /\ Names!Next /\ UNCHANGED <<part, vars, addressVars>>
AddressStep == part = "address" /\ Addr!Next /\ UNCHANGED <<part, vars, agentVars>>

LibrarySpec ==
    LibraryInit /\ [][SchemaStep \/ AgentStep \/ AddressStep]_<<part, vars, agentVars, addressVars>>
=============================================================================
