--------------------------- MODULE MCAgentRequest ---------------------------
(* Instances of AgentRequest. *)
EXTENDS PoolRequests, Integers, Sequences, FiniteSets, TLC

ASSUME RequestFits == RequestAssumption

Registration == {"REGISTER_DESCRIPTION"}
Query == {"SEARCH_AGENTS"}
OneOfEach == Registration \cup Query \cup {"UNREGISTER_SERVICE", "SEND_MESSAGE", "OTHER"}

\* One thread or two with a search system that never fails, and two with one that may:
\* what one thread does there, two may do.
Pools == {<<1, TRUE>>, <<2, TRUE>>, <<2, FALSE>>}

\* Two events of any kind, and a third where the two stricter properties need one:
\* queries with two threads, registrations with one.
Events == [s \in Pools |-> IF s[2] THEN 3 ELSE 2]

Bounded ==
    LET asked == {made[i].op : i \in DOMAIN made}
        ended == {a \in Agents : stage[a] # "up"}
    IN  \/ Len(made) + Cardinality(ended) <= 2
        \/ threads = 2 /\ asked \subseteq Query /\ Cardinality(ended) <= 1
        \/ threads = 1 /\ asked \subseteq Registration

Symmetry == Permutations(Agents) \cup Permutations(Workers) \cup Permutations(Groups)
=============================================================================
