--------------------------- MODULE MCAgentSession ---------------------------
(* Instances of AgentSession. *)
EXTENDS AgentSession, TLC

Symmetry == Permutations(Threads) \cup Permutations(Keys)
=============================================================================
