--------------------------- MODULE MCAgentPlugin ---------------------------
(* Instances of AgentPlugin for TLC.                                       *)
EXTENDS AgentPlugin, TLC

Symmetry == Permutations(Names) \cup Permutations(Versions) \cup Permutations(Plugins)
=============================================================================
