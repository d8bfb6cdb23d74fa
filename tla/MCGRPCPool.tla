----------------------------- MODULE MCGRPCPool -----------------------------
(* Instances of GRPCPool for TLC.                                          *)
EXTENDS GRPCPool, TLC

Symmetry == Permutations(Streams) \cup Permutations(AgentIDs)
=============================================================================
