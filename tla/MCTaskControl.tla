--------------------------- MODULE MCTaskControl ---------------------------
(* Instances of TaskControl for TLC.                                       *)
EXTENDS TaskControl, TLC

Symmetry == Permutations(Requests)
=============================================================================
