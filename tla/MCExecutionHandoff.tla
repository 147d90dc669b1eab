------------------------- MODULE MCExecutionHandoff -------------------------
(* ExecutionHandoff for TLC.                                               *)
EXTENDS ExecutionHandoff

Sym == Permutations(Nodes) \cup Permutations(Requests)
=============================================================================
