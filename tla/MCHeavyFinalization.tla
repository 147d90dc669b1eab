------------------------ MODULE MCHeavyFinalization ------------------------
(* HeavyFinalization for TLC.                                              *)
EXTENDS HeavyFinalization, TLC

HandlerSymmetry == Permutations(Handlers)
=============================================================================
