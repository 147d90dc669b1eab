------------------------- MODULE MCWriteController -------------------------
(* WriteController for TLC.     *)
EXTENDS WriteController
=============================================================================
