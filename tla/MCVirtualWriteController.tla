---------------------- MODULE MCVirtualWriteController ----------------------
(* VirtualWriteController for TLC.                                          *)
EXTENDS VirtualWriteController
=============================================================================
