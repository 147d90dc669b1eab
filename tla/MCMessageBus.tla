---------------------------- MODULE MCMessageBus ----------------------------
(* MessageBus for TLC.                                                      *)
EXTENDS MessageBus
=============================================================================
