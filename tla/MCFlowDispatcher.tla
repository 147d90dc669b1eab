-------------------------- MODULE MCFlowDispatcher --------------------------
(* FlowDispatcher for TLC.                                                  *)
EXTENDS FlowDispatcher
=============================================================================
