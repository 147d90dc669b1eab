--------------------------- MODULE MCLightHotData ---------------------------
(* LightHotData for TLC: all requests are about the object of one jet and   *)
(* may be exchanged for one another.                                        *)
EXTENDS LightHotData, TLC

OneJet == [w \in Requests |-> CHOOSE j \in Jets : TRUE]

RequestSymmetry == Permutations(Requests)
=============================================================================
