------------------------- MODULE MCLightReplication -------------------------
(* LightReplication for TLC.                                                *)
EXTENDS LightReplication
=============================================================================
