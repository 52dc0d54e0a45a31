----------------------- MODULE MCProjectionDurability -----------------------
(* ProjectionDurability on two memories, for TLC.                          *)
EXTENDS ProjectionDurability

CONSTANTS m1, m2
=============================================================================
