--------------------------- MODULE EventRoutingMC ---------------------------
(* A small instance of EventRouting for TLC.                               *)
EXTENDS EventRouting

CONSTANTS k1, k2
=============================================================================
