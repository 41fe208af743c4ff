--------------------------- MODULE MCSessionDriver ---------------------------
(***************************************************************************)
(* Two servos, the second an antenna, for safety; one head servo for       *)
(* liveness and for what the sources say.  No cell provisioned and no      *)
(* voltage waited for: commissioning is as short as it can be.             *)
(***************************************************************************)
EXTENDS SessionDriver

MCNone == {}
MCAntenna == {1}
=============================================================================
