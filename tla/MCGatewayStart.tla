--------------------------- MODULE MCGatewayStart ---------------------------
(***************************************************************************)
(* Instances of GatewayStart for TLC.                                      *)
(***************************************************************************)
EXTENDS GatewayStart

\* A dual-stack gateway.
Dual == {4, 6}

=============================================================================
