------------------------- MODULE MCGatewayLifecycle -------------------------
(* Two requests, up to three sessions that overlap (one that starts while  *)
(* others still close), two stops that wait for the same start.            *)
EXTENDS GatewayLifecycle
=============================================================================
