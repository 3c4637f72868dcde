-------------------------- MODULE MCGatewayShutdown --------------------------
(* An instance of GatewayShutdown for TLC. *)
EXTENDS GatewayShutdown

CONSTANTS e1, e2, e3, deferredClose

ThreeEvents == {e1, e2, e3}
OneCloser == {deferredClose}
==============================================================================
