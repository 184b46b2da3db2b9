--------------------------- MODULE MCBridgeStatus ---------------------------
(* The status stream for TLC: the bounds are in the configurations.        *)
EXTENDS BridgeStatus
=============================================================================
