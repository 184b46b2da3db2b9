-------------------------- MODULE MCBridgeProcess --------------------------
(* The instance of BridgeProcess that TLC explores. *)
EXTENDS BridgeProcess
=============================================================================
