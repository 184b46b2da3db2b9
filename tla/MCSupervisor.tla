---------------------------- MODULE MCSupervisor ----------------------------
(* The supervisor for TLC: the settings are in the configurations.  The    *)
(* unit of time is the short window.                                       *)
EXTENDS Supervisor
=============================================================================
