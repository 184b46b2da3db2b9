-------------------------- MODULE MCStaleDetection --------------------------
(* The schedule of the probes for TLC: the settings, in ticks, are scaled  *)
(* down from the defaults (60, 180, 4, 18, 18, 36 and 6), but for the      *)
(* verification.  It is longer than two intervals of the status probe, as  *)
(* SETTING_RANGES allows, so that consumer probes of the observer and of   *)
(* the verification get in the way of the same status probe.               *)
EXTENDS StaleDetection
=============================================================================
