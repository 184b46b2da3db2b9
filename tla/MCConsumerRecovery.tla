------------------------- MODULE MCConsumerRecovery -------------------------
(* The instances of ConsumerRecovery that TLC explores. *)
EXTENDS ConsumerRecovery

\* The wall clock may be set back by two units.
Back == {-2}
=============================================================================
