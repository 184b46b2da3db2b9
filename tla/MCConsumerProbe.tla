--------------------------- MODULE MCConsumerProbe ---------------------------
(* The correlated probes for TLC: the bounds are in the configuration.     *)
(* Units are only compared, so they are interchangeable; the properties    *)
(* are invariants.                                                         *)
EXTENDS ConsumerProbe, TLC

UnitSymmetry == Permutations(Units)
=============================================================================
