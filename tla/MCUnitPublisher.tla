-------------------------- MODULE MCUnitPublisher --------------------------
(* The instances of UnitPublisher that TLC explores. *)
EXTENDS UnitPublisher, TLC

Symmetric == Permutations(Units)
=============================================================================
