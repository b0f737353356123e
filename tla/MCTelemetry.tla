---------------------------- MODULE MCTelemetry -----------------------------
(***************************************************************************)
(* Instances of Telemetry for TLC.  Request slots run the same code and no   *)
(* property names one of them, so they are interchangeable where only        *)
(* safety is checked.                                                        *)
(***************************************************************************)
EXTENDS Telemetry, TLC

SlotSymmetry == Permutations(Requests)
=============================================================================
