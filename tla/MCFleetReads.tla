---------------------------- MODULE MCFleetReads ----------------------------
(***************************************************************************)
(* Instances of FleetReads for TLC.  The first vehicle has an assignment on  *)
(* the first day that another one replaces on the second; ended rows do not *)
(* count.                                                                   *)
(***************************************************************************)
EXTENDS FleetReads, TLC

CONSTANTS First, Second

TwoAssignments ==
  {[vehicle |-> First, status |-> "active", from |-> 0, to |-> 0],
   [vehicle |-> First, status |-> "active", from |-> 1, to |-> Forever],
   [vehicle |-> Second, status |-> "ended", from |-> 0, to |-> Forever]}
=============================================================================
