---------------------------- MODULE MCDeployment ----------------------------
(***************************************************************************)
(* Instances of Deployment for TLC: one extract with a way in one stretch,   *)
(* and one in which a junction splits it.                                   *)
(***************************************************************************)
EXTENDS Deployment

Stretch(way, seq) == [way |-> way, seq |-> seq]

WholeAndSplit == {{Stretch("w", 0)}, {Stretch("w", 0), Stretch("w", 1)}}
=============================================================================
