---------------------------- MODULE MCOsmExtract ----------------------------
(***************************************************************************)
(* Every file of at most MaxWays ways and MaxRefs node references over a     *)
(* few nodes, closed and self-touching ways included.  Only equality of node *)
(* and way ids matters to the topology, and no property names one of them.   *)
(***************************************************************************)
EXTENDS OsmExtract, TLC

CONSTANTS Nodes, WayIds, Highways, OnewayTags

WaysOfLength == [n \in 0 .. MaxRefs |->
  [id : WayIds, nodes : [1 .. n -> Nodes], highway : Highways,
   oneway : OnewayTags, name : {NoTag}, attrs : {NoTag}]]

MCRawWays(n) == UNION {WaysOfLength[k] : k \in 0 .. n}

IdSymmetry == Permutations(KnownNodes) \cup Permutations(WayIds)
=============================================================================
