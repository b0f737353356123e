----------------------------- MODULE MCRoadGraph ----------------------------
(***************************************************************************)
(* RoadGraph over the rows that the sample files ask for.                    *)
(***************************************************************************)
EXTENDS RoadGraph, OsmFiles

MCImages == {RowsOf(WithLoops[name]) : name \in DOMAIN WithLoops}
=============================================================================
