--------------------------- MODULE MCOsmIngestion ---------------------------
(***************************************************************************)
(* Instances of OsmIngestion for TLC: the runs read some of the sample       *)
(* files, and what a file asks for is derived from its ways by OsmPlan.      *)
(***************************************************************************)
EXTENDS OsmIngestion, OsmFiles

CONSTANT Files  \* name -> extract

MCExtracts == DOMAIN Files
MCWantedRows(name) == RowsOf(Files[name])
MCWork(name) == AgendaOf(Files[name])

RunSymmetry == Permutations(Runs)
=============================================================================
