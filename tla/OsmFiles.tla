------------------------------ MODULE OsmFiles ------------------------------
(***************************************************************************)
(* A handful of small files, each a step away from another one: a junction  *)
(* appears, a node moves, tags change, a stretch becomes degenerate, the    *)
(* node order turns around, a way id is repeated, roads end where they      *)
(* began.                                                                   *)
(***************************************************************************)
EXTENDS OsmPlan

Way(id, nodes, name, oneway) ==
  [id |-> id, nodes |-> nodes, highway |-> "residential", oneway |-> oneway,
   name |-> name, attrs |-> NoTag]

At(a, b, c, d) == (1 :> a) @@ (2 :> b) @@ (3 :> c) @@ (4 :> d)

\* One way from 1 over 2 to 3.
Plain == [ways |-> << Way(10, <<1, 2, 3>>, 7, NoTag) >>, location |-> At(1, 2, 3, 4)]

\* A side road at 2 splits it.
SideRoad == [ways |-> << Way(10, <<1, 2, 3>>, 7, NoTag), Way(20, <<4, 2>>, 8, "-1") >>,
             location |-> At(1, 2, 3, 4)]

\* Node 2 moved, the way is one-way and has another name; the side road comes
\* with a second way of the same id.
Edited == [ways |-> << Way(10, <<1, 2, 3>>, 8, "yes"), Way(20, <<4, 2>>, 8, NoTag),
                       Way(20, <<1, 3>>, 9, NoTag) >>,
           location |-> At(1, 5, 3, 4)]

\* Node 1 lies on node 2.
Degenerate == [ways |-> << Way(10, <<1, 2, 3>>, 7, NoTag), Way(20, <<4, 2>>, 8, "-1") >>,
               location |-> At(2, 2, 3, 4)]

\* The side road is drawn the other way round and has no name.
Turned == [ways |-> << Way(10, <<3, 2, 1>>, 7, NoTag), Way(20, <<2, 4>>, NoTag, NoTag) >>,
           location |-> At(1, 2, 3, 4)]

Growing == "plain" :> Plain @@ "side_road" :> SideRoad
Turning == "side_road" :> SideRoad @@ "turned" :> Turned
AllFiles == Growing @@ Turning @@ "edited" :> Edited @@ "degenerate" :> Degenerate

\* Two loops, one of them one-way, and two roads between the same junctions.
Loops == [ways |-> << Way(10, <<1, 3>>, 7, NoTag), Way(20, <<1, 3>>, NoTag, "yes"),
                      Way(30, <<3, 4, 3>>, 8, "yes"), Way(40, <<1, 2, 1>>, 8, NoTag) >>,
          location |-> At(1, 2, 3, 4)]

WithLoops == AllFiles @@ "loops" :> Loops
=============================================================================
