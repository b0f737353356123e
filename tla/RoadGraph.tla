------------------------------ MODULE RoadGraph -----------------------------
(***************************************************************************)
(* One session that builds the road graph and goes on to validate it, or to *)
(* compute the static features of the segments with it, while imports       *)
(* commit.  Every query sees the rows committed when it executes (READ      *)
(* COMMITTED), and imports change them by whole extracts (NetworkImport,    *)
(* which OsmIngestion implements).                                          *)
(*                                                                         *)
(* A row key stands for the row's primary key: <<"intersection", ...>>,     *)
(* <<"road", ...>> or <<"segment", ...>>.                                   *)
(***************************************************************************)
EXTENDS Integers, FiniteSets, NetworkImport

CONSTANT NoDegree  \* None: the graph does not have the node

SegmentFields == {"start", "end", "is_oneway"}

\* An extract is finite and brings along both intersections of each of its
\* segments.
ASSUME ImagesAssumption ==
  \A image \in Images :
    /\ IsFiniteSet(DOMAIN image)
    /\ \A key \in DOMAIN image :
         key[1] = "segment" =>
           /\ SegmentFields \subseteq DOMAIN image[key]
           /\ \A end \in {image[key].start, image[key].end} :
                end \in DOMAIN image /\ end[1] = "intersection"

ASSUME NoDegreeAssumption == NoDegree \notin Nat

VARIABLES step,      \* the query the session stands at
          nodes,     \* the rows of _load_nodes: the nodes of the graph
          edges,     \* its edges: <<from, to, segment>> -> attributes
          count,     \* canonical_segment_count
          report,    \* issues of validate_graph: <<code, id>>
          features,  \* StaticSegmentFeatures: segment -> its row's ends, their degrees
          began      \* history: the intersections there were at the first query

session == <<step, nodes, edges, count, report, features, began>>
vars == <<rows, step, nodes, edges, count, report, features, began>>

-----------------------------------------------------------------------------
\* Queries

Table(kind) == {key \in DOMAIN rows : key[1] = kind}

IntersectionRows == [key \in Table("intersection") |-> rows[key]]
SegmentRows == [key \in Table("segment") |-> rows[key]]

-----------------------------------------------------------------------------
\* build_road_graph

\* Mutant: add_edge is left to add the nodes it does not find.
MutantDangling(segments, known) == {}

\* Segments with an intersection that the first query did not return.
Dangling(segments, known) ==
  {s \in DOMAIN segments : {segments[s].start, segments[s].end} \ known # {}}

Forward(segments) ==
  {<<segments[s].start, segments[s].end, s>> : s \in DOMAIN segments}

\* Mutant: a self-loop gets a reverse edge, which replaces its own one.
MutantBackward(segments) ==
  {<<segments[s].end, segments[s].start, s>> :
     s \in {s \in DOMAIN segments : ~segments[s].is_oneway}}

\* The other direction of a two-way segment that is not a self-loop.
Backward(segments) ==
  {<<segments[s].end, segments[s].start, s>> :
     s \in {s \in DOMAIN segments :
              ~segments[s].is_oneway /\ segments[s].start # segments[s].end}}

\* add_edge for every segment: the triple identifies an edge, and a second
\* add_edge of the same triple replaces the attributes.
EdgesOf(segments) ==
  [edge \in Forward(segments) \cup Backward(segments) |->
     [reversed |-> edge \in Backward(segments), is_oneway |-> segments[edge[3]].is_oneway]]

-----------------------------------------------------------------------------
\* validate_graph, for the segment rows that the command takes from the graph

RowsOfGraph == {edge \in DOMAIN edges : ~edges[edge].reversed}

\* Mutant: self-loops are checked for a reverse edge as well.
MutantIssuesOf(edge, known) ==
  LET start == edge[1]  end == edge[2]
      bothKnown == start \in known /\ end \in known
      reverseExists == <<end, start, edge[3]>> \in DOMAIN edges
      found == [unexpected_reverse_edge |->
                  bothKnown /\ edges[edge].is_oneway /\ reverseExists,
                missing_reverse_edge |->
                  bothKnown /\ ~edges[edge].is_oneway /\ ~reverseExists]
  IN {<<code, edge[3]>> : code \in {c \in DOMAIN found : found[c]}}

\* The issues of one segment row; an unknown intersection ends its checks.
IssuesOf(edge, known) ==
  LET start == edge[1]  end == edge[2]
      bothKnown == start \in known /\ end \in known
      checksReverse == bothKnown /\ start # end
      reverseExists == <<end, start, edge[3]>> \in DOMAIN edges
      found == [segment_references_unknown_start |-> start \notin known,
                segment_references_unknown_end |-> start \in known /\ end \notin known,
                missing_forward_edge |-> bothKnown /\ edge \notin DOMAIN edges,
                unexpected_reverse_edge |->
                  checksReverse /\ edges[edge].is_oneway /\ reverseExists,
                missing_reverse_edge |->
                  checksReverse /\ ~edges[edge].is_oneway /\ ~reverseExists]
  IN {<<code, edge[3]>> : code \in {c \in DOMAIN found : found[c]}}

Issues(known) ==
  {<<"orphan_graph_node", n>> : n \in DOMAIN nodes \ known}
    \cup {<<"missing_graph_node", n>> : n \in known \ DOMAIN nodes}
    \cup UNION {IssuesOf(edge, known) : edge \in RowsOfGraph}

-----------------------------------------------------------------------------
\* load_static_segment_features

\* Mutant: only edges that leave the node are counted.
MutantDegree(node) ==
  IF node \notin DOMAIN nodes THEN NoDegree
  ELSE Cardinality({edge \in DOMAIN edges : edge[1] = node})

\* graph.degree: edges that leave plus edges that enter; None without the node.
Degree(node) ==
  IF node \notin DOMAIN nodes THEN NoDegree
  ELSE Cardinality({edge \in DOMAIN edges : edge[1] = node})
         + Cardinality({edge \in DOMAIN edges : edge[2] = node})

-----------------------------------------------------------------------------
\* Mutant: only intersections where a segment starts are loaded.
MutantLoadNodes ==
  /\ step = "idle"
  /\ step' = "nodes"
  /\ nodes' = [key \in {SegmentRows[s].start : s \in Table("segment")} |-> rows[key]]
  /\ began' = Table("intersection")
  /\ UNCHANGED <<rows, edges, count, report, features>>

\* _load_nodes
LoadNodes ==
  /\ step = "idle"
  /\ step' = "nodes"
  /\ nodes' = IntersectionRows
  /\ began' = Table("intersection")
  /\ UNCHANGED <<rows, edges, count, report, features>>

\* _load_edges and the construction, which does not wait for anything.
LoadEdges ==
  /\ step = "nodes"
  /\ Dangling(SegmentRows, DOMAIN nodes) = {}
  /\ step' = "built"
  /\ edges' = EdgesOf(SegmentRows)
  /\ count' = Cardinality(DOMAIN SegmentRows)
  /\ UNCHANGED <<rows, nodes, report, features, began>>

\* ValueError: a segment references an unknown intersection.
BuildFails ==
  /\ step = "nodes"
  /\ Dangling(SegmentRows, DOMAIN nodes) # {}
  /\ step' = "failed"
  /\ UNCHANGED <<rows, nodes, edges, count, report, features, began>>

\* The validate command: load_known_intersection_ids, then validate_graph.
Validate ==
  /\ step = "built"
  /\ step' = "validated"
  /\ report' = Issues(Table("intersection"))
  /\ UNCHANGED <<rows, nodes, edges, count, features, began>>

\* The dataset generation: a segment query after the build.
LoadFeatures ==
  /\ step = "built"
  /\ step' = "featured"
  /\ features' = [s \in DOMAIN SegmentRows |->
                    [start |-> SegmentRows[s].start,
                     end |-> SegmentRows[s].end,
                     start_degree |-> Degree(SegmentRows[s].start),
                     end_degree |-> Degree(SegmentRows[s].end)]]
  /\ UNCHANGED <<rows, nodes, edges, count, report, began>>

\* The process ends, after the build command as soon as it has printed the
\* statistics, or because a query fails; another one may follow.
Exit ==
  /\ step # "idle"
  /\ step' = "idle"
  /\ nodes' = <<>> /\ edges' = <<>> /\ count' = 0
  /\ report' = {} /\ features' = <<>> /\ began' = {}
  /\ UNCHANGED rows

\* An import commits.
ImportCommits ==
  /\ \E image \in Images : Import(image)
  /\ UNCHANGED session

GraphInit ==
  /\ Init
  /\ step = "idle"
  /\ nodes = <<>> /\ edges = <<>> /\ count = 0
  /\ report = {} /\ features = <<>> /\ began = {}

GraphNext ==
  \/ LoadNodes \/ LoadEdges \/ BuildFails \/ Validate \/ LoadFeatures \/ Exit
  \/ ImportCommits

GraphSpec == GraphInit /\ [][GraphNext]_vars

-----------------------------------------------------------------------------
\* edge_count and total_length_m count every segment once: each one, self-loops
\* and parallel segments included, has exactly one edge that is not reversed.
CountsEachSegmentOnce == Cardinality(RowsOfGraph) = count

\* A build fails only when an import has brought new intersections since its
\* first query.
FailsOnlyAfterImport ==
  [][step' = "failed" => Table("intersection") \ began # {}]_step

\* The validation of a built graph never reports anything but intersections
\* that were imported since the first query: neither segments nor nodes of the
\* graph are ever at fault.
ReportsOnlyLateIntersections ==
  \A issue \in report :
    issue[1] = "missing_graph_node" /\ issue[2] \in Table("intersection") \ began

\* A segment whose end has no degree, or degree zero, was imported or moved to
\* that end after the graph was built.
DegreesCountOwnEdges ==
  \A edge \in RowsOfGraph :
    LET own == features[edge[3]] IN
    step = "featured" /\ edge[3] \in DOMAIN features
      /\ own.start = edge[1] /\ own.end = edge[2] =>
        /\ own.start_degree # NoDegree /\ own.start_degree > 0
        /\ own.end_degree # NoDegree /\ own.end_degree > 0

-----------------------------------------------------------------------------
(* The inductive invariant behind the theorems of RoadGraphProofs.            *)

TypeOK ==
  /\ step \in {"idle", "nodes", "built", "failed", "validated", "featured"}
  /\ \A edge \in DOMAIN edges : edge = <<edge[1], edge[2], edge[3]>>
  /\ IsFiniteSet(DOMAIN rows)
  /\ IsFiniteSet(DOMAIN edges)

\* Foreign keys: the tables hold both intersections of every segment.
TablesClosed ==
  \A s \in Table("segment") :
    rows[s].start \in Table("intersection") /\ rows[s].end \in Table("intersection")

\* The graph has the intersections of the first query, and none is ever deleted.
NodesExist == DOMAIN nodes = began /\ began \subseteq Table("intersection")

\* The ends of every edge are nodes that the first query returned, with their
\* coordinates.
EdgesJoinNodes ==
  \A edge \in DOMAIN edges : edge[1] \in DOMAIN nodes /\ edge[2] \in DOMAIN nodes

\* A segment between two nodes can be travelled back unless it is one-way.
ReverseFitsOneway ==
  \A edge \in RowsOfGraph :
    edge[1] # edge[2] =>
      (<<edge[2], edge[1], edge[3]>> \in DOMAIN edges <=> ~edges[edge].is_oneway)

\* Only a validation leaves issues behind.
OnlyValidationReports == step # "validated" => report = {}

GraphIInv ==
  /\ TypeOK
  /\ OnlyValidationReports
  /\ TablesClosed
  /\ NodesExist
  /\ EdgesJoinNodes
  /\ ReverseFitsOneway
  /\ CountsEachSegmentOnce
  /\ ReportsOnlyLateIntersections
  /\ DegreesCountOwnEdges
=============================================================================
