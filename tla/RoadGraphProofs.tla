--------------------------- MODULE RoadGraphProofs --------------------------
(***************************************************************************)
(* For every set of extracts, and whatever is imported while a session       *)
(* builds the road graph: the graph fits the rows it was read from, and a    *)
(* failed build, a reported issue or a missing degree comes from what was    *)
(* imported after the first query.                                           *)
(***************************************************************************)
EXTENDS RoadGraph, FiniteSetTheorems, TLAPS

-----------------------------------------------------------------------------
\* An import keeps every row there was.
LEMMA ImportKeepsTables ==
  ASSUME NEW image \in Images, Import(image), NEW kind
  PROVE  Table(kind) \subseteq Table(kind)'
BY DEF Import, Over, Table

\* An import keeps the foreign keys: a new segment row comes with both of its
\* intersections, and an old one keeps those it has.
LEMMA ImportKeepsForeignKeys ==
  ASSUME TablesClosed, NEW image \in Images, Import(image)
  PROVE  TablesClosed'
<1> SUFFICES ASSUME NEW s \in Table("segment")'
             PROVE  /\ rows'[s].start \in Table("intersection")'
                    /\ rows'[s].end \in Table("intersection")'
  BY DEF TablesClosed
<1>1. s \in DOMAIN rows' /\ s[1] = "segment"
  BY DEF Table
<1>2. CASE s \in DOMAIN image
  <2>1. rows'[s] = image[s]
    BY <1>2 DEF Import, Over
  <2>2. \A end \in {image[s].start, image[s].end} :
          end \in DOMAIN image /\ end[1] = "intersection"
    BY <1>1, <1>2, ImagesAssumption
  <2>3. DOMAIN image \subseteq DOMAIN rows'
    BY DEF Import, Over
  <2> QED
    BY <2>1, <2>2, <2>3 DEF Table
<1>3. CASE s \notin DOMAIN image
  <2>1. s \in DOMAIN rows /\ rows'[s] = rows[s]
    BY <1>1, <1>3 DEF Import, Over
  <2>2. rows[s].start \in Table("intersection") /\ rows[s].end \in Table("intersection")
    BY <1>1, <2>1 DEF TablesClosed, Table
  <2>3. Table("intersection") \subseteq Table("intersection")'
    BY ImportKeepsTables
  <2> QED
    BY <2>1, <2>2, <2>3
<1> QED
  BY <1>2, <1>3

\* Tables stay finite.
LEMMA ImportKeepsFinite ==
  ASSUME IsFiniteSet(DOMAIN rows), NEW image \in Images, Import(image)
  PROVE  IsFiniteSet(DOMAIN rows')
<1>1. IsFiniteSet(DOMAIN image)
  BY ImagesAssumption
<1>2. DOMAIN rows' = DOMAIN image \cup DOMAIN rows
  BY DEF Import, Over
<1> QED
  BY <1>1, <1>2, FS_Union

\* There are finitely many edges, as many of them not reversed as there are
\* segments.
LEMMA ForwardCounts ==
  ASSUME NEW segments, IsFiniteSet(DOMAIN segments), edges' = EdgesOf(segments)
  PROVE  /\ Cardinality(RowsOfGraph') = Cardinality(DOMAIN segments)
         /\ IsFiniteSet(DOMAIN edges')
<1>1. \A edge \in Forward(segments) : edge \notin Backward(segments)
  BY DEF Forward, Backward
<1>2. /\ DOMAIN edges' = Forward(segments) \cup Backward(segments)
      /\ \A edge \in DOMAIN edges' : edges'[edge].reversed = (edge \in Backward(segments))
  BY DEF EdgesOf
<1>3. RowsOfGraph' = Forward(segments)
  BY <1>1, <1>2 DEF RowsOfGraph
<1> DEFINE forwardEdge ==
             [s \in DOMAIN segments |-> <<segments[s].start, segments[s].end, s>>]
<1>4. forwardEdge \in Bijection(DOMAIN segments, Forward(segments))
  BY DEF Forward, Bijection, Injection, Surjection, IsInjective
<1>5. ExistsBijection(DOMAIN segments, Forward(segments))
  BY <1>4 DEF ExistsBijection
<1>6. IsFiniteSet(Forward(segments))
  BY <1>5, FS_Bijection
<1>7. IsFiniteSet(Backward(segments))
  <2> DEFINE twoWay == {s \in DOMAIN segments :
                          ~segments[s].is_oneway /\ segments[s].start # segments[s].end}
             backwardEdge ==
               [s \in twoWay |-> <<segments[s].end, segments[s].start, s>>]
  <2>1. backwardEdge \in Surjection(twoWay, Backward(segments))
    BY DEF Backward, Surjection
  <2>2. IsFiniteSet(twoWay)
    BY FS_Subset
  <2> HIDE DEF twoWay, backwardEdge
  <2> QED
    BY <2>1, <2>2, FS_Surjection
<1> QED
  BY <1>2, <1>3, <1>5, <1>6, <1>7, FS_Bijection, FS_Union

\* The edges of the segments of closed tables.
LEMMA EdgesOfSegments ==
  ASSUME Dangling(SegmentRows, DOMAIN nodes) = {}, edges' = EdgesOf(SegmentRows),
         nodes' = nodes
  PROVE  /\ \A edge \in DOMAIN edges' : edge = <<edge[1], edge[2], edge[3]>>
         /\ EdgesJoinNodes'
         /\ ReverseFitsOneway'
<1>1. DOMAIN edges' = Forward(SegmentRows) \cup Backward(SegmentRows)
  BY DEF EdgesOf
<1>2. \A s \in DOMAIN SegmentRows :
        SegmentRows[s].start \in DOMAIN nodes /\ SegmentRows[s].end \in DOMAIN nodes
  BY DEF Dangling
<1>3. \A edge \in DOMAIN edges' :
        \E s \in DOMAIN SegmentRows :
          \/ edge = <<SegmentRows[s].start, SegmentRows[s].end, s>>
          \/ edge = <<SegmentRows[s].end, SegmentRows[s].start, s>>
  BY <1>1 DEF Forward, Backward
<1>4. \A edge \in DOMAIN edges' : edge = <<edge[1], edge[2], edge[3]>>
  BY <1>3
<1>5. EdgesJoinNodes'
  BY <1>2, <1>3 DEF EdgesJoinNodes
<1>6. ReverseFitsOneway'
  <2> SUFFICES ASSUME NEW edge \in DOMAIN edges', ~edges'[edge].reversed, edge[1] # edge[2]
               PROVE  <<edge[2], edge[1], edge[3]>> \in DOMAIN edges'
                        <=> ~edges'[edge].is_oneway
    BY DEF ReverseFitsOneway, RowsOfGraph
  <2>1. edges'[edge].reversed = (edge \in Backward(SegmentRows))
        /\ edges'[edge].is_oneway = SegmentRows[edge[3]].is_oneway
    BY <1>1 DEF EdgesOf
  <2>2. PICK s \in DOMAIN SegmentRows :
          edge = <<SegmentRows[s].start, SegmentRows[s].end, s>>
    BY <1>1, <2>1 DEF Forward
  <2>3. edge[1] = SegmentRows[s].start /\ edge[2] = SegmentRows[s].end /\ edge[3] = s
    BY <2>2
  <2>4. <<edge[2], edge[1], edge[3]>> \notin Forward(SegmentRows)
    BY <2>3 DEF Forward
  <2>5. <<edge[2], edge[1], edge[3]>> \in Backward(SegmentRows)
          <=> ~SegmentRows[s].is_oneway
    BY <2>3 DEF Backward
  <2> QED
    BY <1>1, <2>1, <2>3, <2>4, <2>5
<1> QED
  BY <1>4, <1>5, <1>6

\* The degree of an end of an edge counts that edge.
LEMMA DegreeOfAnEnd ==
  ASSUME IsFiniteSet(DOMAIN edges), EdgesJoinNodes, NEW edge \in DOMAIN edges,
         NEW node \in {edge[1], edge[2]}
  PROVE  Degree(node) \in Nat /\ Degree(node) > 0
<1> DEFINE leaving == {e \in DOMAIN edges : e[1] = node}
           entering == {e \in DOMAIN edges : e[2] = node}
<1>1. IsFiniteSet(leaving) /\ IsFiniteSet(entering)
  BY FS_Subset
<1>2. leaving # {} \/ entering # {}
  OBVIOUS
<1>3. Degree(node) = Cardinality(leaving) + Cardinality(entering)
  BY DEF Degree, EdgesJoinNodes
<1> HIDE DEF leaving, entering
<1>4. /\ Cardinality(leaving) \in Nat /\ Cardinality(entering) \in Nat
      /\ leaving # {} => Cardinality(leaving) # 0
      /\ entering # {} => Cardinality(entering) # 0
  BY <1>1, FS_CardinalityType, FS_EmptySet
<1> QED
  BY <1>2, <1>3, <1>4

\* A row of the graph whose intersections are known gives no issue.
LEMMA NoIssues ==
  ASSUME EdgesJoinNodes, ReverseFitsOneway, NEW known, DOMAIN nodes \subseteq known,
         NEW edge \in RowsOfGraph
  PROVE  IssuesOf(edge, known) = {}
<1>1. edge \in DOMAIN edges /\ edge[1] \in known /\ edge[2] \in known
  BY DEF RowsOfGraph, EdgesJoinNodes
<1>2. edge[1] # edge[2] =>
        (<<edge[2], edge[1], edge[3]>> \in DOMAIN edges <=> ~edges[edge].is_oneway)
  BY DEF ReverseFitsOneway
<1> DEFINE reverseExists == <<edge[2], edge[1], edge[3]>> \in DOMAIN edges
           both == edge[1] \in known /\ edge[2] \in known
           found == [segment_references_unknown_start |-> edge[1] \notin known,
                     segment_references_unknown_end |->
                       edge[1] \in known /\ edge[2] \notin known,
                     missing_forward_edge |-> both /\ edge \notin DOMAIN edges,
                     unexpected_reverse_edge |->
                       (both /\ edge[1] # edge[2]) /\ edges[edge].is_oneway
                         /\ reverseExists,
                     missing_reverse_edge |->
                       (both /\ edge[1] # edge[2]) /\ ~edges[edge].is_oneway
                         /\ ~reverseExists]
<1>3. ~found.segment_references_unknown_start
  BY <1>1
<1>4. ~found.segment_references_unknown_end
  BY <1>1
<1>5. ~found.missing_forward_edge
  BY <1>1
<1>6. ~found.unexpected_reverse_edge
  BY <1>2
<1>7. ~found.missing_reverse_edge
  BY <1>2
<1>8. DOMAIN found = {"segment_references_unknown_start", "segment_references_unknown_end",
                      "missing_forward_edge", "unexpected_reverse_edge",
                      "missing_reverse_edge"}
  OBVIOUS
<1>9. IssuesOf(edge, known) = {<<code, edge[3]>> : code \in {c \in DOMAIN found : found[c]}}
  BY DEF IssuesOf
<1> HIDE DEF found
<1>10. {c \in DOMAIN found : found[c]} = {}
  BY <1>3, <1>4, <1>5, <1>6, <1>7, <1>8
<1> QED
  BY <1>9, <1>10

-----------------------------------------------------------------------------
LEMMA InitGraphIInv == ASSUME GraphInit PROVE GraphIInv
<1>1. rows = <<>> /\ step = "idle" /\ nodes = <<>> /\ edges = <<>> /\ count = 0
      /\ report = {} /\ began = {}
  BY DEF GraphInit, Init
<1>2. DOMAIN rows = {} /\ DOMAIN nodes = {} /\ DOMAIN edges = {}
  BY <1>1
<1>3. TypeOK
  BY <1>1, <1>2, FS_EmptySet DEF TypeOK
<1>4. TablesClosed /\ NodesExist /\ EdgesJoinNodes
  BY <1>1, <1>2 DEF TablesClosed, NodesExist, EdgesJoinNodes, Table
<1>5. RowsOfGraph = {}
  BY <1>2 DEF RowsOfGraph
<1>6. CountsEachSegmentOnce
  BY <1>1, <1>5, FS_EmptySet DEF CountsEachSegmentOnce
<1> QED
  BY <1>1, <1>3, <1>4, <1>5, <1>6
  DEF GraphIInv, ReverseFitsOneway, OnlyValidationReports, ReportsOnlyLateIntersections,
      DegreesCountOwnEdges

\* The graph's part of the invariant is untouched where the graph is.
LEMMA GraphUntouched ==
  ASSUME EdgesJoinNodes, ReverseFitsOneway, CountsEachSegmentOnce,
         UNCHANGED <<nodes, edges, count>>
  PROVE  EdgesJoinNodes' /\ ReverseFitsOneway' /\ CountsEachSegmentOnce'
<1>1. RowsOfGraph' = RowsOfGraph
  BY DEF RowsOfGraph
<1> QED
  BY <1>1 DEF EdgesJoinNodes, ReverseFitsOneway, CountsEachSegmentOnce

\* The tables' part of the invariant is untouched where the tables are.
LEMMA TablesUntouched ==
  ASSUME TablesClosed, NodesExist, rows' = rows, UNCHANGED <<nodes, began>>
  PROVE  TablesClosed' /\ NodesExist'
BY DEF TablesClosed, NodesExist, Table

LEMMA StepGraphIInv == ASSUME GraphIInv, [GraphNext]_vars PROVE GraphIInv'
<1> USE DEF GraphIInv
<1>1. CASE LoadNodes
  <2>1. DOMAIN nodes' = Table("intersection")
    BY <1>1 DEF LoadNodes, IntersectionRows
  <2>2. RowsOfGraph' = RowsOfGraph
    BY <1>1 DEF LoadNodes, RowsOfGraph
  <2>3. EdgesJoinNodes' /\ ReverseFitsOneway' /\ CountsEachSegmentOnce'
    BY <1>1, <2>1, <2>2 DEF LoadNodes, EdgesJoinNodes, NodesExist, ReverseFitsOneway,
         CountsEachSegmentOnce
  <2>4. NodesExist' /\ TablesClosed'
    BY <1>1, <2>1 DEF LoadNodes, NodesExist, TablesClosed, Table
  <2> QED
    BY <1>1, <2>3, <2>4
    DEF LoadNodes, TypeOK, OnlyValidationReports, ReportsOnlyLateIntersections,
        DegreesCountOwnEdges
<1>2. CASE LoadEdges
  <2>1. /\ \A edge \in DOMAIN edges' : edge = <<edge[1], edge[2], edge[3]>>
        /\ EdgesJoinNodes'
        /\ ReverseFitsOneway'
    BY <1>2, EdgesOfSegments DEF LoadEdges
  <2>2. IsFiniteSet(DOMAIN SegmentRows)
    <3>1. DOMAIN SegmentRows \subseteq DOMAIN rows
      BY DEF SegmentRows, Table
    <3> QED
      BY <3>1, FS_Subset DEF TypeOK
  <2>3. CountsEachSegmentOnce' /\ IsFiniteSet(DOMAIN edges')
    BY <1>2, <2>2, ForwardCounts DEF LoadEdges, CountsEachSegmentOnce
  <2> QED
    BY <1>2, <2>1, <2>3, TablesUntouched
    DEF LoadEdges, TypeOK, OnlyValidationReports, ReportsOnlyLateIntersections,
        DegreesCountOwnEdges
<1>3. CASE BuildFails
  BY <1>3, GraphUntouched, TablesUntouched
  DEF BuildFails, TypeOK, OnlyValidationReports, ReportsOnlyLateIntersections,
      DegreesCountOwnEdges
<1>4. CASE Validate
  <2>1. \A edge \in RowsOfGraph : IssuesOf(edge, Table("intersection")) = {}
    BY NoIssues DEF NodesExist
  <2>2. report' = {<<"missing_graph_node", n>> : n \in Table("intersection") \ began}
    BY <1>4, <2>1 DEF Validate, Issues, NodesExist
  <2>3. ReportsOnlyLateIntersections'
    BY <1>4, <2>2 DEF Validate, ReportsOnlyLateIntersections, Table
  <2> QED
    BY <1>4, <2>3, GraphUntouched, TablesUntouched
    DEF Validate, TypeOK, OnlyValidationReports, DegreesCountOwnEdges
<1>5. CASE LoadFeatures
  <2>1. DegreesCountOwnEdges'
    <3> SUFFICES ASSUME NEW edge \in RowsOfGraph', edge[3] \in DOMAIN features',
                        features'[edge[3]].start = edge[1], features'[edge[3]].end = edge[2]
                 PROVE  /\ features'[edge[3]].start_degree # NoDegree
                        /\ features'[edge[3]].start_degree > 0
                        /\ features'[edge[3]].end_degree # NoDegree
                        /\ features'[edge[3]].end_degree > 0
      BY DEF DegreesCountOwnEdges
    <3>1. edge \in DOMAIN edges
      BY <1>5 DEF LoadFeatures, RowsOfGraph
    <3>2. /\ features'[edge[3]].start_degree = Degree(edge[1])
          /\ features'[edge[3]].end_degree = Degree(edge[2])
      BY <1>5 DEF LoadFeatures
    <3>3. /\ Degree(edge[1]) \in Nat /\ Degree(edge[1]) > 0
          /\ Degree(edge[2]) \in Nat /\ Degree(edge[2]) > 0
      BY <3>1, DegreeOfAnEnd DEF TypeOK
    <3> QED
      BY <3>2, <3>3, NoDegreeAssumption
  <2> QED
    BY <1>5, <2>1, GraphUntouched, TablesUntouched
    DEF LoadFeatures, TypeOK, OnlyValidationReports, ReportsOnlyLateIntersections
<1>6. CASE Exit
  <2>1. DOMAIN edges' = {} /\ DOMAIN nodes' = {}
    BY <1>6 DEF Exit
  <2>2. RowsOfGraph' = {}
    BY <2>1 DEF RowsOfGraph
  <2>3. CountsEachSegmentOnce'
    BY <1>6, <2>2, FS_EmptySet DEF Exit, CountsEachSegmentOnce
  <2> QED
    BY <1>6, <2>1, <2>2, <2>3, FS_EmptySet
    DEF Exit, TypeOK, TablesClosed, Table, NodesExist, EdgesJoinNodes, ReverseFitsOneway,
        OnlyValidationReports, ReportsOnlyLateIntersections, DegreesCountOwnEdges
<1>7. CASE ImportCommits
  <2>1. PICK image \in Images : Import(image)
    BY <1>7 DEF ImportCommits
  <2>2. TablesClosed'
    BY <2>1, ImportKeepsForeignKeys
  <2>3. Table("intersection") \subseteq Table("intersection")'
    BY <2>1, ImportKeepsTables
  <2>4. TypeOK'
    BY <1>7, <2>1, ImportKeepsFinite DEF ImportCommits, session, TypeOK
  <2>5. DegreesCountOwnEdges'
    BY <1>7 DEF ImportCommits, session, DegreesCountOwnEdges, RowsOfGraph
  <2> QED
    BY <1>7, <2>2, <2>3, <2>4, <2>5, GraphUntouched
    DEF ImportCommits, session, NodesExist, OnlyValidationReports,
        ReportsOnlyLateIntersections
<1>8. CASE UNCHANGED vars
  <2>1. DegreesCountOwnEdges'
    BY <1>8 DEF vars, DegreesCountOwnEdges, RowsOfGraph
  <2> QED
    BY <1>8, <2>1, GraphUntouched, TablesUntouched
    DEF vars, TypeOK, OnlyValidationReports, ReportsOnlyLateIntersections, Table
<1> QED
  BY <1>1, <1>2, <1>3, <1>4, <1>5, <1>6, <1>7, <1>8 DEF GraphNext

-----------------------------------------------------------------------------
\* The tables keep their foreign keys, the graph is made of rows that exist, its
\* two-way segments and nothing else can be travelled back.
THEOREM GraphInvariant == GraphSpec => []GraphIInv
<1>1. GraphInit => GraphIInv
  BY InitGraphIInv
<1>2. GraphIInv /\ [GraphNext]_vars => GraphIInv'
  BY StepGraphIInv
<1> QED
  BY <1>1, <1>2, PTL DEF GraphSpec

\* edge_count, and with it the sum of the lengths, counts every segment the graph
\* was read from exactly once, whatever self-loops, parallel and two-way segments
\* there are.
THEOREM SegmentsCountedOnce == GraphSpec => []CountsEachSegmentOnce
<1>1. GraphIInv => CountsEachSegmentOnce
  BY DEF GraphIInv
<1> QED
  BY <1>1, GraphInvariant, PTL

\* A segment whose static features lack a degree, or have degree zero, was
\* imported or moved after the graph was built.
THEOREM DegreesAreTheGraphs == GraphSpec => []DegreesCountOwnEdges
<1>1. GraphIInv => DegreesCountOwnEdges
  BY DEF GraphIInv
<1> QED
  BY <1>1, GraphInvariant, PTL

\* validate_graph, run by the command on the graph it built, blames nothing but
\* intersections imported since the build began.
THEOREM OnlyLateIntersections == GraphSpec => []ReportsOnlyLateIntersections
<1>1. GraphIInv => ReportsOnlyLateIntersections
  BY DEF GraphIInv
<1> QED
  BY <1>1, GraphInvariant, PTL

\* build_road_graph raises ValueError only when intersections were imported
\* between its two queries.
THEOREM FailuresComeFromImports == GraphSpec => FailsOnlyAfterImport
<1>1. ASSUME GraphIInv, [GraphNext]_vars
      PROVE  [step' = "failed" => Table("intersection") \ began # {}]_step
  <2> SUFFICES ASSUME step' # step, step' = "failed"
               PROVE  Table("intersection") \ began # {}
    OBVIOUS
  <2>1. BuildFails
    BY <1>1 DEF GraphNext, LoadNodes, LoadEdges, Validate, LoadFeatures, Exit,
                ImportCommits, session, vars
  <2>2. PICK s \in DOMAIN SegmentRows :
          {SegmentRows[s].start, SegmentRows[s].end} \ DOMAIN nodes # {}
    BY <2>1 DEF BuildFails, Dangling
  <2>3. s \in Table("segment") /\ SegmentRows[s] = rows[s]
    BY DEF SegmentRows
  <2>4. {SegmentRows[s].start, SegmentRows[s].end} \subseteq Table("intersection")
    BY <1>1, <2>3 DEF GraphIInv, TablesClosed
  <2>5. DOMAIN nodes = began
    BY <1>1 DEF GraphIInv, NodesExist
  <2> QED
    BY <2>2, <2>4, <2>5
<1> QED
  BY <1>1, GraphInvariant, PTL DEF GraphSpec, FailsOnlyAfterImport
=============================================================================
