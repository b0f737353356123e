------------------------------- MODULE OsmPlan -------------------------------
(***************************************************************************)
(* The rows an OSM extract asks for and the order in which a run resolves   *)
(* them.  An extract is a record [ways, location]; location gives every     *)
(* <node> of the file its coordinates.                                      *)
(*                                                                         *)
(* An intersection is identified by its OSM node id, a road by its name and *)
(* a segment by <<way, seq>>: rows are never deleted, so the ids the        *)
(* database gives them stand in a one-to-one relation with these keys.      *)
(* length_m is a function of the geometry and left out.                     *)
(***************************************************************************)
EXTENDS OsmTopology, SequencesExt, TLC

NodeKey(node) == <<"intersection", node>>
RoadKey(name) == <<"road", name>>
SegmentKey(segment) == <<"segment", segment.way, segment.seq>>

WaysOf(extract) == EligibleWays(extract.ways, DOMAIN extract.location)
NodesToResolve(extract) == Intersections(WaysOf(extract))
NamesToResolve(extract) == {way.name : way \in WaysOf(extract)} \ {NoTag}
CandidatesOf(extract) == Candidates(extract.ways, DOMAIN extract.location)

\* build_linestring
Line(extract, segment) ==
  [k \in DOMAIN segment.path |-> extract.location[segment.path[k]]]

\* is_valid_segment_geometry: at least two different coordinates.
ValidLine(line) == Cardinality({line[k] : k \in DOMAIN line}) >= 2

SegmentRow(extract, segment) ==
  [geometry |-> Line(extract, segment),
   is_oneway |-> segment.oneway,
   road_class |-> segment.road_class,
   attrs |-> segment.attrs,
   road |-> IF segment.name = NoTag THEN NoTag ELSE RoadKey(segment.name),
   start |-> NodeKey(Head(segment.path)),
   end |-> NodeKey(Last(segment.path))]

\* What each resolver would write, for every key of the extract; a segment
\* with a degenerate line has no row.
RowsOf(extract) ==
  LET segments == {s \in CandidatesOf(extract) : ValidLine(Line(extract, s))} IN
  [key \in {SegmentKey(s) : s \in segments} |->
     SegmentRow(extract, CHOOSE s \in segments : SegmentKey(s) = key)]
  @@ [key \in {NodeKey(n) : n \in NodesToResolve(extract)} |->
        [location |-> extract.location[key[2]]]]
  @@ [key \in {RoadKey(n) : n \in NamesToResolve(extract)} |-> [source |-> "osm"]]

\* Mutant: intersections in the order in which the ways mention them.
MutantNodeOrder(extract) ==
  LET mentions == FlattenSeq([i \in DOMAIN extract.ways |-> extract.ways[i].nodes])
      FirstMention(n) == CHOOSE i \in DOMAIN mentions :
        mentions[i] = n /\ \A j \in 1 .. i - 1 : mentions[j] # n
  IN SetToSortSeq(NodesToResolve(extract),
                  LAMBDA m, n : FirstMention(m) < FirstMention(n))

\* sorted(intersection_node_ids)
NodeOrder(extract) == SetToSortSeq(NodesToResolve(extract), <)

\* The candidates of a file, way after way in file order.
SegmentOrder(extract) ==
  LET candidates(i) ==
        IF Eligible(extract.ways, i, DOMAIN extract.location)
          THEN Segments(extract.ways[i], NodesToResolve(extract)) ELSE {}
  IN FlattenSeq([i \in DOMAIN extract.ways |->
       SetToSortSeq({SegmentKey(s) : s \in candidates(i)}, LAMBDA k, l : k[3] < l[3])])

\* The keys a run resolves, in order.
AgendaOf(extract) ==
  [i \in DOMAIN NodeOrder(extract) |-> NodeKey(NodeOrder(extract)[i])]
  \o SetToSortSeq({RoadKey(n) : n \in NamesToResolve(extract)},
                  LAMBDA k, l : k[2] < l[2])
  \o SegmentOrder(extract)
=============================================================================
