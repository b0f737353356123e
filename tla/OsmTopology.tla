----------------------------- MODULE OsmTopology ----------------------------
(***************************************************************************)
(* From the ways of an OSM extract to the canonical road segments: which    *)
(* ways are eligible, which nodes become intersections, and how a way is    *)
(* split at them.  Pure operators; a file is a sequence of raw ways         *)
(*                                                                         *)
(*   [id, nodes, highway, oneway, name, attrs]                              *)
(*                                                                         *)
(* where nodes is a sequence of node ids, highway, oneway and name are tag  *)
(* values or NoTag, and attrs stands for maxspeed, lanes and access.        *)
(***************************************************************************)
EXTENDS Integers, Sequences, FiniteSets

CONSTANTS SupportedHighways,  \* SUPPORTED_HIGHWAY_VALUES
          NoTag               \* the way does not carry the tag

-----------------------------------------------------------------------------
\* normalize_ways

\* Mutant: an id counts as seen only once a way with it had enough nodes.
MutantSeenBefore(ways, i) ==
  \E j \in 1 .. i - 1 : ways[j].id = ways[i].id /\ Len(ways[j].nodes) >= 2

\* The id was seen before, even on a way that was itself rejected.
SeenBefore(ways, i) == \E j \in 1 .. i - 1 : ways[j].id = ways[i].id

NodesOf(way) == {way.nodes[k] : k \in DOMAIN way.nodes}

\* No rejection reason applies to the i-th way of the file.
Eligible(ways, i, known) ==
  /\ ~SeenBefore(ways, i)
  /\ ways[i].highway \in SupportedHighways
  /\ Len(ways[i].nodes) >= 2
  /\ NodesOf(ways[i]) \subseteq known

EligibleWays(ways, known) ==
  {ways[i] : i \in {j \in DOMAIN ways : Eligible(ways, j, known)}}

\* parse_direction: a time-dependent value such as "reversible" means both.
Direction(way) ==
  CASE way.oneway \in {"yes", "1", "true"} -> "forward"
    [] way.oneway \in {"-1", "reverse"} -> "backward"
    [] OTHER -> "both"

-----------------------------------------------------------------------------
\* compute_intersection_node_ids

Ends(way) == {way.nodes[1], way.nodes[Len(way.nodes)]}

\* Mutant: only nodes where ways end are intersections.
MutantIntersections(eligible) == UNION {Ends(way) : way \in eligible}

\* The ends of every way, and the nodes that two distinct ways share.
Intersections(eligible) ==
  (UNION {Ends(way) : way \in eligible})
    \cup {node \in UNION {NodesOf(way) : way \in eligible} :
            \E v, w \in eligible : v.id # w.id /\ node \in NodesOf(v) \cap NodesOf(w)}

-----------------------------------------------------------------------------
\* split_way_into_segments

Cuts(way, intersections) ==
  {k \in DOMAIN way.nodes : way.nodes[k] \in intersections}

\* The cut that follows cut k.
NextCut(cuts, k) ==
  CHOOSE next \in cuts : next > k /\ \A other \in cuts : other > k => next <= other

ReversePath(path) == [k \in DOMAIN path |-> path[Len(path) + 1 - k]]

\* Mutant: the path of a way against its node order is not turned around.
MutantTravelPath(way, from, to) == SubSeq(way.nodes, from, to)

\* The nodes from one cut to the next, in the allowed direction of travel.
TravelPath(way, from, to) ==
  IF Direction(way) = "backward"
    THEN ReversePath(SubSeq(way.nodes, from, to))
    ELSE SubSeq(way.nodes, from, to)

\* Mutant: the last stretch of the way is lost.
MutantStarts(cuts) == {k \in cuts : Cardinality({c \in cuts : c > k}) > 1}

\* Every cut but the last one starts a segment.
Starts(cuts) == {k \in cuts : \E later \in cuts : later > k}

\* One candidate per pair of consecutive cuts; seq is its 0-based index.
Segments(way, intersections) ==
  LET cuts == Cuts(way, intersections) IN
  {[way |-> way.id,
    seq |-> Cardinality({c \in cuts : c < k}),
    path |-> TravelPath(way, k, NextCut(cuts, k)),
    name |-> way.name,
    road_class |-> way.highway,
    attrs |-> way.attrs,
    oneway |-> Direction(way) # "both"] : k \in Starts(cuts)}

\* All candidates of an extract.
Candidates(ways, known) ==
  LET eligible == EligibleWays(ways, known) IN
  UNION {Segments(way, Intersections(eligible)) : way \in eligible}
=============================================================================
