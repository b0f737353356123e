----------------------------- MODULE OsmExtract -----------------------------
(***************************************************************************)
(* parse_osm_xml reading the ways of a file, with the requirements on the   *)
(* segments planned for the ways read so far.  They are stated about the    *)
(* raw file and its node paths, without the intersections and cuts that     *)
(* OsmTopology derives them from.                                           *)
(***************************************************************************)
EXTENDS OsmTopology

CONSTANTS RawWays(_),  \* ways of at most that many node references
          KnownNodes,  \* node ids the file has a <node> for
          MaxWays,     \* bound of the model: ways per file
          MaxRefs      \* bound of the model: node references per file

Ways == UNION {RawWays(n) : n \in 0 .. MaxRefs}

ASSUME WaysAssumption ==
  /\ MaxRefs \in Nat
  /\ \A n \in 0 .. MaxRefs : \A way \in RawWays(n) :
       way.nodes \in Seq(NodesOf(way)) /\ Len(way.nodes) <= n

VARIABLES file,  \* the ways read so far, in file order
          room   \* node references the file may still hold

vars == <<file, room>>

TypeOK == file \in Seq(Ways) /\ room \in 0 .. MaxRefs

Init == file = <<>> /\ room = MaxRefs

\* The end of a <way> element: every way is kept, eligible or not.
ReadWay(way) ==
  /\ Len(file) < MaxWays
  /\ file' = Append(file, way)
  /\ room' = room - Len(way.nodes)

Next == \E way \in RawWays(room) : ReadWay(way)

Spec == Init /\ [][Next]_vars

-----------------------------------------------------------------------------
Planned == EligibleWays(file, KnownNodes)
Plan == Candidates(file, KnownNodes)

\* The segments of a way in the order of seq, each turned back to the node
\* order of the way.
InWayOrder(way, seq) ==
  LET segment == CHOOSE s \in Plan : s.way = way.id /\ s.seq = seq
  IN IF Direction(way) = "backward" THEN ReversePath(segment.path) ELSE segment.path

SegmentCount(way) == Cardinality({s \in Plan : s.way = way.id})

\* The first position of the way in each of its segments, laid end to end.
Offset(way, seq) ==
  LET lengths[k \in 0 .. seq] ==
        IF k = 0 THEN 1 ELSE lengths[k - 1] + Len(InWayOrder(way, k - 1)) - 1
  IN lengths[seq]

\* The segments of a way, laid end to end in the order of way_seq, are the way:
\* no stretch is lost, none appears twice, and the indices have no gap.
SegmentsMakeUpTheWay ==
  \A way \in Planned :
    LET n == SegmentCount(way) IN
    /\ {s.seq : s \in {c \in Plan : c.way = way.id}} = 0 .. n - 1
    /\ Offset(way, n) = Len(way.nodes)
    /\ \A seq \in 0 .. n - 1 :
         InWayOrder(way, seq) =
           SubSeq(way.nodes, Offset(way, seq), Offset(way, seq + 1))

\* Two roads that meet can be turned between: a node on two ways is an end of
\* every segment it lies on, never inside one.
JunctionsSplitSegments ==
  \A s, t \in Plan :
    s.way # t.way =>
      \A k \in 2 .. Len(s.path) - 1 : \A l \in DOMAIN t.path : s.path[k] # t.path[l]

\* (way, seq) identifies a segment, and an id stands for its first way in the
\* file only.
PlanKeysUnique ==
  /\ \A s, t \in Plan : s.way = t.way /\ s.seq = t.seq => s = t
  /\ \A way \in Planned : \E i \in DOMAIN file :
       file[i] = way /\ \A j \in DOMAIN file : file[j].id = way.id => i <= j

\* A one-way segment leads where its way may be travelled: along the node order
\* for a forward way, against it for a backward one.
TravelDirectionKept ==
  \A s \in Plan : \A way \in Planned :
    s.way = way.id /\ s.oneway =>
      \A k \in 1 .. Len(s.path) - 1 :
        \E p, q \in DOMAIN way.nodes :
          /\ way.nodes[p] = s.path[k]
          /\ way.nodes[q] = s.path[k + 1]
          /\ q = IF Direction(way) = "forward" THEN p + 1 ELSE p - 1
=============================================================================
