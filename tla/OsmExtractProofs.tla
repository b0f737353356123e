-------------------------- MODULE OsmExtractProofs --------------------------
(***************************************************************************)
(* Proofs about the segments planned for an OSM file, for files of any       *)
(* length and any node paths: keys are unique, junctions split, one-way      *)
(* segments lead the right way, and the segments of a way are the way.       *)
(***************************************************************************)
EXTENDS OsmExtract, FiniteSetTheorems, SequenceTheorems, TLAPS

-----------------------------------------------------------------------------
(* Numbers *)

\* A non-empty family of subsets of a finite set has a minimal member.
LEMMA MinimalSet ==
  ASSUME NEW S, IsFiniteSet(S), NEW C, C \subseteq SUBSET S, C # {}
  PROVE  \E c \in C : \A d \in C : d \subseteq c => d = c
<1>1. IsWellFoundedOn(StrictSubsetOrdering(S), SUBSET S)
  BY FS_StrictSubsetOrderingWellFounded, FS_FiniteSubsetsOfFinite
<1>2. PICK c \in C : \A d \in C : ~(<<d, c>> \in StrictSubsetOrdering(S))
  BY <1>1, WFMin
<1>3. ASSUME NEW d \in C, d \subseteq c PROVE d = c
  <2>1. <<d, c>> \in (SUBSET S) \X (SUBSET S)
    OBVIOUS
  <2>2. <<d, c>>[1] = d /\ <<d, c>>[2] = c
    OBVIOUS
  <2> QED
    BY <1>2, <1>3, <2>1, <2>2 DEF StrictSubsetOrdering
<1> QED
  BY <1>3

\* A non-empty set of naturals has a smallest member.
LEMMA SmallestOf ==
  ASSUME NEW T, T \subseteq Nat, T # {}
  PROVE  \E m \in T : \A n \in T : m <= n
<1>1. PICK n \in T : TRUE
  OBVIOUS
<1> DEFINE C == {T \cap (0 .. m) : m \in T \cap (0 .. n)}
<1>2. C \subseteq SUBSET (0 .. n)
  OBVIOUS
<1>3. T \cap (0 .. n) \in C
  BY <1>1
<1>4. IsFiniteSet(0 .. n)
  BY <1>1, FS_Interval
<1>5. PICK c \in C : \A d \in C : d \subseteq c => d = c
  <2>1. PICK S : S = 0 .. n
    OBVIOUS
  <2>2. C \subseteq SUBSET S /\ IsFiniteSet(S) /\ C # {}
    BY <1>2, <1>3, <1>4, <2>1
  <2> HIDE DEF C
  <2> QED
    BY <2>2, MinimalSet
<1>6. PICK m \in T \cap (0 .. n) : c = T \cap (0 .. m)
  BY <1>5
<1>7. ASSUME NEW k \in T, k < m PROVE FALSE
  <2>1. T \cap (0 .. k) \in C /\ T \cap (0 .. k) \subseteq c /\ m \in c /\ m \notin 0 .. k
    BY <1>6, <1>7
  <2> HIDE DEF C
  <2> QED
    BY <1>5, <2>1
<1> QED
  BY <1>7

-----------------------------------------------------------------------------
(* The file *)

LEMMA WayNodes ==
  ASSUME NEW way \in Ways
  PROVE  way.nodes \in Seq(NodesOf(way)) /\ Len(way.nodes) \in 0 .. MaxRefs
<1>1. PICK n \in 0 .. MaxRefs : way \in RawWays(n)
  BY DEF Ways
<1>2. way.nodes \in Seq(NodesOf(way)) /\ Len(way.nodes) <= n
  BY <1>1, WaysAssumption
<1> QED
  BY <1>2, WaysAssumption, LenProperties

\* A file is a sequence of ways, and has room for no more references than the
\* bound says.
THEOREM TypeCorrect == Spec => []TypeOK
<1>1. Init => TypeOK
  BY WaysAssumption DEF Init, TypeOK
<1>2. TypeOK /\ [Next]_vars => TypeOK'
  <2> SUFFICES ASSUME TypeOK, [Next]_vars PROVE TypeOK'
    OBVIOUS
  <2>1. CASE UNCHANGED vars
    BY <2>1 DEF TypeOK, vars
  <2>2. CASE Next
    <3>1. PICK way \in RawWays(room) : ReadWay(way)
      BY <2>2 DEF Next
    <3>2. way \in Ways /\ Len(way.nodes) <= room
      BY <3>1, WaysAssumption DEF TypeOK, Ways
    <3>3. Len(way.nodes) \in 0 .. MaxRefs
      BY <3>2, WayNodes
    <3>4. room' \in 0 .. MaxRefs
      BY <3>1, <3>2, <3>3, WaysAssumption DEF ReadWay, TypeOK
    <3>5. file' \in Seq(Ways)
      BY <3>1, <3>2 DEF ReadWay, TypeOK
    <3> QED
      BY <3>4, <3>5 DEF TypeOK
  <2> QED
    BY <2>1, <2>2
<1> QED
  BY <1>1, <1>2, PTL DEF Spec

\* A planned way is the first of its id in the file and long enough.
LEMMA PlannedWay ==
  ASSUME TypeOK, NEW way \in Planned
  PROVE  /\ way.nodes \in Seq(NodesOf(way))
         /\ Len(way.nodes) \in Nat /\ Len(way.nodes) >= 2
         /\ DOMAIN way.nodes = 1 .. Len(way.nodes)
         /\ \E i \in DOMAIN file :
              file[i] = way /\ \A j \in DOMAIN file : file[j].id = way.id => i <= j
<1>1. PICK i \in DOMAIN file : file[i] = way /\ Eligible(file, i, KnownNodes)
  BY DEF Planned, EligibleWays
<1>2. DOMAIN file = 1 .. Len(file) /\ Len(file) \in Nat /\ way \in Ways
  BY <1>1 DEF TypeOK
<1>3. way.nodes \in Seq(NodesOf(way))
  BY <1>2, WayNodes
<1>4. ASSUME NEW j \in DOMAIN file, file[j].id = way.id PROVE i <= j
  BY <1>1, <1>2, <1>4 DEF Eligible, SeenBefore
<1> QED
  BY <1>1, <1>2, <1>3, <1>4 DEF Eligible

LEMMA DistinctIds ==
  ASSUME TypeOK, NEW v \in Planned, NEW w \in Planned, v.id = w.id
  PROVE  v = w
<1>1. PICK i \in DOMAIN file :
        file[i] = v /\ \A j \in DOMAIN file : file[j].id = v.id => i <= j
  BY PlannedWay
<1>2. PICK k \in DOMAIN file :
        file[k] = w /\ \A j \in DOMAIN file : file[j].id = w.id => k <= j
  BY PlannedWay
<1>3. i <= k /\ k <= i
  BY <1>1, <1>2
<1>4. i \in Nat /\ k \in Nat
  BY DEF TypeOK
<1> QED
  BY <1>1, <1>2, <1>3, <1>4

-----------------------------------------------------------------------------
(* Cuts and stretches *)

\* The next cut is the nearest one behind.
LEMMA NextCutIsNearest ==
  ASSUME NEW cuts, cuts \subseteq Nat, NEW k \in Starts(cuts)
  PROVE  /\ NextCut(cuts, k) \in cuts
         /\ NextCut(cuts, k) > k
         /\ \A other \in cuts : other > k => NextCut(cuts, k) <= other
<1> DEFINE T == {c \in cuts : c > k}
<1>1. T \subseteq Nat /\ T # {}
  BY DEF Starts
<1>2. PICK m \in T : \A n \in T : m <= n
  <2> HIDE DEF T
  <2> QED
    BY <1>1, SmallestOf
<1>3. m \in cuts /\ m > k /\ \A other \in cuts : other > k => m <= other
  BY <1>2
<1> QED
  BY <1>3 DEF NextCut

LEMMA CutsAreNumbers ==
  ASSUME NEW way, way.nodes \in Seq(NodesOf(way)), NEW X
  PROVE  /\ Cuts(way, X) \subseteq 1 .. Len(way.nodes)
         /\ Cuts(way, X) \subseteq Nat
         /\ IsFiniteSet(Cuts(way, X))
<1>1. Cuts(way, X) \subseteq 1 .. Len(way.nodes) /\ Len(way.nodes) \in Nat
  BY DEF Cuts
<1>2. IsFiniteSet(1 .. Len(way.nodes))
  BY <1>1, FS_Interval
<1> QED
  BY <1>1, <1>2, FS_Subset

\* Where the j-th node of a segment from cut k to cut n lies on the way.
Place(way, k, n, j) == IF Direction(way) = "backward" THEN n + 1 - j ELSE k + j - 1

LEMMA PathPlaces ==
  ASSUME NEW way, way.nodes \in Seq(NodesOf(way)),
         NEW k \in 1 .. Len(way.nodes), NEW n \in 1 .. Len(way.nodes), k < n
  PROVE  /\ TravelPath(way, k, n) \in Seq(NodesOf(way))
         /\ Len(TravelPath(way, k, n)) = n - k + 1
         /\ \A j \in 1 .. n - k + 1 :
              TravelPath(way, k, n)[j] = way.nodes[Place(way, k, n, j)]
<1> DEFINE part == SubSeq(way.nodes, k, n)
<1>1. \A i \in k .. n : way.nodes[i] \in NodesOf(way)
  BY DEF NodesOf
<1>2. /\ part \in Seq(NodesOf(way))
      /\ Len(part) = n - k + 1
      /\ \A i \in 1 .. n - k + 1 : part[i] = way.nodes[k + i - 1]
  BY <1>1, SubSeqProperties
<1> HIDE DEF part
<1>3. CASE Direction(way) = "backward"
  <2>1. ReversePath(part) = [j \in 1 .. n - k + 1 |-> part[n - k + 2 - j]]
    BY <1>2 DEF ReversePath
  <2>2. \A j \in 1 .. n - k + 1 : n - k + 2 - j \in 1 .. n - k + 1
    OBVIOUS
  <2>3. \A j \in 1 .. n - k + 1 :
          part[n - k + 2 - j] \in NodesOf(way) /\ part[n - k + 2 - j] = way.nodes[n + 1 - j]
    BY <1>2, <2>2
  <2>4. /\ ReversePath(part) \in Seq(NodesOf(way))
        /\ Len(ReversePath(part)) = n - k + 1
    BY <2>1, <2>3, IsASeq
  <2> QED
    BY <1>3, <2>1, <2>3, <2>4 DEF TravelPath, Place, part
<1>4. CASE Direction(way) # "backward"
  BY <1>2, <1>4 DEF TravelPath, Place, part
<1> QED
  BY <1>3, <1>4

-----------------------------------------------------------------------------
(* The plan *)

Junctions == Intersections(Planned)
CutsOf(way) == Cuts(way, Junctions)

\* The number of cuts in front of a cut is the seq of the segment it starts.
Rank(cuts, k) == Cardinality({c \in cuts : c < k})

SegmentAt(way, k) ==
  [way |-> way.id,
   seq |-> Rank(CutsOf(way), k),
   path |-> TravelPath(way, k, NextCut(CutsOf(way), k)),
   name |-> way.name,
   road_class |-> way.highway,
   attrs |-> way.attrs,
   oneway |-> Direction(way) # "both"]

LEMMA PlanIs ==
  /\ \A way \in Planned : \A k \in Starts(CutsOf(way)) : SegmentAt(way, k) \in Plan
  /\ \A s \in Plan : \E way \in Planned : \E k \in Starts(CutsOf(way)) : s = SegmentAt(way, k)
<1>1. \A way : Segments(way, Junctions) = {SegmentAt(way, k) : k \in Starts(CutsOf(way))}
  BY DEF Segments, SegmentAt, CutsOf, Rank
<1>2. Plan = UNION {Segments(way, Junctions) : way \in Planned}
  BY DEF Plan, Candidates, Planned, Junctions
<1> QED
  BY <1>1, <1>2

\* Both ends of a planned way are cuts.
LEMMA EndsAreCuts ==
  ASSUME TypeOK, NEW way \in Planned
  PROVE  1 \in CutsOf(way) /\ Len(way.nodes) \in CutsOf(way)
<1>1. Ends(way) \subseteq Junctions
  BY DEF Junctions, Intersections
<1> QED
  BY <1>1, PlannedWay DEF CutsOf, Cuts, Ends

\* A node on another way is a cut.
LEMMA SharedNodesAreCuts ==
  ASSUME TypeOK, NEW v \in Planned, NEW w \in Planned, v.id # w.id,
         NEW i \in DOMAIN v.nodes, NEW j \in DOMAIN w.nodes, v.nodes[i] = w.nodes[j]
  PROVE  i \in CutsOf(v)
<1>1. v.nodes[i] \in NodesOf(v) \cap NodesOf(w)
  BY DEF NodesOf
<1>2. v.nodes[i] \in UNION {NodesOf(way) : way \in Planned}
  BY <1>1
<1>3. v.nodes[i] \in Junctions
  BY <1>1, <1>2 DEF Junctions, Intersections
<1> QED
  BY <1>3 DEF CutsOf, Cuts

\* A segment runs from a cut to the next one, and no cut lies between.
LEMMA Stretch ==
  ASSUME TypeOK, NEW way \in Planned, NEW k \in Starts(CutsOf(way))
  PROVE  LET n == NextCut(CutsOf(way), k) IN
         /\ k \in 1 .. Len(way.nodes) /\ n \in CutsOf(way) /\ n \in 1 .. Len(way.nodes) /\ k < n
         /\ \A c \in CutsOf(way) : ~(k < c /\ c < n)
         /\ Len(SegmentAt(way, k).path) = n - k + 1
         /\ DOMAIN SegmentAt(way, k).path = 1 .. n - k + 1
         /\ \A j \in 1 .. n - k + 1 :
              SegmentAt(way, k).path[j] = way.nodes[Place(way, k, n, j)]
<1> DEFINE n == NextCut(CutsOf(way), k)
<1>1. way.nodes \in Seq(NodesOf(way)) /\ Len(way.nodes) \in Nat
  BY PlannedWay
<1>2. CutsOf(way) \subseteq 1 .. Len(way.nodes) /\ CutsOf(way) \subseteq Nat
  BY <1>1, CutsAreNumbers DEF CutsOf
<1>3. k \in CutsOf(way)
  BY DEF Starts
<1>4. n \in CutsOf(way) /\ n > k /\ \A c \in CutsOf(way) : c > k => n <= c
  BY <1>2, NextCutIsNearest
<1> HIDE DEF n
<1>5. k \in 1 .. Len(way.nodes) /\ n \in 1 .. Len(way.nodes) /\ k < n
  BY <1>2, <1>3, <1>4
<1>6. \A c \in CutsOf(way) : ~(k < c /\ c < n)
  BY <1>2, <1>4, <1>5
<1>7. SegmentAt(way, k).path = TravelPath(way, k, n)
  BY DEF SegmentAt, n
<1>8. /\ TravelPath(way, k, n) \in Seq(NodesOf(way))
      /\ Len(TravelPath(way, k, n)) = n - k + 1
      /\ \A j \in 1 .. n - k + 1 : TravelPath(way, k, n)[j] = way.nodes[Place(way, k, n, j)]
  BY <1>1, <1>5, PathPlaces
<1>9. DOMAIN TravelPath(way, k, n) = 1 .. n - k + 1
  BY <1>8
<1> QED
  BY <1>4, <1>5, <1>6, <1>7, <1>8, <1>9 DEF n

-----------------------------------------------------------------------------
(* The cuts, counted *)

LEMMA RankLess ==
  ASSUME NEW cuts, cuts \subseteq Nat, IsFiniteSet(cuts),
         NEW c \in cuts, NEW d \in cuts, c < d
  PROVE  Rank(cuts, c) \in Nat /\ Rank(cuts, d) \in Nat /\ Rank(cuts, c) < Rank(cuts, d)
<1> DEFINE C == {e \in cuts : e < c}
           D == {e \in cuts : e < d}
<1>0. c \in Nat /\ d \in Nat /\ \A e \in cuts : e \in Nat
  OBVIOUS
<1>1. C \subseteq D /\ D \subseteq cuts /\ c \in D /\ c \notin C
  <2>1. \A e \in cuts : e < c => e < d
    BY <1>0
  <2>2. c < d /\ ~(c < c)
    BY <1>0
  <2> QED
    BY <2>1, <2>2
<1> HIDE DEF C, D
<1>2. IsFiniteSet(D) /\ Cardinality(D) \in Nat
  BY <1>1, FS_Subset, FS_CardinalityType
<1>3. Cardinality(C) \in Nat /\ Cardinality(C) <= Cardinality(D)
      /\ Cardinality(C) # Cardinality(D)
  BY <1>1, <1>2, FS_Subset, FS_CardinalityType
<1> QED
  BY <1>2, <1>3 DEF Rank, C, D

LEMMA RankUnique ==
  ASSUME NEW cuts, cuts \subseteq Nat, IsFiniteSet(cuts),
         NEW c \in cuts, NEW d \in cuts, Rank(cuts, c) = Rank(cuts, d)
  PROVE  c = d
<1>1. \A a, b \in cuts : a < b => Rank(cuts, a) # Rank(cuts, b)
  <2> SUFFICES ASSUME NEW a \in cuts, NEW b \in cuts, a < b
               PROVE  Rank(cuts, a) # Rank(cuts, b)
    OBVIOUS
  <2>1. Rank(cuts, a) \in Nat /\ Rank(cuts, b) \in Nat /\ Rank(cuts, a) < Rank(cuts, b)
    BY RankLess
  <2> QED
    BY <2>1
<1>2. c \in Nat /\ d \in Nat
  OBVIOUS
<1> QED
  BY <1>1, <1>2

LEMMA RankOfNext ==
  ASSUME NEW cuts, cuts \subseteq Nat, IsFiniteSet(cuts), NEW k \in Starts(cuts)
  PROVE  Rank(cuts, NextCut(cuts, k)) = Rank(cuts, k) + 1
<1> DEFINE C == {e \in cuts : e < k}
           n == NextCut(cuts, k)
<1>1. k \in cuts
  BY DEF Starts
<1>2. n \in cuts /\ n > k /\ \A other \in cuts : other > k => n <= other
  BY NextCutIsNearest
<1> HIDE DEF n
<1>3. {e \in cuts : e < n} = C \cup {k} /\ k \notin C /\ C \subseteq cuts
  <2>1. k \in Nat /\ n \in Nat /\ \A e \in cuts : e \in Nat
    BY <1>1, <1>2
  <2>2. \A e \in cuts : e < n <=> e < k \/ e = k
    BY <1>1, <1>2, <2>1
  <2>3. ~(k < k)
    BY <2>1
  <2> QED
    BY <1>1, <2>2, <2>3
<1> HIDE DEF C
<1>4. IsFiniteSet(C)
  BY <1>3, FS_Subset
<1>5. Cardinality(C \cup {k}) = Cardinality(C) + 1
  BY <1>3, <1>4, FS_AddElement
<1> QED
  BY <1>3, <1>5 DEF Rank, C, n

\* The m cuts have the ranks 0 to m - 1.
LEMMA RankOnto ==
  ASSUME NEW cuts, cuts \subseteq Nat, IsFiniteSet(cuts)
  PROVE  /\ \A c \in cuts : Rank(cuts, c) \in 0 .. Cardinality(cuts) - 1
         /\ \A i \in 0 .. Cardinality(cuts) - 1 : \E c \in cuts : Rank(cuts, c) = i
<1> DEFINE m == Cardinality(cuts)
           f == [c \in cuts |-> Rank(cuts, c)]
<1>1. m \in Nat
  BY FS_CardinalityType
<1>2. ASSUME NEW c \in cuts PROVE Rank(cuts, c) \in 0 .. m - 1
  <2> DEFINE C == {e \in cuts : e < c}
  <2>1. C \subseteq cuts /\ c \notin C
    OBVIOUS
  <2> HIDE DEF C
  <2>2. IsFiniteSet(C) /\ Cardinality(C) \in Nat /\ Cardinality(C) <= m /\ Cardinality(C) # m
    BY <2>1, FS_Subset, FS_CardinalityType
  <2> QED
    BY <1>1, <2>2 DEF Rank, C
<1>3. f \in Injection(cuts, 0 .. m - 1)
  <2>1. f \in [cuts -> 0 .. m - 1]
    BY <1>2
  <2>2. \A c, d \in cuts : f[c] = f[d] => c = d
    BY RankUnique
  <2> QED
    BY <2>1, <2>2 DEF Injection, IsInjective
<1>4. IsFiniteSet(0 .. m - 1) /\ Cardinality(0 .. m - 1) = m
  <2> HIDE DEF m
  <2>1. 0 \in Int /\ m - 1 \in Int
    BY <1>1
  <2> QED
    BY <1>1, <2>1, FS_Interval
<1>5. f \in Surjection(cuts, 0 .. m - 1)
  <2> HIDE DEF f
  <2> QED
    BY <1>3, <1>4, FS_Injection
<1>6. \A i \in 0 .. m - 1 : \E c \in cuts : f[c] = i
  <2> HIDE DEF f
  <2> QED
    BY <1>5 DEF Surjection
<1> QED
  BY <1>2, <1>6

-----------------------------------------------------------------------------
(* The properties *)

\* (way, seq) is a key of the plan of every file, and only the first way of an
\* id is planned.
THEOREM KeysIdentifySegments == Spec => []PlanKeysUnique
<1>1. ASSUME TypeOK PROVE PlanKeysUnique
  <2>1. ASSUME NEW s \in Plan, NEW t \in Plan, s.way = t.way, s.seq = t.seq
        PROVE  s = t
    <3>1. PICK v, k : v \in Planned /\ k \in Starts(CutsOf(v)) /\ s = SegmentAt(v, k)
      BY PlanIs
    <3>2. PICK w, l : w \in Planned /\ l \in Starts(CutsOf(w)) /\ t = SegmentAt(w, l)
      BY PlanIs
    <3>3. v = w
      BY <1>1, <2>1, <3>1, <3>2, DistinctIds DEF SegmentAt
    <3>4. Rank(CutsOf(v), k) = Rank(CutsOf(v), l)
      BY <2>1, <3>1, <3>2, <3>3 DEF SegmentAt
    <3>5. CutsOf(v) \subseteq Nat /\ IsFiniteSet(CutsOf(v))
      BY <1>1, <3>1, PlannedWay, CutsAreNumbers DEF CutsOf
    <3>6. k = l
      BY <3>1, <3>2, <3>3, <3>4, <3>5, RankUnique DEF Starts
    <3> QED
      BY <3>1, <3>2, <3>3, <3>6
  <2> QED
    BY <1>1, <2>1, PlannedWay DEF PlanKeysUnique
<1> QED
  BY <1>1, TypeCorrect, PTL

\* Where two roads meet both are split, in every file: a node inside a segment
\* lies on no segment of another way.
THEOREM RoadsSplitWhereTheyMeet == Spec => []JunctionsSplitSegments
<1>1. ASSUME TypeOK PROVE JunctionsSplitSegments
  <2> SUFFICES ASSUME NEW s \in Plan, NEW t \in Plan, s.way # t.way,
                      NEW i \in 2 .. Len(s.path) - 1, NEW j \in DOMAIN t.path,
                      s.path[i] = t.path[j]
               PROVE  FALSE
    BY DEF JunctionsSplitSegments
  <2>1. PICK v, k : v \in Planned /\ k \in Starts(CutsOf(v)) /\ s = SegmentAt(v, k)
    BY PlanIs
  <2>2. PICK w, l : w \in Planned /\ l \in Starts(CutsOf(w)) /\ t = SegmentAt(w, l)
    BY PlanIs
  <2>3. v.id # w.id
    BY <2>1, <2>2 DEF SegmentAt
  <2>4. PICK n : n = NextCut(CutsOf(v), k)
    OBVIOUS
  <2>5. PICK m : m = NextCut(CutsOf(w), l)
    OBVIOUS
  <2>6. /\ k \in 1 .. Len(v.nodes) /\ n \in 1 .. Len(v.nodes) /\ k < n
        /\ \A c \in CutsOf(v) : ~(k < c /\ c < n)
        /\ Len(s.path) = n - k + 1
        /\ \A p \in 1 .. n - k + 1 : s.path[p] = v.nodes[Place(v, k, n, p)]
    <3>1. v \in Planned /\ k \in Starts(CutsOf(v))
      BY <2>1
    <3>2. \A c \in CutsOf(v) : ~(k < c /\ c < n)
      BY <1>1, <2>4, <3>1, Stretch
    <3> QED
      BY <1>1, <2>1, <2>4, <3>1, <3>2, Stretch
  <2>7. /\ l \in 1 .. Len(w.nodes) /\ m \in 1 .. Len(w.nodes) /\ l < m
        /\ DOMAIN t.path = 1 .. m - l + 1
        /\ \A p \in 1 .. m - l + 1 : t.path[p] = w.nodes[Place(w, l, m, p)]
    BY <1>1, <2>2, <2>5, Stretch
  <2>8. PICK p : p = Place(v, k, n, i)
    OBVIOUS
  <2>9. PICK q : q = Place(w, l, m, j)
    OBVIOUS
  <2>10. k < p /\ p < n /\ p \in 1 .. Len(v.nodes) /\ s.path[i] = v.nodes[p]
    BY <2>6, <2>8 DEF Place
  <2>11. q \in 1 .. Len(w.nodes) /\ t.path[j] = w.nodes[q]
    <3>1. j \in 1 .. m - l + 1
      BY <2>7
    <3>2. w.nodes[q] = t.path[j]
      BY <2>7, <2>9, <3>1
    <3>3. q = m + 1 - j \/ q = l + j - 1
      BY <2>9 DEF Place
    <3> QED
      BY <2>7, <3>1, <3>2, <3>3
  <2>12. p \in DOMAIN v.nodes /\ q \in DOMAIN w.nodes
    BY <1>1, <2>1, <2>2, <2>10, <2>11, PlannedWay
  <2>13. p \in CutsOf(v)
    BY <1>1, <2>1, <2>2, <2>3, <2>10, <2>11, <2>12, SharedNodesAreCuts
  <2> QED
    BY <2>6, <2>10, <2>13
<1> QED
  BY <1>1, TypeCorrect, PTL

\* One-way segments of every file lead along their way, or against it when the
\* way is tagged so.
THEOREM OnewaySegmentsLeadRight == Spec => []TravelDirectionKept
<1>1. ASSUME TypeOK PROVE TravelDirectionKept
  <2> SUFFICES ASSUME NEW s \in Plan, NEW way \in Planned, s.way = way.id, s.oneway,
                      NEW i \in 1 .. Len(s.path) - 1
               PROVE  \E p, q \in DOMAIN way.nodes :
                        /\ way.nodes[p] = s.path[i]
                        /\ way.nodes[q] = s.path[i + 1]
                        /\ q = IF Direction(way) = "forward" THEN p + 1 ELSE p - 1
    BY DEF TravelDirectionKept
  <2>1. PICK v, k : v \in Planned /\ k \in Starts(CutsOf(v)) /\ s = SegmentAt(v, k)
    BY PlanIs
  <2>2. v = way
    BY <1>1, <2>1, DistinctIds DEF SegmentAt
  <2>3. Direction(way) \in {"forward", "backward"}
    BY <2>1, <2>2 DEF SegmentAt, Direction
  <2>4. PICK n : n = NextCut(CutsOf(way), k)
    OBVIOUS
  <2>5. /\ k \in 1 .. Len(way.nodes) /\ n \in 1 .. Len(way.nodes) /\ k < n
        /\ Len(s.path) = n - k + 1
        /\ \A j \in 1 .. n - k + 1 : s.path[j] = way.nodes[Place(way, k, n, j)]
    BY <1>1, <2>1, <2>2, <2>4, Stretch
  <2>6. PICK p : p = Place(way, k, n, i)
    OBVIOUS
  <2>7. PICK q : q = Place(way, k, n, i + 1)
    OBVIOUS
  <2>8. i \in 1 .. n - k + 1 /\ i + 1 \in 1 .. n - k + 1
    BY <2>5
  <2>9. way.nodes[p] = s.path[i] /\ way.nodes[q] = s.path[i + 1]
    BY <2>5, <2>6, <2>7, <2>8
  <2>10. /\ p \in 1 .. Len(way.nodes) /\ q \in 1 .. Len(way.nodes)
         /\ q = IF Direction(way) = "forward" THEN p + 1 ELSE p - 1
    BY <2>3, <2>5, <2>6, <2>7, <2>8 DEF Place
  <2>11. DOMAIN way.nodes = 1 .. Len(way.nodes)
    BY <1>1, PlannedWay
  <2> QED
    BY <2>9, <2>10, <2>11
<1> QED
  BY <1>1, TypeCorrect, PTL

-----------------------------------------------------------------------------
(* The segments of a way, laid end to end *)

\* The cut of a given rank.
CutAt(way, i) == CHOOSE c \in CutsOf(way) : Rank(CutsOf(way), c) = i

LEMMA CutsOfWay ==
  ASSUME TypeOK, NEW way \in Planned
  PROVE  /\ CutsOf(way) \subseteq 1 .. Len(way.nodes) /\ CutsOf(way) \subseteq Nat
         /\ IsFiniteSet(CutsOf(way)) /\ Cardinality(CutsOf(way)) \in Nat
         /\ Starts(CutsOf(way)) = CutsOf(way) \ {Len(way.nodes)}
<1>1. way.nodes \in Seq(NodesOf(way)) /\ Len(way.nodes) \in Nat
  BY PlannedWay
<1>2. /\ CutsOf(way) \subseteq 1 .. Len(way.nodes) /\ CutsOf(way) \subseteq Nat
      /\ IsFiniteSet(CutsOf(way))
  BY <1>1, CutsAreNumbers DEF CutsOf
<1>3. Cardinality(CutsOf(way)) \in Nat
  BY <1>2, FS_CardinalityType
<1>4. Len(way.nodes) \in CutsOf(way)
  BY EndsAreCuts
<1>5. ASSUME NEW c \in CutsOf(way) PROVE c \in Starts(CutsOf(way)) <=> c # Len(way.nodes)
  <2>1. \A d \in CutsOf(way) : d \in Nat /\ d <= Len(way.nodes)
    BY <1>1, <1>2
  <2> QED
    BY <1>1, <1>4, <2>1 DEF Starts
<1>6. Starts(CutsOf(way)) \subseteq CutsOf(way)
  BY DEF Starts
<1> QED
  BY <1>2, <1>3, <1>5, <1>6

\* The start of a way has rank 0, its end the highest.
LEMMA RankOfEnds ==
  ASSUME TypeOK, NEW way \in Planned
  PROVE  /\ Rank(CutsOf(way), 1) = 0
         /\ Rank(CutsOf(way), Len(way.nodes)) = Cardinality(CutsOf(way)) - 1
<1> DEFINE cuts == CutsOf(way)
           len == Len(way.nodes)
<1>1. 1 \in cuts /\ len \in cuts
  BY EndsAreCuts
<1>2. cuts \subseteq 1 .. len /\ IsFiniteSet(cuts) /\ Cardinality(cuts) \in Nat /\ len \in Nat
  BY CutsOfWay, PlannedWay
<1> HIDE DEF cuts, len
<1>3. \A c \in cuts : c \in Nat /\ 1 <= c /\ c <= len
  BY <1>2
<1>4. {c \in cuts : c < 1} = {}
  BY <1>3
<1>5. {c \in cuts : c < len} = cuts \ {len}
  <2>1. \A c \in cuts : c < len <=> c # len
    BY <1>2, <1>3
  <2> QED
    BY <2>1
<1>6. Cardinality(cuts \ {len}) = Cardinality(cuts) - 1
  BY <1>1, <1>2, FS_RemoveElement
<1> QED
  BY <1>4, <1>5, <1>6, FS_EmptySet DEF Rank, cuts, len

LEMMA CutAtRank ==
  ASSUME TypeOK, NEW way \in Planned, NEW c \in CutsOf(way)
  PROVE  CutAt(way, Rank(CutsOf(way), c)) = c
<1>1. CutsOf(way) \subseteq Nat /\ IsFiniteSet(CutsOf(way))
  BY CutsOfWay
<1>2. \A d \in CutsOf(way) : Rank(CutsOf(way), d) = Rank(CutsOf(way), c) => d = c
  BY <1>1, RankUnique
<1> QED
  BY <1>2 DEF CutAt

LEMMA RankOfCutAt ==
  ASSUME TypeOK, NEW way \in Planned, NEW i \in 0 .. Cardinality(CutsOf(way)) - 1
  PROVE  CutAt(way, i) \in CutsOf(way) /\ Rank(CutsOf(way), CutAt(way, i)) = i
<1>1. CutsOf(way) \subseteq Nat /\ IsFiniteSet(CutsOf(way))
  BY CutsOfWay
<1>2. \E c \in CutsOf(way) : Rank(CutsOf(way), c) = i
  BY <1>1, RankOnto
<1> QED
  BY <1>2 DEF CutAt

\* The segments of a way are those its cuts but the last one start.
LEMMA SegmentsOfWay ==
  ASSUME TypeOK, NEW way \in Planned
  PROVE  /\ {s \in Plan : s.way = way.id} = {SegmentAt(way, k) : k \in Starts(CutsOf(way))}
         /\ SegmentCount(way) = Cardinality(CutsOf(way)) - 1
<1> DEFINE mine == {s \in Plan : s.way = way.id}
           starts == Starts(CutsOf(way))
           f == [k \in starts |-> SegmentAt(way, k)]
<1>1. ASSUME NEW s \in mine PROVE \E k \in starts : s = SegmentAt(way, k)
  <2>1. PICK v, k : v \in Planned /\ k \in Starts(CutsOf(v)) /\ s = SegmentAt(v, k)
    BY PlanIs
  <2>2. v = way
    BY <2>1, DistinctIds DEF SegmentAt
  <2> QED
    BY <2>1, <2>2
<1>2. ASSUME NEW k \in starts PROVE SegmentAt(way, k) \in mine
  <2>1. SegmentAt(way, k).way = way.id
    BY DEF SegmentAt
  <2> QED
    BY <2>1, PlanIs
<1>3. mine = {SegmentAt(way, k) : k \in starts}
  <2> HIDE DEF mine, starts
  <2> QED
    BY <1>1, <1>2
<1>4. \A k, l \in starts : f[k] = f[l] => k = l
  <2> SUFFICES ASSUME NEW k \in starts, NEW l \in starts, SegmentAt(way, k) = SegmentAt(way, l)
               PROVE  k = l
    OBVIOUS
  <2>1. SegmentAt(way, k).seq = SegmentAt(way, l).seq
    OBVIOUS
  <2>2. Rank(CutsOf(way), k) = Rank(CutsOf(way), l)
    BY <2>1 DEF SegmentAt
  <2>3. CutsOf(way) \subseteq Nat /\ IsFiniteSet(CutsOf(way)) /\ k \in CutsOf(way) /\ l \in CutsOf(way)
    BY CutsOfWay DEF Starts
  <2> QED
    BY <2>2, <2>3, RankUnique
<1>5. f \in Bijection(starts, mine)
  <2>1. f \in [starts -> mine]
    BY <1>2
  <2>2. \A s \in mine : \E k \in starts : f[k] = s
    BY <1>1
  <2> HIDE DEF f, mine, starts
  <2> QED
    BY <1>4, <2>1, <2>2 DEF Bijection, Injection, Surjection, IsInjective
<1>6. IsFiniteSet(starts) /\ Cardinality(starts) = Cardinality(CutsOf(way)) - 1
  <2>1. IsFiniteSet(CutsOf(way)) /\ starts = CutsOf(way) \ {Len(way.nodes)}
    BY CutsOfWay
  <2>2. Len(way.nodes) \in CutsOf(way)
    BY EndsAreCuts
  <2> HIDE DEF starts
  <2> QED
    BY <2>1, <2>2, FS_RemoveElement
<1>7. Cardinality(mine) = Cardinality(starts)
  <2>1. ExistsBijection(starts, mine)
    BY <1>5 DEF ExistsBijection
  <2> HIDE DEF mine, starts
  <2> QED
    BY <1>6, <2>1, FS_Bijection
<1> QED
  BY <1>3, <1>6, <1>7 DEF SegmentCount

LEMMA ReverseTwice ==
  ASSUME NEW S, NEW path \in Seq(S)
  PROVE  ReversePath(ReversePath(path)) = path
<1> DEFINE n == Len(path)
           back == [k \in 1 .. n |-> path[n + 1 - k]]
<1>1. n \in Nat /\ DOMAIN path = 1 .. n /\ path = [k \in 1 .. n |-> path[k]]
  OBVIOUS
<1>2. ReversePath(path) = back
  BY <1>1 DEF ReversePath
<1>3. \A k \in 1 .. n : n + 1 - k \in 1 .. n /\ path[n + 1 - k] \in S
  BY <1>1
<1>4. back \in Seq(S) /\ Len(back) = n /\ DOMAIN back = 1 .. n
  BY <1>1, <1>3
<1>5. ReversePath(back) = [k \in 1 .. n |-> back[n + 1 - k]]
  <2> HIDE DEF back, n
  <2> QED
    BY <1>4 DEF ReversePath
<1>6. \A k \in 1 .. n : back[n + 1 - k] = path[k]
  <2> SUFFICES ASSUME NEW k \in 1 .. n PROVE back[n + 1 - k] = path[k]
    OBVIOUS
  <2>1. n + 1 - k \in 1 .. n /\ n + 1 - (n + 1 - k) = k
    BY <1>1
  <2> HIDE DEF n
  <2> QED
    BY <2>1
<1> HIDE DEF back, n
<1> QED
  BY <1>1, <1>2, <1>5, <1>6

\* Turned back to the order of the way, the i-th segment is the stretch from
\* the i-th cut to the next.
LEMMA SegmentInWayOrder ==
  ASSUME TypeOK, NEW way \in Planned, NEW i \in 0 .. Cardinality(CutsOf(way)) - 2
  PROVE  /\ InWayOrder(way, i) = SubSeq(way.nodes, CutAt(way, i), CutAt(way, i + 1))
         /\ Len(InWayOrder(way, i)) = CutAt(way, i + 1) - CutAt(way, i) + 1
         /\ CutAt(way, i) \in Nat /\ CutAt(way, i + 1) \in Nat
<1> DEFINE cuts == CutsOf(way)
<1>1. PICK k : k = CutAt(way, i)
  OBVIOUS
<1>2. PICK n : n = NextCut(cuts, k)
  OBVIOUS
<1>3. /\ cuts \subseteq 1 .. Len(way.nodes) /\ cuts \subseteq Nat
      /\ IsFiniteSet(cuts) /\ Cardinality(cuts) \in Nat
      /\ Starts(cuts) = cuts \ {Len(way.nodes)}
  BY CutsOfWay
<1>4. i \in 0 .. Cardinality(cuts) - 1 /\ i # Cardinality(cuts) - 1
  BY <1>3
<1>5. k \in cuts /\ Rank(cuts, k) = i
  BY <1>1, <1>4, RankOfCutAt
<1>6. k \in Starts(cuts)
  BY <1>3, <1>4, <1>5, RankOfEnds
<1>7. n \in cuts /\ n > k /\ Rank(cuts, n) = i + 1
  <2>1. NextCut(cuts, k) \in cuts /\ NextCut(cuts, k) > k
    BY <1>3, <1>6, NextCutIsNearest
  <2>2. Rank(cuts, NextCut(cuts, k)) = Rank(cuts, k) + 1
    BY <1>3, <1>6, RankOfNext
  <2> QED
    BY <1>2, <1>5, <2>1, <2>2
<1>8. n = CutAt(way, i + 1)
  BY <1>7, CutAtRank
<1>9. (CHOOSE s \in Plan : s.way = way.id /\ s.seq = i) = SegmentAt(way, k)
  <2>1. SegmentAt(way, k) \in Plan /\ SegmentAt(way, k).way = way.id /\ SegmentAt(way, k).seq = i
    BY <1>5, <1>6, PlanIs DEF SegmentAt
  <2>2. ASSUME NEW s \in Plan, s.way = way.id, s.seq = i PROVE s = SegmentAt(way, k)
    <3>1. PICK l \in Starts(cuts) : s = SegmentAt(way, l)
      BY <2>2, SegmentsOfWay
    <3>2. Rank(cuts, l) = i /\ l \in cuts
      BY <2>2, <3>1 DEF SegmentAt, Starts
    <3>3. l = k
      BY <1>3, <1>5, <3>2, RankUnique
    <3> QED
      BY <3>1, <3>3
  <2> QED
    BY <2>1, <2>2
<1>10. SegmentAt(way, k).path = TravelPath(way, k, n)
  BY <1>2 DEF SegmentAt
<1>11. way.nodes \in Seq(NodesOf(way)) /\ Len(way.nodes) \in Nat
  BY PlannedWay
<1>12. k \in 1 .. Len(way.nodes) /\ n \in 1 .. Len(way.nodes) /\ k < n
  BY <1>3, <1>5, <1>7
<1>13. /\ SubSeq(way.nodes, k, n) \in Seq(NodesOf(way))
       /\ Len(SubSeq(way.nodes, k, n)) = n - k + 1
  <2>1. \A j \in k .. n : way.nodes[j] \in NodesOf(way)
    BY <1>11, <1>12 DEF NodesOf
  <2> QED
    BY <1>12, <2>1, SubSeqProperties
<1>14. InWayOrder(way, i) = SubSeq(way.nodes, k, n)
  <2>1. ReversePath(ReversePath(SubSeq(way.nodes, k, n))) = SubSeq(way.nodes, k, n)
    BY <1>13, ReverseTwice
  <2> QED
    BY <1>9, <1>10, <2>1 DEF InWayOrder, TravelPath
<1> QED
  BY <1>1, <1>8, <1>12, <1>13, <1>14

\* The i-th segment begins at the i-th cut: the recursion of Offset.
LEMMA OffsetIsCut ==
  ASSUME TypeOK, NEW way \in Planned, NEW i \in 0 .. Cardinality(CutsOf(way)) - 1
  PROVE  Offset(way, i) = CutAt(way, i)
<1> DEFINE cut == [k \in 0 .. i |-> CutAt(way, k)]
           len(k) == Len(InWayOrder(way, k))
<1>1. Cardinality(CutsOf(way)) \in Nat
  BY CutsOfWay
<1>2. CutAt(way, 0) = 1
  BY EndsAreCuts, RankOfEnds, CutAtRank
<1>3. ASSUME NEW k \in 1 .. i
      PROVE  CutAt(way, k) = CutAt(way, k - 1) + len(k - 1) - 1
  <2>1. k - 1 \in 0 .. Cardinality(CutsOf(way)) - 2 /\ k - 1 + 1 = k
    BY <1>1
  <2>2. PICK j : j = k - 1
    OBVIOUS
  <2>3. /\ Len(InWayOrder(way, j)) = CutAt(way, j + 1) - CutAt(way, j) + 1
        /\ CutAt(way, j) \in Nat /\ CutAt(way, j + 1) \in Nat
    BY <2>1, <2>2, SegmentInWayOrder
  <2> QED
    BY <2>1, <2>2, <2>3
<1> HIDE DEF len
<1>4. cut = [k \in 0 .. i |-> IF k = 0 THEN 1 ELSE cut[k - 1] + len(k - 1) - 1]
  <2>1. ASSUME NEW k \in 0 .. i
        PROVE  cut[k] = IF k = 0 THEN 1 ELSE cut[k - 1] + len(k - 1) - 1
    <3>1. CASE k = 0
      BY <1>2, <3>1
    <3>2. CASE k # 0
      <4>1. k \in 1 .. i /\ k - 1 \in 0 .. i
        BY <3>2
      <4> QED
        BY <1>3, <3>2, <4>1
    <3> QED
      BY <3>1, <3>2
  <2>2. cut = [k \in 0 .. i |-> cut[k]]
    OBVIOUS
  <2> HIDE DEF cut
  <2> QED
    BY <2>1, <2>2
<1> DEFINE lengths == CHOOSE g :
             g = [k \in 0 .. i |-> IF k = 0 THEN 1 ELSE g[k - 1] + len(k - 1) - 1]
<1>5. lengths = [k \in 0 .. i |-> IF k = 0 THEN 1 ELSE lengths[k - 1] + len(k - 1) - 1]
  <2> HIDE DEF cut
  <2> QED
    BY <1>4
<1>6. Offset(way, i) = lengths[i]
  BY DEF Offset, len
<1> HIDE DEF lengths
<1>7. \A k \in 0 .. i : lengths[k] = CutAt(way, k)
  <2> DEFINE T == {k \in 0 .. i : lengths[k] # CutAt(way, k)}
  <2>1. SUFFICES ASSUME T # {} PROVE FALSE
    OBVIOUS
  <2>2. T \subseteq Nat
    OBVIOUS
  <2>3. PICK k \in T : \A j \in T : k <= j
    <3> HIDE DEF T
    <3> QED
      BY <2>1, <2>2, SmallestOf
  <2>4. lengths[k] = IF k = 0 THEN 1 ELSE lengths[k - 1] + len(k - 1) - 1
    BY <1>5
  <2>5. k # 0
    BY <1>2, <2>4
  <2>6. k \in 1 .. i /\ k - 1 \in 0 .. i /\ k - 1 < k
    BY <2>5
  <2>7. k - 1 \notin T
    BY <2>3, <2>6
  <2>8. lengths[k - 1] = CutAt(way, k - 1)
    BY <2>6, <2>7
  <2> QED
    BY <1>3, <2>4, <2>5, <2>6, <2>8
<1> QED
  BY <1>6, <1>7

\* The segments of every way of every file, laid end to end by seq, are the way:
\* nothing is lost or doubled where split_way_into_segments cuts it.
THEOREM SegmentsCoverTheirWay == Spec => []SegmentsMakeUpTheWay
<1>1. ASSUME TypeOK PROVE SegmentsMakeUpTheWay
  <2> SUFFICES ASSUME NEW way \in Planned
               PROVE  /\ {s.seq : s \in {c \in Plan : c.way = way.id}} = 0 .. SegmentCount(way) - 1
                      /\ Offset(way, SegmentCount(way)) = Len(way.nodes)
                      /\ \A seq \in 0 .. SegmentCount(way) - 1 :
                           InWayOrder(way, seq) =
                             SubSeq(way.nodes, Offset(way, seq), Offset(way, seq + 1))
    BY DEF SegmentsMakeUpTheWay
  <2>1. PICK n : n = SegmentCount(way)
    OBVIOUS
  <2>2. Cardinality(CutsOf(way)) \in Nat /\ n = Cardinality(CutsOf(way)) - 1
    BY <1>1, <2>1, CutsOfWay, SegmentsOfWay
  <2>3. /\ Len(way.nodes) \in CutsOf(way)
        /\ Rank(CutsOf(way), Len(way.nodes)) = n
    BY <1>1, <2>2, EndsAreCuts, RankOfEnds
  <2>4. CutsOf(way) \subseteq Nat /\ IsFiniteSet(CutsOf(way))
        /\ Starts(CutsOf(way)) = CutsOf(way) \ {Len(way.nodes)}
    BY <1>1, CutsOfWay
  <2>5. n \in 0 .. Cardinality(CutsOf(way)) - 1
    BY <2>2, <2>3, <2>4, RankOnto
  <2>6. Offset(way, n) = Len(way.nodes)
    BY <1>1, <2>3, <2>5, OffsetIsCut, CutAtRank
  <2>7. ASSUME NEW seq \in 0 .. n - 1
        PROVE  InWayOrder(way, seq) = SubSeq(way.nodes, Offset(way, seq), Offset(way, seq + 1))
    <3>1. /\ seq \in 0 .. Cardinality(CutsOf(way)) - 2
          /\ seq \in 0 .. Cardinality(CutsOf(way)) - 1
          /\ seq + 1 \in 0 .. Cardinality(CutsOf(way)) - 1
      BY <2>2
    <3>2. Offset(way, seq) = CutAt(way, seq) /\ Offset(way, seq + 1) = CutAt(way, seq + 1)
      BY <1>1, <3>1, OffsetIsCut
    <3> QED
      BY <1>1, <3>1, <3>2, SegmentInWayOrder
  <2>8. {s.seq : s \in {c \in Plan : c.way = way.id}} = 0 .. n - 1
    <3> DEFINE mine == {c \in Plan : c.way = way.id}
    <3>1. mine = {SegmentAt(way, k) : k \in Starts(CutsOf(way))}
      BY <1>1, SegmentsOfWay
    <3>2. \A k : SegmentAt(way, k).seq = Rank(CutsOf(way), k)
      BY DEF SegmentAt
    <3> HIDE DEF mine
    <3>3. ASSUME NEW s \in mine PROVE s.seq \in 0 .. n - 1
      <4>1. PICK k \in Starts(CutsOf(way)) : s = SegmentAt(way, k)
        BY <3>1
      <4>2. k \in CutsOf(way) /\ k # Len(way.nodes) /\ s.seq = Rank(CutsOf(way), k)
        BY <2>4, <3>2, <4>1
      <4>3. Rank(CutsOf(way), k) # n
        BY <2>3, <2>4, <4>2, RankUnique
      <4>4. Rank(CutsOf(way), k) \in 0 .. Cardinality(CutsOf(way)) - 1
        BY <2>4, <4>2, RankOnto
      <4> QED
        BY <2>2, <4>2, <4>3, <4>4
    <3>4. ASSUME NEW i \in 0 .. n - 1 PROVE \E s \in mine : i = s.seq
      <4>1. i \in 0 .. Cardinality(CutsOf(way)) - 1 /\ i # n
        BY <2>2
      <4>2. PICK k \in CutsOf(way) : Rank(CutsOf(way), k) = i
        BY <2>4, <4>1, RankOnto
      <4>3. k \in Starts(CutsOf(way))
        BY <2>3, <2>4, <4>1, <4>2
      <4> QED
        BY <3>1, <3>2, <4>2, <4>3
    <3>5. {s.seq : s \in mine} = 0 .. n - 1
      BY <3>3, <3>4
    <3> QED
      BY <3>5 DEF mine
  <2> QED
    BY <2>1, <2>6, <2>7, <2>8
<1> QED
  BY <1>1, TypeCorrect, PTL
=============================================================================
