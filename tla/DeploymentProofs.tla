-------------------------- MODULE DeploymentProofs --------------------------
(***************************************************************************)
(* Proofs about Deployment, for any number of seeds and imports and any      *)
(* extracts: the schema follows its version, fixtures are whole and single,  *)
(* stretches are imported once, and no downgrade runs them together.         *)
(***************************************************************************)
EXTENDS Deployment, FiniteSetTheorems, TLAPS

-----------------------------------------------------------------------------
(* Numbers *)

\* A non-empty family of subsets of a finite set has a minimal member.
LEMMA MinimalSet ==
  ASSUME NEW S, IsFiniteSet(S), NEW C, C \subseteq SUBSET S, C # {}
  PROVE  \E c \in C : \A d \in C : d \subseteq c => d = c
<1>1. IsWellFoundedOn(StrictSubsetOrdering(S), SUBSET S)
  BY FS_StrictSubsetOrderingWellFounded, FS_FiniteSubsetsOfFinite
<1>2. PICK c \in C : \A d \in C : ~(<<d, c>> \in StrictSubsetOrdering(S))
  BY <1>1, WFMin
<1>3. ASSUME NEW d \in C, d \subseteq c PROVE d = c
  <2>1. <<d, c>> \in (SUBSET S) \X (SUBSET S)
    OBVIOUS
  <2>2. <<d, c>>[1] = d /\ <<d, c>>[2] = c
    OBVIOUS
  <2> QED
    BY <1>2, <1>3, <2>1, <2>2 DEF StrictSubsetOrdering
<1> QED
  BY <1>3

\* A non-empty set of naturals has a smallest member.
LEMMA SmallestOf ==
  ASSUME NEW T, T \subseteq Nat, T # {}
  PROVE  \E m \in T : \A n \in T : m <= n
<1>1. PICK n \in T : TRUE
  OBVIOUS
<1> DEFINE C == {T \cap (0 .. m) : m \in T \cap (0 .. n)}
<1>2. C \subseteq SUBSET (0 .. n)
  OBVIOUS
<1>3. T \cap (0 .. n) \in C
  BY <1>1
<1>4. IsFiniteSet(0 .. n)
  BY <1>1, FS_Interval
<1>5. PICK c \in C : \A d \in C : d \subseteq c => d = c
  <2>1. PICK S : S = 0 .. n
    OBVIOUS
  <2>2. C \subseteq SUBSET S /\ IsFiniteSet(S) /\ C # {}
    BY <1>2, <1>3, <1>4, <2>1
  <2> HIDE DEF C
  <2> QED
    BY <2>2, MinimalSet
<1>6. PICK m \in T \cap (0 .. n) : c = T \cap (0 .. m)
  BY <1>5
<1>7. ASSUME NEW k \in T, k < m PROVE FALSE
  <2>1. T \cap (0 .. k) \in C /\ T \cap (0 .. k) \subseteq c /\ m \in c /\ m \notin 0 .. k
    BY <1>6, <1>7
  <2> HIDE DEF C
  <2> QED
    BY <1>5, <2>1
<1> QED
  BY <1>7

\* Induction, over a set.
LEMMA AllOf ==
  ASSUME NEW T, T \subseteq Nat, 0 \in T, \A n \in T : n + 1 \in T
  PROVE  T = Nat
<1>1. SUFFICES ASSUME Nat \ T # {} PROVE FALSE
  OBVIOUS
<1>2. PICK m \in Nat \ T : \A n \in Nat \ T : m <= n
  <2>1. Nat \ T \subseteq Nat
    OBVIOUS
  <2> QED
    BY <1>1, <2>1, SmallestOf
<1>3. m - 1 \in T
  BY <1>2
<1> QED
  BY <1>2, <1>3

-----------------------------------------------------------------------------
(* What the statements of a migration make of a schema *)

\* The schemas before, between and after the statements.
IsTrace(g, s, statements, m) ==
  g = [n \in 0 .. m |-> IF n = 0 THEN s ELSE Changed(g[n - 1], statements[n])]

LEMMA TraceExists ==
  ASSUME NEW s, NEW statements, NEW m \in Nat
  PROVE  \E g : IsTrace(g, s, statements, m)
<1> DEFINE T == {n \in Nat : \E g : IsTrace(g, s, statements, n)}
<1>1. 0 \in T
  <2>1. IsTrace([n \in 0 .. 0 |-> s], s, statements, 0)
    BY DEF IsTrace
  <2> QED
    BY <2>1
<1>2. ASSUME NEW n \in T PROVE n + 1 \in T
  <2>1. PICK g : IsTrace(g, s, statements, n)
    OBVIOUS
  <2> DEFINE h == [k \in 0 .. n + 1 |-> IF k = n + 1 THEN Changed(g[n], statements[n + 1])
                                                   ELSE g[k]]
  <2>2. ASSUME NEW k \in 0 .. n + 1
        PROVE  h[k] = IF k = 0 THEN s ELSE Changed(h[k - 1], statements[k])
    <3>1. CASE k = 0
      <4>1. g[0] = s
        BY <2>1 DEF IsTrace
      <4> QED
        BY <3>1, <4>1
    <3>2. CASE k = n + 1
      <4>1. k - 1 = n /\ n \in 0 .. n + 1 /\ n # n + 1 /\ k # 0
        BY <3>2
      <4> QED
        BY <3>2, <4>1
    <3>3. CASE k # 0 /\ k # n + 1
      <4>1. k \in 0 .. n /\ k - 1 \in 0 .. n + 1 /\ k - 1 # n + 1
        BY <3>3
      <4>2. g[k] = Changed(g[k - 1], statements[k])
        BY <2>1, <3>3, <4>1 DEF IsTrace
      <4> QED
        BY <3>3, <4>1, <4>2
    <3> QED
      BY <3>1, <3>2, <3>3
  <2>3. h = [k \in 0 .. n + 1 |-> h[k]]
    OBVIOUS
  <2> HIDE DEF h
  <2>4. IsTrace(h, s, statements, n + 1)
    BY <2>2, <2>3 DEF IsTrace
  <2> QED
    BY <2>4
<1>3. T = Nat
  <2>1. T \subseteq Nat
    OBVIOUS
  <2> HIDE DEF T
  <2> QED
    BY <1>1, <1>2, <2>1, AllOf
<1> QED
  BY <1>3

LEMMA MigratedTrace ==
  ASSUME NEW s, NEW statements, Len(statements) \in Nat
  PROVE  \E g : /\ IsTrace(g, s, statements, Len(statements))
                /\ Migrated(s, statements) = g[Len(statements)]
<1> DEFINE g == CHOOSE after : after =
                  [n \in 0 .. Len(statements) |->
                     IF n = 0 THEN s ELSE Changed(after[n - 1], statements[n])]
<1>1. \E after : after = [n \in 0 .. Len(statements) |->
                            IF n = 0 THEN s ELSE Changed(after[n - 1], statements[n])]
  <2>1. \E after : IsTrace(after, s, statements, Len(statements))
    BY TraceExists
  <2> QED
    BY <2>1 DEF IsTrace
<1>2. IsTrace(g, s, statements, Len(statements))
  BY <1>1 DEF IsTrace
<1>3. Migrated(s, statements) = g[Len(statements)]
  BY DEF Migrated
<1> HIDE DEF g
<1> QED
  BY <1>2, <1>3

LEMMA MigratedNothing ==
  ASSUME NEW s
  PROVE  Migrated(s, <<>>) = s
<1>1. Len(<<>>) = 0
  OBVIOUS
<1>2. PICK g : IsTrace(g, s, <<>>, 0) /\ Migrated(s, <<>>) = g[0]
  BY <1>1, MigratedTrace
<1> QED
  BY <1>2 DEF IsTrace

LEMMA MigratedStep ==
  ASSUME NEW s, NEW X, NEW statements \in Seq(X), statements # <<>>
  PROVE  Migrated(s, statements) = Migrated(Changed(s, Head(statements)), Tail(statements))
<1> DEFINE m == Len(statements)
           rest == Tail(statements)
           t == Changed(s, Head(statements))
<1>1. m \in Nat /\ m > 0 /\ Len(rest) = m - 1 /\ \A n \in 1 .. m - 1 : rest[n] = statements[n + 1]
  OBVIOUS
<1>2. Head(statements) = statements[1]
  OBVIOUS
<1>3. PICK g : IsTrace(g, s, statements, m) /\ Migrated(s, statements) = g[m]
  BY <1>1, MigratedTrace
<1>4. PICK h : IsTrace(h, t, rest, m - 1) /\ Migrated(t, rest) = h[m - 1]
  <2>1. Len(rest) \in Nat /\ Len(rest) = m - 1
    BY <1>1
  <2> HIDE DEF m, rest, t
  <2>2. \E h : IsTrace(h, t, rest, Len(rest)) /\ Migrated(t, rest) = h[Len(rest)]
    BY <2>1, MigratedTrace
  <2> QED
    BY <2>1, <2>2
<1>5. t = Changed(s, statements[1])
  BY <1>2
<1> HIDE DEF m, rest, t
<1>6. \A n \in 0 .. m - 1 : h[n] = g[n + 1]
  <2> DEFINE T == {n \in 0 .. m - 1 : h[n] # g[n + 1]}
  <2>1. SUFFICES ASSUME T # {} PROVE FALSE
    OBVIOUS
  <2>2. T \subseteq Nat
    BY <1>1
  <2>3. PICK n \in T : \A k \in T : n <= k
    <3> HIDE DEF T
    <3> QED
      BY <2>1, <2>2, SmallestOf
  <2>4. n \in 0 .. m - 1 /\ n + 1 \in 0 .. m /\ n + 1 # 0 /\ n + 1 - 1 = n /\ n \in 0 .. m
    BY <1>1
  <2>5. g[n + 1] = Changed(g[n], statements[n + 1])
    BY <1>3, <2>4 DEF IsTrace
  <2>6. CASE n = 0
    <3>1. g[0] = s /\ h[0] = t
      BY <1>3, <1>4, <2>4, <2>6 DEF IsTrace
    <3> QED
      BY <1>5, <2>3, <2>5, <2>6, <3>1
  <2>7. CASE n # 0
    <3>1. n - 1 \in 0 .. m - 1 /\ n - 1 < n /\ n - 1 + 1 = n /\ n \in 1 .. m - 1
      BY <1>1, <2>4, <2>7
    <3>2. n - 1 \notin T
      BY <2>3, <3>1
    <3>3. h[n - 1] = g[n]
      BY <3>1, <3>2
    <3>4. h[n] = Changed(h[n - 1], rest[n])
      BY <1>4, <2>4, <2>7 DEF IsTrace
    <3> QED
      BY <1>1, <2>3, <2>5, <3>1, <3>3, <3>4
  <2> QED
    BY <2>6, <2>7
<1>7. m - 1 \in 0 .. m - 1 /\ m - 1 + 1 = m
  BY <1>1
<1> QED
  BY <1>3, <1>4, <1>6, <1>7 DEF t, rest

LEMMA SchemaOfVersion ==
  \A v \in 0 .. HeadRevision :
    SchemaOf[v] = IF v = 0 THEN Empty ELSE Migrated(SchemaOf[v - 1], Upgrade[v])
<1> DEFINE Makes(g, m) == g = [v \in 0 .. m |->
                                 IF v = 0 THEN Empty ELSE Migrated(g[v - 1], Upgrade[v])]
           T == {m \in Nat : \E g : Makes(g, m)}
<1>1. 0 \in T
  <2>1. Makes([v \in 0 .. 0 |-> Empty], 0)
    OBVIOUS
  <2> QED
    BY <2>1
<1>2. ASSUME NEW n \in T PROVE n + 1 \in T
  <2>1. PICK g : Makes(g, n)
    OBVIOUS
  <2> DEFINE h == [v \in 0 .. n + 1 |-> IF v = n + 1 THEN Migrated(g[n], Upgrade[n + 1])
                                                   ELSE g[v]]
  <2>2. ASSUME NEW v \in 0 .. n + 1
        PROVE  h[v] = IF v = 0 THEN Empty ELSE Migrated(h[v - 1], Upgrade[v])
    <3>1. CASE v = 0
      <4>1. g[0] = Empty
        BY <2>1
      <4> QED
        BY <3>1, <4>1
    <3>2. CASE v = n + 1
      <4>1. v - 1 = n /\ n \in 0 .. n + 1 /\ n # n + 1 /\ v # 0
        BY <3>2
      <4> QED
        BY <3>2, <4>1
    <3>3. CASE v # 0 /\ v # n + 1
      <4>1. v \in 0 .. n /\ v - 1 \in 0 .. n + 1 /\ v - 1 # n + 1
        BY <3>3
      <4>2. g[v] = Migrated(g[v - 1], Upgrade[v])
        BY <2>1, <3>3, <4>1
      <4> QED
        BY <3>3, <4>1, <4>2
    <3> QED
      BY <3>1, <3>2, <3>3
  <2>3. h = [v \in 0 .. n + 1 |-> h[v]]
    OBVIOUS
  <2> HIDE DEF h
  <2>4. Makes(h, n + 1)
    BY <2>2, <2>3
  <2> QED
    BY <2>4
<1>3. T = Nat
  <2>1. T \subseteq Nat
    OBVIOUS
  <2> HIDE DEF T
  <2> QED
    BY <1>1, <1>2, <2>1, AllOf
<1>4. \E g : Makes(g, HeadRevision)
  BY <1>3 DEF HeadRevision
<1>5. Makes(SchemaOf, HeadRevision)
  BY <1>4 DEF SchemaOf
<1> QED
  BY <1>5

-----------------------------------------------------------------------------
(* The schemas of the versions *)

Tables2 == {"intersections", "segments", "roads", "stops", "routes", "calendars",
            "route_stops", "vehicles", "assignments"}
Keyed2 == {"intersections", "segments", "stops", "routes", "calendars", "vehicles"}

Schema2 == [tables |-> Tables2, unique |-> {Unique(t, "key") : t \in Keyed2}, way_seq |-> FALSE]

Unique3 == {Unique(t, "key") : t \in (Keyed2 \ {"segments"}) \cup {"roads"}}
             \cup {Unique("segments", "key_seq")}

Schema3 == [tables |-> Tables2, unique |-> Unique3, way_seq |-> TRUE]
Schema4 == [tables |-> Tables2 \cup {"telemetry"}, unique |-> Unique3, way_seq |-> TRUE]

LEMMA RunOne ==
  ASSUME NEW s, NEW a
  PROVE  Migrated(s, <<a>>) = Changed(s, a)
<1>1. <<a>> \in Seq({a}) /\ <<a>> # <<>> /\ Head(<<a>>) = a /\ Tail(<<a>>) = <<>>
  OBVIOUS
<1>2. Migrated(s, <<a>>) = Migrated(Changed(s, a), <<>>)
  BY <1>1, MigratedStep
<1> QED
  BY <1>2, MigratedNothing

LEMMA RunTwo ==
  ASSUME NEW s, NEW a, NEW b
  PROVE  Migrated(s, <<a, b>>) = Changed(Changed(s, a), b)
<1>1. <<a, b>> \in Seq({a, b}) /\ <<a, b>> # <<>> /\ Head(<<a, b>>) = a /\ Tail(<<a, b>>) = <<b>>
  OBVIOUS
<1>2. Migrated(s, <<a, b>>) = Migrated(Changed(s, a), <<b>>)
  BY <1>1, MigratedStep
<1> QED
  BY <1>2, RunOne

LEMMA RunThree ==
  ASSUME NEW s, NEW a, NEW b, NEW c
  PROVE  Migrated(s, <<a, b, c>>) = Changed(Changed(Changed(s, a), b), c)
<1>1. /\ <<a, b, c>> \in Seq({a, b, c}) /\ <<a, b, c>> # <<>>
      /\ Head(<<a, b, c>>) = a /\ Tail(<<a, b, c>>) = <<b, c>>
  OBVIOUS
<1>2. Migrated(s, <<a, b, c>>) = Migrated(Changed(s, a), <<b, c>>)
  BY <1>1, MigratedStep
<1> QED
  BY <1>2, RunTwo

LEMMA RunFour ==
  ASSUME NEW s, NEW a, NEW b, NEW c, NEW d
  PROVE  Migrated(s, <<a, b, c, d>>) = Changed(Changed(Changed(Changed(s, a), b), c), d)
<1>1. /\ <<a, b, c, d>> \in Seq({a, b, c, d}) /\ <<a, b, c, d>> # <<>>
      /\ Head(<<a, b, c, d>>) = a /\ Tail(<<a, b, c, d>>) = <<b, c, d>>
  OBVIOUS
<1>2. Migrated(s, <<a, b, c, d>>) = Migrated(Changed(s, a), <<b, c, d>>)
  BY <1>1, MigratedStep
<1> QED
  BY <1>2, RunThree

LEMMA RunNine ==
  ASSUME NEW s, NEW a, NEW b, NEW c, NEW d, NEW e, NEW f, NEW g, NEW h, NEW i
  PROVE  Migrated(s, <<a, b, c, d, e, f, g, h, i>>) =
           Changed(Changed(Changed(Changed(Changed(
             Changed(Changed(Changed(Changed(s, a), b), c), d), e), f), g), h), i)
<1>1. /\ <<a, b, c, d, e, f, g, h, i>> \in Seq({a, b, c, d, e, f, g, h, i})
      /\ <<a, b, c, d, e, f, g, h, i>> # <<>>
      /\ Head(<<a, b, c, d, e, f, g, h, i>>) = a
      /\ Tail(<<a, b, c, d, e, f, g, h, i>>) = <<b, c, d, e, f, g, h, i>>
  OBVIOUS
<1>2. /\ <<b, c, d, e, f, g, h, i>> \in Seq({b, c, d, e, f, g, h, i})
      /\ <<b, c, d, e, f, g, h, i>> # <<>>
      /\ Head(<<b, c, d, e, f, g, h, i>>) = b
      /\ Tail(<<b, c, d, e, f, g, h, i>>) = <<c, d, e, f, g, h, i>>
  OBVIOUS
<1>3. /\ <<c, d, e, f, g, h, i>> \in Seq({c, d, e, f, g, h, i})
      /\ <<c, d, e, f, g, h, i>> # <<>>
      /\ Head(<<c, d, e, f, g, h, i>>) = c
      /\ Tail(<<c, d, e, f, g, h, i>>) = <<d, e, f, g, h, i>>
  OBVIOUS
<1>4. /\ <<d, e, f, g, h, i>> \in Seq({d, e, f, g, h, i}) /\ <<d, e, f, g, h, i>> # <<>>
      /\ Head(<<d, e, f, g, h, i>>) = d /\ Tail(<<d, e, f, g, h, i>>) = <<e, f, g, h, i>>
  OBVIOUS
<1>5. /\ <<e, f, g, h, i>> \in Seq({e, f, g, h, i}) /\ <<e, f, g, h, i>> # <<>>
      /\ Head(<<e, f, g, h, i>>) = e /\ Tail(<<e, f, g, h, i>>) = <<f, g, h, i>>
  OBVIOUS
<1>6. \A t : Migrated(t, <<e, f, g, h, i>>) =
               Changed(Changed(Changed(Changed(Changed(t, e), f), g), h), i)
  <2>1. \A t : Migrated(t, <<e, f, g, h, i>>) = Migrated(Changed(t, e), <<f, g, h, i>>)
    BY <1>5, MigratedStep
  <2>2. \A t : Migrated(t, <<f, g, h, i>>) = Changed(Changed(Changed(Changed(t, f), g), h), i)
    BY RunFour
  <2> QED
    BY <2>1, <2>2
<1>7. \A t : Migrated(t, <<d, e, f, g, h, i>>) = Migrated(Changed(t, d), <<e, f, g, h, i>>)
  BY <1>4, MigratedStep
<1>8. \A t : Migrated(t, <<c, d, e, f, g, h, i>>) = Migrated(Changed(t, c), <<d, e, f, g, h, i>>)
  BY <1>3, MigratedStep
<1>9. \A t : Migrated(t, <<b, c, d, e, f, g, h, i>>) =
               Migrated(Changed(t, b), <<c, d, e, f, g, h, i>>)
  BY <1>2, MigratedStep
<1>10. Migrated(s, <<a, b, c, d, e, f, g, h, i>>) =
         Migrated(Changed(s, a), <<b, c, d, e, f, g, h, i>>)
  BY <1>1, MigratedStep
<1> QED
  BY <1>6, <1>7, <1>8, <1>9, <1>10

LEMMA Creates ==
  ASSUME NEW s, s.way_seq \in BOOLEAN, NEW keyed, NEW others
  PROVE  Changed(s, CreateTables(keyed, others)) =
           [tables |-> s.tables \cup keyed \cup others,
            unique |-> s.unique \cup {Unique(t, "key") : t \in keyed},
            way_seq |-> s.way_seq]
BY DEF Changed, CreateTables, Statement

LEMMA Drops ==
  ASSUME NEW s, s.way_seq \in BOOLEAN, NEW table, NEW referred
  PROVE  Changed(s, DropTable(table, referred)) =
           [tables |-> s.tables \ {table},
            unique |-> {u \in s.unique : u.table # table},
            way_seq |-> s.way_seq /\ table # "segments"]
BY DEF Changed, DropTable, Statement

LEMMA Constrains ==
  ASSUME NEW s, s.way_seq \in BOOLEAN, NEW table, NEW on
  PROVE  /\ Changed(s, Constrain(table, on)) =
              [tables |-> s.tables, unique |-> s.unique \cup {Unique(table, on)},
               way_seq |-> s.way_seq]
         /\ Changed(s, Lift(table, on)) =
              [tables |-> s.tables, unique |-> s.unique \ {Unique(table, on)},
               way_seq |-> s.way_seq]
BY DEF Changed, Constrain, Lift, Statement

LEMMA ChangesColumns ==
  ASSUME NEW s
  PROVE  /\ Changed(s, AddColumns) = [tables |-> s.tables, unique |-> s.unique, way_seq |-> TRUE]
         /\ Changed(s, DropColumns) = [tables |-> s.tables, unique |-> s.unique, way_seq |-> FALSE]
BY DEF Changed, AddColumns, DropColumns, Statement

LEMMA ToVersion2 ==
  Migrated(Empty, <<CreateNetwork, CreateTransit, CreateFleet>>) = Schema2
<1>1. PICK s : s = Changed(Empty, CreateNetwork)
  OBVIOUS
<1>2. PICK t : t = Changed(s, CreateTransit)
  OBVIOUS
<1>3. PICK u : u = Changed(t, CreateFleet)
  OBVIOUS
<1>4. s = [tables |-> {"intersections", "segments", "roads"},
           unique |-> {Unique(x, "key") : x \in {"intersections", "segments"}},
           way_seq |-> FALSE]
  <2>1. Empty.way_seq \in BOOLEAN /\ Empty.tables = {} /\ Empty.unique = {}
    BY DEF Empty
  <2>2. s = [tables |-> Empty.tables \cup {"intersections", "segments"} \cup {"roads"},
             unique |-> Empty.unique \cup {Unique(x, "key") : x \in {"intersections", "segments"}},
             way_seq |-> Empty.way_seq]
    <3>1. PICK keyed, others : keyed = {"intersections", "segments"} /\ others = {"roads"}
      OBVIOUS
    <3>2. s = Changed(Empty, CreateTables(keyed, others))
      BY <1>1, <3>1 DEF CreateNetwork
    <3>3. s = [tables |-> Empty.tables \cup keyed \cup others,
               unique |-> Empty.unique \cup {Unique(x, "key") : x \in keyed},
               way_seq |-> Empty.way_seq]
      BY <2>1, <3>2, Creates
    <3> QED
      BY <3>1, <3>3
  <2>3. {} \cup {"intersections", "segments"} \cup {"roads"} = {"intersections", "segments", "roads"}
    OBVIOUS
  <2> QED
    BY <2>2, <2>3 DEF Empty
<1>5. t = [tables |-> s.tables \cup {"stops", "routes", "calendars"} \cup {"route_stops"},
           unique |-> s.unique \cup {Unique(x, "key") : x \in {"stops", "routes", "calendars"}},
           way_seq |-> s.way_seq]
  <2>1. s.way_seq \in BOOLEAN
    BY <1>4
  <2>2. PICK keyed, others : keyed = {"stops", "routes", "calendars"} /\ others = {"route_stops"}
    OBVIOUS
  <2>3. t = Changed(s, CreateTables(keyed, others))
    BY <1>2, <2>2 DEF CreateTransit
  <2>4. t = [tables |-> s.tables \cup keyed \cup others,
             unique |-> s.unique \cup {Unique(x, "key") : x \in keyed},
             way_seq |-> s.way_seq]
    BY <2>1, <2>3, Creates
  <2> QED
    BY <2>2, <2>4
<1>6. u = [tables |-> t.tables \cup {"vehicles"} \cup {"assignments"},
           unique |-> t.unique \cup {Unique(x, "key") : x \in {"vehicles"}},
           way_seq |-> t.way_seq]
  <2>1. t.way_seq \in BOOLEAN
    BY <1>4, <1>5
  <2>2. PICK keyed, others : keyed = {"vehicles"} /\ others = {"assignments"}
    OBVIOUS
  <2>3. u = Changed(t, CreateTables(keyed, others))
    BY <1>3, <2>2 DEF CreateFleet
  <2>4. u = [tables |-> t.tables \cup keyed \cup others,
             unique |-> t.unique \cup {Unique(x, "key") : x \in keyed},
             way_seq |-> t.way_seq]
    BY <2>1, <2>3, Creates
  <2> QED
    BY <2>2, <2>4
<1>7. u.tables = Tables2
  BY <1>4, <1>5, <1>6 DEF Tables2
<1>8. u.unique = {Unique(x, "key") : x \in Keyed2}
  BY <1>4, <1>5, <1>6 DEF Keyed2
<1>9. u.way_seq = FALSE
  BY <1>4, <1>5, <1>6
<1>10. u = Schema2
  BY <1>6, <1>7, <1>8, <1>9 DEF Schema2
<1>11. Migrated(Empty, <<CreateNetwork, CreateTransit, CreateFleet>>) =
         Changed(Changed(Changed(Empty, CreateNetwork), CreateTransit), CreateFleet)
  BY RunThree
<1> QED
  BY <1>1, <1>2, <1>3, <1>10, <1>11

LEMMA ToVersion3 == Migrated(Schema2, SplitWays) = Schema3
<1>1. PICK s : s = Changed(Schema2, AddColumns)
  OBVIOUS
<1>2. PICK t : t = Changed(s, Lift("segments", "key"))
  OBVIOUS
<1>3. PICK u : u = Changed(t, Constrain("segments", "key_seq"))
  OBVIOUS
<1>4. PICK v : v = Changed(u, Constrain("roads", "key"))
  OBVIOUS
<1>5. s = [tables |-> Tables2, unique |-> Schema2.unique, way_seq |-> TRUE]
  <2>1. s = [tables |-> Schema2.tables, unique |-> Schema2.unique, way_seq |-> TRUE]
    BY <1>1, ChangesColumns
  <2> QED
    BY <2>1 DEF Schema2
<1>6. t = [tables |-> s.tables, unique |-> s.unique \ {Unique("segments", "key")}, way_seq |-> s.way_seq]
  <2>1. s.way_seq \in BOOLEAN
    BY <1>5
  <2> QED
    BY <1>2, <2>1, Constrains
<1>7. u = [tables |-> t.tables, unique |-> t.unique \cup {Unique("segments", "key_seq")},
           way_seq |-> t.way_seq]
  <2>1. t.way_seq \in BOOLEAN
    BY <1>5, <1>6
  <2> QED
    BY <1>3, <2>1, Constrains
<1>8. v = [tables |-> u.tables, unique |-> u.unique \cup {Unique("roads", "key")},
           way_seq |-> u.way_seq]
  <2>1. u.way_seq \in BOOLEAN
    BY <1>5, <1>6, <1>7
  <2> QED
    BY <1>4, <2>1, Constrains
<1>9. v.tables = Tables2 /\ v.way_seq = TRUE
  BY <1>5, <1>6, <1>7, <1>8
<1>10. v.unique = Unique3
  <2>1. Schema2.unique \ {Unique("segments", "key")} = {Unique(x, "key") : x \in Keyed2 \ {"segments"}}
    BY DEF Schema2, Keyed2, Unique
  <2>2. v.unique = {Unique(x, "key") : x \in Keyed2 \ {"segments"}}
                     \cup {Unique("segments", "key_seq")} \cup {Unique("roads", "key")}
    BY <1>5, <1>6, <1>7, <1>8, <2>1
  <2>3. {Unique(x, "key") : x \in (Keyed2 \ {"segments"}) \cup {"roads"}} =
          {Unique(x, "key") : x \in Keyed2 \ {"segments"}} \cup {Unique("roads", "key")}
    OBVIOUS
  <2> QED
    BY <2>2, <2>3 DEF Unique3
<1>11. v = Schema3
  BY <1>8, <1>9, <1>10 DEF Schema3
<1> QED
  BY <1>1, <1>2, <1>3, <1>4, <1>11, RunFour DEF SplitWays

LEMMA ToVersion4 == Migrated(Schema3, <<CreateTelemetry>>) = Schema4
<1>1. Changed(Schema3, CreateTelemetry) = Schema4
  BY DEF Changed, CreateTelemetry, Statement, Schema3, Schema4
<1> QED
  BY <1>1, RunOne

LEMMA BackToVersion3 ==
  Migrated(Schema4, <<DropTable("telemetry", {"vehicles", "segments"})>>) = Schema3
<1>1. Changed(Schema4, DropTable("telemetry", {"vehicles", "segments"})) =
        [tables |-> Schema4.tables \ {"telemetry"},
         unique |-> {u \in Schema4.unique : u.table # "telemetry"},
         way_seq |-> Schema4.way_seq /\ "telemetry" # "segments"]
  <2>1. Schema4.way_seq \in BOOLEAN
    BY DEF Schema4
  <2>2. PICK referred : referred = {"vehicles", "segments"}
    OBVIOUS
  <2>3. Changed(Schema4, DropTable("telemetry", referred)) =
          [tables |-> Schema4.tables \ {"telemetry"},
           unique |-> {u \in Schema4.unique : u.table # "telemetry"},
           way_seq |-> Schema4.way_seq /\ "telemetry" # "segments"]
    BY <2>1, Drops
  <2> QED
    BY <2>2, <2>3
<1>2. (Tables2 \cup {"telemetry"}) \ {"telemetry"} = Tables2
  BY DEF Tables2
<1>3. {u \in Unique3 : u.table # "telemetry"} = Unique3
  BY DEF Unique3, Keyed2, Unique
<1>4. Changed(Schema4, DropTable("telemetry", {"vehicles", "segments"})) = Schema3
  BY <1>1, <1>2, <1>3 DEF Schema3, Schema4
<1> QED
  BY <1>4, RunOne

LEMMA BackToVersion2 == Migrated(Schema3, UnsplitWays) = Schema2
<1>1. PICK s : s = Changed(Schema3, Lift("roads", "key"))
  OBVIOUS
<1>2. PICK t : t = Changed(s, Lift("segments", "key_seq"))
  OBVIOUS
<1>3. PICK u : u = Changed(t, Constrain("segments", "key"))
  OBVIOUS
<1>4. PICK v : v = Changed(u, DropColumns)
  OBVIOUS
<1>5. s = [tables |-> Tables2, unique |-> Unique3 \ {Unique("roads", "key")}, way_seq |-> TRUE]
  <2>1. Schema3.way_seq \in BOOLEAN
    BY DEF Schema3
  <2>2. s = [tables |-> Schema3.tables, unique |-> Schema3.unique \ {Unique("roads", "key")},
             way_seq |-> Schema3.way_seq]
    BY <1>1, <2>1, Constrains
  <2> QED
    BY <2>2 DEF Schema3
<1>6. t = [tables |-> s.tables, unique |-> s.unique \ {Unique("segments", "key_seq")},
           way_seq |-> s.way_seq]
  <2>1. s.way_seq \in BOOLEAN
    BY <1>5
  <2> QED
    BY <1>2, <2>1, Constrains
<1>7. u = [tables |-> t.tables, unique |-> t.unique \cup {Unique("segments", "key")},
           way_seq |-> t.way_seq]
  <2>1. t.way_seq \in BOOLEAN
    BY <1>5, <1>6
  <2> QED
    BY <1>3, <2>1, Constrains
<1>8. v = [tables |-> u.tables, unique |-> u.unique, way_seq |-> FALSE]
  BY <1>4, ChangesColumns
<1>9. v.tables = Tables2 /\ v.way_seq = FALSE
  BY <1>5, <1>6, <1>7, <1>8
<1>10. v.unique = {Unique(x, "key") : x \in Keyed2}
  <2>1. (Unique3 \ {Unique("roads", "key")}) \ {Unique("segments", "key_seq")} =
          {Unique(x, "key") : x \in Keyed2 \ {"segments"}}
    BY DEF Unique3, Keyed2, Unique
  <2>2. {Unique(x, "key") : x \in Keyed2 \ {"segments"}} \cup {Unique("segments", "key")} =
          {Unique(x, "key") : x \in Keyed2}
    BY DEF Keyed2
  <2> QED
    BY <1>5, <1>6, <1>7, <1>8, <2>1, <2>2
<1>11. v = Schema2
  BY <1>8, <1>9, <1>10 DEF Schema2
<1> QED
  BY <1>1, <1>2, <1>3, <1>4, <1>11, RunFour DEF UnsplitWays

LEMMA BackToVersion1 == Migrated(Schema2, DropTransportation) = Empty
<1> DEFINE Next1(t, s, table) ==
             t = [tables |-> s.tables \ {table}, unique |-> {u \in s.unique : u.table # table},
                  way_seq |-> FALSE]
<1>1. PICK s1 : s1 = Changed(Schema2, DropTable("assignments", {"vehicles", "routes", "calendars"}))
  OBVIOUS
<1>2. PICK s2 : s2 = Changed(s1, DropTable("vehicles", {}))
  OBVIOUS
<1>3. PICK s3 : s3 = Changed(s2, DropTable("calendars", {}))
  OBVIOUS
<1>4. PICK s4 : s4 = Changed(s3, DropTable("route_stops", {"routes", "stops"}))
  OBVIOUS
<1>5. PICK s5 : s5 = Changed(s4, DropTable("routes", {}))
  OBVIOUS
<1>6. PICK s6 : s6 = Changed(s5, DropTable("stops", {}))
  OBVIOUS
<1>7. PICK s7 : s7 = Changed(s6, DropTable("segments", {"roads", "intersections"}))
  OBVIOUS
<1>8. PICK s8 : s8 = Changed(s7, DropTable("roads", {}))
  OBVIOUS
<1>9. PICK s9 : s9 = Changed(s8, DropTable("intersections", {}))
  OBVIOUS
<1>10. \A s, table, referred :
         s.way_seq = FALSE => Next1(Changed(s, DropTable(table, referred)), s, table)
  <2> SUFFICES ASSUME NEW s, NEW table, NEW referred, s.way_seq = FALSE
               PROVE  Next1(Changed(s, DropTable(table, referred)), s, table)
    OBVIOUS
  <2>1. s.way_seq \in BOOLEAN
    OBVIOUS
  <2>2. Changed(s, DropTable(table, referred)) =
          [tables |-> s.tables \ {table}, unique |-> {u \in s.unique : u.table # table},
           way_seq |-> s.way_seq /\ table # "segments"]
    BY <2>1, Drops
  <2> QED
    BY <2>2
<1>11. Next1(s1, Schema2, "assignments")
  BY <1>1, <1>10 DEF Schema2
<1>12. Next1(s2, s1, "vehicles")
  BY <1>2, <1>10, <1>11
<1>13. Next1(s3, s2, "calendars")
  BY <1>3, <1>10, <1>12
<1>14. Next1(s4, s3, "route_stops")
  BY <1>4, <1>10, <1>13
<1>15. Next1(s5, s4, "routes")
  BY <1>5, <1>10, <1>14
<1>16. Next1(s6, s5, "stops")
  BY <1>6, <1>10, <1>15
<1>17. Next1(s7, s6, "segments")
  BY <1>7, <1>10, <1>16
<1>18. Next1(s8, s7, "roads")
  BY <1>8, <1>10, <1>17
<1>19. Next1(s9, s8, "intersections")
  BY <1>9, <1>10, <1>18
<1>20. s9.tables = {}
  BY <1>11, <1>12, <1>13, <1>14, <1>15, <1>16, <1>17, <1>18, <1>19 DEF Schema2, Tables2
<1>21. s9.unique = {}
  <2>1. \A u \in Schema2.unique : u.table \in Keyed2
    BY DEF Schema2, Unique
  <2> QED
    BY <1>11, <1>12, <1>13, <1>14, <1>15, <1>16, <1>17, <1>18, <1>19, <2>1 DEF Keyed2
<1>22. s9 = Empty
  BY <1>19, <1>20, <1>21 DEF Empty
<1> QED
  BY <1>1, <1>2, <1>3, <1>4, <1>5, <1>6, <1>7, <1>8, <1>9, <1>22, RunNine DEF DropTransportation

\* The schemas that upgrades make, and each downgrade makes the one before.
LEMMA Schemas ==
  /\ SchemaOf[0] = Empty /\ SchemaOf[1] = Empty /\ SchemaOf[2] = Schema2
  /\ SchemaOf[3] = Schema3 /\ SchemaOf[4] = Schema4
<1>1. SchemaOf[0] = Empty
  BY SchemaOfVersion DEF HeadRevision
<1>2. SchemaOf[1] = Empty
  <2>1. SchemaOf[1] = Migrated(SchemaOf[0], Upgrade[1])
    BY SchemaOfVersion DEF HeadRevision
  <2> QED
    BY <1>1, <2>1, MigratedNothing DEF Upgrade
<1>3. SchemaOf[2] = Schema2
  <2>1. SchemaOf[2] = Migrated(SchemaOf[1], Upgrade[2])
    BY SchemaOfVersion DEF HeadRevision
  <2> QED
    BY <1>2, <2>1, ToVersion2 DEF Upgrade
<1>4. SchemaOf[3] = Schema3
  <2>1. SchemaOf[3] = Migrated(SchemaOf[2], Upgrade[3])
    BY SchemaOfVersion DEF HeadRevision
  <2> QED
    BY <1>3, <2>1, ToVersion3 DEF Upgrade
<1>5. SchemaOf[4] = Schema4
  <2>1. SchemaOf[4] = Migrated(SchemaOf[3], Upgrade[4])
    BY SchemaOfVersion DEF HeadRevision
  <2> QED
    BY <1>4, <2>1, ToVersion4 DEF Upgrade
<1> QED
  BY <1>1, <1>2, <1>3, <1>4, <1>5

LEMMA DowngradesUndo ==
  \A v \in 1 .. HeadRevision : Migrated(SchemaOf[v], Downgrade[v]) = SchemaOf[v - 1]
<1>1. Migrated(SchemaOf[1], Downgrade[1]) = SchemaOf[0]
  BY Schemas, MigratedNothing DEF Downgrade
<1>2. Migrated(SchemaOf[2], Downgrade[2]) = SchemaOf[1]
  BY Schemas, BackToVersion1 DEF Downgrade
<1>3. Migrated(SchemaOf[3], Downgrade[3]) = SchemaOf[2]
  BY Schemas, BackToVersion2 DEF Downgrade
<1>4. Migrated(SchemaOf[4], Downgrade[4]) = SchemaOf[3]
  BY Schemas, BackToVersion3 DEF Downgrade
<1> QED
  BY <1>1, <1>2, <1>3, <1>4 DEF HeadRevision
-----------------------------------------------------------------------------
(* What the commands do, and what the schemas of the versions have in common *)

LEMMA SeedSteps ==
  /\ Len(SeedProgram) = 9 /\ DOMAIN SeedProgram = 1 .. 9
  /\ SeedProgram[1] = Looks({"roads"}) /\ SeedProgram[2] = Looks({"intersections"})
  /\ SeedProgram[3] = Inserts({"intersections"}) /\ SeedProgram[4] = Inserts({"roads"})
  /\ SeedProgram[5] = Inserts({"segments", "stops"}) /\ SeedProgram[6] = Inserts({"routes"})
  /\ SeedProgram[7] = Inserts({"route_stops", "vehicles"})
  /\ SeedProgram[8] = Inserts({"calendars"}) /\ SeedProgram[9] = Inserts({"assignments"})
BY DEF SeedProgram

LEMMA SeedInserts ==
  /\ \A i \in 1 .. 9 : SeedProgram[i].insert <=> i > 2
  /\ \A i \in 4 .. 9 : "intersections" \notin SeedProgram[i].tables
<1>1. ~SeedProgram[1].insert /\ ~SeedProgram[2].insert
  BY SeedSteps DEF Looks
<1>2. /\ SeedProgram[3].insert /\ SeedProgram[4].insert /\ SeedProgram[5].insert
      /\ SeedProgram[6].insert /\ SeedProgram[7].insert /\ SeedProgram[8].insert
      /\ SeedProgram[9].insert
  BY SeedSteps DEF Inserts
<1>3. /\ "intersections" \notin SeedProgram[4].tables /\ "intersections" \notin SeedProgram[5].tables
      /\ "intersections" \notin SeedProgram[6].tables /\ "intersections" \notin SeedProgram[7].tables
      /\ "intersections" \notin SeedProgram[8].tables /\ "intersections" \notin SeedProgram[9].tables
  BY SeedSteps DEF Inserts
<1>4. \A i \in 1 .. 9 : i = 1 \/ i = 2 \/ i = 3 \/ i = 4 \/ i = 5 \/ i = 6 \/ i = 7 \/ i = 8 \/ i = 9
  OBVIOUS
<1>5. \A i \in 4 .. 9 : i = 4 \/ i = 5 \/ i = 6 \/ i = 7 \/ i = 8 \/ i = 9
  OBVIOUS
<1>6. \A i \in 1 .. 9 : SeedProgram[i].insert <=> i > 2
  BY <1>1, <1>2, <1>4
<1> QED
  BY <1>3, <1>5, <1>6

LEMMA SeedPlaces ==
  /\ SeedTables = Tables2 /\ Placed(10) = SeedTables
  /\ Placed(1) = {} /\ Placed(2) = {} /\ Placed(3) = {} /\ Placed(4) = {"intersections"}
<1>1. /\ SeedProgram[1].tables = {"roads"} /\ SeedProgram[2].tables = {"intersections"}
      /\ SeedProgram[3].tables = {"intersections"} /\ SeedProgram[4].tables = {"roads"}
      /\ SeedProgram[5].tables = {"segments", "stops"} /\ SeedProgram[6].tables = {"routes"}
      /\ SeedProgram[7].tables = {"route_stops", "vehicles"}
      /\ SeedProgram[8].tables = {"calendars"} /\ SeedProgram[9].tables = {"assignments"}
  BY SeedSteps DEF Looks, Inserts
<1>2. \A t : t \in SeedTables <=> \E i \in 1 .. 9 : t \in SeedProgram[i].tables
  BY SeedSteps DEF SeedTables
<1>3. \A n \in Int : \A t : t \in Placed(n) <=> \E i \in 1 .. n - 1 : SeedProgram[i].insert /\ t \in SeedProgram[i].tables
  BY DEF Placed
<1>4. \A i \in 1 .. 9 : i = 1 \/ i = 2 \/ i = 3 \/ i = 4 \/ i = 5 \/ i = 6 \/ i = 7 \/ i = 8 \/ i = 9
  OBVIOUS
<1>5. 3 \in 1 .. 9 /\ 4 \in 1 .. 9 /\ 5 \in 1 .. 9 /\ 6 \in 1 .. 9 /\ 7 \in 1 .. 9 /\ 8 \in 1 .. 9 /\ 9 \in 1 .. 9
  OBVIOUS
<1>6. \A i \in 1 .. 9 : SeedProgram[i].tables \subseteq Tables2
  BY <1>1, <1>4 DEF Tables2
<1>7. \A t \in Tables2 : \E i \in 1 .. 9 : i > 2 /\ t \in SeedProgram[i].tables
  BY <1>1, <1>5 DEF Tables2
<1>8. SeedTables = Tables2
  BY <1>2, <1>6, <1>7
<1>9. Placed(10) = SeedTables
  <2>1. \A t : t \in Placed(10) <=> \E i \in 1 .. 9 : SeedProgram[i].insert /\ t \in SeedProgram[i].tables
    BY <1>3
  <2>2. \A t \in Placed(10) : t \in SeedTables
    BY <1>2, <2>1
  <2>3. \A t \in SeedTables : t \in Placed(10)
    BY <1>7, <1>8, <2>1, SeedInserts
  <2> QED
    BY <2>2, <2>3
<1>10. Placed(1) = {}
  BY <1>3
<1>11. Placed(2) = {} /\ Placed(3) = {}
  BY <1>3, SeedInserts
<1>12. Placed(4) = {"intersections"}
  BY <1>1, <1>3, SeedInserts
<1> QED
  BY <1>8, <1>9, <1>10, <1>11, <1>12

LEMMA PlacedNext ==
  ASSUME NEW n \in 3 .. 9
  PROVE  Placed(n + 1) = Placed(n) \cup SeedProgram[n].tables
<1>1. SeedProgram[n].insert
  BY SeedInserts
<1>2. \A j : j \in 1 .. (n + 1) - 1 <=> j \in 1 .. n - 1 \/ j = n
  OBVIOUS
<1> QED
  BY <1>1, <1>2 DEF Placed

LEMMA ImportSteps ==
  /\ Len(ImportProgram) = 3
  /\ \A i \in 1 .. 3 : ImportProgram[i].insert
  /\ \A i \in 1 .. 2 : "segments" \notin ImportProgram[i].tables
<1>1. /\ Len(ImportProgram) = 3 /\ ImportProgram[1] = Inserts({"intersections"})
      /\ ImportProgram[2] = Inserts({"roads"}) /\ ImportProgram[3] = Inserts({"segments"})
  BY DEF ImportProgram
<1> QED
  BY <1>1 DEF Inserts

\* What every version's schema has in common.
Sound(s) ==
  /\ s.way_seq \in BOOLEAN
  /\ s.way_seq => /\ Unique("segments", "key_seq") \in s.unique
                  /\ \A u \in s.unique : u.table = "segments" => u.on = "key_seq"
  /\ SeedTables \subseteq s.tables \/ s.tables = {}
  /\ "stops" \in s.tables => Unique("stops", "key") \in s.unique

LEMMA SchemasSound == \A v \in 0 .. HeadRevision : Sound(SchemaOf[v])
<1>1. Sound(Empty)
  BY DEF Sound, Empty
<1>2. Sound(Schema2)
  BY SeedPlaces DEF Sound, Schema2, Tables2, Keyed2, Unique
<1>3. /\ Unique("segments", "key_seq") \in Unique3 /\ Unique("stops", "key") \in Unique3
      /\ \A u \in Unique3 : u.table = "segments" => u.on = "key_seq"
  BY DEF Unique3, Keyed2, Unique
<1>4. Sound(Schema3)
  BY <1>3, SeedPlaces DEF Sound, Schema3
<1>5. Sound(Schema4)
  BY <1>3, SeedPlaces DEF Sound, Schema4
<1>6. \A v \in 0 .. HeadRevision : v = 0 \/ v = 1 \/ v = 2 \/ v = 3 \/ v = 4
  BY DEF HeadRevision
<1> QED
  BY <1>1, <1>2, <1>4, <1>5, <1>6, Schemas
\* Careful, with respect to other tables than those there are.
CarefulWith(statement, tables) ==
  /\ statement.drop \subseteq statement.locks
  /\ \A u \in statement.constrain : u.table \in statement.locks \cup statement.create
  /\ statement.column = "drop" => "segments" \in statement.locks
  /\ statement.create \cap tables = {}

LEMMA CarefulIsWith == \A statement : Careful(statement) <=> CarefulWith(statement, schema.tables)
BY DEF Careful, CarefulWith

LEMMA CarefulStatements ==
  ASSUME NEW tables
  PROVE  /\ \A keyed, others : (keyed \cup others) \cap tables = {} =>
              CarefulWith(CreateTables(keyed, others), tables)
         /\ \A table, referred : CarefulWith(DropTable(table, referred), tables)
         /\ \A table, on : CarefulWith(Constrain(table, on), tables)
         /\ \A table, on : CarefulWith(Lift(table, on), tables)
         /\ CarefulWith(AddColumns, tables) /\ CarefulWith(DropColumns, tables)
         /\ "telemetry" \notin tables => CarefulWith(CreateTelemetry, tables)
<1>1. \A keyed, others : (keyed \cup others) \cap tables = {} =>
        CarefulWith(CreateTables(keyed, others), tables)
  BY DEF CarefulWith, CreateTables, Statement, Unique
<1>2. \A table, referred : CarefulWith(DropTable(table, referred), tables)
  BY DEF CarefulWith, DropTable, Statement
<1>3. /\ \A table, on : CarefulWith(Constrain(table, on), tables)
      /\ \A table, on : CarefulWith(Lift(table, on), tables)
  BY DEF CarefulWith, Constrain, Lift, Statement, Unique
<1>4. CarefulWith(AddColumns, tables) /\ CarefulWith(DropColumns, tables)
  BY DEF CarefulWith, AddColumns, DropColumns, Statement
<1>5. "telemetry" \notin tables => CarefulWith(CreateTelemetry, tables)
  BY DEF CarefulWith, CreateTelemetry, Statement
<1> QED
  BY <1>1, <1>2, <1>3, <1>4, <1>5

\* The revisions create each table once.
LEMMA UpgradesCareful ==
  \A v \in 0 .. HeadRevision : \A w \in 1 .. HeadRevision :
    v < w => \A i \in DOMAIN Upgrade[w] : CarefulWith(Upgrade[w][i], SchemaOf[v].tables)
<1>1. \A i \in DOMAIN Upgrade[1] : FALSE
  BY DEF Upgrade
<1>2. \A i \in DOMAIN Upgrade[2] : CarefulWith(Upgrade[2][i], {})
  <2>1. CarefulWith(CreateNetwork, {}) /\ CarefulWith(CreateTransit, {}) /\ CarefulWith(CreateFleet, {})
    <3>1. \A keyed, others : CarefulWith(CreateTables(keyed, others), {})
      BY CarefulStatements
    <3> QED
      BY <3>1 DEF CreateNetwork, CreateTransit, CreateFleet
  <2>2. DOMAIN Upgrade[2] = 1 .. 3
    BY DEF Upgrade
  <2>3. Upgrade[2][1] = CreateNetwork /\ Upgrade[2][2] = CreateTransit /\ Upgrade[2][3] = CreateFleet
    BY DEF Upgrade
  <2>4. \A i \in 1 .. 3 : i = 1 \/ i = 2 \/ i = 3
    OBVIOUS
  <2> QED
    BY <2>1, <2>2, <2>3, <2>4
<1>3. \A tables : \A i \in DOMAIN Upgrade[3] : CarefulWith(Upgrade[3][i], tables)
  <2>1. DOMAIN Upgrade[3] = 1 .. 4
    BY DEF Upgrade, SplitWays
  <2>2. /\ Upgrade[3][1] = AddColumns /\ Upgrade[3][2] = Lift("segments", "key")
        /\ Upgrade[3][3] = Constrain("segments", "key_seq") /\ Upgrade[3][4] = Constrain("roads", "key")
    BY DEF Upgrade, SplitWays
  <2>3. \A i \in 1 .. 4 : i = 1 \/ i = 2 \/ i = 3 \/ i = 4
    OBVIOUS
  <2> QED
    BY <2>1, <2>2, <2>3, CarefulStatements
<1>4. \A tables : "telemetry" \notin tables =>
        \A i \in DOMAIN Upgrade[4] : CarefulWith(Upgrade[4][i], tables)
  <2>1. DOMAIN Upgrade[4] = 1 .. 1 /\ Upgrade[4][1] = CreateTelemetry
    BY DEF Upgrade
  <2> QED
    BY <2>1, CarefulStatements
<1>5. SchemaOf[0].tables = {} /\ SchemaOf[1].tables = {}
  BY Schemas DEF Empty
<1>6. "telemetry" \notin SchemaOf[0].tables /\ "telemetry" \notin SchemaOf[1].tables
  BY <1>5
<1>7. "telemetry" \notin SchemaOf[2].tables /\ "telemetry" \notin SchemaOf[3].tables
  BY Schemas DEF Schema2, Schema3, Tables2
<1>8. \A v \in 0 .. HeadRevision : v = 0 \/ v = 1 \/ v = 2 \/ v = 3 \/ v = 4
  BY DEF HeadRevision
<1>9. \A w \in 1 .. HeadRevision : w = 1 \/ w = 2 \/ w = 3 \/ w = 4
  BY DEF HeadRevision
<1> SUFFICES ASSUME NEW v \in 0 .. HeadRevision, NEW w \in 1 .. HeadRevision, v < w,
                    NEW i \in DOMAIN Upgrade[w]
             PROVE  CarefulWith(Upgrade[w][i], SchemaOf[v].tables)
  OBVIOUS
<1>10. CASE w = 1
  BY <1>1, <1>10
<1>11. CASE w = 2
  <2>1. SchemaOf[v].tables = {}
    BY <1>5, <1>8, <1>11
  <2> QED
    BY <1>2, <1>11, <2>1
<1>12. CASE w = 3
  BY <1>3, <1>12
<1>13. CASE w = 4
  <2>1. "telemetry" \notin SchemaOf[v].tables
    BY <1>6, <1>7, <1>8, <1>13
  <2> QED
    BY <1>4, <1>13, <2>1
<1> QED
  BY <1>9, <1>10, <1>11, <1>12, <1>13

LEMMA DowngradesCareful ==
  \A w \in 1 .. HeadRevision : \A i \in DOMAIN Downgrade[w] : Careful(Downgrade[w][i])
<1>1. \A i \in DOMAIN Downgrade[1] : FALSE
  BY DEF Downgrade
<1>2. \A i \in DOMAIN Downgrade[2] : \E table, referred : Downgrade[2][i] = DropTable(table, referred)
  <2>1. DOMAIN Downgrade[2] = 1 .. 9
    BY DEF Downgrade, DropTransportation
  <2>2. \A i \in 1 .. 9 :
          i = 1 \/ i = 2 \/ i = 3 \/ i = 4 \/ i = 5 \/ i = 6 \/ i = 7 \/ i = 8 \/ i = 9
    OBVIOUS
  <2>3. Downgrade[2] = DropTransportation
    BY DEF Downgrade
  <2>4. /\ DropTransportation[1] = DropTable("assignments", {"vehicles", "routes", "calendars"})
        /\ DropTransportation[2] = DropTable("vehicles", {})
        /\ DropTransportation[3] = DropTable("calendars", {})
        /\ DropTransportation[4] = DropTable("route_stops", {"routes", "stops"})
        /\ DropTransportation[5] = DropTable("routes", {})
        /\ DropTransportation[6] = DropTable("stops", {})
        /\ DropTransportation[7] = DropTable("segments", {"roads", "intersections"})
        /\ DropTransportation[8] = DropTable("roads", {})
        /\ DropTransportation[9] = DropTable("intersections", {})
    BY DEF DropTransportation
  <2> QED
    BY <2>1, <2>2, <2>3, <2>4
<1>3. \A i \in DOMAIN Downgrade[3] : Careful(Downgrade[3][i])
  <2>1. DOMAIN Downgrade[3] = 1 .. 4
    BY DEF Downgrade, UnsplitWays
  <2>2. /\ Downgrade[3][1] = Lift("roads", "key") /\ Downgrade[3][2] = Lift("segments", "key_seq")
        /\ Downgrade[3][3] = Constrain("segments", "key") /\ Downgrade[3][4] = DropColumns
    BY DEF Downgrade, UnsplitWays
  <2>3. \A i \in 1 .. 4 : i = 1 \/ i = 2 \/ i = 3 \/ i = 4
    OBVIOUS
  <2> QED
    BY <2>1, <2>2, <2>3, CarefulStatements, CarefulIsWith
<1>4. \A i \in DOMAIN Downgrade[4] : \E table, referred : Downgrade[4][i] = DropTable(table, referred)
  <2>1. DOMAIN Downgrade[4] = 1 .. 1
    BY DEF Downgrade
  <2>2. Downgrade[4][1] = DropTable("telemetry", {"vehicles", "segments"})
    BY DEF Downgrade
  <2> QED
    BY <2>1, <2>2
<1>5. \A table, referred : Careful(DropTable(table, referred))
  BY CarefulStatements, CarefulIsWith
<1>6. \A w \in 1 .. HeadRevision : w = 1 \/ w = 2 \/ w = 3 \/ w = 4
  BY DEF HeadRevision
<1> QED
  BY <1>1, <1>2, <1>3, <1>4, <1>5, <1>6

\* Each revision's statements are a sequence.
LEMMA Scripts ==
  \A w \in 1 .. HeadRevision :
    /\ Upgrade[w] \in Seq({Upgrade[w][i] : i \in DOMAIN Upgrade[w]})
    /\ Downgrade[w] \in Seq({Downgrade[w][i] : i \in DOMAIN Downgrade[w]})
<1>1. \A w \in 1 .. HeadRevision : w = 1 \/ w = 2 \/ w = 3 \/ w = 4
  BY DEF HeadRevision
<1>2. \A X, s : s \in Seq(X) => s \in Seq({s[i] : i \in DOMAIN s})
  OBVIOUS
<1>3. \A w \in 1 .. HeadRevision : \E X : Upgrade[w] \in Seq(X)
  <2>1. <<>> \in Seq({})
    OBVIOUS
  <2>2. \A a, b, c : <<a, b, c>> \in Seq({a, b, c})
    OBVIOUS
  <2>3. \A a, b, c, d : <<a, b, c, d>> \in Seq({a, b, c, d})
    OBVIOUS
  <2>4. \A a : <<a>> \in Seq({a})
    OBVIOUS
  <2>5. \E X : Upgrade[1] \in Seq(X)
    BY <2>1 DEF Upgrade
  <2>6. \E X : Upgrade[2] \in Seq(X)
    BY <2>2 DEF Upgrade
  <2>7. \E X : Upgrade[3] \in Seq(X)
    BY <2>3 DEF Upgrade, SplitWays
  <2>8. \E X : Upgrade[4] \in Seq(X)
    BY <2>4 DEF Upgrade
  <2> QED
    BY <1>1, <2>5, <2>6, <2>7, <2>8
<1>4. \A w \in 1 .. HeadRevision : \E X : Downgrade[w] \in Seq(X)
  <2>1. <<>> \in Seq({})
    OBVIOUS
  <2>2. \A a, b, c, d : <<a, b, c, d>> \in Seq({a, b, c, d})
    OBVIOUS
  <2>3. \A a : <<a>> \in Seq({a})
    OBVIOUS
  <2>4. \A a, b, c, d, e, f, g, h, i :
          <<a, b, c, d, e, f, g, h, i>> \in Seq({a, b, c, d, e, f, g, h, i})
    OBVIOUS
  <2>5. \E X : Downgrade[1] \in Seq(X)
    BY <2>1 DEF Downgrade
  <2>6. \E X : Downgrade[2] \in Seq(X)
    BY <2>4 DEF Downgrade, DropTransportation
  <2>7. \E X : Downgrade[3] \in Seq(X)
    BY <2>2 DEF Downgrade, UnsplitWays
  <2>8. \E X : Downgrade[4] \in Seq(X)
    BY <2>3 DEF Downgrade
  <2> QED
    BY <1>1, <2>5, <2>6, <2>7, <2>8
<1> QED
  BY <1>2, <1>3, <1>4
-----------------------------------------------------------------------------
(* Alembic keeps the invariant *)

LEMMA Sizes ==
  /\ \A p \in Seeders : Program(p) = SeedProgram /\ Len(Program(p)) = 9
  /\ \A p \in Importers : Program(p) = ImportProgram /\ Len(Program(p)) = 3
  /\ \A p \in Clients : Len(Program(p)) \in Nat
<1>1. \A p \in Importers : p \notin Seeders
  BY ProcessesDiffer
<1> QED
  BY <1>1, SeedSteps, ImportSteps DEF Program, Clients

\* A client that does not step sees its part of the invariant kept, if what it
\* has written still has its place and what it has found is still there.
LEMMA ClientKept ==
  ASSUME NEW q \in Clients, ClientInv(q), at[q] \in Nat,
         at'[q] = at[q], wrote'[q] = wrote[q], extract'[q] = extract[q], run'[q] = run[q],
         held'[q] = held[q], held[q] \cap held'[Alembic] = {},
         runs \in Nat, runs' \in Nat, runs <= runs',
         \A x \in wrote[q] : x.table \in schema'.tables /\ (x.seq # None => schema'.way_seq),
         /\ "intersections" \in held[q]
         /\ \E x \in rows : x.table = "intersections" /\ x.key = "DEV"
         => \E x \in rows' : x.table = "intersections" /\ x.key = "DEV"
  PROVE  ClientInv(q)'
<1>1. (~Running(q) => wrote[q] = {} /\ held[q] = {})'
  BY DEF ClientInv, Running
<1>2. (Running(q) => run[q] \in 1 .. runs)'
  <2>1. SUFFICES ASSUME Running(q)' PROVE (run[q] \in 1 .. runs)'
    OBVIOUS
  <2>2. run[q] \in 1 .. runs
    BY <2>1 DEF ClientInv, Running
  <2> QED
    BY <2>2
<1>3. (held[q] \cap held[Alembic] = {})'
  OBVIOUS
<1>4. WritesHeld(q)'
  <2>1. SUFFICES ASSUME NEW x \in wrote[q]
                 PROVE  /\ IsRow(x) /\ x.table \in held[q] \cap schema'.tables
                        /\ x.seq # None => x.table = "segments" /\ schema'.way_seq
    BY DEF WritesHeld
  <2>2. WritesHeld(q)
    BY DEF ClientInv
  <2>3. /\ IsRow(x) /\ x.table \in held[q] \cap schema.tables
        /\ x.seq # None => x.table = "segments" /\ schema.way_seq
    BY <2>2 DEF WritesHeld
  <2> QED
    BY <2>3
<1>5. CASE q \in Seeders
  <2>1. SeedInv(q)
    BY <1>5 DEF ClientInv
  <2>2. CASE ~(at[q] > 0)
    <3>1. SeedInv(q)'
      BY <2>2 DEF SeedInv
    <3> QED
      BY <1>1, <1>2, <1>3, <1>4, <1>5, <3>1 DEF ClientInv
  <2>3. CASE at[q] > 0
    <3>1. at[q] > 2 => "intersections" \in held[q]
      BY <2>1, <2>3 DEF SeedInv
    <3>2. CASE wrote[q] = {Fixture(t, run[q]) : t \in Placed(at[q])}
      <4>1. SeedInv(q)'
        BY <3>1, <3>2 DEF SeedInv, Placed
      <4> QED
        BY <1>1, <1>2, <1>3, <1>4, <1>5, <4>1 DEF ClientInv
    <3>3. CASE /\ at[q] > 3
               /\ wrote[q] = {Fixture(t, run[q]) : t \in Placed(at[q]) \ {"intersections"}}
               /\ \E x \in rows : x.table = "intersections" /\ x.key = "DEV"
      <4>1. "intersections" \in held[q]
        BY <3>1, <3>3
      <4>2. \E x \in rows' : x.table = "intersections" /\ x.key = "DEV"
        BY <3>3, <4>1
      <4>3. SeedInv(q)'
        BY <3>1, <3>3, <4>2 DEF SeedInv, Placed
      <4> QED
        BY <1>1, <1>2, <1>3, <1>4, <1>5, <4>3 DEF ClientInv
    <3> QED
      BY <2>1, <2>3, <3>2, <3>3 DEF SeedInv
  <2> QED
    BY <2>2, <2>3
<1>6. CASE q \notin Seeders
  <2>1. ImportInv(q)
    BY <1>6 DEF ClientInv
  <2>2. ImportInv(q)'
    BY <2>1 DEF ImportInv, AtEnd, Program
  <2> QED
    BY <1>1, <1>2, <1>3, <1>4, <1>6, <2>2 DEF ClientInv
<1> QED
  BY <1>5, <1>6
LEMMA Counts ==
  ASSUME Shape
  PROVE  runs \in Nat /\ \A p \in Clients : at[p] \in Nat
BY Sizes DEF Shape

LEMMA KeptByAlembic ==
  ASSUME DeploymentInv, UNCHANGED <<client, schema, rows>>,
         \A q \in Clients : held'[q] = held[q] /\ held[q] \cap held'[Alembic] = {}
  PROVE  \A q \in Clients : ClientInv(q)'
<1> SUFFICES ASSUME NEW q \in Clients PROVE ClientInv(q)'
  OBVIOUS
<1>1. ClientInv(q) /\ runs \in Nat /\ at[q] \in Nat
  BY Counts DEF DeploymentInv
<1>2. /\ at'[q] = at[q] /\ wrote'[q] = wrote[q] /\ extract'[q] = extract[q] /\ run'[q] = run[q]
      /\ runs' = runs /\ schema' = schema /\ rows' = rows
  BY DEF client
<1>3. \A x \in wrote[q] : x.table \in schema'.tables /\ (x.seq # None => schema'.way_seq)
  BY <1>1, <1>2 DEF ClientInv, WritesHeld
<1>4. runs' \in Nat /\ runs <= runs'
  BY <1>1, <1>2
<1>5. held'[q] = held[q] /\ held[q] \cap held'[Alembic] = {}
  OBVIOUS
<1>6. (\E x \in rows : x.table = "intersections" /\ x.key = "DEV")
        => \E x \in rows' : x.table = "intersections" /\ x.key = "DEV"
  BY <1>2
<1> QED
  BY <1>1, <1>2, <1>3, <1>4, <1>5, <1>6, ClientKept

\* A step of Alembic before it commits.
LEMMA AlembicKeeps ==
  ASSUME DeploymentInv, UNCHANGED <<catalog, rows, client>>, MigrationInv',
         held' = [q \in Processes |-> held'[q]],
         \A q \in Clients : held'[q] = held[q] /\ held[q] \cap held'[Alembic] = {}
  PROVE  DeploymentInv'
<1>1. /\ version' = version /\ schema' = schema /\ forgotten' = forgotten /\ rows' = rows
      /\ at' = at /\ wrote' = wrote /\ extract' = extract /\ run' = run /\ result' = result
      /\ runs' = runs
  BY DEF catalog, client
<1>2. Shape'
  <2>1. Shape
    BY DEF DeploymentInv
  <2>2. \A p : Program(p)' = Program(p)
    BY DEF Program
  <2> QED
    BY <1>1, <2>1, <2>2 DEF Shape
<1>3. RowsInv'
  BY <1>1 DEF DeploymentInv, RowsInv
<1>4. Compatible'
  BY <1>1 DEF DeploymentInv, Compatible
<1>5. SchemaFollowsVersion' /\ ConstraintsHold' /\ FixturesWholeAndOnce'
  BY <1>1 DEF DeploymentInv, SchemaFollowsVersion, ConstraintsHold, FixturesWholeAndOnce
<1>6. \A q \in Clients : ClientInv(q)'
  BY KeptByAlembic DEF catalog
<1> QED
  BY <1>2, <1>3, <1>4, <1>5, <1>6 DEF DeploymentInv

LEMMA AlembicApart == \A q \in Clients : q # Alembic /\ q \in Processes
BY ProcessesDiffer DEF Clients, Processes

LEMMA StartMigrationKeeps ==
  ASSUME DeploymentInv, StartMigration
  PROVE  DeploymentInv'
<1>1. PICK to \in (0 .. HeadRevision) \ {version} :
        target' = to /\ (to > version => to = HeadRevision)
  BY DEF StartMigration
<1>2. /\ ~Migrates /\ draft' = schema /\ revision' = version
      /\ UNCHANGED <<catalog, rows, client>> /\ script' = script /\ held' = held
      /\ schema' = schema /\ version' = version /\ rows' = rows
  BY DEF StartMigration, catalog
<1>3. script = <<>> /\ held[Alembic] = {}
  BY <1>2 DEF DeploymentInv, MigrationInv
<1>4. Migrates'
  BY <1>1 DEF Migrates, None, HeadRevision
<1>5. version \in 0 .. HeadRevision /\ version \in Int /\ to \in Int
  BY <1>1 DEF DeploymentInv, Shape, HeadRevision
<1>6. (revision \in version .. target \/ revision \in target .. version)'
  BY <1>1, <1>2, <1>5
<1>7. (script \in Seq({script[i] : i \in DOMAIN script}))'
  BY <1>2, <1>3
<1>8. (\A i \in DOMAIN script : Careful(script[i]))'
  BY <1>2, <1>3
<1>9. Migrated(draft', script') = SchemaOf[revision']
  <2>1. schema = SchemaOf[version]
    BY DEF DeploymentInv, SchemaFollowsVersion
  <2> QED
    BY <1>2, <1>3, <2>1, MigratedNothing
<1>10. \A u \in schema.unique : \A x, y \in rows : x # y => ~Collide(x, y, u)
  BY DEF DeploymentInv, ConstraintsHold
<1>11. MigrationInv'
  BY <1>1, <1>2, <1>3, <1>4, <1>6, <1>7, <1>8, <1>9, <1>10 DEF MigrationInv
<1>12. held' = [q \in Processes |-> held'[q]]
  BY <1>2 DEF DeploymentInv, Shape
<1>13. \A q \in Clients : held'[q] = held[q] /\ held[q] \cap held'[Alembic] = {}
  BY <1>2, <1>3
<1> QED
  BY <1>2, <1>11, <1>12, <1>13, AlembicKeeps

LEMMA NextRevisionKeeps ==
  ASSUME DeploymentInv, NextRevision
  PROVE  DeploymentInv'
<1>1. /\ Migrates /\ script = <<>>
      /\ UNCHANGED <<catalog, rows, client>> /\ draft' = draft /\ target' = target /\ held' = held
      /\ schema' = schema /\ version' = version /\ rows' = rows
  BY DEF NextRevision, catalog
<1>2. /\ target \in 0 .. HeadRevision
      /\ revision \in version .. target \/ revision \in target .. version
      /\ Migrated(draft, script) = SchemaOf[revision]
      /\ schema.tables \ draft.tables \subseteq held[Alembic]
      /\ schema.way_seq /\ ~draft.way_seq => "segments" \in held[Alembic]
      /\ \A u \in draft.unique \ schema.unique :
           u.table \in held[Alembic] \/ u.table \notin schema.tables
      /\ \A u \in draft.unique : \A x, y \in rows : x # y => ~Collide(x, y, u)
  BY <1>1 DEF DeploymentInv, MigrationInv
<1>3. version \in 0 .. HeadRevision /\ schema = SchemaOf[version]
  BY DEF DeploymentInv, Shape, SchemaFollowsVersion
<1>4. draft = SchemaOf[revision]
  BY <1>1, <1>2, MigratedNothing
<1>5. /\ (revision \in version .. target \/ revision \in target .. version)'
      /\ (script \in Seq({script[i] : i \in DOMAIN script}))'
      /\ (\A i \in DOMAIN script : Careful(script[i]))'
      /\ Migrated(draft', script') = SchemaOf[revision']
  <2>1. CASE revision < target /\ revision' = revision + 1 /\ script' = Upgrade[revision + 1]
    <3>1. /\ revision \in Int /\ version <= revision /\ revision + 1 <= target
          /\ revision + 1 \in 1 .. HeadRevision /\ version < revision + 1
          /\ revision + 1 \in version .. target
      BY <1>2, <1>3, <2>1 DEF HeadRevision
    <3>2. PICK w : w = revision + 1
      OBVIOUS
    <3>3. script' \in Seq({script'[i] : i \in DOMAIN script'})
      BY <2>1, <3>1, <3>2, Scripts
    <3>4. \A i \in DOMAIN script' : CarefulWith(script'[i], schema'.tables)
      <4>1. \A i \in DOMAIN Upgrade[w] : CarefulWith(Upgrade[w][i], SchemaOf[version].tables)
        BY <1>3, <3>1, <3>2, UpgradesCareful
      <4> QED
        BY <1>1, <1>3, <2>1, <3>2, <4>1
    <3>5. \A i \in DOMAIN script' : Careful(script[i])'
      BY <3>4 DEF CarefulWith, Careful
    <3>6. Migrated(draft, Upgrade[w]) = SchemaOf[w]
      <4>1. w \in 0 .. HeadRevision /\ w # 0 /\ w - 1 = revision
        BY <3>1, <3>2 DEF HeadRevision
      <4>2. SchemaOf[w] = Migrated(SchemaOf[w - 1], Upgrade[w])
        BY <4>1, SchemaOfVersion
      <4> QED
        BY <1>4, <4>1, <4>2
    <3> QED
      BY <1>1, <2>1, <3>1, <3>2, <3>3, <3>5, <3>6
  <2>2. CASE revision > target /\ revision' = revision - 1 /\ script' = Downgrade[revision]
    <3>1. /\ revision \in 1 .. HeadRevision /\ revision - 1 \in target .. version
      BY <1>2, <1>3, <2>2 DEF HeadRevision
    <3>2. script' \in Seq({script'[i] : i \in DOMAIN script'})
      BY <2>2, <3>1, Scripts
    <3>3. \A i \in DOMAIN script' : CarefulWith(script'[i], schema'.tables)
      BY <1>1, <2>2, <3>1, DowngradesCareful, CarefulIsWith
    <3>4. \A i \in DOMAIN script' : Careful(script[i])'
      BY <3>3 DEF CarefulWith, Careful
    <3>5. Migrated(draft, Downgrade[revision]) = SchemaOf[revision - 1]
      BY <1>4, <3>1, DowngradesUndo
    <3> QED
      BY <1>1, <2>2, <3>1, <3>2, <3>4, <3>5
  <2> QED
    BY <2>1, <2>2 DEF NextRevision
<1>6. Migrates'
  BY <1>1 DEF Migrates
<1>7. MigrationInv'
  BY <1>1, <1>2, <1>5, <1>6 DEF MigrationInv
<1>8. held' = [q \in Processes |-> held'[q]]
  BY <1>1 DEF DeploymentInv, Shape
<1>9. \A q \in Clients : held'[q] = held[q] /\ held[q] \cap held'[Alembic] = {}
  BY <1>1 DEF DeploymentInv, ClientInv
<1> QED
  BY <1>1, <1>7, <1>8, <1>9, AlembicKeeps

\* A sequence is one of its own elements.
LEMMA OwnElements ==
  ASSUME NEW X, NEW s \in Seq(X)
  PROVE  s \in Seq({s[i] : i \in DOMAIN s})
OBVIOUS

LEMMA MigrateKeeps ==
  ASSUME DeploymentInv, Migrate
  PROVE  DeploymentInv'
<1>1. PICK statement : statement = Head(script)
  OBVIOUS
<1>2. /\ Migrates /\ script # <<>> /\ Proceeds(Alembic) /\ ~Refused(statement)
      /\ held' = [held EXCEPT ![Alembic] = @ \cup statement.locks]
      /\ draft' = Changed(draft, statement) /\ script' = Tail(script)
      /\ UNCHANGED <<catalog, rows, client>> /\ target' = target /\ revision' = revision
      /\ schema' = schema /\ version' = version /\ rows' = rows
  BY <1>1 DEF Migrate, catalog
<1>3. /\ target \in 0 .. HeadRevision
      /\ revision \in version .. target \/ revision \in target .. version
      /\ script \in Seq({script[i] : i \in DOMAIN script})
      /\ \A i \in DOMAIN script : Careful(script[i])
      /\ Migrated(draft, script) = SchemaOf[revision]
      /\ schema.tables \ draft.tables \subseteq held[Alembic]
      /\ schema.way_seq /\ ~draft.way_seq => "segments" \in held[Alembic]
      /\ \A u \in draft.unique \ schema.unique :
           u.table \in held[Alembic] \/ u.table \notin schema.tables
      /\ \A u \in draft.unique : \A x, y \in rows : x # y => ~Collide(x, y, u)
  BY <1>2 DEF DeploymentInv, MigrationInv
<1>4. /\ held'[Alembic] = held[Alembic] \cup statement.locks
      /\ \A q \in Clients : held'[q] = held[q]
      /\ held' = [q \in Processes |-> held'[q]]
  <2>1. held = [q \in Processes |-> held[q]]
    BY DEF DeploymentInv, Shape
  <2>2. Alembic \in Processes
    BY DEF Processes
  <2> QED
    BY <1>2, <2>1, <2>2, AlembicApart
<1>5. \A q \in Clients : held[q] \cap held'[Alembic] = {}
  <2>1. \A q \in Clients : held[q] \cap held[Alembic] = {}
    BY DEF DeploymentInv, ClientInv
  <2>2. \A q \in Clients : held[q] \cap statement.locks = {}
    BY <1>1, <1>2 DEF Proceeds, Blockers
  <2> QED
    BY <1>4, <2>1, <2>2
<1>6. Careful(statement)
  <2>1. 1 \in DOMAIN script /\ Head(script) = script[1]
    BY <1>2, <1>3
  <2> QED
    BY <1>1, <1>3, <2>1
<1>7. /\ (script \in Seq({script[i] : i \in DOMAIN script}))'
      /\ (\A i \in DOMAIN script : Careful(script[i]))'
  <2>1. PICK X : script \in Seq(X)
    BY <1>3
  <2>2. Tail(script) \in Seq(X) /\ \A i \in DOMAIN Tail(script) : i + 1 \in DOMAIN script /\ Tail(script)[i] = script[i + 1]
    BY <1>2, <2>1
  <2>3. Tail(script) \in Seq({Tail(script)[i] : i \in DOMAIN Tail(script)})
    <3>1. \A t \in Seq(X) : t \in Seq({t[i] : i \in DOMAIN t})
      <4> TAKE t \in Seq(X)
      <4> QED
        BY OwnElements
    <3>2. Tail(script) \in Seq(X)
      BY <2>2
    <3> QED
      BY <3>1, <3>2, Zenon
  <2>4. \A i \in DOMAIN script' : CarefulWith(script'[i], schema'.tables)
    <3>1. \A i \in DOMAIN script : CarefulWith(script[i], schema.tables)
      BY <1>3, CarefulIsWith
    <3> QED
      BY <1>2, <2>2, <3>1
  <2>5. \A i \in DOMAIN script' : Careful(script[i])'
    BY <2>4 DEF CarefulWith, Careful
  <2> QED
    BY <1>2, <2>3, <2>5
<1>8. Migrated(draft', script') = SchemaOf[revision']
  <2>1. PICK X : script \in Seq(X)
    BY <1>3
  <2>2. Migrated(draft, script) = Migrated(Changed(draft, Head(script)), Tail(script))
    BY <1>2, <2>1, MigratedStep
  <2> QED
    BY <1>1, <1>2, <1>3, <2>2
<1>9. /\ draft'.tables = (draft.tables \ statement.drop) \cup statement.create
      /\ \A u \in draft'.unique : u \in draft.unique \/ u \in statement.constrain
      /\ ~draft'.way_seq =>
           ~draft.way_seq \/ statement.column = "drop" \/ "segments" \in statement.drop
  BY <1>2 DEF Changed
<1>10. /\ schema.tables \ draft'.tables \subseteq held'[Alembic]
       /\ schema.way_seq /\ ~draft'.way_seq => "segments" \in held'[Alembic]
  BY <1>3, <1>4, <1>6, <1>9 DEF Careful
<1>11. \A u \in draft'.unique \ schema.unique :
         u.table \in held'[Alembic] \/ u.table \notin schema.tables
  BY <1>3, <1>4, <1>6, <1>9 DEF Careful
<1>12. \A u \in draft'.unique : \A x, y \in rows : x # y => ~Collide(x, y, u)
  BY <1>2, <1>3, <1>9 DEF Refused
<1>13. Migrates'
  BY <1>2 DEF Migrates
<1>14. MigrationInv'
  BY <1>2, <1>3, <1>7, <1>8, <1>10, <1>11, <1>12, <1>13 DEF MigrationInv
<1> QED
  BY <1>2, <1>4, <1>5, <1>14, AlembicKeeps

LEMMA MigrationFailsKeeps ==
  ASSUME DeploymentInv, MigrationFails
  PROVE  DeploymentInv'
<1>1. /\ UNCHANGED <<catalog, rows, client>> /\ script' = <<>> /\ target' = None
      /\ held' = [held EXCEPT ![Alembic] = {}]
  BY DEF MigrationFails, StopMigrating
<1>2. /\ held'[Alembic] = {} /\ \A q \in Clients : held'[q] = held[q]
      /\ held' = [q \in Processes |-> held'[q]]
  <2>1. held = [q \in Processes |-> held[q]]
    BY DEF DeploymentInv, Shape
  <2>2. Alembic \in Processes
    BY DEF Processes
  <2> QED
    BY <1>1, <2>1, <2>2, AlembicApart
<1>3. MigrationInv'
  BY <1>1, <1>2 DEF MigrationInv, Migrates
<1>4. \A q \in Clients : held[q] \cap held'[Alembic] = {}
  BY <1>2
<1> QED
  BY <1>1, <1>2, <1>3, <1>4, AlembicKeeps
\* A commit finds the draft to be the schema of the target.
LEMMA CommitMigrationKeeps ==
  ASSUME DeploymentInv, CommitMigration
  PROVE  DeploymentInv'
<1>1. /\ Migrates /\ script = <<>> /\ revision = target
      /\ version' = target /\ schema' = draft /\ rows' = Surviving
      /\ forgotten' = (Surviving # {} /\ (forgotten \/ Surviving # rows))
      /\ draft' = Empty /\ script' = <<>> /\ target' = None
      /\ held' = [held EXCEPT ![Alembic] = {}]
      /\ at' = at /\ wrote' = wrote /\ extract' = extract /\ run' = run /\ result' = result
      /\ runs' = runs
  BY DEF CommitMigration, StopMigrating, client
<1>2. /\ target \in 0 .. HeadRevision
      /\ Migrated(draft, script) = SchemaOf[revision]
      /\ schema.tables \ draft.tables \subseteq held[Alembic]
      /\ schema.way_seq /\ ~draft.way_seq => "segments" \in held[Alembic]
      /\ \A u \in draft.unique \ schema.unique :
           u.table \in held[Alembic] \/ u.table \notin schema.tables
      /\ \A u \in draft.unique : \A x, y \in rows : x # y => ~Collide(x, y, u)
  BY <1>1 DEF DeploymentInv, MigrationInv
<1>3. draft = SchemaOf[target]
  BY <1>1, <1>2, MigratedNothing
<1>4. /\ held'[Alembic] = {} /\ \A q \in Clients : held'[q] = held[q]
      /\ held' = [q \in Processes |-> held'[q]]
  <2>1. held = [q \in Processes |-> held[q]]
    BY DEF DeploymentInv, Shape
  <2>2. Alembic \in Processes
    BY DEF Processes
  <2> QED
    BY <1>1, <2>1, <2>2, AlembicApart
<1>5. \A x \in rows : IsRow(x) /\ x.table \in schema.tables
  BY DEF DeploymentInv, RowsInv, SchemaFollowsVersion
\* A row that survives comes from one that was there.
<1>6. \A z \in rows' : \E x \in rows :
        /\ x.table \in draft.tables /\ IsRow(x) /\ IsRow(z)
        /\ z.table = x.table /\ z.key = x.key /\ z.by = x.by
        /\ draft.way_seq => z = x
        /\ ~draft.way_seq => z.seq = None
  <2>1. SUFFICES ASSUME NEW z \in Surviving
                 PROVE  \E x \in rows :
                          /\ x.table \in draft.tables /\ IsRow(x) /\ IsRow(z)
                          /\ z.table = x.table /\ z.key = x.key /\ z.by = x.by
                          /\ draft.way_seq => z = x
                          /\ ~draft.way_seq => z.seq = None
    BY <1>1
  <2>2. PICK x \in rows : /\ x.table \in draft.tables
                          /\ z = IF draft.way_seq THEN x ELSE [x EXCEPT !.seq = None]
    BY DEF Surviving
  <2>3. x = [table |-> x.table, key |-> x.key, seq |-> x.seq, by |-> x.by]
    BY <1>5 DEF IsRow
  <2>4. [x EXCEPT !.seq = None] = [table |-> x.table, key |-> x.key, seq |-> None, by |-> x.by]
    BY <2>3
  <2>5. CASE draft.way_seq
    BY <1>5, <2>2, <2>5
  <2>6. CASE ~draft.way_seq
    <3>1. z = [table |-> x.table, key |-> x.key, seq |-> None, by |-> x.by]
      BY <2>2, <2>4, <2>6
    <3>2. z.table = x.table /\ z.key = x.key /\ z.by = x.by /\ z.seq = None
      BY <3>1
    <3>3. IsRow(z)
      BY <3>1, <3>2 DEF IsRow
    <3> QED
      BY <1>5, <2>2, <2>6, <3>2, <3>3
  <2> QED
    BY <2>5, <2>6
<1>7. \A x \in rows : x.table \in draft.tables =>
        IF draft.way_seq THEN x \in rows' ELSE [x EXCEPT !.seq = None] \in rows'
  BY <1>1 DEF Surviving
<1>8. Shape'
  <2>1. Shape
    BY DEF DeploymentInv
  <2>2. \A p : Program(p)' = Program(p)
    BY DEF Program
  <2> QED
    BY <1>1, <1>2, <1>4, <2>1, <2>2 DEF Shape
<1>9. MigrationInv'
  BY <1>1, <1>4 DEF MigrationInv, Migrates
<1>10. SchemaFollowsVersion'
  BY <1>1, <1>3, <1>6 DEF SchemaFollowsVersion
<1>11. ConstraintsHold'
  <2>1. SUFFICES ASSUME NEW u \in draft.unique, NEW z1 \in rows', NEW z2 \in rows', z1 # z2,
                        Collide(z1, z2, u)
                 PROVE  FALSE
    BY <1>1 DEF ConstraintsHold
  <2>2. CASE draft.way_seq
    <3>1. z1 \in rows /\ z2 \in rows
      BY <1>6, <2>2
    <3> QED
      BY <1>2, <2>1, <3>1
  <2>3. CASE ~draft.way_seq
    <3>1. PICK x1 \in rows : z1.table = x1.table /\ z1.key = x1.key /\ z1.by = x1.by
                             /\ z1.seq = None /\ IsRow(x1) /\ IsRow(z1)
      BY <1>6, <2>3
    <3>2. PICK x2 \in rows : z2.table = x2.table /\ z2.key = x2.key /\ z2.by = x2.by
                             /\ z2.seq = None /\ IsRow(x2) /\ IsRow(z2)
      BY <1>6, <2>3
    <3>3. u.on # "key_seq"
      BY <2>1, <3>1 DEF Collide
    <3>4. Collide(x1, x2, u)
      BY <2>1, <3>1, <3>2, <3>3 DEF Collide
    <3>5. x1 = x2
      BY <1>2, <3>4
    <3>6. z1 = z2
      BY <3>1, <3>2, <3>5 DEF IsRow
    <3> QED
      BY <2>1, <3>6
  <2> QED
    BY <2>2, <2>3
<1>12. RowsInv'
  <2>1. SUFFICES ASSUME NEW z \in rows'
                 PROVE  /\ IsRow(z)
                        /\ z.table = "segments" /\ z.key # "DEV" /\ ~forgotten' => z.seq # None
    BY DEF RowsInv
  <2>2. IsRow(z)
    BY <1>6
  <2>3. CASE ~forgotten'
    <3>1. ~forgotten /\ rows' = rows
      BY <1>1, <2>3
    <3>2. RowsInv
      BY DEF DeploymentInv
    <3> QED
      BY <2>2, <3>1, <3>2 DEF RowsInv
  <2> QED
    BY <2>2, <2>3
<1>13. FixturesWholeAndOnce'
  <2> DEFINE there == {x \in rows : x.key = "DEV"}
             later == {x \in rows' : x.key = "DEV"}
  <2>1. there = {} \/ \E n \in 1 .. runs : there = {Fixture(t, n) : t \in SeedTables}
    BY DEF DeploymentInv, FixturesWholeAndOnce
  <2>2. CASE there = {} \/ draft.tables = {}
    <3>1. later = {}
      BY <1>6, <2>2
    <3> QED
      BY <3>1 DEF FixturesWholeAndOnce
  <2>3. CASE there # {} /\ draft.tables # {}
    <3>1. PICK n \in 1 .. runs : there = {Fixture(t, n) : t \in SeedTables}
      BY <2>1, <2>3
    <3>2. SeedTables \subseteq draft.tables
      BY <1>2, <1>3, <2>3, SchemasSound DEF Sound
    <3>3. \A t : /\ Fixture(t, n).table = t /\ Fixture(t, n).key = "DEV"
                 /\ Fixture(t, n).seq = None /\ Fixture(t, n).by = n /\ IsRow(Fixture(t, n))
                 /\ [Fixture(t, n) EXCEPT !.seq = None] = Fixture(t, n)
      BY DEF Fixture, IsRow
    <3>4. \A t \in SeedTables : Fixture(t, n) \in rows'
      <4>1. \A t \in SeedTables : Fixture(t, n) \in rows
        BY <3>1
      <4> QED
        BY <1>7, <3>2, <3>3, <4>1
    <3>5. \A t \in SeedTables : Fixture(t, n) \in later
      BY <3>3, <3>4
    <3>6. ASSUME NEW z \in later PROVE z \in {Fixture(t, n) : t \in SeedTables}
      <4>1. PICK x \in rows : /\ IsRow(x) /\ IsRow(z)
                              /\ z.table = x.table /\ z.key = x.key /\ z.by = x.by
                              /\ draft.way_seq => z = x
                              /\ ~draft.way_seq => z.seq = None
        BY <1>6
      <4>2. x \in there
        BY <4>1
      <4>3. PICK t \in SeedTables : x = Fixture(t, n)
        BY <3>1, <4>2
      <4>4. z.seq = None
        BY <3>3, <4>1, <4>3
      <4>5. z = x
        BY <3>3, <4>1, <4>3, <4>4 DEF IsRow
      <4> QED
        BY <4>3, <4>5
    <3>7. later = {Fixture(t, n) : t \in SeedTables}
      BY <3>5, <3>6
    <3> QED
      BY <1>1, <3>7 DEF FixturesWholeAndOnce, SeedTables
  <2> QED
    BY <2>2, <2>3
\* What a client has written or found, it has locked, and no draft touched it.
<1>14. ASSUME NEW q \in Clients, NEW x \in wrote[q]
       PROVE  /\ IsRow(x) /\ x.table \in held[q] /\ x.table \in schema.tables
              /\ x.table \in draft.tables /\ x.table \notin held[Alembic]
              /\ x.seq # None => x.table = "segments" /\ schema.way_seq /\ draft.way_seq
  <2>1. WritesHeld(q) /\ held[q] \cap held[Alembic] = {}
    BY DEF DeploymentInv, ClientInv
  <2>2. /\ IsRow(x) /\ x.table \in held[q] /\ x.table \in schema.tables
        /\ x.seq # None => x.table = "segments" /\ schema.way_seq
    BY <2>1 DEF WritesHeld
  <2> QED
    BY <1>2, <2>1, <2>2
<1>15. Compatible'
  <2>1. SUFFICES ASSUME NEW u \in draft.unique, NEW p \in Clients, NEW x \in wrote[p]
                 PROVE  /\ \A z \in rows' : ~Collide(x, z, u)
                        /\ \A y \in wrote[p] : x # y => ~Collide(x, y, u)
                        /\ \A q \in Clients \ {p} : \A y \in wrote[q] : ~Collide(x, y, u)
    BY <1>1 DEF Compatible
  <2>2. CASE u.table # x.table
    BY <2>2 DEF Collide
  <2>3. CASE u.table = x.table
    <3>1. u \in schema.unique
      BY <1>2, <1>14, <2>3
    <3>2. /\ \A y \in rows : ~Collide(x, y, u)
          /\ \A y \in wrote[p] : x # y => ~Collide(x, y, u)
          /\ \A q \in Clients \ {p} : \A y \in wrote[q] : ~Collide(x, y, u)
      BY <3>1 DEF DeploymentInv, Compatible
    <3>3. ASSUME NEW z \in rows', Collide(x, z, u) PROVE FALSE
      <4>1. PICK y \in rows : /\ z.table = y.table /\ z.key = y.key
                              /\ draft.way_seq => z = y
                              /\ ~draft.way_seq => z.seq = None
        BY <1>6
      <4>2. ~draft.way_seq
        BY <3>2, <3>3, <4>1
      <4>3. u.on # "key_seq"
        BY <3>3, <4>1, <4>2 DEF Collide
      <4>4. Collide(x, y, u)
        BY <3>3, <4>1, <4>3 DEF Collide
      <4> QED
        BY <3>2, <4>4
    <3> QED
      BY <3>2, <3>3
  <2> QED
    BY <2>2, <2>3
<1>16. ASSUME NEW q \in Clients PROVE ClientInv(q)'
  <2>1. ClientInv(q) /\ runs \in Nat /\ at[q] \in Nat
    BY Counts DEF DeploymentInv
  <2>2. held'[q] = held[q] /\ held[q] \cap held'[Alembic] = {}
    BY <1>4
  <2>3. \A x \in wrote[q] : x.table \in schema'.tables /\ (x.seq # None => schema'.way_seq)
    BY <1>1, <1>14
  <2>4. ASSUME "intersections" \in held[q],
               NEW x \in rows, x.table = "intersections" /\ x.key = "DEV"
        PROVE  \E y \in rows' : y.table = "intersections" /\ y.key = "DEV"
    <3>1. "intersections" \in draft.tables
      <4>1. held[q] \cap held[Alembic] = {}
        BY <2>1 DEF ClientInv
      <4> QED
        BY <1>2, <1>5, <2>4, <4>1
    <3>2. x = [table |-> x.table, key |-> x.key, seq |-> x.seq, by |-> x.by]
      BY <1>5 DEF IsRow
    <3>3. CASE draft.way_seq
      BY <1>7, <2>4, <3>1, <3>3
    <3>4. CASE ~draft.way_seq
      <4>1. [x EXCEPT !.seq = None] \in rows'
        BY <1>7, <2>4, <3>1, <3>4
      <4>2. [x EXCEPT !.seq = None].table = x.table /\ [x EXCEPT !.seq = None].key = x.key
        BY <3>2
      <4> QED
        BY <2>4, <4>1, <4>2
    <3> QED
      BY <3>3, <3>4
  <2>5. at'[q] = at[q] /\ wrote'[q] = wrote[q] /\ extract'[q] = extract[q] /\ run'[q] = run[q]
    BY <1>1
  <2>6. runs' \in Nat /\ runs <= runs'
    BY <1>1, <2>1
  <2>7. /\ "intersections" \in held[q]
        /\ \E x \in rows : x.table = "intersections" /\ x.key = "DEV"
        => \E x \in rows' : x.table = "intersections" /\ x.key = "DEV"
    BY <2>4
  <2> QED
    BY <2>1, <2>2, <2>3, <2>5, <2>6, <2>7, ClientKept
<1> QED
  BY <1>8, <1>9, <1>10, <1>11, <1>12, <1>13, <1>15, <1>16 DEF DeploymentInv
-----------------------------------------------------------------------------
(* Seeds and imports keep the invariant *)

\* Of the other processes, a step of a client changes nothing.
Only(p) ==
  /\ \A q \in Processes \ {p} : held'[q] = held[q]
  /\ \A q \in Clients \ {p} : at'[q] = at[q] /\ wrote'[q] = wrote[q]
                              /\ extract'[q] = extract[q] /\ run'[q] = run[q]

LEMMA OthersKept ==
  ASSUME DeploymentInv, NEW p \in Clients, UNCHANGED <<catalog, alembic>>, rows \subseteq rows',
         runs' \in Nat, runs <= runs', Only(p), ClientInv(p)'
  PROVE  \A q \in Clients : ClientInv(q)'
<1> SUFFICES ASSUME NEW q \in Clients, q # p PROVE ClientInv(q)'
  OBVIOUS
<1>1. ClientInv(q) /\ runs \in Nat /\ at[q] \in Nat
  BY Counts DEF DeploymentInv
<1>2. /\ at'[q] = at[q] /\ wrote'[q] = wrote[q] /\ extract'[q] = extract[q] /\ run'[q] = run[q]
      /\ held'[q] = held[q] /\ held'[Alembic] = held[Alembic] /\ schema' = schema
  BY AlembicApart DEF Only, catalog, Processes
<1>3. \A x \in wrote[q] : x.table \in schema'.tables /\ (x.seq # None => schema'.way_seq)
  BY <1>1, <1>2 DEF ClientInv, WritesHeld
<1>4. held[q] \cap held'[Alembic] = {}
  BY <1>1, <1>2 DEF ClientInv
<1>5. (\E x \in rows : x.table = "intersections" /\ x.key = "DEV")
        => \E x \in rows' : x.table = "intersections" /\ x.key = "DEV"
  OBVIOUS
<1> QED
  BY <1>1, <1>2, <1>3, <1>4, <1>5, ClientKept

LEMMA MigrationKept ==
  ASSUME DeploymentInv, UNCHANGED <<catalog, alembic>>, held'[Alembic] = held[Alembic],
         \A u \in draft.unique : \A x, y \in rows' : Migrates /\ x # y => ~Collide(x, y, u)
  PROVE  MigrationInv'
<1>1. /\ schema' = schema /\ version' = version /\ draft' = draft /\ script' = script
      /\ revision' = revision /\ target' = target
  BY DEF catalog, alembic
<1>2. \A i \in DOMAIN script : Careful(script[i])' <=> Careful(script[i])
  BY <1>1 DEF Careful
<1>3. MigrationInv /\ (Migrates' <=> Migrates)
  BY <1>1 DEF DeploymentInv, Migrates
<1>4. CASE Migrates
  BY <1>1, <1>2, <1>3, <1>4 DEF MigrationInv
<1>5. CASE ~Migrates
  BY <1>1, <1>3, <1>5 DEF MigrationInv
<1> QED
  BY <1>4, <1>5

\* A step of a client that writes nothing.
LEMMA QuietStepKeeps ==
  ASSUME DeploymentInv, NEW p \in Clients, UNCHANGED <<catalog, alembic, rows>>,
         runs' \in Nat, runs <= runs', Only(p), wrote'[p] \subseteq wrote[p],
         Shape', ClientInv(p)'
  PROVE  DeploymentInv'
<1>1. /\ schema' = schema /\ version' = version /\ forgotten' = forgotten /\ rows' = rows
      /\ draft' = draft /\ target' = target
  BY DEF catalog, alembic
<1>2. \A q \in Clients : ClientInv(q)'
  BY <1>1, OthersKept
<1>3. held'[Alembic] = held[Alembic]
  BY AlembicApart DEF Only, Processes
<1>4. \A u \in draft.unique : \A x, y \in rows' : Migrates /\ x # y => ~Collide(x, y, u)
  BY <1>1 DEF DeploymentInv, MigrationInv
<1>5. MigrationInv'
  BY <1>3, <1>4, MigrationKept
<1>6. RowsInv'
  BY <1>1 DEF DeploymentInv, RowsInv
<1>7. \A q \in Clients : wrote'[q] \subseteq wrote[q]
  BY DEF Only
<1>8. Compatible'
  <2>1. SUFFICES ASSUME NEW u \in schema.unique, NEW q \in Clients, NEW x \in wrote'[q]
                 PROVE  /\ \A y \in rows : ~Collide(x, y, u)
                        /\ \A y \in wrote'[q] : x # y => ~Collide(x, y, u)
                        /\ \A r \in Clients \ {q} : \A y \in wrote'[r] : ~Collide(x, y, u)
    BY <1>1 DEF Compatible
  <2>2. x \in wrote[q]
    BY <1>7
  <2>3. /\ \A y \in rows : ~Collide(x, y, u)
        /\ \A y \in wrote[q] : x # y => ~Collide(x, y, u)
        /\ \A r \in Clients \ {q} : \A y \in wrote[r] : ~Collide(x, y, u)
    BY <2>2 DEF DeploymentInv, Compatible
  <2> QED
    BY <1>7, <2>3
<1>9. SchemaFollowsVersion' /\ ConstraintsHold'
  BY <1>1 DEF DeploymentInv, SchemaFollowsVersion, ConstraintsHold
<1>10. FixturesWholeAndOnce'
  <2>1. FixturesWholeAndOnce /\ runs \in Nat
    BY Counts DEF DeploymentInv
  <2>2. \A n \in 1 .. runs : n \in 1 .. runs'
    BY <2>1
  <2> QED
    BY <1>1, <2>1, <2>2 DEF FixturesWholeAndOnce
<1> QED
  BY <1>2, <1>5, <1>6, <1>8, <1>9, <1>10 DEF DeploymentInv

LEMMA EndsFacts ==
  ASSUME DeploymentInv, NEW p \in Clients, NEW how, Ends(p, how)
  PROVE  /\ UNCHANGED <<catalog, alembic>> /\ runs' = runs /\ runs \in Nat /\ Only(p) /\ Shape'
         /\ at'[p] = 0 /\ wrote'[p] = {} /\ held'[p] = {} /\ ClientInv(p)'
<1>1. Shape
  BY DEF DeploymentInv
<1>2. /\ at' = [at EXCEPT ![p] = 0] /\ result' = [result EXCEPT ![p] = how]
      /\ wrote' = [wrote EXCEPT ![p] = {}] /\ extract' = [extract EXCEPT ![p] = {}]
      /\ held' = [held EXCEPT ![p] = {}] /\ run' = run /\ runs' = runs
      /\ UNCHANGED <<catalog, alembic>> /\ version' = version
  BY DEF Ends, catalog
<1>3. p \in Processes /\ p # Alembic /\ Alembic \in Processes
  BY AlembicApart DEF Processes
<1>4. at'[p] = 0 /\ wrote'[p] = {} /\ held'[p] = {}
  BY <1>1, <1>2, <1>3 DEF Shape
<1>5. Only(p)
  BY <1>1, <1>2 DEF Shape, Only
<1>6. Shape'
  <2>1. /\ at' = [q \in Clients |-> at'[q]] /\ wrote' = [q \in Clients |-> wrote'[q]]
        /\ extract' = [q \in Clients |-> extract'[q]] /\ run' = [q \in Clients |-> run'[q]]
        /\ result' = [q \in Clients |-> result'[q]] /\ held' = [q \in Processes |-> held'[q]]
    BY <1>1, <1>2 DEF Shape
  <2>2. ASSUME NEW q \in Clients PROVE at'[q] \in 0 .. Len(Program(q)) + 1
    <3>1. CASE q = p
      BY <1>4, <3>1, Sizes
    <3>2. CASE q # p
      BY <1>1, <1>5, <3>2 DEF Shape, Only
    <3> QED
      BY <3>1, <3>2
  <2>3. \A q : Program(q)' = Program(q)
    BY DEF Program
  <2> QED
    BY <1>1, <1>2, <2>1, <2>2, <2>3 DEF Shape
<1>7. ClientInv(p)'
  BY <1>4 DEF ClientInv, Running, WritesHeld, SeedInv, ImportInv
<1> QED
  BY <1>1, <1>2, <1>4, <1>5, <1>6, <1>7 DEF Shape

LEMMA AbortsKeeps ==
  ASSUME DeploymentInv, NEW p \in Clients, NEW how, Ends(p, how), UNCHANGED rows
  PROVE  DeploymentInv'
<1>1. /\ UNCHANGED <<catalog, alembic>> /\ runs' = runs /\ runs \in Nat /\ Only(p) /\ Shape'
      /\ wrote'[p] = {} /\ ClientInv(p)'
  BY EndsFacts
<1>2. runs' \in Nat /\ runs <= runs'
  BY <1>1
<1> QED
  BY <1>1, <1>2, QuietStepKeeps

LEMMA StartKeeps ==
  ASSUME DeploymentInv, NEW p \in Clients, Start(p)
  PROVE  DeploymentInv'
<1>1. Shape /\ ClientInv(p) /\ runs \in Nat
  BY DEF DeploymentInv, Shape
<1>2. PICK e \in IF p \in Importers THEN Extracts ELSE {{}} : extract' = [extract EXCEPT ![p] = e]
  BY DEF Start
<1>3. /\ ~Running(p) /\ at' = [at EXCEPT ![p] = 1]
      /\ runs' = runs + 1 /\ run' = [run EXCEPT ![p] = runs + 1]
      /\ result' = [result EXCEPT ![p] = "none"] /\ wrote' = wrote /\ held' = held
      /\ UNCHANGED <<catalog, alembic, rows>> /\ version' = version
  BY DEF Start, catalog
<1>4. at'[p] = 1 /\ run'[p] = runs + 1 /\ extract'[p] = e /\ wrote'[p] = {} /\ held'[p] = {}
  BY <1>1, <1>2, <1>3 DEF Shape, ClientInv
<1>5. Only(p)
  BY <1>1, <1>2, <1>3 DEF Shape, Only
<1>6. Shape'
  <2>1. /\ at' = [q \in Clients |-> at'[q]] /\ wrote' = [q \in Clients |-> wrote'[q]]
        /\ extract' = [q \in Clients |-> extract'[q]] /\ run' = [q \in Clients |-> run'[q]]
        /\ result' = [q \in Clients |-> result'[q]] /\ held' = [q \in Processes |-> held'[q]]
    BY <1>1, <1>2, <1>3 DEF Shape
  <2>2. ASSUME NEW q \in Clients PROVE at'[q] \in 0 .. Len(Program(q)) + 1
    <3>1. CASE q = p
      BY <1>4, <3>1, Sizes
    <3>2. CASE q # p
      BY <1>1, <1>5, <3>2 DEF Shape, Only
    <3> QED
      BY <3>1, <3>2
  <2>3. \A q : Program(q)' = Program(q)
    BY DEF Program
  <2> QED
    BY <1>1, <1>3, <2>1, <2>2, <2>3 DEF Shape
<1>7. ClientInv(p)'
  <2>1. (Running(p) => run[p] \in 1 .. runs)' /\ Running(p)'
    BY <1>1, <1>3, <1>4 DEF Running
  <2>2. WritesHeld(p)' /\ (held[p] \cap held[Alembic] = {})'
    BY <1>4 DEF WritesHeld
  <2>3. CASE p \in Seeders
    <3>1. wrote'[p] = {Fixture(t, run'[p]) : t \in Placed(1)}
      BY <1>4, SeedPlaces
    <3>2. SeedInv(p)'
      BY <1>4, <3>1 DEF SeedInv, Placed
    <3> QED
      BY <2>1, <2>2, <2>3, <3>2 DEF ClientInv
  <2>4. CASE p \notin Seeders
    <3>1. e \in Extracts
      BY <1>2, <2>4 DEF Clients
    <3>2. ImportInv(p)'
      BY <1>4, <3>1 DEF ImportInv
    <3> QED
      BY <2>1, <2>2, <2>4, <3>2 DEF ClientInv
  <2> QED
    BY <2>3, <2>4
<1>8. runs' \in Nat /\ runs <= runs' /\ wrote'[p] \subseteq wrote[p]
  BY <1>1, <1>3
<1> QED
  BY <1>3, <1>5, <1>6, <1>7, <1>8, QuietStepKeeps
\* A statement of a client that proceeds locks tables that no draft touches.
LEMMA StepFacts ==
  ASSUME DeploymentInv, NEW p \in Clients, Running(p), NEW m \in 0 .. Len(Program(p)) + 1,
         at' = [at EXCEPT ![p] = m], Lock(p), Proceeds(p),
         UNCHANGED <<catalog, alembic, extract, run, result, runs>>,
         wrote' = [wrote EXCEPT ![p] = wrote'[p]]
  PROVE  /\ Only(p) /\ Shape' /\ runs' = runs /\ runs \in Nat /\ held'[Alembic] = held[Alembic]
         /\ at'[p] = m /\ held'[p] = held[p] \cup Tables(p)
         /\ held'[p] \cap held'[Alembic] = {}
         /\ extract'[p] = extract[p] /\ run'[p] = run[p] /\ run[p] \in 1 .. runs
<1>1. Shape /\ ClientInv(p) /\ runs \in Nat
  BY DEF DeploymentInv, Shape
<1>2. /\ held' = [held EXCEPT ![p] = @ \cup Tables(p)]
      /\ extract' = extract /\ run' = run /\ result' = result /\ runs' = runs /\ version' = version
  BY DEF Lock, catalog
<1>3. p \in Processes /\ p # Alembic /\ Alembic \in Processes
  BY AlembicApart DEF Processes
<1>4. at'[p] = m /\ held'[p] = held[p] \cup Tables(p) /\ held'[Alembic] = held[Alembic]
  BY <1>1, <1>2, <1>3 DEF Shape
<1>5. Only(p)
  BY <1>1, <1>2 DEF Shape, Only
<1>6. Shape'
  <2>1. /\ at' = [q \in Clients |-> at'[q]] /\ wrote' = [q \in Clients |-> wrote'[q]]
        /\ extract' = [q \in Clients |-> extract'[q]] /\ run' = [q \in Clients |-> run'[q]]
        /\ result' = [q \in Clients |-> result'[q]] /\ held' = [q \in Processes |-> held'[q]]
    BY <1>1, <1>2 DEF Shape
  <2>2. ASSUME NEW q \in Clients PROVE at'[q] \in 0 .. Len(Program(q)) + 1
    <3>1. CASE q = p
      BY <1>4, <3>1
    <3>2. CASE q # p
      BY <1>1, <1>5, <3>2 DEF Shape, Only
    <3> QED
      BY <3>1, <3>2
  <2>3. \A q : Program(q)' = Program(q)
    BY DEF Program
  <2> QED
    BY <1>1, <1>2, <2>1, <2>2, <2>3 DEF Shape
<1>7. held[Alembic] \cap Tables(p) = {}
  BY <1>3 DEF Proceeds, Blockers
<1>8. held[p] \cap held[Alembic] = {} /\ run[p] \in 1 .. runs
  BY <1>1 DEF ClientInv
<1>9. held'[p] \cap held'[Alembic] = {}
  BY <1>4, <1>7, <1>8
<1> QED
  BY <1>1, <1>2, <1>4, <1>5, <1>6, <1>8, <1>9

LEMMA LookKeeps ==
  ASSUME DeploymentInv, NEW p \in Seeders, at[p] \in {1, 2}, Proceeds(p),
         NEW m \in {2, 3, 4}, at' = [at EXCEPT ![p] = m], Lock(p),
         m = 4 => \E x \in rows : x.table = "intersections" /\ x.key = "DEV",
         m > 2 => "intersections" \in Tables(p),
         UNCHANGED <<catalog, rows, alembic, wrote, extract, run, result, runs>>
  PROVE  DeploymentInv'
<1>1. p \in Clients /\ Len(Program(p)) = 9 /\ m \in 0 .. Len(Program(p)) + 1 /\ Running(p)
  BY Sizes DEF Clients, Running
<1>2. Shape /\ ClientInv(p)
  BY <1>1 DEF DeploymentInv
<1>3. wrote' = [wrote EXCEPT ![p] = wrote'[p]]
  BY <1>1, <1>2 DEF Shape
<1>4. /\ Only(p) /\ Shape' /\ runs' = runs /\ runs \in Nat /\ held'[Alembic] = held[Alembic]
      /\ at'[p] = m /\ held'[p] = held[p] \cup Tables(p)
      /\ held'[p] \cap held'[Alembic] = {}
      /\ extract'[p] = extract[p] /\ run'[p] = run[p] /\ run[p] \in 1 .. runs
  BY <1>1, <1>3, StepFacts
<1>5. wrote[p] = {}
  <2>1. SeedInv(p)
    BY <1>2 DEF ClientInv
  <2>2. wrote[p] = {Fixture(t, run[p]) : t \in Placed(at[p])}
    BY <2>1 DEF SeedInv
  <2>3. Placed(at[p]) = {}
    BY SeedPlaces
  <2> QED
    BY <2>2, <2>3
<1>6. SeedInv(p)'
  <2>1. at'[p] > 2 => "intersections" \in held'[p]
    BY <1>4
  <2>2. CASE m = 4
    <3>1. wrote'[p] = {Fixture(t, run'[p]) : t \in Placed(4) \ {"intersections"}}
      BY <1>5, SeedPlaces
    <3>2. \E x \in rows' : x.table = "intersections" /\ x.key = "DEV"
      BY <2>2
    <3> QED
      BY <1>4, <2>1, <2>2, <3>1, <3>2 DEF SeedInv, Placed
  <2>3. CASE m # 4
    <3>1. Placed(m) = {}
      BY <2>3, SeedPlaces
    <3>2. wrote'[p] = {Fixture(t, run'[p]) : t \in Placed(m)}
      BY <1>5, <3>1
    <3> QED
      BY <1>4, <2>1, <3>2 DEF SeedInv, Placed
  <2> QED
    BY <2>2, <2>3
<1>7. ClientInv(p)'
  <2>1. Running(p)' /\ WritesHeld(p)'
    BY <1>4, <1>5 DEF Running, WritesHeld
  <2> QED
    BY <1>4, <1>6, <2>1 DEF ClientInv
<1>8. wrote'[p] \subseteq wrote[p] /\ runs' \in Nat /\ runs <= runs'
  BY <1>4
<1> QED
  BY <1>1, <1>4, <1>7, <1>8, QuietStepKeeps

LEMMA LookForRoadKeeps ==
  ASSUME DeploymentInv, NEW p \in Clients, LookForRoad(p)
  PROVE  DeploymentInv'
<1>1. CASE Ends(p, "present") /\ UNCHANGED rows
  BY <1>1, AbortsKeeps
<1>2. CASE /\ at' = [at EXCEPT ![p] = 2] /\ Lock(p)
           /\ UNCHANGED <<catalog, rows, alembic, wrote, extract, run, result, runs>>
  <2>1. PICK m : m = 2
    OBVIOUS
  <2>2. p \in Seeders /\ at[p] \in {1, 2} /\ Proceeds(p)
    BY DEF LookForRoad
  <2>3. m \in {2, 3, 4} /\ ~(m > 2) /\ m # 4 /\ at' = [at EXCEPT ![p] = m]
    BY <1>2, <2>1
  <2> QED
    BY <1>2, <2>2, <2>3, LookKeeps
<1> QED
  BY <1>1, <1>2 DEF LookForRoad

LEMMA LookForIntersectionsKeeps ==
  ASSUME DeploymentInv, NEW p \in Clients, LookForIntersections(p)
  PROVE  DeploymentInv'
<1>1. PICK m : m = IF There(p) THEN 4 ELSE 3
  OBVIOUS
<1>2. /\ p \in Seeders /\ at[p] = 2 /\ Proceeds(p) /\ at' = [at EXCEPT ![p] = m] /\ Lock(p)
      /\ UNCHANGED <<catalog, rows, alembic, wrote, extract, run, result, runs>>
  BY <1>1 DEF LookForIntersections
<1>3. Tables(p) = {"intersections"}
  BY <1>2, Sizes, SeedSteps DEF Tables, Running, AtEnd, Looks
<1>4. m = 4 => \E x \in rows : x.table = "intersections" /\ x.key = "DEV"
  BY <1>1, <1>3 DEF There
<1>5. m \in {2, 3, 4} /\ at[p] \in {1, 2} /\ "intersections" \in Tables(p)
  BY <1>1, <1>2, <1>3
<1> QED
  BY <1>2, <1>4, <1>5, LookKeeps
LEMMA FixtureFacts ==
  \A t, n : /\ Fixture(t, n).table = t /\ Fixture(t, n).key = "DEV"
            /\ Fixture(t, n).seq = None /\ Fixture(t, n).by = n /\ IsRow(Fixture(t, n))
BY DEF Fixture, IsRow

LEMMA SegmentFacts ==
  \A s, n : /\ Segment(s, n).table = "segments" /\ Segment(s, n).key = s.way
            /\ Segment(s, n).seq = s.seq /\ Segment(s, n).by = n /\ IsRow(Segment(s, n))
BY DEF Segment, IsRow

\* Rows of one seed are of different tables, rows of one import are different
\* stretches: no constraint of a version tells two of them to be the same.
LEMMA OwnRowsDiffer ==
  ASSUME DeploymentInv, NEW p \in Clients, NEW n, NEW W,
         p \in Seeders => \A x \in W : \E t : x = Fixture(t, n),
         p \notin Seeders => extract[p] \in Extracts /\ W \subseteq {Segment(s, n) : s \in extract[p]},
         p \notin Seeders /\ W # {} => schema.way_seq,
         NEW u \in schema.unique, NEW x \in W, NEW y \in W, x # y
  PROVE  ~Collide(x, y, u)
<1>1. SUFFICES ASSUME Collide(x, y, u) PROVE FALSE
  OBVIOUS
<1>2. x.table = y.table /\ x.key = y.key /\ x.table = u.table /\ (u.on = "key_seq" => x.seq = y.seq)
  BY <1>1 DEF Collide
<1>3. CASE p \in Seeders
  <2>1. PICK t1 : x = Fixture(t1, n)
    BY <1>3
  <2>2. PICK t2 : y = Fixture(t2, n)
    BY <1>3
  <2>3. x.table = t1 /\ y.table = t2
    BY <2>1, <2>2, FixtureFacts
  <2> QED
    BY <1>2, <2>1, <2>2, <2>3
<1>4. CASE p \notin Seeders
  <2>1. PICK s1 \in extract[p] : x = Segment(s1, n)
    BY <1>4
  <2>2. PICK s2 \in extract[p] : y = Segment(s2, n)
    BY <1>4
  <2>3. s1 = [way |-> s1.way, seq |-> s1.seq] /\ s2 = [way |-> s2.way, seq |-> s2.seq]
    BY <1>4, ExtractAssumption
  <2>4. u.on = "key_seq"
    <3>1. Sound(schema)
      BY SchemasSound DEF DeploymentInv, SchemaFollowsVersion, Shape
    <3>2. u.table = "segments"
      BY <1>2, <2>1, SegmentFacts
    <3> QED
      BY <1>4, <3>1, <3>2 DEF Sound
  <2>5. s1.way = s2.way /\ s1.seq = s2.seq
    BY <1>2, <2>1, <2>2, <2>4, SegmentFacts
  <2> QED
    BY <2>1, <2>2, <2>3, <2>5
<1> QED
  BY <1>3, <1>4

\* What a flush writes.
LEMMA InsertFacts ==
  ASSUME DeploymentInv, NEW p \in Clients, Insert(p)
  PROVE  /\ at[p] \in 1 .. Len(Program(p)) /\ Tables(p) = Program(p)[at[p]].tables
         /\ Tables(p) \subseteq schema.tables
         /\ p \in Seeders => at[p] \in 3 .. 9 /\ New(p, Tables(p)) = {Fixture(t, run[p]) : t \in Tables(p)}
         /\ p \notin Seeders =>
              /\ New(p, Tables(p)) \subseteq {Segment(s, run[p]) : s \in extract[p]}
              /\ "segments" \notin Tables(p) => New(p, Tables(p)) = {}
              /\ "segments" \in Tables(p) => at[p] = 3 /\ schema.way_seq
         /\ \A x \in New(p, Tables(p)) :
              /\ IsRow(x) /\ x.table \in Tables(p)
              /\ x.seq # None => x.table = "segments" /\ schema.way_seq
<1>1. Running(p) /\ ~AtEnd(p) /\ Program(p)[at[p]].insert /\ ~Fails(p)
  BY DEF Insert
<1>2. at[p] \in 0 .. Len(Program(p)) + 1 /\ Len(Program(p)) \in Nat
  BY Sizes DEF DeploymentInv, Shape
<1>3. at[p] \in 1 .. Len(Program(p))
  BY <1>1, <1>2 DEF Running, AtEnd
<1>4. Tables(p) = Program(p)[at[p]].tables
  BY <1>1 DEF Tables
<1>5. Tables(p) \subseteq schema.tables
  BY <1>1 DEF Fails
<1>6. PICK T : T = Tables(p)
  OBVIOUS
<1>7. CASE p \in Seeders
  <2>1. at[p] \in 3 .. 9
    <3>1. Program(p) = SeedProgram /\ at[p] \in 1 .. 9
      BY <1>3, <1>7, Sizes
    <3>2. at[p] > 2
      BY <1>1, <3>1, SeedInserts
    <3> QED
      BY <3>1, <3>2
  <2>2. New(p, T) = {Fixture(t, run[p]) : t \in T}
    BY <1>7 DEF New
  <2>3. \A x \in New(p, T) : IsRow(x) /\ x.table \in T /\ x.seq = None
    BY <2>2, FixtureFacts
  <2> QED
    BY <1>3, <1>4, <1>5, <1>6, <1>7, <2>1, <2>2, <2>3
<1>8. CASE p \notin Seeders
  <2>1. New(p, T) = IF "segments" \in T THEN {Segment(s, run[p]) : s \in Missing(p)} ELSE {}
    BY <1>8 DEF New
  <2>2. Missing(p) \subseteq extract[p]
    BY DEF Missing
  <2>3. New(p, T) \subseteq {Segment(s, run[p]) : s \in extract[p]}
    BY <2>1, <2>2
  <2>4. "segments" \in T => at[p] = 3 /\ schema.way_seq
    <3>1. p \in Importers
      BY <1>8 DEF Clients
    <3>2. Program(p) = ImportProgram /\ at[p] \in 1 .. 3
      BY <1>3, <3>1, Sizes
    <3>3. "segments" \in T => at[p] = 3
      BY <1>4, <1>6, <3>2, ImportSteps
    <3>4. "segments" \in T => schema.way_seq
      BY <1>1, <1>6 DEF Fails
    <3> QED
      BY <3>3, <3>4
  <2>5. \A x \in New(p, T) : IsRow(x) /\ x.table = "segments" /\ "segments" \in T
    BY <2>1, SegmentFacts
  <2> QED
    BY <1>3, <1>4, <1>5, <1>6, <1>8, <2>1, <2>3, <2>4, <2>5
<1> QED
  BY <1>7, <1>8

LEMMA InsertKeeps ==
  ASSUME DeploymentInv, NEW p \in Clients, Insert(p)
  PROVE  DeploymentInv'
<1>1. PICK T, N, W, m : T = Tables(p) /\ N = New(p, T) /\ W = wrote[p] /\ m = at[p] + 1
  OBVIOUS
<1>2. /\ Running(p) /\ ~AtEnd(p) /\ Program(p)[at[p]].insert /\ Proceeds(p) /\ ~Fails(p)
      /\ wrote' = [wrote EXCEPT ![p] = @ \cup N]
      /\ at' = [at EXCEPT ![p] = @ + 1] /\ Lock(p)
      /\ UNCHANGED <<catalog, rows, alembic, extract, run, result, runs>>
  BY <1>1 DEF Insert
<1>3. Shape /\ ClientInv(p) /\ WritesHeld(p) /\ runs \in Nat
  BY DEF DeploymentInv, ClientInv, Shape
<1>4. /\ at[p] \in 1 .. Len(Program(p)) /\ T = Program(p)[at[p]].tables /\ T \subseteq schema.tables
      /\ p \in Seeders => at[p] \in 3 .. 9 /\ N = {Fixture(t, run[p]) : t \in T}
      /\ p \notin Seeders => /\ N \subseteq {Segment(s, run[p]) : s \in extract[p]}
                             /\ "segments" \notin T => N = {}
                             /\ "segments" \in T => at[p] = 3 /\ schema.way_seq
      /\ \A x \in N : /\ IsRow(x) /\ x.table \in T
                      /\ x.seq # None => x.table = "segments" /\ schema.way_seq
  BY <1>1, InsertFacts
<1>5. m \in 0 .. Len(Program(p)) + 1 /\ at' = [at EXCEPT ![p] = m] /\ Len(Program(p)) \in Nat
  BY <1>1, <1>2, <1>4, Sizes
<1>6. wrote'[p] = W \cup N /\ wrote' = [wrote EXCEPT ![p] = wrote'[p]]
  BY <1>1, <1>2, <1>3 DEF Shape
<1>7. /\ Only(p) /\ Shape' /\ runs' = runs /\ held'[Alembic] = held[Alembic]
      /\ at'[p] = m /\ held'[p] = held[p] \cup T /\ held'[p] \cap held'[Alembic] = {}
      /\ extract'[p] = extract[p] /\ run'[p] = run[p] /\ run[p] \in 1 .. runs
  BY <1>1, <1>2, <1>5, <1>6, StepFacts
<1>8. /\ schema' = schema /\ version' = version /\ forgotten' = forgotten /\ rows' = rows
      /\ draft' = draft /\ target' = target
  BY <1>2 DEF catalog, alembic
<1>9. WritesHeld(p)'
  <2>1. SUFFICES ASSUME NEW x \in W \cup N
                 PROVE  /\ IsRow(x) /\ x.table \in held'[p] \cap schema.tables
                        /\ x.seq # None => x.table = "segments" /\ schema.way_seq
    BY <1>6, <1>8 DEF WritesHeld
  <2>2. CASE x \in W
    BY <1>1, <1>3, <1>7, <2>2 DEF WritesHeld
  <2>3. CASE x \in N
    BY <1>4, <1>7, <2>3
  <2> QED
    BY <2>2, <2>3
<1>10. p \in Seeders => SeedInv(p)'
  <2> SUFFICES ASSUME p \in Seeders PROVE SeedInv(p)'
    OBVIOUS
  <2>1. SeedInv(p) /\ at[p] \in 3 .. 9 /\ T = SeedProgram[at[p]].tables
    BY <1>3, <1>4, Sizes DEF ClientInv
  <2>2. Placed(m) = Placed(at[p]) \cup T /\ m > 3
    BY <1>1, <2>1, PlacedNext
  <2>3. "intersections" \in held'[p]
    BY <1>7, <2>1 DEF SeedInv
  <2>4. CASE W = {Fixture(t, run[p]) : t \in Placed(at[p])}
    <3>1. wrote'[p] = {Fixture(t, run[p]) : t \in Placed(m)}
      BY <1>4, <1>6, <2>2, <2>4
    <3> QED
      BY <1>7, <2>3, <3>1 DEF SeedInv, Placed
  <2>5. CASE /\ at[p] > 3
             /\ W = {Fixture(t, run[p]) : t \in Placed(at[p]) \ {"intersections"}}
             /\ \E x \in rows : x.table = "intersections" /\ x.key = "DEV"
    <3>1. "intersections" \notin T
      BY <2>1, <2>5, SeedInserts
    <3>2. Placed(m) \ {"intersections"} = (Placed(at[p]) \ {"intersections"}) \cup T
      BY <2>2, <3>1
    <3>3. wrote'[p] = {Fixture(t, run[p]) : t \in Placed(m) \ {"intersections"}}
      BY <1>4, <1>6, <2>5, <3>2
    <3> QED
      BY <1>7, <1>8, <2>2, <2>3, <2>5, <3>3 DEF SeedInv, Placed
  <2> QED
    BY <1>1, <2>1, <2>4, <2>5 DEF SeedInv
<1>11. p \notin Seeders => ImportInv(p)'
  <2> SUFFICES ASSUME p \notin Seeders PROVE ImportInv(p)'
    OBVIOUS
  <2>1. ImportInv(p) /\ at[p] > 0 /\ W = {}
    BY <1>1, <1>2, <1>3, <1>4 DEF ClientInv, ImportInv
  <2>2. extract[p] \in Extracts
    BY <2>1 DEF ImportInv
  <2>3. wrote'[p] \subseteq {Segment(s, run[p]) : s \in extract[p]}
    BY <1>4, <1>6, <2>1
  <2>4. ~AtEnd(p)' => wrote'[p] = {}
    <3>1. SUFFICES ASSUME ~AtEnd(p)' PROVE N = {}
      BY <1>6, <2>1
    <3>2. Len(Program(p)) = 3 /\ Program(p)' = Program(p)
      BY Sizes DEF Clients, Program
    <3>3. m # 4
      BY <1>7, <3>1, <3>2 DEF AtEnd
    <3> QED
      BY <1>1, <1>4, <3>3
  <2> QED
    BY <1>7, <2>2, <2>3, <2>4 DEF ImportInv
<1>12. ClientInv(p)'
  <2>1. Running(p)'
    BY <1>1, <1>4, <1>7 DEF Running
  <2> QED
    BY <1>7, <1>9, <1>10, <1>11, <2>1 DEF ClientInv
<1>13. \A q \in Clients : ClientInv(q)'
  <2>1. runs' \in Nat /\ runs <= runs' /\ rows \subseteq rows'
    BY <1>3, <1>7, <1>8
  <2> QED
    BY <1>2, <1>7, <1>12, <2>1, OthersKept
<1>14. MigrationInv'
  <2>1. \A u \in draft.unique : \A x, y \in rows' : Migrates /\ x # y => ~Collide(x, y, u)
    BY <1>8 DEF DeploymentInv, MigrationInv
  <2> QED
    BY <1>2, <1>7, <2>1, MigrationKept
\* A flush collides neither with rows, nor with what others have written.
<1>15. Compatible'
  <2>1. ASSUME NEW u \in schema.unique, NEW x \in N
        PROVE  /\ \A y \in rows : ~Collide(x, y, u) /\ ~Collide(y, x, u)
               /\ \A q \in Clients \ {p} : \A y \in wrote[q] : ~Collide(x, y, u) /\ ~Collide(y, x, u)
    <3>1. \A y : Collide(x, y, u) => Collide(y, x, u)
      BY DEF Collide
    <3>2. \A y \in rows : ~Collide(y, x, u)
      BY <1>1, <1>2, <2>1 DEF Fails
    <3>3. \A q \in Clients \ {p} : \A y \in wrote[q] : ~Collide(y, x, u)
      <4>1. \A q \in Processes \ {p} : q # Alembic => ~\E y \in wrote[q] : Collide(y, x, u)
        BY <1>1, <1>2, <2>1, AlembicApart DEF Proceeds, Blockers
      <4> QED
        BY <4>1, AlembicApart
    <3> QED
      BY <3>1, <3>2, <3>3
  <2>2. ASSUME NEW u \in schema.unique, NEW x \in W \cup N, NEW y \in W \cup N, x # y
        PROVE  ~Collide(x, y, u)
    <3>1. PICK n, V : n = run[p] /\ V = W \cup N
      OBVIOUS
    <3>2. p \in Seeders => \A z \in V : \E t : z = Fixture(t, n)
      <4>1. SUFFICES ASSUME p \in Seeders, NEW z \in W \cup N PROVE \E t : z = Fixture(t, n)
        BY <3>1
      <4>2. CASE z \in N
        BY <1>4, <3>1, <4>1, <4>2
      <4>3. CASE z \in W
        <5>1. SeedInv(p) /\ at[p] > 0
          BY <1>3, <1>4, <4>1 DEF ClientInv
        <5> QED
          BY <1>1, <3>1, <4>3, <5>1 DEF SeedInv
      <4> QED
        BY <4>1, <4>2, <4>3
    <3>3. p \notin Seeders => /\ extract[p] \in Extracts
                              /\ W = {} /\ V \subseteq {Segment(s, n) : s \in extract[p]}
      <4>1. SUFFICES ASSUME p \notin Seeders
                     PROVE  extract[p] \in Extracts /\ W = {} /\ N \subseteq {Segment(s, n) : s \in extract[p]}
        BY <3>1
      <4>2. ImportInv(p) /\ at[p] > 0
        BY <1>3, <1>4, <4>1 DEF ClientInv
      <4> QED
        BY <1>1, <1>2, <1>4, <3>1, <4>1, <4>2 DEF ImportInv
    <3>4. p \notin Seeders /\ V # {} => schema.way_seq
      BY <1>4, <3>1, <3>3
    <3>5. x \in V /\ y \in V
      BY <2>2, <3>1
    <3> QED
      BY <2>2, <3>2, <3>3, <3>4, <3>5, OwnRowsDiffer
  <2>3. SUFFICES ASSUME NEW u \in schema.unique, NEW q \in Clients, NEW x \in wrote'[q]
                 PROVE  /\ \A y \in rows : ~Collide(x, y, u)
                        /\ \A y \in wrote'[q] : x # y => ~Collide(x, y, u)
                        /\ \A r \in Clients \ {q} : \A y \in wrote'[r] : ~Collide(x, y, u)
    BY <1>8 DEF Compatible
  <2>4. \A r \in Clients \ {p} : wrote'[r] = wrote[r]
    BY <1>7 DEF Only
  <2>5. \A r \in Clients : \A z \in wrote[r] :
          /\ \A y \in rows : ~Collide(z, y, u)
          /\ \A y \in wrote[r] : z # y => ~Collide(z, y, u)
          /\ \A o \in Clients \ {r} : \A y \in wrote[o] : ~Collide(z, y, u)
    BY DEF DeploymentInv, Compatible
  <2>6. CASE q = p
    <3>1. \A y \in rows : ~Collide(x, y, u)
      BY <1>1, <1>6, <2>1, <2>5, <2>6
    <3>2. \A y \in wrote'[q] : x # y => ~Collide(x, y, u)
      BY <1>6, <2>2, <2>6
    <3>3. \A r \in Clients \ {q} : \A y \in wrote'[r] : ~Collide(x, y, u)
      BY <1>1, <1>6, <2>1, <2>4, <2>5, <2>6
    <3> QED
      BY <3>1, <3>2, <3>3
  <2>7. CASE q # p
    <3>1. x \in wrote[q] /\ wrote'[q] = wrote[q]
      BY <2>4, <2>7
    <3>2. ASSUME NEW r \in Clients \ {q}, NEW y \in wrote'[r] PROVE ~Collide(x, y, u)
      <4>1. CASE r # p
        BY <2>4, <2>5, <3>1, <4>1
      <4>2. CASE r = p
        BY <1>1, <1>6, <2>1, <2>5, <2>7, <3>1, <4>2
      <4> QED
        BY <4>1, <4>2
    <3> QED
      BY <2>5, <3>1, <3>2
  <2> QED
    BY <2>6, <2>7
<1>16. RowsInv' /\ SchemaFollowsVersion' /\ ConstraintsHold' /\ FixturesWholeAndOnce'
  BY <1>7, <1>8 DEF DeploymentInv, RowsInv, SchemaFollowsVersion, ConstraintsHold, FixturesWholeAndOnce
<1> QED
  BY <1>7, <1>13, <1>14, <1>15, <1>16 DEF DeploymentInv
LEMMA CommitKeeps ==
  ASSUME DeploymentInv, NEW p \in Clients, Commit(p)
  PROVE  DeploymentInv'
<1>1. PICK W : W = wrote[p]
  OBVIOUS
<1>2. Running(p) /\ AtEnd(p) /\ rows' = rows \cup W /\ Ends(p, "done")
  BY <1>1 DEF Commit
<1>3. /\ UNCHANGED <<catalog, alembic>> /\ runs' = runs /\ runs \in Nat /\ Only(p) /\ Shape'
      /\ wrote'[p] = {} /\ ClientInv(p)'
  BY <1>2, EndsFacts
<1>4. /\ schema' = schema /\ version' = version /\ forgotten' = forgotten
      /\ draft' = draft /\ target' = target
  BY <1>3 DEF catalog, alembic
<1>5. held'[Alembic] = held[Alembic]
  BY <1>3, AlembicApart DEF Only, Processes
<1>6. /\ ClientInv(p) /\ at[p] > 0 /\ at[p] = Len(Program(p)) + 1 /\ run[p] \in 1 .. runs
      /\ held[p] \cap held[Alembic] = {}
      /\ \A x \in W : /\ IsRow(x) /\ x.table \in held[p] /\ x.table \in schema.tables
                      /\ x.seq # None => x.table = "segments" /\ schema.way_seq
  <2>1. ClientInv(p) /\ WritesHeld(p) /\ run[p] \in 1 .. runs /\ held[p] \cap held[Alembic] = {}
    BY <1>2 DEF DeploymentInv, ClientInv
  <2>2. at[p] > 0 /\ at[p] = Len(Program(p)) + 1
    BY <1>2, Sizes DEF AtEnd
  <2> QED
    BY <1>1, <2>1, <2>2 DEF WritesHeld
<1>7. ASSUME NEW u \in schema.unique, NEW x \in rows', NEW y \in rows', x # y
      PROVE  ~Collide(x, y, u)
  <2>1. \A z \in W : /\ \A o \in rows : ~Collide(z, o, u)
                     /\ \A o \in W : z # o => ~Collide(z, o, u)
    BY <1>1 DEF DeploymentInv, Compatible
  <2>2. \A z, o \in rows : z # o => ~Collide(z, o, u)
    BY DEF DeploymentInv, ConstraintsHold
  <2>3. Collide(x, y, u) => Collide(y, x, u)
    BY DEF Collide
  <2> QED
    BY <1>2, <1>7, <2>1, <2>2, <2>3
<1>8. ConstraintsHold'
  BY <1>4, <1>7 DEF ConstraintsHold
<1>9. SchemaFollowsVersion'
  BY <1>2, <1>4, <1>6 DEF DeploymentInv, SchemaFollowsVersion
\* A constraint of the draft only that binds what it wrote is on a table it locked.
<1>10. MigrationInv'
  <2>1. ASSUME Migrates, NEW u \in draft.unique, NEW x \in rows', NEW y \in rows', x # y,
               Collide(x, y, u)
        PROVE  FALSE
    <3>1. CASE u \in schema.unique
      BY <1>7, <2>1, <3>1
    <3>2. CASE u \notin schema.unique
      <4>1. u.table \in held[Alembic] \/ u.table \notin schema.tables
        BY <2>1, <3>2 DEF DeploymentInv, MigrationInv
      <4>2. x.table = u.table /\ y.table = u.table
        BY <2>1 DEF Collide
      <4>3. x \notin W /\ y \notin W
        BY <1>6, <4>1, <4>2
      <4>4. x \in rows /\ y \in rows
        BY <1>2, <4>3
      <4> QED
        BY <2>1, <4>4 DEF DeploymentInv, MigrationInv
    <3> QED
      BY <3>1, <3>2
  <2>2. \A u \in draft.unique : \A x, y \in rows' : Migrates /\ x # y => ~Collide(x, y, u)
    BY <2>1
  <2> QED
    BY <1>3, <1>5, <2>2, MigrationKept
<1>11. Compatible'
  <2>1. SUFFICES ASSUME NEW u \in schema.unique, NEW q \in Clients, NEW x \in wrote'[q]
                 PROVE  /\ \A y \in rows' : ~Collide(x, y, u)
                        /\ \A y \in wrote'[q] : x # y => ~Collide(x, y, u)
                        /\ \A r \in Clients \ {q} : \A y \in wrote'[r] : ~Collide(x, y, u)
    BY <1>4 DEF Compatible
  <2>2. q # p /\ wrote'[q] = wrote[q]
    BY <1>3 DEF Only
  <2>3. /\ \A y \in rows : ~Collide(x, y, u)
        /\ \A y \in wrote[q] : x # y => ~Collide(x, y, u)
        /\ \A r \in Clients \ {q} : \A y \in wrote[r] : ~Collide(x, y, u)
    BY <2>2 DEF DeploymentInv, Compatible
  <2>4. \A y \in W : ~Collide(x, y, u)
    BY <1>1, <2>2, <2>3
  <2>5. \A r \in Clients : wrote'[r] \subseteq wrote[r]
    BY <1>3 DEF Only
  <2> QED
    BY <1>2, <2>2, <2>3, <2>4, <2>5
<1>12. \A q \in Clients : ClientInv(q)'
  <2>1. runs' \in Nat /\ runs <= runs' /\ rows \subseteq rows'
    BY <1>2, <1>3
  <2> QED
    BY <1>3, <2>1, OthersKept
<1>13. CASE p \in Seeders
  <2>1. at[p] = 10 /\ SeedInv(p)
    <3>1. Len(Program(p)) = 9
      BY <1>13, Sizes
    <3>2. SeedInv(p)
      BY <1>6, <1>13 DEF ClientInv
    <3> QED
      BY <1>6, <3>1, <3>2
  <2>2. Placed(at[p]) = SeedTables
    BY <2>1, SeedPlaces
  <2>3. "stops" \in SeedTables /\ "stops" \in SeedTables \ {"intersections"}
    BY SeedPlaces DEF Tables2
  <2>4. PICK n : n = run[p]
    OBVIOUS
  <2>5. Fixture("stops", n) \in W
    BY <1>1, <2>1, <2>2, <2>3, <2>4 DEF SeedInv
  <2>6. Unique("stops", "key") \in schema.unique
    <3>1. Sound(schema)
      BY SchemasSound DEF DeploymentInv, SchemaFollowsVersion, Shape
    <3>2. "stops" \in schema.tables
      BY <1>6, <2>5, FixtureFacts
    <3> QED
      BY <3>1, <3>2 DEF Sound
\* Fixtures that were there already would collide with those of this seed.
  <2>7. {x \in rows : x.key = "DEV"} = {}
    <3>1. SUFFICES ASSUME {x \in rows : x.key = "DEV"} # {} PROVE FALSE
      OBVIOUS
    <3>2. PICK k \in 1 .. runs : {x \in rows : x.key = "DEV"} = {Fixture(t, k) : t \in SeedTables}
      BY <3>1 DEF DeploymentInv, FixturesWholeAndOnce
    <3>3. Fixture("stops", k) \in rows
      BY <2>3, <3>2
    <3>4. Collide(Fixture("stops", n), Fixture("stops", k), Unique("stops", "key"))
      BY DEF Collide, Fixture, Unique
    <3>5. \A z \in W : \A o \in rows : ~Collide(z, o, Unique("stops", "key"))
      BY <1>1, <2>6 DEF DeploymentInv, Compatible
    <3> QED
      BY <2>5, <3>3, <3>4, <3>5
  <2>8. W = {Fixture(t, n) : t \in SeedTables}
    BY <1>1, <2>1, <2>2, <2>4, <2>7 DEF SeedInv
  <2>9. {x \in rows' : x.key = "DEV"} = {Fixture(t, n) : t \in SeedTables}
    <3>1. \A x \in rows : x.key # "DEV"
      BY <2>7
    <3>2. \A x \in W : x.key = "DEV"
      BY <2>8, FixtureFacts
    <3> QED
      BY <1>2, <2>8, <3>1, <3>2
  <2>10. FixturesWholeAndOnce'
    BY <1>3, <1>6, <2>4, <2>9 DEF FixturesWholeAndOnce, SeedTables
  <2>11. RowsInv'
    <3>1. \A x \in W : IsRow(x) /\ x.key = "DEV"
      BY <2>8, FixtureFacts
    <3> QED
      BY <1>2, <1>4, <3>1 DEF DeploymentInv, RowsInv
  <2> QED
    BY <1>3, <1>8, <1>9, <1>10, <1>11, <1>12, <2>10, <2>11 DEF DeploymentInv
<1>14. CASE p \notin Seeders
  <2>1. extract[p] \in Extracts /\ W \subseteq {Segment(s, run[p]) : s \in extract[p]}
    BY <1>1, <1>6, <1>14 DEF ClientInv, ImportInv
  <2>2. ASSUME NEW x \in W PROVE IsRow(x) /\ x.key # "DEV" /\ x.seq # None
    <3>1. PICK s \in extract[p] : x = Segment(s, run[p])
      BY <2>1
    <3>2. s.seq \in Nat /\ s.way # "DEV"
      BY <2>1, ExtractAssumption
    <3>3. s.seq # None
      BY <3>2 DEF None
    <3> QED
      BY <3>1, <3>2, <3>3, SegmentFacts
  <2>3. {x \in rows' : x.key = "DEV"} = {x \in rows : x.key = "DEV"}
    BY <1>2, <2>2
  <2>4. FixturesWholeAndOnce'
    <3>1. FixturesWholeAndOnce
      BY DEF DeploymentInv
    <3> QED
      BY <1>3, <2>3, <3>1 DEF FixturesWholeAndOnce, SeedTables
  <2>5. RowsInv'
    BY <1>2, <1>4, <2>2 DEF DeploymentInv, RowsInv
  <2> QED
    BY <1>3, <1>8, <1>9, <1>10, <1>11, <1>12, <2>4, <2>5 DEF DeploymentInv
<1> QED
  BY <1>13, <1>14
-----------------------------------------------------------------------------
(* The theorems *)

LEMMA InitInv == Init => DeploymentInv
<1> SUFFICES ASSUME Init PROVE DeploymentInv
  OBVIOUS
<1>1. /\ version = 0 /\ schema = Empty /\ rows = {} /\ script = <<>> /\ target = None
      /\ at = [p \in Clients |-> 0] /\ wrote = [p \in Clients |-> {}]
      /\ extract = [p \in Clients |-> {}] /\ run = [p \in Clients |-> 0]
      /\ result = [p \in Clients |-> "none"] /\ runs = 0
      /\ held = [p \in Processes |-> {}]
  BY DEF Init
<1>2. held[Alembic] = {} /\ \A p \in Clients : held[p] = {} /\ wrote[p] = {} /\ at[p] = 0
  BY <1>1, AlembicApart DEF Processes
<1>3. Shape
  <2>1. \A p \in Clients : at[p] \in 0 .. Len(Program(p)) + 1
    BY <1>2, Sizes
  <2> QED
    BY <1>1, <2>1 DEF Shape, HeadRevision
<1>4. MigrationInv
  BY <1>1, <1>2 DEF MigrationInv, Migrates
<1>5. RowsInv /\ Compatible /\ ConstraintsHold /\ FixturesWholeAndOnce
  BY <1>1, <1>2 DEF RowsInv, Compatible, ConstraintsHold, FixturesWholeAndOnce
<1>6. \A p \in Clients : ClientInv(p)
  BY <1>2 DEF ClientInv, Running, WritesHeld, SeedInv, ImportInv
<1>7. SchemaFollowsVersion
  BY <1>1, Schemas DEF SchemaFollowsVersion
<1> QED
  BY <1>3, <1>4, <1>5, <1>6, <1>7 DEF DeploymentInv

LEMMA StutterKeeps ==
  ASSUME DeploymentInv, UNCHANGED vars
  PROVE  DeploymentInv'
<1>1. UNCHANGED <<catalog, rows, alembic, client, held>>
  BY DEF vars
<1>2. /\ script' = script /\ target' = target /\ held' = held /\ draft' = draft
      /\ revision' = revision /\ schema' = schema /\ version' = version /\ rows' = rows
  BY <1>1 DEF catalog, alembic
<1>3. held'[Alembic] = held[Alembic]
  BY <1>2
<1>4. \A u \in draft.unique : \A x, y \in rows' : Migrates /\ x # y => ~Collide(x, y, u)
  BY <1>2 DEF DeploymentInv, MigrationInv
<1>5. MigrationInv'
  BY <1>1, <1>3, <1>4, MigrationKept
<1>6. held' = [q \in Processes |-> held'[q]]
  BY <1>2 DEF DeploymentInv, Shape
<1>7. \A q \in Clients : held'[q] = held[q] /\ held[q] \cap held'[Alembic] = {}
  BY <1>2 DEF DeploymentInv, ClientInv
<1> QED
  BY <1>1, <1>5, <1>6, <1>7, AlembicKeeps

LEMMA StepKeeps ==
  ASSUME DeploymentInv, [Next]_vars
  PROVE  DeploymentInv'
<1>1. CASE StartMigration
  BY <1>1, StartMigrationKeeps
<1>2. CASE AlembicStep
  BY <1>2, NextRevisionKeeps, MigrateKeeps, CommitMigrationKeeps DEF AlembicStep
<1>3. CASE MigrationFails
  BY <1>3, MigrationFailsKeeps
<1>4. ASSUME NEW p \in Clients, Start(p) \/ ClientStep(p) \/ Aborts(p) PROVE DeploymentInv'
  <2>1. CASE Start(p)
    BY <2>1, StartKeeps
  <2>2. CASE LookForRoad(p)
    BY <2>2, LookForRoadKeeps
  <2>3. CASE LookForIntersections(p)
    BY <2>3, LookForIntersectionsKeeps
  <2>4. CASE Insert(p)
    BY <2>4, InsertKeeps
  <2>5. CASE Commit(p)
    BY <2>5, CommitKeeps
  <2>6. CASE Aborts(p)
    <3>1. Ends(p, "error") /\ UNCHANGED rows
      BY <2>6 DEF Aborts
    <3> QED
      BY <3>1, AbortsKeeps
  <2> QED
    BY <1>4, <2>1, <2>2, <2>3, <2>4, <2>5, <2>6 DEF ClientStep
<1>5. CASE UNCHANGED vars
  BY <1>5, StutterKeeps
<1> QED
  BY <1>1, <1>2, <1>3, <1>4, <1>5 DEF Next

\* The inductive invariant: what an open transaction of Alembic takes away or
\* forbids it has locked, what a client has written it has locked too, and what
\* is written fits what is committed and what others have written.
THEOREM DeploymentInvariant == Spec => []DeploymentInv
<1>1. DeploymentInv /\ [Next]_vars => DeploymentInv'
  BY StepKeeps
<1> QED
  BY <1>1, InitInv, PTL DEF Spec

\* However upgrades and downgrades succeed and fail, the schema is the one that
\* the first upgrades to its version made, and every row has its place in it.
THEOREM SchemaAlwaysFollows == Spec => []SchemaFollowsVersion
<1>1. DeploymentInv => SchemaFollowsVersion
  BY DEF DeploymentInv
<1> QED
  BY <1>1, DeploymentInvariant, PTL

\* A downgrade drops the numbers of segments only when each way has one segment:
\* the uniqueness of the way alone, which it restores before, it checks on rows
\* that no import can change any more.
THEOREM StretchesAlwaysStayApart == Spec => StretchesStayApart
<1>1. ASSUME DeploymentInv, [Next]_vars,
             schema.way_seq, ~schema'.way_seq, "segments" \in schema'.tables,
             NEW x \in rows, NEW y \in rows,
             x.table = "segments", y.table = "segments", x.key = y.key
      PROVE  x = y
  <2>1. CommitMigration
    <3>1. schema' # schema
      BY <1>1
    <3> QED
      BY <1>1, <3>1 DEF Next, StartMigration, AlembicStep, NextRevision, Migrate, MigrationFails,
         Start, ClientStep, LookForRoad, LookForIntersections, Insert, Commit, Aborts, Ends,
         catalog, vars
  <2>2. /\ Migrates /\ script = <<>> /\ revision = target /\ schema' = draft
    BY <2>1 DEF CommitMigration
  <2>3. /\ target \in 0 .. HeadRevision
        /\ Migrated(draft, script) = SchemaOf[revision]
        /\ \A u \in draft.unique : \A p, q \in rows : p # q => ~Collide(p, q, u)
    BY <1>1, <2>2 DEF DeploymentInv, MigrationInv
  <2>4. draft = SchemaOf[target]
    BY <2>2, <2>3, MigratedNothing
  <2>5. PICK u : u = Unique("segments", "key")
    OBVIOUS
  <2>6. u \in draft.unique
    <3>1. target \in {0, 1, 2, 3, 4}
      BY <2>3 DEF HeadRevision
    <3>2. CASE target \in {0, 1}
      BY <1>1, <2>2, <2>4, <3>2, Schemas DEF Empty
    <3>3. CASE target = 2
      BY <2>4, <2>5, <3>3, Schemas DEF Schema2, Keyed2
    <3>4. CASE target \in {3, 4}
      BY <1>1, <2>2, <2>4, <3>4, Schemas DEF Schema3, Schema4
    <3> QED
      BY <3>1, <3>2, <3>3, <3>4
  <2>7. u.table = "segments" /\ u.on = "key"
    BY <2>5 DEF Unique
  <2>8. x # y => ~Collide(x, y, u)
    BY <2>3, <2>6
  <2> QED
    BY <1>1, <2>7, <2>8 DEF Collide
<1>2. DeploymentInv /\ [Next]_vars =>
        (schema.way_seq /\ ~schema'.way_seq /\ "segments" \in schema'.tables =>
           \A x, y \in rows :
             x.table = "segments" /\ y.table = "segments" /\ x.key = y.key => x = y)
  BY <1>1
<1> QED
  BY <1>2, DeploymentInvariant, PTL DEF Spec, StretchesStayApart

\* The fixtures of the seed are there as a whole or not at all, and once.
THEOREM FixturesAlwaysWhole == Spec => []FixturesWholeAndOnce
<1>1. DeploymentInv => FixturesWholeAndOnce
  BY DEF DeploymentInv
<1> QED
  BY <1>1, DeploymentInvariant, PTL

\* Imports that overlap, fail and are repeated leave one row of a stretch of a
\* way: the constraint on (way, number) is there whenever numbers are.
THEOREM StretchesImportedOnce == Spec => []ImportsOnce
<1>1. DeploymentInv => ImportsOnce
  <2>1. SUFFICES ASSUME DeploymentInv, ~forgotten, NEW x \in rows, NEW y \in rows,
                        x.table = "segments", y.table = "segments", x.key = y.key, x # y
                 PROVE  x.seq # None /\ y.seq # None /\ x.seq # y.seq
    BY DEF ImportsOnce
  <2>2. x.key # "DEV"
    <3>1. SUFFICES ASSUME x.key = "DEV" PROVE FALSE
      OBVIOUS
    <3>2. x \in {z \in rows : z.key = "DEV"} /\ y \in {z \in rows : z.key = "DEV"}
      BY <2>1, <3>1
    <3>3. PICK n \in 1 .. runs : {z \in rows : z.key = "DEV"} = {Fixture(t, n) : t \in SeedTables}
      BY <2>1, <3>2 DEF DeploymentInv, FixturesWholeAndOnce
    <3>4. PICK t1 : x = Fixture(t1, n)
      BY <3>2, <3>3
    <3>5. PICK t2 : y = Fixture(t2, n)
      BY <3>2, <3>3
    <3>6. x.table = t1 /\ y.table = t2
      BY <3>4, <3>5, FixtureFacts
    <3> QED
      BY <2>1, <3>4, <3>5, <3>6
  <2>3. x.seq # None /\ y.seq # None
    BY <2>1, <2>2 DEF DeploymentInv, RowsInv
  <2>4. x.seq # y.seq
    <3>1. Sound(schema)
      BY <2>1, SchemasSound DEF DeploymentInv, SchemaFollowsVersion, Shape
    <3>2. schema.way_seq
      BY <2>1, <2>3 DEF DeploymentInv, SchemaFollowsVersion
    <3>3. Unique("segments", "key_seq") \in schema.unique
      BY <3>1, <3>2 DEF Sound
    <3>4. ~Collide(x, y, Unique("segments", "key_seq"))
      BY <2>1, <3>3 DEF DeploymentInv, ConstraintsHold
    <3> QED
      BY <2>1, <2>3, <3>4 DEF Collide, Unique
  <2> QED
    BY <2>3, <2>4
<1> QED
  BY <1>1, DeploymentInvariant, PTL

\* A seed that ends well has found the fixtures there or leaves them behind.
THEOREM SeedsMeanSeeded == Spec => SeedMeansSeeded
<1>1. ASSUME DeploymentInv, [Next]_vars, NEW p \in Seeders,
             result[p] = "none", result'[p] \in {"done", "present"}
      PROVE  \E x \in rows' : x.key = "DEV" /\ x.table = "assignments"
  <2>1. p \in Clients /\ Shape /\ result'[p] # result[p]
    BY <1>1 DEF Clients, DeploymentInv
  <2>2. ASSUME NEW q \in Clients, NEW how, Ends(q, how) PROVE q = p /\ how \in {"done", "present"}
    <3>1. result' = [result EXCEPT ![q] = how] /\ result = [r \in Clients |-> result[r]]
      BY <2>1, <2>2 DEF Ends, Shape
    <3>2. q = p
      BY <2>1, <3>1
    <3> QED
      BY <1>1, <2>1, <3>1, <3>2
  <2>3. \/ \E q \in Clients : LookForRoad(q) /\ Ends(q, "present")
        \/ \E q \in Clients : Commit(q)
    <3>1. result' # result
      BY <2>1
    <3>2. ASSUME NEW q \in Clients, Start(q) PROVE FALSE
      <4>1. result' = [result EXCEPT ![q] = "none"] /\ result = [r \in Clients |-> result[r]]
        BY <2>1, <3>2 DEF Start, Shape
      <4>2. result'[p] = "none"
        BY <1>1, <2>1, <4>1
      <4> QED
        BY <1>1, <4>2
    <3>3. ASSUME NEW q \in Clients, Aborts(q) PROVE FALSE
      BY <2>2, <3>3 DEF Aborts
    <3>4. CASE StartMigration \/ AlembicStep \/ MigrationFails \/ UNCHANGED vars
      <4>1. UNCHANGED client
        BY <3>4 DEF StartMigration, AlembicStep, NextRevision, Migrate, CommitMigration,
                    MigrationFails, StopMigrating, vars
      <4> QED
        BY <3>1, <4>1 DEF client
    <3>5. ASSUME NEW q \in Clients, LookForIntersections(q) \/ Insert(q) PROVE FALSE
      <4>1. UNCHANGED result
        BY <3>5 DEF LookForIntersections, Insert
      <4> QED
        BY <3>1, <4>1
    <3>6. ASSUME NEW q \in Clients, LookForRoad(q) PROVE Ends(q, "present")
      <4>1. Ends(q, "present") \/ UNCHANGED result
        BY <3>6 DEF LookForRoad
      <4> QED
        BY <3>1, <4>1
    <3> QED
      BY <1>1, <3>2, <3>3, <3>4, <3>5, <3>6 DEF Next, ClientStep
  <2>4. CASE \E q \in Clients : LookForRoad(q) /\ Ends(q, "present")
    <3>1. LookForRoad(p) /\ Ends(p, "present")
      BY <2>2, <2>4
    <3>2. There(p) /\ UNCHANGED rows
      <4>1. at[p] = 1
        BY <3>1 DEF LookForRoad
      <4>2. at'[p] = 0
        BY <2>1, <3>1 DEF Ends, Shape
      <4>3. at' # [at EXCEPT ![p] = 2]
        BY <2>1, <4>2 DEF Shape
      <4> QED
        BY <3>1, <4>3 DEF LookForRoad
    <3>3. PICK x \in rows : x.key = "DEV"
      BY <3>2 DEF There
    <3>4. PICK n \in 1 .. runs : {z \in rows : z.key = "DEV"} = {Fixture(t, n) : t \in SeedTables}
      BY <1>1, <3>3 DEF DeploymentInv, FixturesWholeAndOnce
    <3>5. "assignments" \in SeedTables
      BY SeedPlaces DEF Tables2
    <3>6. Fixture("assignments", n) \in rows
      BY <3>4, <3>5
    <3> QED
      BY <3>2, <3>6, FixtureFacts
  <2>5. CASE \E q \in Clients : Commit(q)
    <3>1. Commit(p)
      BY <2>2, <2>5 DEF Commit
    <3>2. /\ Running(p) /\ AtEnd(p) /\ rows' = rows \cup wrote[p] /\ SeedInv(p)
          /\ at[p] = 10 /\ Len(Program(p)) = 9
      <4>1. Len(Program(p)) = 9
        BY Sizes
      <4>2. SeedInv(p)
        BY <1>1, <2>1 DEF DeploymentInv, ClientInv
      <4> QED
        BY <3>1, <4>1, <4>2 DEF Commit, AtEnd
    <3>3. Placed(at[p]) = SeedTables
      BY <3>2, SeedPlaces
    <3>4. "assignments" \in SeedTables /\ "assignments" \in SeedTables \ {"intersections"}
      BY SeedPlaces DEF Tables2
    <3>5. Fixture("assignments", run[p]) \in wrote[p]
      BY <3>2, <3>3, <3>4 DEF SeedInv
    <3> QED
      BY <3>2, <3>5, FixtureFacts
  <2> QED
    BY <2>3, <2>4, <2>5
<1>2. DeploymentInv /\ [Next]_vars =>
        \A p \in Seeders : result[p] = "none" /\ result'[p] \in {"done", "present"} =>
          \E x \in rows' : x.key = "DEV" /\ x.table = "assignments"
  BY <1>1
<1> QED
  BY <1>2, DeploymentInvariant, PTL DEF Spec, SeedMeansSeeded
=============================================================================
