----------------------------- MODULE Deployment -----------------------------
(***************************************************************************)
(* The operator's commands on one database, at the same time: Alembic, the   *)
(* development seed and an OSM import.                                       *)
(*                                                                         *)
(* Every command is one transaction; a statement locks the tables it works  *)
(* on until the transaction ends.  DDL excludes the other commands, their    *)
(* own locks do not exclude each other, and PostgreSQL aborts a transaction  *)
(* that waits for itself.  Of the rows, the model keeps one of each table    *)
(* for the DEV_ fixtures, and the segments of imports.                       *)
(***************************************************************************)
EXTENDS Integers, FiniteSets, Sequences

CONSTANTS
  Seeders,        \* processes that run app.db.seed
  Importers,      \* processes that run an import
  Alembic,        \* the process that runs alembic
  Extracts,       \* what an import may read: sets of [way, seq]
  MaxRuns,        \* bound: seeds and imports started
  MaxMigrations   \* bound: Alembic commands started

VARIABLES
  version,     \* alembic_version
  schema,      \* committed tables, unique constraints and columns
  rows,        \* committed rows
  draft,       \* the schema in Alembic's transaction
  script,      \* the statements to come of the revision it is at
  revision,    \* the version it will have reached after them
  target,      \* the version it migrates to, None when it does not run
  at,          \* the statement that a client is at, 0 when it does not run
  wrote,       \* rows inserted by its open transaction
  extract,     \* what an import has read
  run,         \* number of its run
  result,      \* how its last run ended
  held,        \* tables locked by each process
  runs, migrations,
  forgotten    \* history: numbers of split segments have been dropped

catalog == <<version, schema, forgotten>>
alembic == <<draft, script, revision, target, migrations>>
client == <<at, wrote, extract, run, result, runs>>
vars == <<catalog, rows, alembic, client, held>>

Clients == Seeders \cup Importers
Processes == Clients \cup {Alembic}
HeadRevision == 4
None == -1    \* NULL

ASSUME ProcessesDiffer == Seeders \cap Importers = {} /\ Alembic \notin Clients

\* The segments of an extract are numbered, and ways do not bear fixture names.
ASSUME ExtractAssumption ==
  \A e \in Extracts : \A s \in e :
    s = [way |-> s.way, seq |-> s.seq] /\ s.seq \in Nat /\ s.way # "DEV"

-----------------------------------------------------------------------------
\* Migrations

Unique(table, on) == [table |-> table, on |-> on]

\* A statement of a migration: what it locks, and how it changes the schema.
Statement(locks, create, drop, constrain, lift) ==
  [locks |-> locks, create |-> create, drop |-> drop,
   constrain |-> constrain, lift |-> lift, column |-> "same"]

CreateTables(keyed, others) ==
  Statement({}, keyed \cup others, {}, {Unique(t, "key") : t \in keyed}, {})

\* Dropping a table also locks the tables that its foreign keys refer to.
DropTable(table, referred) == Statement({table} \cup referred, {}, {table}, {}, {})

Constrain(table, on) == Statement({table}, {}, {}, {Unique(table, on)}, {})
Lift(table, on) == Statement({table}, {}, {}, {}, {Unique(table, on)})
AddColumns == [Statement({"segments"}, {}, {}, {}, {}) EXCEPT !.column = "add"]
DropColumns == [Statement({"segments"}, {}, {}, {}, {}) EXCEPT !.column = "drop"]

CreateNetwork == CreateTables({"intersections", "segments"}, {"roads"})
CreateTransit == CreateTables({"stops", "routes", "calendars"}, {"route_stops"})
CreateFleet == CreateTables({"vehicles"}, {"assignments"})

DropTransportation ==
  <<DropTable("assignments", {"vehicles", "routes", "calendars"}), DropTable("vehicles", {}),
    DropTable("calendars", {}), DropTable("route_stops", {"routes", "stops"}),
    DropTable("routes", {}), DropTable("stops", {}),
    DropTable("segments", {"roads", "intersections"}), DropTable("roads", {}),
    DropTable("intersections", {})>>

SplitWays ==
  <<AddColumns, Lift("segments", "key"), Constrain("segments", "key_seq"), Constrain("roads", "key")>>

\* Mutant: the former unique constraint does not come back.
MutantUnsplitWays ==
  <<Lift("roads", "key"), Lift("segments", "key_seq"), DropColumns>>

UnsplitWays ==
  <<Lift("roads", "key"), Lift("segments", "key_seq"), Constrain("segments", "key"), DropColumns>>

\* The foreign keys of telemetry refer to vehicles and segments.
CreateTelemetry == Statement({"vehicles", "segments"}, {"telemetry"}, {}, {}, {})

\* upgrade() and downgrade() of the revisions; 0001 is the PostGIS extension.
Upgrade == <<<<>>, <<CreateNetwork, CreateTransit, CreateFleet>>, SplitWays, <<CreateTelemetry>>>>
Downgrade == <<<<>>, DropTransportation, UnsplitWays, <<DropTable("telemetry", {"vehicles", "segments"})>>>>

Changed(s, statement) ==
  [tables |-> (s.tables \ statement.drop) \cup statement.create,
   unique |-> {u \in (s.unique \ statement.lift) \cup statement.constrain :
                 u.table \notin statement.drop},
   way_seq |-> CASE statement.column = "add" -> TRUE
                 [] statement.column = "drop" -> FALSE
                 [] OTHER -> s.way_seq /\ "segments" \notin statement.drop]

Empty == [tables |-> {}, unique |-> {}, way_seq |-> FALSE]

\* What the statements make of a schema.
Migrated(s, statements) ==
  LET after[n \in 0 .. Len(statements)] ==
        IF n = 0 THEN s ELSE Changed(after[n - 1], statements[n])
  IN after[Len(statements)]

-----------------------------------------------------------------------------
\* Constraints and locks

\* NULLs never collide: key_seq binds numbered segments only.
Collide(x, y, u) ==
  /\ x.table = u.table /\ y.table = u.table /\ x.key = y.key
  /\ u.on = "key_seq" => x.seq = y.seq /\ x.seq # None

\* ADD CONSTRAINT fails on rows that violate it.
Refused(statement) ==
  \E u \in statement.constrain : \E x, y \in rows : x # y /\ Collide(x, y, u)

\* What a client does in turn: look whether there is something, or insert.
Looks(tables) == [insert |-> FALSE, tables |-> tables]
Inserts(tables) == [insert |-> TRUE, tables |-> tables]

SeedProgram ==
  <<Looks({"roads"}), Looks({"intersections"}), Inserts({"intersections"}), Inserts({"roads"}),
    Inserts({"segments", "stops"}), Inserts({"routes"}), Inserts({"route_stops", "vehicles"}),
    Inserts({"calendars"}), Inserts({"assignments"})>>

ImportProgram == <<Inserts({"intersections"}), Inserts({"roads"}), Inserts({"segments"})>>

Program(p) == IF p \in Seeders THEN SeedProgram ELSE ImportProgram
Running(p) == at[p] # 0
AtEnd(p) == at[p] = Len(Program(p)) + 1
Tables(p) == IF Running(p) /\ ~AtEnd(p) THEN Program(p)[at[p]].tables ELSE {}

Fixture(table, n) == [table |-> table, key |-> "DEV", seq |-> None, by |-> n]
Segment(s, n) == [table |-> "segments", key |-> s.way, seq |-> s.seq, by |-> n]

\* _resolve_segment looks for the way and its number.
Missing(p) ==
  {s \in extract[p] : ~\E x \in rows : x.table = "segments" /\ x.key = s.way /\ x.seq = s.seq}

\* Mutant: imports do not store the number of a segment.
MutantNew(p, tables) ==
  IF p \in Seeders
    THEN {Fixture(t, run[p]) : t \in tables}
    ELSE IF "segments" \in tables
           THEN {[table |-> "segments", key |-> s.way, seq |-> None, by |-> run[p]] : s \in Missing(p)}
           ELSE {}

New(p, tables) ==
  IF p \in Seeders
    THEN {Fixture(t, run[p]) : t \in tables}
    ELSE IF "segments" \in tables
           THEN {Segment(s, run[p]) : s \in Missing(p)}
           ELSE {}

\* Mutant: no unique constraint stands in the way of an insert.
MutantFails(p) ==
  \/ ~(Tables(p) \subseteq schema.tables)
  \/ Program(p)[at[p]].insert /\ "segments" \in Tables(p) /\ ~schema.way_seq

\* A statement on a table or column that is not there, or a unique violation.
Fails(p) ==
  \/ ~(Tables(p) \subseteq schema.tables)
  \/ Program(p)[at[p]].insert
     /\ \/ "segments" \in Tables(p) /\ ~schema.way_seq
        \/ \E x \in rows, y \in New(p, Tables(p)), u \in schema.unique : Collide(x, y, u)

\* The transactions that one waits for: DDL and other statements exclude each
\* other on a table, and a unique key is taken until its transaction ends.
Blockers(p) ==
  IF p = Alembic
    THEN {q \in Clients : script # <<>> /\ held[q] \cap Head(script).locks # {}}
    ELSE {q \in Processes \ {p} :
            \/ q = Alembic /\ held[q] \cap Tables(p) # {}
            \/ /\ q # Alembic /\ Running(p) /\ ~AtEnd(p) /\ Program(p)[at[p]].insert
               /\ \E x \in wrote[q], y \in New(p, Tables(p)), u \in schema.unique : Collide(x, y, u)}

Proceeds(p) == Blockers(p) = {}

\* Those p waits for, those they wait for, and so on.
Ahead(p) ==
  LET within[n \in 0 .. Cardinality(Processes)] ==
        IF n = 0 THEN Blockers(p)
        ELSE LET nearer == within[n - 1] IN nearer \cup UNION {Blockers(q) : q \in nearer}
  IN within[Cardinality(Processes)]

-----------------------------------------------------------------------------
\* Alembic

Migrates == target # None

StopMigrating ==
  /\ draft' = Empty /\ script' = <<>> /\ revision' = 0 /\ target' = None
  /\ held' = [held EXCEPT ![Alembic] = {}]
  /\ UNCHANGED <<migrations, client>>

\* alembic upgrade head, or downgrade to an earlier version
StartMigration ==
  /\ ~Migrates /\ migrations < MaxMigrations
  /\ \E to \in (0 .. HeadRevision) \ {version} :
       /\ to > version => to = HeadRevision
       /\ target' = to
  /\ draft' = schema /\ revision' = version
  /\ migrations' = migrations + 1
  /\ UNCHANGED <<catalog, rows, script, client, held>>

\* One revision after the other, all in one transaction.
NextRevision ==
  /\ Migrates /\ script = <<>>
  /\ \/ /\ revision < target
        /\ revision' = revision + 1 /\ script' = Upgrade[revision + 1]
     \/ /\ revision > target
        /\ revision' = revision - 1 /\ script' = Downgrade[revision]
  /\ UNCHANGED <<catalog, rows, draft, target, migrations, client, held>>

Migrate ==
  /\ Migrates /\ script # <<>>
  /\ Proceeds(Alembic) /\ ~Refused(Head(script))
  /\ held' = [held EXCEPT ![Alembic] = @ \cup Head(script).locks]
  /\ draft' = Changed(draft, Head(script))
  /\ script' = Tail(script)
  /\ UNCHANGED <<catalog, rows, revision, target, migrations, client>>

\* Rows of dropped tables go, and with its column the numbers of segments.
Surviving ==
  {IF draft.way_seq THEN x ELSE [x EXCEPT !.seq = None] :
     x \in {y \in rows : y.table \in draft.tables}}

CommitMigration ==
  /\ Migrates /\ script = <<>> /\ revision = target
  /\ version' = target
  /\ schema' = draft
  /\ rows' = Surviving
  /\ forgotten' = (Surviving # {} /\ (forgotten \/ Surviving # rows))
  /\ StopMigrating

\* A constraint is refused, or the process dies.
MigrationFails == Migrates /\ StopMigrating /\ UNCHANGED <<catalog, rows>>

-----------------------------------------------------------------------------
\* The seed and imports

\* Mutant: a failing command leaves its session open.
MutantEnds(p, how) ==
  /\ at' = [at EXCEPT ![p] = 0]
  /\ result' = [result EXCEPT ![p] = how]
  /\ wrote' = [wrote EXCEPT ![p] = {}] /\ extract' = [extract EXCEPT ![p] = {}]
  /\ UNCHANGED <<catalog, alembic, run, runs, held>>

Ends(p, how) ==
  /\ at' = [at EXCEPT ![p] = 0]
  /\ result' = [result EXCEPT ![p] = how]
  /\ wrote' = [wrote EXCEPT ![p] = {}] /\ extract' = [extract EXCEPT ![p] = {}]
  /\ held' = [held EXCEPT ![p] = {}]
  /\ UNCHANGED <<catalog, alembic, run, runs>>

Start(p) ==
  /\ ~Running(p) /\ runs < MaxRuns
  /\ at' = [at EXCEPT ![p] = 1]
  /\ \E e \in IF p \in Importers THEN Extracts ELSE {{}} : extract' = [extract EXCEPT ![p] = e]
  /\ runs' = runs + 1 /\ run' = [run EXCEPT ![p] = runs + 1]
  /\ result' = [result EXCEPT ![p] = "none"]
  /\ UNCHANGED <<catalog, rows, alembic, wrote, held>>

Lock(p) == held' = [held EXCEPT ![p] = @ \cup Tables(p)]

\* What a look finds: committed rows.
There(p) == \E x \in rows : x.table \in Tables(p) /\ x.key = "DEV"

\* Is DEV_MAIN_ST there?  Then there is nothing to do.
LookForRoad(p) ==
  /\ p \in Seeders /\ at[p] = 1 /\ Proceeds(p) /\ ~Fails(p)
  /\ IF There(p)
       THEN Ends(p, "present") /\ UNCHANGED rows
       ELSE /\ at' = [at EXCEPT ![p] = 2] /\ Lock(p)
            /\ UNCHANGED <<catalog, rows, alembic, wrote, extract, run, result, runs>>

\* _get_or_create_intersection
LookForIntersections(p) ==
  /\ p \in Seeders /\ at[p] = 2 /\ Proceeds(p) /\ ~Fails(p)
  /\ at' = [at EXCEPT ![p] = IF There(p) THEN 4 ELSE 3]
  /\ Lock(p)
  /\ UNCHANGED <<catalog, rows, alembic, wrote, extract, run, result, runs>>

\* Mutant: every flush is committed.
MutantInsert(p) ==
  /\ Running(p) /\ ~AtEnd(p) /\ Program(p)[at[p]].insert
  /\ Proceeds(p) /\ ~Fails(p)
  /\ rows' = rows \cup New(p, Tables(p))
  /\ at' = [at EXCEPT ![p] = @ + 1]
  /\ UNCHANGED <<catalog, alembic, wrote, extract, run, result, runs, held>>

\* A flush.
Insert(p) ==
  /\ Running(p) /\ ~AtEnd(p) /\ Program(p)[at[p]].insert
  /\ Proceeds(p) /\ ~Fails(p)
  /\ wrote' = [wrote EXCEPT ![p] = @ \cup New(p, Tables(p))]
  /\ at' = [at EXCEPT ![p] = @ + 1]
  /\ Lock(p)
  /\ UNCHANGED <<catalog, rows, alembic, extract, run, result, runs>>

Commit(p) ==
  /\ Running(p) /\ AtEnd(p)
  /\ rows' = rows \cup wrote[p]
  /\ Ends(p, "done")

\* A statement fails, or the process dies.
Aborts(p) == Running(p) /\ Ends(p, "error") /\ UNCHANGED rows

-----------------------------------------------------------------------------
Init ==
  /\ version = 0 /\ schema = Empty /\ forgotten = FALSE
  /\ rows = {}
  /\ draft = Empty /\ script = <<>> /\ revision = 0 /\ target = None /\ migrations = 0
  /\ at = [p \in Clients |-> 0] /\ wrote = [p \in Clients |-> {}]
  /\ extract = [p \in Clients |-> {}] /\ run = [p \in Clients |-> 0]
  /\ result = [p \in Clients |-> "none"] /\ runs = 0
  /\ held = [p \in Processes |-> {}]

ClientStep(p) == LookForRoad(p) \/ LookForIntersections(p) \/ Insert(p) \/ Commit(p)
AlembicStep == NextRevision \/ Migrate \/ CommitMigration

\* PostgreSQL answers a statement with an error.
ClientRefused(p) == Tables(p) # {} /\ Proceeds(p) /\ Fails(p) /\ Aborts(p)
MigrationRefused ==
  script # <<>> /\ Proceeds(Alembic) /\ Refused(Head(script)) /\ MigrationFails

\* The deadlock detector ends a transaction that waits for itself.
Deadlocked(p) == ~Proceeds(p) /\ p \in Ahead(p)
BreakDeadlock ==
  \/ Deadlocked(Alembic) /\ MigrationFails
  \/ \E p \in Clients : Deadlocked(p) /\ Aborts(p)

Next ==
  \/ StartMigration \/ AlembicStep \/ MigrationFails
  \/ \E p \in Clients : Start(p) \/ ClientStep(p) \/ Aborts(p)

Spec == Init /\ [][Next]_vars

Progress ==
  \/ AlembicStep \/ MigrationRefused
  \/ \E p \in Clients : ClientStep(p) \/ ClientRefused(p)
  \/ BreakDeadlock

\* As long as a command can go on, must fail or waits for itself, something of
\* the kind happens: operating system, PostgreSQL and its deadlock detector run.
FairSpec == Spec /\ WF_vars(Progress)

-----------------------------------------------------------------------------
\* Properties

\* What upgrading an empty database makes of the schema.
SchemaOf[v \in 0 .. HeadRevision] ==
  IF v = 0 THEN Empty ELSE Migrated(SchemaOf[v - 1], Upgrade[v])

\* Upgrades and downgrades in any order, some of them failing half-way, leave the
\* schema that the first upgrades to the same version would have made, and no row
\* that has no place in it.
SchemaFollowsVersion ==
  /\ schema = SchemaOf[version]
  /\ \A x \in rows : x.table \in schema.tables /\ (x.seq # None => schema.way_seq)

\* The numbers that tell the stretches of a way apart are dropped, with the rows
\* kept, only when no way has two of them: whatever imports commit meanwhile, a
\* downgrade that meets a split way leaves everything as it was.
StretchesStayApart ==
  [][schema.way_seq /\ ~schema'.way_seq /\ "segments" \in schema'.tables =>
       \A x, y \in rows :
         x.table = "segments" /\ y.table = "segments" /\ x.key = y.key => x = y]_vars

SeedTables == UNION {SeedProgram[i].tables : i \in DOMAIN SeedProgram}

\* The fixtures are there as a whole or not at all, and once, however seeds
\* overlap, fail and are repeated, and whatever migrations come in between.
FixturesWholeAndOnce ==
  LET there == {x \in rows : x.key = "DEV"} IN
  there = {} \/ \E n \in 1 .. runs : there = {Fixture(t, n) : t \in SeedTables}

\* A seed that ends well leaves the fixtures behind.
SeedMeansSeeded ==
  [][\A p \in Seeders : result[p] = "none" /\ result'[p] \in {"done", "present"} =>
       \E x \in rows' : x.key = "DEV" /\ x.table = "assignments"]_vars

\* However often extracts are imported, a stretch of a way has one row, unless a
\* downgrade has dropped the numbers of segments that were there.
ImportsOnce ==
  ~forgotten => \A x, y \in rows :
    /\ x.table = "segments" /\ y.table = "segments" /\ x.key = y.key /\ x # y
    => x.seq # None /\ y.seq # None /\ x.seq # y.seq

\* Nobody waits forever: every command ends, whatever locks the others hold.
EveryCommandEnds ==
  /\ Migrates ~> ~Migrates
  /\ \A p \in Clients : Running(p) ~> ~Running(p)
-----------------------------------------------------------------------------
(* The inductive invariant *)

IsRow(x) == x = [table |-> x.table, key |-> x.key, seq |-> x.seq, by |-> x.by]

Shape ==
  /\ at = [p \in Clients |-> at[p]] /\ wrote = [p \in Clients |-> wrote[p]]
  /\ extract = [p \in Clients |-> extract[p]] /\ run = [p \in Clients |-> run[p]]
  /\ result = [p \in Clients |-> result[p]] /\ held = [p \in Processes |-> held[p]]
  /\ runs \in Nat /\ version \in 0 .. HeadRevision
  /\ \A p \in Clients : at[p] \in 0 .. Len(Program(p)) + 1

\* What DDL drops, a statement locks; what it constrains, it locks or has just
\* created; and what it creates is not there already.
Careful(statement) ==
  /\ statement.drop \subseteq statement.locks
  /\ \A u \in statement.constrain : u.table \in statement.locks \cup statement.create
  /\ statement.column = "drop" => "segments" \in statement.locks
  /\ statement.create \cap schema.tables = {}

\* An open migration is on its way from the schema of its version to that of its
\* target; what its draft takes away or forbids, it has locked; and the rows
\* there are obey the draft.
MigrationInv ==
  IF Migrates
    THEN /\ target \in 0 .. HeadRevision
         /\ revision \in version .. target \/ revision \in target .. version
         /\ script \in Seq({script[i] : i \in DOMAIN script})
         /\ \A i \in DOMAIN script : Careful(script[i])
         /\ Migrated(draft, script) = SchemaOf[revision]
         /\ schema.tables \ draft.tables \subseteq held[Alembic]
         /\ schema.way_seq /\ ~draft.way_seq => "segments" \in held[Alembic]
         /\ \A u \in draft.unique \ schema.unique :
              u.table \in held[Alembic] \/ u.table \notin schema.tables
         /\ \A u \in draft.unique : \A x, y \in rows : x # y => ~Collide(x, y, u)
    ELSE script = <<>> /\ held[Alembic] = {}

\* What a transaction has written it has locked, and the tables are there.
WritesHeld(p) ==
  \A x \in wrote[p] :
    /\ IsRow(x) /\ x.table \in held[p] \cap schema.tables
    /\ x.seq # None => x.table = "segments" /\ schema.way_seq

\* The tables that the first n - 1 statements of the seed insert into.
Placed(n) == UNION {SeedProgram[i].tables : i \in {j \in 1 .. n - 1 : SeedProgram[j].insert}}

\* A seed has written its fixtures so far, but for the intersections when it has
\* found some, which are still there.
SeedInv(p) ==
  at[p] > 0 =>
    /\ at[p] > 2 => "intersections" \in held[p]
    /\ \/ wrote[p] = {Fixture(t, run[p]) : t \in Placed(at[p])}
       \/ /\ at[p] > 3
          /\ wrote[p] = {Fixture(t, run[p]) : t \in Placed(at[p]) \ {"intersections"}}
          /\ \E x \in rows : x.table = "intersections" /\ x.key = "DEV"

\* An import writes segments of its extract, at the end.
ImportInv(p) ==
  at[p] > 0 =>
    /\ extract[p] \in Extracts
    /\ wrote[p] \subseteq {Segment(s, run[p]) : s \in extract[p]}
    /\ ~AtEnd(p) => wrote[p] = {}

ClientInv(p) ==
  /\ ~Running(p) => wrote[p] = {} /\ held[p] = {}
  /\ Running(p) => run[p] \in 1 .. runs
  /\ held[p] \cap held[Alembic] = {}
  /\ WritesHeld(p)
  /\ IF p \in Seeders THEN SeedInv(p) ELSE ImportInv(p)

\* What is committed and what is about to be can be committed together.
Compatible ==
  \A u \in schema.unique : \A p \in Clients : \A x \in wrote[p] :
    /\ \A y \in rows : ~Collide(x, y, u)
    /\ \A y \in wrote[p] : x # y => ~Collide(x, y, u)
    /\ \A q \in Clients \ {p} : \A y \in wrote[q] : ~Collide(x, y, u)

\* The committed rows obey the constraints there are.
ConstraintsHold ==
  \A u \in schema.unique : \A x, y \in rows : x # y => ~Collide(x, y, u)

\* Only a downgrade takes the number of a segment away.
RowsInv ==
  \A x \in rows :
    /\ IsRow(x)
    /\ x.table = "segments" /\ x.key # "DEV" /\ ~forgotten => x.seq # None

DeploymentInv ==
  /\ Shape /\ MigrationInv /\ RowsInv /\ Compatible
  /\ \A p \in Clients : ClientInv(p)
  /\ SchemaFollowsVersion /\ ConstraintsHold /\ FixturesWholeAndOnce
=============================================================================
