# Verification of AURA (dynamic route rationalization)

This directory keeps formal models of the AURA backend beside its code: TLA+
modules, the TLC configurations that model-check them on small instances, and
TLAPS proofs of the properties that matter most for every size of the system.

- `tlc -config X.cfg M` checks one run; `PROJECT.json` lists the runs, what each
  one shows, which source lines every definition stands for (`map`), and for
  every checked property a mutant of the code's behaviour that breaks it.
- `tlapm M.tla` checks the proofs of `TelemetryProofs`, `TelemetryOrderProofs`,
  `FleetReadsProofs`, `OsmExtractProofs`, `OsmIngestionProofs`, `RoadGraphProofs`,
  `FeatureDatasetProofs` and `DeploymentProofs`.

Paths below are relative to `services/api/app/` unless they start elsewhere.

## 1. The system

AURA's code is one FastAPI service with two command-line tools beside it, and a
feature generator under `ml/common`. Shared state lives in PostgreSQL (default
isolation, READ COMMITTED) and in Redis; a process keeps nothing between
requests. Components meet in those two stores only.

| component | state it keeps | operations | interacts through | what is hard |
|---|---|---|---|---|
| **Telemetry ingestion** `telemetry/pipeline.py`, `api/v1/endpoints/telemetry.py` | table `telemetry`, unique (vehicle, ts, source); Redis key `aura:vehicle_state:{id}` | `POST /telemetry`: validate, vehicle lookup, duplicate look-up, latest timestamp (cache, then table), match segment and insert, publish, commit | vehicle rows, road segments, the cache read by `/fleet` | concurrent handlers between any two awaits; publish before commit; swallowed Redis errors; unacknowledged commits |
| **Current vehicle state and fleet reads** `telemetry/state.py`, `api/v1/endpoints/fleet.py` | none | `GET /fleet`, `GET /fleet/{id}`: vehicles with telemetry, cached state or latest row, freshness class, active assignment | cache and table above, assignments | several awaits per vehicle; outage, eviction or new samples between them; one `now` for all |
| **OSM normalisation and topology** `ingestion/osm/{parser,normalize,tags,topology}.py` | none (pure) | eligible ways, direction, intersections, splitting | feeds the pipeline | closed and self-touching ways, duplicates, reversed ways |
| **OSM ingestion** `ingestion/osm/pipeline.py`, `ingestion/cli.py` | tables `intersections`, `roads`, `road_segments` | resolve each intersection, road, segment (insert, update or skip), dry run, commit | the tables are read by the graph, the API, the segment match | concurrent runs, late flushes, failures half way, re-imports |
| **Road graph** `graph/{builder,validation,cli,stats}.py` | an in-memory `MultiDiGraph`, rebuilt every time | two queries and construction; validation against a third query | tables above | imports committing between the queries |
| **Feature dataset** `ml/common/*` | `dataset.csv`, `manifest.json` | static, telemetry and time features, targets, split, write, validate | telemetry and road tables, road graph | windows and boundaries, several queries, two files |
| **Read endpoints** roads, stops, routes, vehicles, status | none | one paged query each | tables | nothing to interleave |
| **Models and migrations** `models/*`, `alembic/*` | the schema and its version | upgrade, downgrade; unique and foreign keys | used by all | keys are what decides races; a downgrade may lose what an upgrade needs; DDL waits for every open transaction |
| **Seed** `db/seed.py` | fixture rows | look-before-insert, one commit | the tables of migrations and imports | two seeds at once, a seed during a migration |
| **Application core** `main.py`, `core/*`, `db/session.py`, `cache/redis.py`, `api/health.py` | engine, Redis pool | startup, shutdown, readiness, request ids | all requests | clean-up when one part fails |
| **Web status page** `apps/web` | none | polls readiness | HTTP | presentation |
| **Placeholders** `services/*`, `ml/{eta,delay,...}`, `rl`, `simulation` | none | READMEs only | - | - |

What makes each part correct:

- *Telemetry*: one row per key however often a sample is sent; a 202 tells the
  truth about durability; history is append-only; a waiting handler gets on;
  the cached and served state does not go back in time and is never the only
  copy.
- *OSM topology*: no stretch of a way is lost or doubled; roads are split where
  they meet; direction of travel is kept; `(way, way_seq)` is a key.
- *OSM ingestion*: an import happens entirely or not at all; importing again
  writes nothing; statistics and dry runs are exact; foreign keys always hold;
  concurrent runs do not deadlock.
- *Road graph*: every segment is one edge, plus a reverse edge exactly if it is
  two-way; a build or a validation never blames data that is sound, and what a
  concurrent import does to it is bounded.
- *Fleet reads*: a vehicle that has reported is in the answer; an answer speaks of
  one instant; a client sees what it was told is stored.
- *Dataset*: features use nothing from after the prediction time; what one row has
  used no later row misses; the features of an earlier part of the
  split do not know a later part's targets, and their targets share no more than the
  longer horizons make them; `validate` takes a mixture of two generations for a
  dataset only where a crash explains it.
- *Migrations and seed*: the schema depends on the version alone; fixtures are
  there as a whole and once; a migration that cannot keep the data leaves it;
  commands that lock one another end.

`PROJECT.json` lists the hazards one by one with the line where each bites.

## 2. Modules

```
EventLog          abstract: an idempotent append-only log, atomic requests
Telemetry         POST /telemetry, Postgres, Redis        implements EventLog
TelemetryProofs, TelemetryOrderProofs
FleetReads        GET /fleet beside those handlers        extends Telemetry
FleetReadsProofs
Rows              keyed rows, overwriting
NetworkImport     abstract: tables change by whole extracts
OsmTopology       ways -> segments, pure operators
OsmExtract        a file read way by way; properties of OsmTopology
OsmExtractProofs
OsmPlan           extract -> keys to resolve and rows wanted  (uses OsmTopology)
OsmIngestion      concurrent runs of the pipeline         implements NetworkImport
OsmIngestionProofs
OsmFiles          sample extracts
RoadGraph         builds, validations, feature loads       composed with NetworkImport
RoadGraphProofs
FeatureDataset    generate, its two files, validate        beside commits and imports
FeatureDatasetProofs
Deployment        Alembic, seeds and imports on one database
DeploymentProofs
MC*               instances for TLC
```

`OsmIngestion` takes what a file asks for as parameters (`WantedRows`, `Work`),
so that its proofs hold for any file; `MCOsmIngestion` gives them the values
that `OsmPlan` and `OsmTopology` compute from the ways of `OsmFiles`.
`FleetReads` composes its reader with the whole of `Telemetry`: a step is one of
the reader's or one of the handlers', the cache's or the clock's.
`RoadGraph` runs beside the *abstract* import, which `OsmIngestion` is shown and
proved to implement, so one model of the graph covers every such writer.

## 3. How the models correspond to the code

### Telemetry

A request slot (`Requests`) runs one handler at a time. `pc` names the await the
handler stands at; an action is the code from that await to the next one:

| action | code |
|---|---|
| `Receive` | a payload arrives, `validate_fields`; a rejection answers at once |
| `CheckVehicle` | `_vehicle_exists`; unknown vehicles are answered with an error |
| `CheckDuplicate` | `_is_duplicate`, the look-up before the insert |
| `ReadCache`, `ReadLatest` | `_latest_known_ts`: Redis, and on a miss or exception the table |
| `Insert` | segment match, INSERT; waits for an open transaction with the same key, and answers *duplicate* when that key is committed |
| `Publish` | `publish_state` when the sample is newer than `previous_ts`; Redis errors are swallowed |
| `Commit`, `Abort`, `CommitUnacknowledged` | the endpoint's commit; a failed one; one that was applied but reported as failed |
| `Evict`, `RedisFails`, `RedisRecovers`, `Tick` | expiry and eviction, outages, the server clock |

Data are abstracted to what the properties tell apart: a position is the set of
segments it may match, a payload its vehicle, timestamp, zone flag, source and
speed. Which of several rows with the same newest timestamp is read is left
open, as `ORDER BY ts DESC LIMIT 1` leaves it. `IngestResult` and the HTTP answer
are one value. `Calls` and `Answers` map the slots to `EventLog`'s requests.

### OSM topology and plan

`OsmTopology` is the pure part: `Eligible` and `SeenBefore` (`normalize_ways`),
`Direction` (`parse_direction`), `Intersections` (nodes on two ways and way
ends), `Cuts`/`Starts`/`Segments` (`split_way_into_segments`). `OsmExtract` reads
a file way by way, so TLC visits every file within the bounds; `room` is what the
bound on node references leaves, and no part of the code. `OsmPlan` turns
an extract into the ordered list of keys a run resolves (`AgendaOf`: sorted
intersections, sorted names, segments in file order) and the rows it wants
(`RowsOf`; a degenerate line wants none).

### OSM ingestion

A run's record has the code's locals: position in the agenda (`done`), the
change of the ORM object that is not flushed yet (`dirty`), the rows the open
transaction has written (`tx`), the statistics. `ResolveIntersection`,
`ResolveRoad`, `ResolveSegment` are one query with its comparison each (create,
update or pass). `FlushUpdate` is SQLAlchemy's autoflush before the next query:
the differing columns and a segment's geometry go out, to the row as it is *then*. `FlushInsert` and
`InsertConflict` are the two outcomes of an INSERT once no other transaction holds
the key. `Commit`, `EndDryRun` and `Fail` end a run. `base` is history: the tables
when the run began.

### Road graph

A session stands at one query after another: `LoadNodes` (`_load_nodes`),
`LoadEdges` or `BuildFails` (`_load_edges` and the construction, which awaits
nothing), then `Validate` (`load_known_intersection_ids` and `validate_graph` with
the segment rows the command takes out of the graph) or `LoadFeatures`
(`load_static_segment_features`), then `Exit`. `ImportCommits` may happen between
any two. An edge is the triple (from, to, segment id) that identifies it in the
`MultiDiGraph`; `EdgesOf`, `IssuesOf` and `Degree` are the code's computations.

### Fleet reads

`step` names the await the reader stands at: the list of vehicles
(`list_vehicle_ids_with_telemetry`), the cache, the table and the assignment of
the vehicle in turn. `AskFleet` and `AskVehicle` take `now` and begin the two
endpoints, `LookInCache` and `LookInTable` are the two halves of
`get_vehicle_state`, `MakeEntry` computes the age against that `now` and adds the
entry, `Answer` ends the request; `ReadFails` is an exception of the database.
Reads change nothing that anyone else sees, so one reader stands for any number.
`asked` and `floor` are history: what the table held when the request came.
Vehicles are listed in any order, which covers the order of the query.

### Feature dataset

One process at a time generates into a directory, as the command is used. `step`
is the last thing the generation did: `LoadStatic`, then per bucket `Aggregate` and
`QueryLatest` (the two queries of `load_telemetry_derived_features`), per row and
horizon `QueryTarget` (the last one of a row is in `FinishRow`, which awaits
nothing more), then `OpenCsv`, `CloseCsv`, `WriteManifest`. `Commit` (a sample) and
`Import` (segments) may happen between any two, and the process may die (`Dies`)
anywhere, also within a file. `dataset.csv` and `manifest.json` are what `Verdict`,
the `validate` command, reads; `interrupted` is history: the generations that died
between the two. A column computed from telemetry is modelled by the
set of samples it is computed from, which is what leakage, windows and nulls are
about; `Temporal` and `Part` are the code's arithmetic on times. `Temporal` reads a
clock: as in the code, that is the one of the offset `--start` was given with
(`LocalTime`), whereas queries compare instants. The sums, means
and deviations themselves are left out. A tie for the newest sample is open, as
`row_number()` leaves it.

### Deployment

Each command is one transaction, and an action is one statement or flush.
`Upgrade` and `Downgrade` list the statements of the revisions: the tables each
creates and drops, the unique constraints, and the one column whose presence
decides the identity of a segment (`way_seq`). A command goes revision by revision
(`NextRevision`), as Alembic does, in one transaction; `Migrated` is what a list of
statements makes of a schema, `SchemaOf` the schema of each version; `Surviving` is what dropping tables
and that column leaves of the rows. `SeedProgram` lists the two looks and seven
flushes of `seed_dev_data`, `ImportProgram` the flushes of an import. `Fails` and
`Refused` say when a statement meets a missing table, a missing column or a
constraint. `Blockers` is PostgreSQL: DDL excludes everything else on the tables
it touches, foreign keys included; an INSERT waits for an open transaction with
the same key. Locks are taken by the statement at once, and the queue of waiters
is not modelled, so any waiter may come first. One row stands for all fixtures of
a table, and of an import only the segments are kept.

## 4. Runs

| run | question | bounds |
|---|---|---|
| `telemetry_faults` | do concurrency, outages, evictions, failed and unacknowledged commits break the log or an answer? is every request answered? is a phantom state always accompanied by an error? | 2 slots, a registered and an unregistered vehicle, speeds on both sides of the limit, clock 0..1, samples 1 back and none ahead: two samples of one key, and two of different age, in flight at once; every race here is between two handlers |
| `telemetry_concurrent_regress` | *violation*: the cache is overwritten by an older sample | 2 slots, no failure at all |
| `telemetry_outage` | *violation*: after an outage the served state goes back in time | 1 serial slot |
| `fleet_answers` | can a read lose a vehicle, mix instants or hide a write? with one sample per vehicle at a time, does the cache regress, and is the newest state served until an outage? | 1 handler and a reader, 2 vehicles, clock 0..1 with a midnight between, one assignment replaced by another; Redis outages and evictions, no database failure |
| `osm_ways` | is the split right for every file? | 1-2 ways, 6 node references in all, 3 known nodes and an unknown one; closed ways, self-touching ways, junctions, duplicates, both one-way directions |
| `osm_import_same_file` | atomic, idempotent, exact statistics, also with two runs on one file | 5 files, 4 starts, 2 open at once, failure at any statement |
| `osm_import_overlap` | foreign keys with two runs on different files, and do runs ever wait for one another in a circle? | the same files, 3 starts |
| `osm_resplit` | *violation*: a way that lost a junction keeps its old rows | 2 files, 2 runs |
| `graph_imports` | what can imports between a session's queries do to a graph? | 6 extracts, one of them with loops and parallel roads; any number of imports and sessions |
| `dataset_generate` | what do commits between the queries, and crashes between the files, do to a dataset? | 5 samples on the edges of the windows, one tie; 4 buckets in UTC across a Friday's midnight with horizons of 1 and 2 units, 2 buckets at UTC-04:00; 2 segments, 2 generations in one directory; two refused configurations |
| `dataset_offset` | *violation*: the hour and weekday columns are not UTC | the same |
| `deployment_commands` | do overlapping and failing commands keep schema, fixtures and segments right, and does each end? | 3 Alembic commands (any downgrade), 2 seeds or imports of 3 processes |

Four starts suffice for a rerun after an interleaved pair; the sample files are
each one edit apart (junction added, node moved, tags changed, stretch
degenerate, way turned round, id repeated), which are the differences that the
resolvers tell apart. The first of the four buckets falls into the training part, the
second into validation, the third into the test part and the last, at the end of the
range, into none; samples lie in the target windows of validation rows, of
both horizons, and of test rows, one of them also in that of a training row of the
longer horizon. The
range begins at 23:50 on a Friday, so rows are on both days, and that of the other
configuration at 19:50 local time, so its rows go from peak to off-peak hours. A
horizon that reaches the next bucket is what makes a sample both a target and, later,
a feature. A second generation is what a crash can leave half replaced. Three
Alembic commands are up, down and up again, the shortest history in which a
downgrade meets rows and an upgrade meets what it left.

Bounds in the models themselves are `MaxTime`, `MaxStarts`, `MaxWays`, `MaxRefs`,
`MaxRuns` and `MaxMigrations`. The time unit of `dataset_generate` is 300 s, so windows (1 and 3
units), horizons and an hour (12) keep the proportions of the code.

Deadlock is checked in the telemetry, fleet and graph runs. It is off in the OSM,
dataset and deployment runs, which stop when the file is complete, the last
permitted run has ended and no sample or command is left; that runs do not block
one another is `NoDeadlock` and `EveryCommandEnds`.

Symmetry is used over request slots (`telemetry_concurrent_regress`), run processes
and node/way ids (the OSM runs), in runs that check safety only and name none of
them.

### Fairness

`telemetry_faults` assumes weak fairness of each handler's own next step, since
the event loop resumes a handler whose await completes, and strong fairness of
`Insert`: whenever the blocking transaction ends, PostgreSQL wakes the waiters,
and a waiter that again finds the key held loses to another request only finitely
often. Nothing is assumed of clients, clock, Redis or evictions. A database that
never answers is outside of this: the code sets no statement timeout, and such a
handler waits for as long as the connection lasts.

`deployment_commands` assumes weak fairness of `Progress`: as long as some command
can take its next statement, has one that must fail, or waits for itself, something
of the kind happens. The operating system runs processes, PostgreSQL answers
statements, and its deadlock detector, which `BreakDeadlock` stands for, aborts one
transaction of a cycle. Starts are bounded, so nobody is overtaken for ever, and
fairness towards a single process would add nothing.

## 5. Where code and documentation disagree

Four runs end in a counterexample; `findings` in `PROJECT.json` quotes the lines.

1. *The cached state can go back in time.* `previous_ts` is read several awaits
   before the publish and there is no compare-and-set, so of two samples of one
   vehicle in flight the older may be written last (`telemetry_concurrent_regress`).
   For clients that wait for each answer this cannot happen (`fleet_answers`).
2. *An outage makes the live view regress.* The swallowed publish leaves an older
   entry that hides the newer row once Redis answers again (`telemetry_outage`).
   Until the first outage the newest state is served (`LatestWhileRedisAnswers`).
3. *Re-imports keep stale segments* of a way that is split less often than before
   (`osm_resplit`).
4. *The temporal columns follow the offset of `--start`*. `compute_temporal_features`
   reads hour and weekday off the timestamp it is given and nothing converts that to
   UTC, as `ml/common/contract.py:163` and the module's own docstring say it is: the
   same instants make other rows (`dataset_offset`).

Observed in the models, without a run of their own:

- *Telemetry.* The publish precedes the commit, so a failing commit leaves the
  cache with the only copy: `CacheIsReconstructable` fails, and
  `OnlyErrorsLeavePhantoms`, which is checked, says when.
- *Topology.* A node where one way crosses itself counts once and is no vertex,
  although `docs/architecture/TASK202_DESIGN.md:121` says that "every place a route
  could plausibly turn is a vertex".
- *Imports.* Two imports of *different* files at the same time can leave rows that
  belong to neither, because an update sends only the geometry and the columns that
  differed when the row was read (`ImportsWholeExtracts` fails as soon as `SameFile` is FALSE; the
  proofs and `osm_import_same_file` state the condition).
- *Graph.* A graph built across the commit of an import can combine old
  coordinates with new segments. The `validate` command compares the graph with
  segment rows taken from the same graph, although `validate_graph` asks for "the
  same rows the builder used".
- *Migrations.* A downgrade past 0003 drops `way_seq` and the next upgrade brings
  it back as NULL, which collides with nothing: importing the same extract again
  inserts every segment a second time, against
  `docs/architecture/TASK202_DESIGN.md:151` ("Re-running ingestion against the
  *same* extract produces the *same* row set"). `ImportsOnce` states the condition (`forgotten`).
- *Seed.* Its docstring looks up "existing rows by natural key"; the code does so
  for the road and the intersections only. The one commit makes the road's
  presence proof of the rest (`SeedMeansSeeded`).
- *Dataset.* `row_number()` over tied timestamps leaves the latest sample open, so
  the same data may give two datasets. The command takes negative horizons, for
  which targets overlap features. The last bucket ends at the end of the range and
  is in no part of the split. `validate` accepts an older manifest beside a newer
  `dataset.csv` of the same number of lines: `MixedOnlyIfInterrupted` says when that
  can be found. The split leaves no gap, so with the default horizons of 300 and 900 s
  training targets of the longer one share samples with evaluation targets
  (`EvaluationIsUnseen` says how far). A manifest that was cut off makes it raise rather than answer.

## 6. What is proved

For every value of the constants that satisfies the modules' assumptions.

**TelemetryProofs.** `IInv` is inductive (`Invariance`). `OneRowPerKey` alone is not:
it survives a commit only because an open transaction's key is neither committed
(`InsertedIsOwn`) nor held by another open transaction (`OneInsertPerKey`), and a
*duplicate* answer is true only because the key it deferred to was committed when
it was decided (`PendingResult`). From it follow `TypeCorrect`, `UniqueRows`,
`AcceptedAnswers`, `DuplicateAnswers`, `AppendOnly`, and `ImplementsEventLog`: each
step of the handler is a step of `EventLog` or a stutter; an append happens at the
commit.
Assumptions: registered vehicles are vehicles, bounds are naturals, the
"nothing" values differ from real ones.

**TelemetryOrderProofs.** What the cache promises, on top of `IInv`.
`NewestIsServed`, for clients that wait for each answer: while Redis answers, an
entry is no older than any row of its vehicle (`CacheAhead`). This survives a
commit because the handler knew the newest row when it decided (`KnowsLatest`), by
the entry, which is ahead, or by the table when there was none; with one sample in
flight (`OneInFlight`) nobody else changes the vehicle's rows or entry meanwhile.
Failures of the database do no harm here: a rolled back sample leaves an entry
that is too new, never too old. `WritesInOrder` is about outages too, and is the
other way round: an entry is no *newer* than the table or the row about to be
committed (`CacheHasRow`), so that what a handler has read is never behind the entry
it will replace (`PublishesForward`). It needs a database that does not fail: a
rolled back publication leaves an entry newer than all rows, and a handler that
reads the table during an outage replaces it by an older state once Redis is back.
`PhantomsNeedErrors` needs neither condition: a handler keeps its row until it
commits it, unless it ends in an error. The two conditions are constants of
the model (`SerialVehicles`, `DatabaseFailures`), so they are explicit assumptions
of the theorems; `telemetry_concurrent_regress` shows that the first is needed.

**FleetReadsProofs.** `ReaderIInv` is inductive (`ReaderInvariant`) beside any number
of handlers, with every fault on. Vehicles asked for are served or pending
(`AskedKept`), and a reported one is never passed over, since the table has a latest
row for it (`LatestExists`): `NobodyIsMissing`. Entries are right at `now`
(`RightAtNow`), which is the instant of `OneInstant`. `WritesAreRead` adds that every
floor is the timestamp of a row (`FloorsCommitted`) and that neither an entry of the
cache, by `CacheAhead`, nor the query gives less than a row; it holds for clients
that wait. Assumptions: a day has a length, the thresholds are in order.

**OsmExtractProofs.** For every file, of any number of ways and references, closed
and self-touching ones included: `KeysIdentifySegments`, `RoadsSplitWhereTheyMeet`,
`OnewaySegmentsLeadRight` and `SegmentsCoverTheirWay`. A file is a sequence of ways
(`TypeCorrect`); the rest is about the operators. The cuts of a way are ranked by
how many cuts are not after them, so that the cut after the n-th is the one of rank
n + 1, and the stretches between neighbours, whose lengths add up to the position of
the next cut, are the way again: the first stretch for which they do not add up
would contradict the one before it. Assumption: a way's nodes are a sequence no
longer than the bound under which it is read.

**OsmIngestionProofs.** Four invariants, each resting on the ones before. `AgendaInv`
places a run on its agenda: what it has written lies behind it, what it is about to
change is the last key it has resolved, what it inserts the next one. `ReferencesInv`
is about foreign keys: what a transaction has written refers to rows that it sees,
and a real run sees what it has resolved. Both hold whatever files the runs read,
which gives `ReferencesAlwaysExist`; and `RunsNeverDeadlock`, for any number of runs:
a run waits for one key, which comes after all keys it holds, so of any set of runs
the one that waits for the last key waits for none of the set. The theorem's
hypothesis `OneOrder` is needed: all files list their keys in one order. The code
sees to it for intersections and roads, which it sorts; segments come in the order of
the file, so it is a condition on files, met by the ascending ids of OSM exports.

The other two need the condition that runs which are open together read the same
file. `FilesInv` says that a transaction has written wanted rows only, that a pending
change turns the row *as it is now*, whoever wrote it, into the wanted one, and that
every resolved key is written or needs no write. The last one makes a commit a whole
extract: `WholeExtracts`, that `OsmIngestion` implements `NetworkImport`. The second
one is where the condition is needed: another file's run could change a column that
was equal when the difference was computed. `StatsInv` says that the statistics of an
undisturbed run are the tally of the keys it has resolved, by how they differ from
the tables, and that the last import's rows are in the tables; hence
`StatsTellDifferences` and `RerunsWriteNothing`. TLC checks the conjunction, `IInv`,
beside the properties.
Assumptions: every wanted row is on the agenda, once and after the rows it refers to,
and a row's columns depend on its key only; TLC checks this against `OsmPlan`.

**RoadGraphProofs.** `GraphIInv` is inductive (`GraphInvariant`): foreign keys
survive imports since an extract brings both intersections of each segment
(`TablesClosed`), the nodes are the intersections of the first query and none is
deleted (`NodesExist`), the ends of edges are nodes (`EdgesJoinNodes`), reverse
edges fit the one-way flag (`ReverseFitsOneway`). From it follow
`SegmentsCountedOnce` (by a bijection of segments and edges that are not
reversed), `OnlyLateIntersections`, `FailuresComeFromImports` and
`DegreesAreTheGraphs`. Assumptions: extracts are finite and closed, and "no degree"
is not a number.

**FeatureDatasetProofs.** `DatasetIInv` is inductive (`InvariantHolds`). Leakage
(`NothingLeaks`) needs only that each row keeps the windows of its own bucket
(`RowSound`). That later rows see no less (`NothingGoesMissing`) is not inductive by
itself: it survives `FinishRow` only because what the bucket has *loaded* already
covers what earlier rows have used (`CountedSound`, `LatestSound`, `LabelSound`), and
these survive commits because the queries look at a table that only grows. That
the newest sample is there at all (`LatestIsNeverBehind`) rests on `LatestExists`:
a maximum exists because telemetry grows by one sample at a time, from nothing.
`MixturesMeanInterruption` follows from the order of the two files (`FilesFollow`): a
`dataset.csv` newer than the manifest is there only between the two writes of the
generation at work, or because a generation died there.
Assumptions: timestamps are integers, samples lie on segments, windows are
positive and the short one is not the longer; of the configurations nothing but
their types. `LatestExists` quantifies over all integers, so TLC does not evaluate
`DatasetIInv`; it checks the properties that follow from it.

A second invariant, `DatasetRowsInv` (`RowsInvariantHolds`), which TLC does evaluate,
says what the rows are made of and which there are: every row is what `Features` and
`Temporal` compute from its evidence, the evidence lies between that of the start and
that of now (`RowMade`, and `Bracketed` for the row in the making), rows of different
buckets are a bucket apart (`RowsOrdered`), buckets are whole numbers of `bucket_s`
after the start (`OnGrid`), and every segment that had samples at the start has its
row as soon as the loop has passed it (`NoneLeftOut`). `RowsAlwaysMeetContract` adds
the arithmetic of days and hours, on whatever clock, and that a set has no fewer
samples than vehicles;
`RowsAlwaysBracketed` that no bucket lies between the last one and the end;
`EvaluationAlwaysUnseen` that a row in an earlier part of the split is an earlier row,
whatever the shares, and so at least one bucket earlier: its features end before the
other's target begins, and its target window meets the other's only where the
difference of the horizons makes up for that bucket.

**DeploymentProofs.** `DeploymentInv` is inductive (`DeploymentInvariant`), for any
number of seeds and imports and any extracts, at any point of an upgrade or a
downgrade. Locks keep the processes apart: a client has locked what it has written,
and Alembic has locked every table that its draft drops, takes a column from or
constrains anew, unless the table is its own; the two share none. So when Alembic
commits, a row that is not committed yet keeps its table and its column and meets no
new constraint, and the rows there are agree with those of the draft (`MigrationInv`). The draft is
on its way: the statements left turn it into the schema of the revision it is at,
which is why `SchemaAlwaysFollows`. What a draft demands of the rows, the rows meet from
the statement on that has checked it, since no client gets past its locks; so when the
numbers of segments go (`StretchesAlwaysStayApart`), the uniqueness of ways that the
downgrade has put in their place holds. That rows obey the constraints there are
(`ConstraintsHold`) is PostgreSQL's work and only part of the invariant. Two rows that are open at once never collide
(`Compatible`); a whole seed writes a *stop*, which is unique, so a second seed cannot
commit beside it (`SeedInv`, `FixturesAlwaysWhole`), and the road the seed looks for
stands for the rest (`SeedsMeanSeeded`). `StretchesImportedOnce` follows because the
constraint on way and number is there whenever there are numbers. `Migrated` recurs
over a list of statements; it is used through one lemma, that its value is that of
the rest of the list on the schema after the first statement.
Assumptions: the processes differ, segments of an extract have numbers, and no way
bears a fixture's name.

Induction. The library's induction rules take an operator as a parameter, which the
provers cannot instantiate, so inductions over numbers, files and sets of runs are
stated as minimal counterexamples: a non-empty family of subsets of a finite set has
a minimal member (`MinimalSet`).

Model-checked only: liveness (`EveryRequestAnswered`, `EveryCommandEnds`), which is out of
the prover's reach, and that the instances of the runs satisfy `OneOrder`, which
`osm_import_overlap` shows by checking `NoDeadlock` itself. Every other property that
a passing run checks is a theorem.

## 7. What is not modelled

- Of the graph's statistics only the segment count; component counts come from
  NetworkX. Serialisation to JSON is layout.
- The `stats` command of the dataset: it reads and reports, and the rows it meets
  are those of `Verdict`.
- `length_m`, parsing of `maxspeed` and `lanes`, and the XML parser: data no
  property is about; an XML error ends a run before its first statement.
- Columns, checks and plain indexes of the schema, which no command depends on;
  the queue in which PostgreSQL serves waiters; offline migrations, which only print.
- The remaining read endpoints and their schemas: one query each, nothing to
  interleave. Startup, shutdown, request ids and error envelopes: sequential, with no
  state that two requests share; if closing Redis raises at shutdown, the engine is
  not disposed of, by a process that ends. Configuration, logging, the web page and
  the placeholders.

`PROJECT.json` gives the reason for each under `components`.

## 8. Plan

All the modules planned so far are there, and every safety property of a passing run
is proved. What is left, in the order of importance:

1. `OneOrder` for the agendas that `OsmPlan` computes from files whose ways ascend,
   which would make the hypothesis of `RunsNeverDeadlock` one about the file only; and
   `PlanAssumption` and `AgendaAssumption` from `OsmPlan`, which the runs check, as far as
   the library's sorting operators, which take an operator as a parameter, allow.
2. The steps towards liveness that are no liveness: that a waiting handler, or a command
   that cannot proceed, waits for a transaction which itself can.
3. More statistics in `RoadGraph` (isolated nodes, parallel groups).

New questions join existing runs where the instance allows it, as the fleet reads
and the serial vehicles do, so that the whole project stays quick to check.
