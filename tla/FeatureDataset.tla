--------------------------- MODULE FeatureDataset ---------------------------
(***************************************************************************)
(* ml/common: `generate` reads the segments, then bucket by bucket and in   *)
(* one query each the aggregates, the latest samples and the targets, while *)
(* telemetry and imports go on committing (READ COMMITTED), and writes      *)
(* dataset.csv and manifest.json in place; `validate` reads both.           *)
(*                                                                         *)
(* A value computed from telemetry is modelled by the samples it is         *)
(* computed from: a mean by the set it averages, {} standing for null.      *)
(* Segments are numbered in the order of their ids.                         *)
(***************************************************************************)
EXTENDS Integers, FiniteSets, Sequences

CONSTANTS
  Samples,        \* rows telemetry may get: [vehicle, segment, ts, ...]
  Segments,       \* segments that imports may bring
  Configs,        \* what generate is called with: [start, end, offset, bucket_s, horizons_s]
  WindowShort,    \* WINDOW_SHORT_S
  WindowLong,     \* WINDOW_LONG_S
  TargetWindow,   \* TARGET_WINDOW_S
  Hour,           \* time units in an hour; time 0 is a Monday's midnight, UTC
  TrainShare, ValidationShare, TestShare,  \* fractions, in any common unit
  MaxRuns         \* bound: generations started in one directory

ASSUME ConstantsAssumption ==
  /\ Segments \subseteq Nat
  /\ {WindowShort, WindowLong, TargetWindow, Hour} \subseteq Nat \ {0}
  /\ WindowShort <= WindowLong
  /\ {TrainShare, ValidationShare, TestShare} \subseteq Nat \ {0}

ASSUME SamplesAssumption ==
  /\ IsFiniteSet(Samples)
  /\ \A x \in Samples : x.ts \in Int /\ x.segment \in Segments

ASSUME ConfigsAssumption ==
  \A c \in Configs :
    /\ {c.start, c.end, c.offset, c.bucket_s} \subseteq Int
    /\ c.horizons_s \in Seq(Int) /\ c.horizons_s # <<>>

VARIABLES
  telemetry,  \* committed samples
  segments,   \* committed segments
  step,       \* what the generation has done last
  config,     \* its configuration
  known,      \* all_segment_ids
  began,      \* history: the samples there were when it started
  ts,         \* feature_ts
  counted,    \* agg_by_segment: the samples that the aggregate query covered
  latest,     \* latest_by_segment: the sample numbered 1, as a set of at most one
  todo,       \* segments of the bucket that are still to get a row
  labels,     \* targets of the row in the making
  rows,       \* rows made
  runs,       \* generations started
  csv,        \* dataset.csv: its run, its lines, whether it is whole
  manifest,   \* manifest.json: its run and row_count, or torn
  interrupted \* history: the generations that died while writing the two files

database == <<telemetry, segments>>
session == <<config, known, began, ts, counted, latest, todo, labels, rows>>
files == <<runs, csv, manifest, interrupted>>
vars == <<database, step, session, files>>

NoConfig == [start |-> 0, end |-> 0, offset |-> 0, bucket_s |-> 0, horizons_s |-> <<>>]
NoFile == [run |-> 0]

-----------------------------------------------------------------------------
\* The queries, over a state t of the telemetry table

In(t, s, from, to) == {x \in t : x.segment = s /\ from <= x.ts /\ x.ts < to}

\* Mutant: the feature window includes feature_ts.
MutantCounted(t, s, T) == In(t, s, T - WindowLong, T + 1)

\* The rows that the aggregate query groups for one segment.
Counted(t, s, T) == In(t, s, T - WindowLong, T)

\* The rows that row_number() may number 1: those that tie for the greatest ts.
Latest(t, s, T) ==
  LET before == {x \in t : x.segment = s /\ x.ts < T}
  IN {x \in before : \A y \in before : y.ts <= x.ts}

\* Mutant: the target window starts at feature_ts.
MutantTarget(t, s, T, horizon) == In(t, s, T, T + horizon + TargetWindow)

\* The rows that generate_traffic_target averages.
Target(t, s, T, horizon) == In(t, s, T + horizon, T + horizon + TargetWindow)

-----------------------------------------------------------------------------
\* The columns of a row

Vehicles(evidence) == {x.vehicle : x \in evidence}

\* What a clock shows at T in the offset that the start of the range was given
\* in: _parse_iso keeps it and adding a timedelta does too.
LocalTime(T) == T + config.offset

\* compute_temporal_features, by the clock of the timestamp itself
Temporal(clock) ==
  LET hour == (clock \div Hour) % 24
      day == (clock \div (24 * Hour)) % 7
  IN [hour_of_day |-> hour,
      day_of_week |-> day,
      is_weekend |-> day >= 5,
      is_peak |-> day < 5 /\ \E w \in {<<7, 10>>, <<17, 20>>} : hour \in w[1] .. w[2] - 1]

\* Mutant: a single sample has a deviation.
MutantFeatures(T, group, last) ==
  LET short == {x \in group : x.ts >= T - WindowShort}
  IN [speed_now_mps |-> last,
      age_s |-> {T - x.ts : x \in last},
      speed_mean_5m |-> short,
      speed_mean_15m |-> group,
      speed_std_15m |-> group,
      vehicle_count_5m |-> Cardinality(Vehicles(short)),
      vehicle_count_15m |-> Cardinality(Vehicles(group)),
      observation_count_15m |-> Cardinality(group)]

\* TelemetryDerivedFeatures, from what the two queries returned.
Features(T, group, last) ==
  LET short == {x \in group : x.ts >= T - WindowShort}
  IN [speed_now_mps |-> last,
      age_s |-> {T - x.ts : x \in last},
      speed_mean_5m |-> short,
      speed_mean_15m |-> group,
      speed_std_15m |-> IF Cardinality(group) >= 2 THEN group ELSE {},
      vehicle_count_5m |-> Cardinality(Vehicles(short)),
      vehicle_count_15m |-> Cardinality(Vehicles(group)),
      observation_count_15m |-> Cardinality(group)]

\* ROAD_SEGMENT_FEATURE_CONTRACT: valid_range and missing_value_behavior
TemporalContract(row) ==
  LET t == row.temporal IN
  /\ t.hour_of_day \in 0 .. 23 /\ t.day_of_week \in 0 .. 6
  /\ t.is_weekend <=> t.day_of_week \in {5, 6}
  /\ t.is_peak <=> ~t.is_weekend /\ t.hour_of_day \in (7 .. 9) \cup (17 .. 19)

TelemetryContract(row) ==
  LET f == row.features IN
  /\ f.age_s = {} <=> f.speed_now_mps = {}
  /\ f.age_s \subseteq Nat
  /\ f.speed_mean_5m = {} <=> f.vehicle_count_5m = 0
  /\ f.speed_mean_15m = {} <=> f.observation_count_15m = 0
  /\ f.speed_std_15m = {} <=> f.observation_count_15m < 2
  /\ f.vehicle_count_5m <= f.vehicle_count_15m
  /\ f.vehicle_count_15m <= f.observation_count_15m

-----------------------------------------------------------------------------
\* The command

\* __post_init__
Accepts(c) == c.end > c.start /\ c.bucket_s > 0

\* _bucket_timestamps: from start + bucket_s ...
NextTs == ts + config.bucket_s

\* Mutant: a bucket that ends with the range is left out.
MutantPastEnd == NextTs >= config.end

\* ... to the last one that is not after the end.
PastEnd == NextTs > config.end

BetweenBuckets == step \in {"static", "rows"} /\ todo = {}

Start ==
  /\ step = "idle" /\ runs < MaxRuns
  /\ \E c \in Configs : Accepts(c) /\ config' = c /\ ts' = c.start
  /\ step' = "started"
  /\ runs' = runs + 1
  /\ began' = telemetry
  /\ UNCHANGED <<database, known, counted, latest, todo, labels, rows, csv, manifest, interrupted>>

\* load_static_segment_features; RoadGraph has its queries.
LoadStatic ==
  /\ step = "started"
  /\ step' = "static"
  /\ known' = segments
  /\ UNCHANGED <<database, config, began, ts, counted, latest, todo, labels, rows, files>>

\* Mutant: the telemetry of the features is loaded once, when the run starts.
MutantPreloaded(T) == [s \in known |-> Counted(began, s, T)]

Aggregates(T) == [s \in known |-> Counted(telemetry, s, T)]

\* The aggregate query of the next bucket.
Aggregate ==
  /\ BetweenBuckets /\ ~PastEnd
  /\ step' = "aggregates"
  /\ ts' = NextTs
  /\ counted' = Aggregates(NextTs)
  /\ UNCHANGED <<database, config, known, began, latest, todo, labels, rows, files>>

\* Mutant: the latest samples are loaded once, when the run starts.
MutantFound(s) == {{x} : x \in Latest(began, s, ts)}

Found(s) == {{x} : x \in Latest(telemetry, s, ts)}

Outcomes(s) == IF Found(s) = {} THEN {{}} ELSE Found(s)

\* The query for the latest samples; segments without a counted sample are left out.
QueryLatest ==
  /\ step = "aggregates"
  /\ step' = "rows"
  /\ latest' \in {f \in [known -> UNION {Outcomes(s) : s \in known}] :
                    \A s \in known : f[s] \in Outcomes(s)}
  /\ todo' = {s \in known : counted[s] # {}}
  /\ UNCHANGED <<database, config, known, began, ts, counted, labels, rows, files>>

\* The loop is at the first of the segments that are left.
Turn == {s \in todo : \A other \in todo : s <= other}
Horizon == config.horizons_s[Len(labels) + 1]
LastHorizon == Len(labels) + 1 = Len(config.horizons_s)

QueryTarget ==
  /\ step = "rows" /\ ~LastHorizon
  /\ \E s \in Turn : labels' = Append(labels, Target(telemetry, s, ts, Horizon))
  /\ UNCHANGED <<database, step, config, known, began, ts, counted, latest, todo, rows, files>>

\* The query for the last target completes the row.
FinishRow ==
  /\ step = "rows" /\ LastHorizon
  /\ \E s \in Turn :
       /\ rows' = Append(rows,
            [segment |-> s, ts |-> ts, temporal |-> Temporal(LocalTime(ts)),
             features |-> Features(ts, counted[s], latest[s]),
             labels |-> Append(labels, Target(telemetry, s, ts, Horizon))])
       /\ todo' = todo \ {s}
  /\ labels' = <<>>
  /\ UNCHANGED <<database, step, config, known, began, ts, counted, latest, files>>

\* Mutant: the manifest is written before the rows.
MutantOpenCsv ==
  /\ BetweenBuckets /\ PastEnd
  /\ step' = "csv"
  /\ csv' = [run |-> runs, lines |-> 0, whole |-> FALSE]
  /\ manifest' = [run |-> runs, row_count |-> Len(rows), torn |-> FALSE]
  /\ UNCHANGED <<database, session, runs, interrupted>>

\* write_dataset opens dataset.csv, which truncates it ...
OpenCsv ==
  /\ BetweenBuckets /\ PastEnd
  /\ step' = "csv"
  /\ csv' = [run |-> runs, lines |-> 0, whole |-> FALSE]
  /\ UNCHANGED <<database, session, runs, manifest, interrupted>>

\* ... and closes it with a header and a line for every row.
CloseCsv ==
  /\ step = "csv"
  /\ step' = "manifest"
  /\ csv' = [run |-> runs, lines |-> Len(rows) + 1, whole |-> TRUE]
  /\ UNCHANGED <<database, session, runs, manifest, interrupted>>

ProcessEnds ==
  /\ step' = "idle"
  /\ config' = NoConfig /\ known' = {} /\ began' = {} /\ ts' = 0
  /\ counted' = <<>> /\ latest' = <<>> /\ todo' = {} /\ labels' = <<>> /\ rows' = <<>>
  /\ UNCHANGED <<database, runs>>

WriteManifest ==
  /\ step = "manifest"
  /\ manifest' = [run |-> runs, row_count |-> Len(rows), torn |-> FALSE]
  /\ ProcessEnds
  /\ UNCHANGED <<csv, interrupted>>

\* The process dies, or a query or a write raises: lines of an open dataset.csv
\* are on the disk up to any point, the last one possibly in part.
Dies ==
  /\ step # "idle"
  /\ \/ step # "csv" /\ UNCHANGED csv
     \/ /\ step = "csv"
        /\ \E lines \in 0 .. Len(rows) + 1 : csv' = [run |-> runs, lines |-> lines, whole |-> FALSE]
  /\ \/ UNCHANGED manifest
     \/ step = "manifest" /\ manifest' = [run |-> runs, row_count |-> 0, torn |-> TRUE]
  /\ interrupted' = interrupted \cup {r \in {runs} : step \in {"csv", "manifest"}}
  /\ ProcessEnds

\* The map matcher puts a sample on a segment that exists.
Commit ==
  /\ \E x \in Samples \ telemetry : x.segment \in segments /\ telemetry' = telemetry \cup {x}
  /\ UNCHANGED <<segments, step, session, files>>

Import ==
  /\ \E new \in (SUBSET Segments) \ {{}} : segments' = segments \cup new
  /\ UNCHANGED <<telemetry, step, session, files>>

DatasetInit ==
  /\ telemetry = {} /\ segments = {}
  /\ step = "idle" /\ config = NoConfig /\ known = {} /\ began = {} /\ ts = 0
  /\ counted = <<>> /\ latest = <<>> /\ todo = {} /\ labels = <<>> /\ rows = <<>>
  /\ runs = 0 /\ csv = NoFile /\ manifest = NoFile /\ interrupted = {}

Generate ==
  \/ Start \/ LoadStatic \/ Aggregate \/ QueryLatest \/ QueryTarget \/ FinishRow
  \/ OpenCsv \/ CloseCsv \/ WriteManifest \/ Dies

DatasetNext == Generate \/ Commit \/ Import

DatasetSpec == DatasetInit /\ [][DatasetNext]_vars

-----------------------------------------------------------------------------
\* What the command `validate` answers for the files as they are.
Verdict ==
  CASE csv = NoFile \/ manifest = NoFile -> "invalid"
    [] csv # NoFile /\ manifest # NoFile /\ manifest.torn -> "error"
    [] OTHER -> IF csv.lines - 1 = manifest.row_count THEN "valid" ELSE "invalid"

\* split_chronologically of [start, end), with times in shares of the span.
Part(T) ==
  LET shares == TrainShare + ValidationShare + TestShare
      span == config.end - config.start
      into == (T - config.start) * shares
  IN CASE into < span * TrainShare -> "train"
       [] into >= span * TrainShare /\ into < span * (TrainShare + ValidationShare) -> "validation"
       [] into >= span * (TrainShare + ValidationShare) /\ T < config.end -> "test"
       [] OTHER -> "none"
-----------------------------------------------------------------------------
\* Properties

Observed(row) == row.features.speed_now_mps \cup row.features.speed_mean_15m
Used(row) == Observed(row) \cup UNION {row.labels[h] : h \in DOMAIN row.labels}

\* The leakage boundary: no sample is both behind a feature and behind a target
\* of one row, and features come from before feature_ts, as long as no horizon
\* is negative, which the command does not check.
NoLeakage ==
  \A i \in DOMAIN rows :
    /\ \A x \in Observed(rows[i]) : x.ts < rows[i].ts
    /\ \A h \in DOMAIN rows[i].labels :
         config.horizons_s[h] >= 0 => \A x \in rows[i].labels[h] : x.ts >= rows[i].ts

\* Although the aggregates and the latest samples come from two queries, the
\* latest sample of a row is never older than one that its aggregates cover: it
\* is never null and never older than the window.
LatestCoversCounted ==
  \A i \in DOMAIN rows :
    \E x \in rows[i].features.speed_now_mps :
      /\ \A y \in rows[i].features.speed_mean_15m : y.ts <= x.ts
      /\ rows[i].ts - x.ts <= WindowLong

\* Every row meets what the feature contract says of nulls, counts and ages, and of
\* the temporal columns by each other (whose clock they are read from, and the range
\* of the speeds, are not stated). Rows are in the order of feature_ts and segment,
\* no key comes twice.
RowsMeetContract ==
  /\ \A i \in DOMAIN rows : TemporalContract(rows[i]) /\ TelemetryContract(rows[i])
  /\ \A i, j \in DOMAIN rows : i < j =>
       \/ rows[i].ts < rows[j].ts
       \/ rows[i].ts = rows[j].ts /\ rows[i].segment < rows[j].segment

\* The contract and compute_temporal_features say that the temporal columns are
\* those of feature_ts in UTC.
TemporalColumnsAreUtc ==
  \A i \in DOMAIN rows : rows[i].temporal = Temporal(rows[i].ts)

Buckets == {T \in config.start + 1 .. config.end : (T - config.start) % config.bucket_s = 0}

\* The rows written lie between the datasets of the telemetry there was at the
\* start and of the telemetry there is: no segment observed at the start is left
\* out of a bucket, no sample of the start is left out of a mean or a target.
RowsBracketed ==
  step = "csv" =>
    \A T \in Buckets : \A s \in known :
      Counted(began, s, T) # {} =>
        \E i \in DOMAIN rows :
          /\ rows[i].ts = T /\ rows[i].segment = s
          /\ Counted(began, s, T) \subseteq rows[i].features.speed_mean_15m
          /\ rows[i].features.speed_mean_15m \subseteq Counted(telemetry, s, T)
          /\ \A h \in DOMAIN config.horizons_s :
               /\ Target(began, s, T, config.horizons_s[h]) \subseteq rows[i].labels[h]
               /\ rows[i].labels[h] \subseteq Target(telemetry, s, T, config.horizons_s[h])

\* A sample that one row has used is missing from no later row of the segment
\* that it belongs to: neither from its aggregates, nor from its targets, nor is
\* it passed over by an older latest sample.
LaterRowsSeeNoLess ==
  \A i, j \in DOMAIN rows : i < j /\ rows[i].segment = rows[j].segment =>
    LET T == rows[j].ts IN
    \A x \in Used(rows[i]) :
      /\ T - WindowLong <= x.ts /\ x.ts < T => x \in rows[j].features.speed_mean_15m
      /\ x.ts < T => \E y \in rows[j].features.speed_now_mps : x.ts <= y.ts
      /\ \A h \in DOMAIN config.horizons_s :
           LET from == T + config.horizons_s[h] IN
           from <= x.ts /\ x.ts < from + TargetWindow => x \in rows[j].labels[h]

\* Of the samples behind a target of an evaluation row none is behind a feature of
\* a row in an earlier part of the split. Behind a target of an earlier part it may
\* be, since the split leaves no gap: but only that of a row closer than the
\* difference of the horizons and the target window, and, with buckets no shorter
\* than the target window, only that of a longer horizon.
EvaluationIsUnseen ==
  \A i, j \in DOMAIN rows :
    /\ <<Part(rows[i].ts), Part(rows[j].ts)>> \in
         {<<"train", "validation">>, <<"train", "test">>, <<"validation", "test">>}
    => \A h \in DOMAIN config.horizons_s : config.horizons_s[h] >= 0 =>
         /\ Observed(rows[i]) \cap rows[j].labels[h] = {}
         /\ \A g \in DOMAIN config.horizons_s :
              LET longer == config.horizons_s[g] - config.horizons_s[h] IN
              rows[i].labels[g] \cap rows[j].labels[h] # {} =>
                /\ rows[j].ts - rows[i].ts < longer + TargetWindow
                /\ config.bucket_s >= TargetWindow => longer > 0

\* What `validate` accepts are the two files of one generation that has finished.
\* A dataset.csv beside the manifest of an earlier generation it does accept when
\* the rows are as many, but only while the later one is still writing its files
\* or once that has died doing so.
MixedOnlyIfInterrupted ==
  Verdict = "valid" =>
    \/ csv.run = manifest.run /\ csv.whole
    \/ /\ csv.run > manifest.run
       /\ csv.run \in interrupted \/ (csv.run = runs /\ step \in {"csv", "manifest"})

-----------------------------------------------------------------------------
(* The inductive invariant behind the theorems of FeatureDatasetProofs.       *)

Building == step \in {"aggregates", "rows"}

SampleOf(s) == {x \in telemetry : x.segment = s}

\* Telemetry grows one sample at a time: wherever there is one there is a latest.
LatestExists ==
  /\ telemetry \subseteq Samples
  /\ \A s \in Segments : \A T \in Int :
       (\E x \in SampleOf(s) : x.ts < T) => Latest(telemetry, s, T) # {}

IsSequence(seq) == seq \in Seq({seq[i] : i \in DOMAIN seq})

SessionTypes ==
  /\ step \in {"idle", "started", "static", "aggregates", "rows", "csv", "manifest"}
  /\ segments \subseteq Segments /\ known \subseteq Segments /\ ts \in Int
  /\ step # "idle" => config \in Configs /\ Accepts(config)
  /\ step \in {"idle", "started", "static"} => rows = <<>>
  /\ step # "rows" => todo = {}
  /\ todo = {} => labels = <<>>
  /\ labels \in Seq(SUBSET Samples)
  /\ IsSequence(rows)
  /\ Len(labels) < Len(config.horizons_s) \/ todo = {}

RowSound(row) ==
  /\ row.segment \in Segments /\ row.ts \in Int /\ row.ts <= ts
  /\ DOMAIN row.labels = DOMAIN config.horizons_s
  /\ Used(row) \subseteq SampleOf(row.segment)
  /\ \A x \in Observed(row) : x.ts < row.ts
  /\ \A h \in DOMAIN row.labels : \A x \in row.labels[h] : row.ts + config.horizons_s[h] <= x.ts
  /\ \E x \in row.features.speed_now_mps :
       /\ \A y \in row.features.speed_mean_15m : y.ts <= x.ts
       /\ row.ts - x.ts <= WindowLong
  /\ step = "aggregates" => row.ts < ts
  /\ step = "rows" /\ row.ts = ts => row.segment \notin todo

\* What the bucket has loaded covers every sample that an earlier row has used.
CountedSound(s) ==
  /\ counted[s] \subseteq Counted(telemetry, s, ts)
  /\ \A i \in DOMAIN rows : rows[i].segment = s /\ rows[i].ts < ts =>
       \A x \in Used(rows[i]) : ts - WindowLong <= x.ts /\ x.ts < ts => x \in counted[s]

LatestSound(s) ==
  \E x \in SampleOf(s) :
    /\ latest[s] = {x} /\ x.ts < ts
    /\ \A y \in counted[s] : y.ts <= x.ts
    /\ \A i \in DOMAIN rows : rows[i].segment = s /\ rows[i].ts < ts =>
         \A y \in Used(rows[i]) : y.ts < ts => y.ts <= x.ts

LabelSound(s, h, label) ==
  LET from == ts + config.horizons_s[h] IN
  /\ label \subseteq SampleOf(s)
  /\ \A x \in label : from <= x.ts
  /\ \A i \in DOMAIN rows : rows[i].segment = s /\ rows[i].ts < ts =>
       \A x \in Used(rows[i]) : from <= x.ts /\ x.ts < from + TargetWindow => x \in label

BucketSound ==
  /\ Building => DOMAIN counted = known /\ \A s \in known : CountedSound(s)
  /\ \A s \in todo : s \in known /\ counted[s] # {} /\ LatestSound(s)
  /\ \A s \in Turn : \A h \in DOMAIN labels : LabelSound(s, h, labels[h])

\* manifest.json is written after the dataset.csv of its run is closed.
FilesFollow ==
  /\ runs \in Nat
  /\ csv.run \in 0 .. runs /\ manifest.run \in 0 .. runs
  /\ manifest.run <= csv.run
  /\ manifest.run < csv.run =>
       csv.run \in interrupted \/ (csv.run = runs /\ step \in {"csv", "manifest"})
  /\ manifest # NoFile /\ manifest.run = csv.run => csv.whole
  /\ step \in {"started", "static", "aggregates", "rows"} => csv.run < runs
  /\ step = "csv" => csv.run = runs /\ manifest.run < runs
  /\ step = "manifest" => csv.run = runs /\ csv.whole

DatasetIInv ==
  /\ LatestExists
  /\ SessionTypes
  /\ \A i \in DOMAIN rows : RowSound(rows[i])
  /\ BucketSound
  /\ LaterRowsSeeNoLess
  /\ FilesFollow

\* The second inductive invariant: what the rows are made of, and which there are.

\* Between what the table had at the start and what it has.
Bracketed(s, group, label) ==
  /\ Counted(began, s, ts) \subseteq group
  /\ \A h \in DOMAIN label :
       /\ Target(began, s, ts, config.horizons_s[h]) \subseteq label[h]
       /\ label[h] \subseteq Target(telemetry, s, ts, config.horizons_s[h])

RowMade(row) ==
  LET group == row.features.speed_mean_15m IN
  /\ row.temporal = Temporal(LocalTime(row.ts))
  /\ row.features = Features(row.ts, group, row.features.speed_now_mps)
  /\ Counted(began, row.segment, row.ts) \subseteq group
  /\ group \subseteq Counted(telemetry, row.segment, row.ts)
  /\ \A h \in DOMAIN row.labels :
       /\ Target(began, row.segment, row.ts, config.horizons_s[h]) \subseteq row.labels[h]
       /\ row.labels[h] \subseteq Target(telemetry, row.segment, row.ts, config.horizons_s[h])
  /\ row.ts = ts \/ row.ts + config.bucket_s <= ts
  /\ row.ts = ts => \A s \in todo : row.segment < s

\* Later rows are of later buckets, or of later segments of the same.
RowsOrdered ==
  \A i, j \in DOMAIN rows : i < j =>
    \/ rows[i].ts + config.bucket_s <= rows[j].ts
    \/ rows[i].ts = rows[j].ts /\ rows[i].segment < rows[j].segment

\* The bucket that is being made is a whole number of buckets after the start.
OnGrid ==
  /\ step # "idle" => config.start <= ts /\ (ts - config.start) % config.bucket_s = 0
  /\ step \in {"started", "static"} => ts = config.start
  /\ step \in {"csv", "manifest"} => PastEnd

\* The rows of a segment and a bucket that need no more work.
Passed(T, s) == T < ts \/ (T = ts /\ step # "aggregates" /\ s \notin todo)

NoneLeftOut ==
  step \notin {"idle", "started"} =>
    \A T \in Buckets : \A s \in known :
      Passed(T, s) /\ Counted(began, s, T) # {} =>
        \E i \in DOMAIN rows : rows[i].ts = T /\ rows[i].segment = s

DatasetRowsInv ==
  /\ began \subseteq telemetry
  /\ \A i \in DOMAIN rows : RowMade(rows[i])
  /\ RowsOrdered /\ OnGrid
  /\ Building => \A s \in known : Counted(began, s, ts) \subseteq counted[s]
  /\ \A s \in Turn : Bracketed(s, counted[s], labels)
  /\ NoneLeftOut
=============================================================================
