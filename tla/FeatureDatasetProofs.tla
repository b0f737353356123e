------------------------ MODULE FeatureDatasetProofs ------------------------
(***************************************************************************)
(* For every set of samples, configurations, windows and split shares, and  *)
(* whatever is committed between the queries of a generation: targets do    *)
(* not leak into features, the latest sample is never behind the            *)
(* aggregates, later rows miss nothing that an earlier one used, rows meet  *)
(* the feature contract in order and are all there, evaluation targets are  *)
(* unseen by features and by targets of no longer horizon, and only a       *)
(* generation cut off while writing lets two generations' files validate.   *)
(***************************************************************************)
EXTENDS FeatureDataset, FiniteSetTheorems, SequenceTheorems, TLAPS

-----------------------------------------------------------------------------
\* The actions that leave a session as it is.
LEMMA Untouched ==
  ASSUME Commit \/ Import
  PROVE  /\ UNCHANGED <<step, config, known, ts, counted, latest, todo, labels, rows, files>>
         /\ telemetry \subseteq telemetry' /\ segments \subseteq segments'
BY DEF Commit, Import, session

\* A horizon that is still to be queried is a number.
LEMMA HorizonsAreInts ==
  ASSUME NEW c \in Configs
  PROVE  /\ c.horizons_s \in Seq(Int) /\ Len(c.horizons_s) \in Nat \ {0}
         /\ DOMAIN c.horizons_s = 1 .. Len(c.horizons_s)
         /\ \A h \in DOMAIN c.horizons_s : c.horizons_s[h] \in Int
         /\ c.start \in Int /\ c.end \in Int /\ c.offset \in Int /\ c.bucket_s \in Int
BY ConfigsAssumption

-----------------------------------------------------------------------------
\* Every step keeps what LatestExists says of the table: a new sample is either
\* the latest of its segment before T, or later than T, or behind the latest.
LEMMA LatestStep ==
  ASSUME LatestExists, DatasetNext
  PROVE  LatestExists'
<1>1. CASE UNCHANGED telemetry
  BY <1>1 DEF LatestExists, SampleOf, Latest
<1>2. CASE Commit
  <2>1. PICK new \in Samples : telemetry' = telemetry \cup {new}
    BY <1>2 DEF Commit
  <2>2. telemetry' \subseteq Samples
    BY <2>1 DEF LatestExists
  <2>3. ASSUME NEW s \in Segments, NEW T \in Int,
               \E x \in telemetry' : x.segment = s /\ x.ts < T
        PROVE  \E x \in telemetry' :
                 /\ x.segment = s /\ x.ts < T
                 /\ \A y \in telemetry' : y.segment = s /\ y.ts < T => y.ts <= x.ts
    <3> USE SamplesAssumption
    <3>1. CASE \E x \in telemetry : x.segment = s /\ x.ts < T
      <4>1. PICK old \in telemetry :
              /\ old.segment = s /\ old.ts < T
              /\ \A y \in telemetry : y.segment = s /\ y.ts < T => y.ts <= old.ts
        BY <3>1 DEF LatestExists, SampleOf, Latest
      <4>2. old \in Samples
        BY DEF LatestExists
      <4>3. CASE new.segment = s /\ new.ts < T /\ old.ts <= new.ts
        BY <4>1, <4>2, <4>3, <2>1, <2>2
      <4>4. CASE ~(new.segment = s /\ new.ts < T /\ old.ts <= new.ts)
        BY <4>1, <4>2, <4>4, <2>1, <2>2
      <4> QED
        BY <4>3, <4>4
    <3>2. CASE ~\E x \in telemetry : x.segment = s /\ x.ts < T
      BY <2>1, <2>3, <3>2
    <3> QED
      BY <3>1, <3>2
  <2> QED
    BY <2>2, <2>3 DEF LatestExists, SampleOf, Latest
<1> QED
  BY <1>1, <1>2 DEF DatasetNext, Generate, Start, LoadStatic, Aggregate, QueryLatest,
       QueryTarget, FinishRow, OpenCsv, CloseCsv, WriteManifest, Dies, ProcessEnds, Import,
       database

\* A row more: the rows there were stay where they are.
LEMMA AppendKeepsRows ==
  ASSUME NEW seq, IsSequence(seq), NEW row, NEW longer, longer = Append(seq, row)
  PROVE  /\ Len(seq) \in Nat /\ DOMAIN seq = 1 .. Len(seq)
         /\ DOMAIN longer = 1 .. Len(seq) + 1
         /\ longer[Len(seq) + 1] = row
         /\ \A i \in DOMAIN seq : longer[i] = seq[i]
         /\ IsSequence(longer)
<1>1. PICK S : seq \in Seq(S)
  BY DEF IsSequence
<1>2. Len(seq) \in Nat /\ DOMAIN seq = 1 .. Len(seq)
  BY <1>1
<1>3. longer \in Seq(S \cup {row})
  BY <1>1
<1>4. /\ DOMAIN longer = 1 .. Len(seq) + 1 /\ Len(longer) = Len(seq) + 1
      /\ longer[Len(seq) + 1] = row
      /\ \A i \in DOMAIN seq : longer[i] = seq[i]
  BY <1>1, <1>2
<1>5. longer = [i \in 1 .. Len(longer) |-> longer[i]]
  BY <1>3, LenProperties
<1>6. IsSequence(longer)
  BY <1>4, <1>5, <1>2 DEF IsSequence
<1> QED
  BY <1>2, <1>4, <1>6

LEMMA EmptyIsSequence == IsSequence(<<>>)
BY DEF IsSequence

\* The types of the session.
LEMMA TypesStep ==
  ASSUME SessionTypes, LatestExists, DatasetNext
  PROVE  SessionTypes'
<1> USE DEF SessionTypes
<1>1. CASE Start
  BY <1>1, HorizonsAreInts DEF Start, database, Accepts
<1>2. CASE LoadStatic
  BY <1>2 DEF LoadStatic, database
<1>3. CASE Aggregate
  BY <1>3, HorizonsAreInts DEF Aggregate, database, BetweenBuckets, NextTs
<1>4. CASE QueryLatest
  BY <1>4, HorizonsAreInts DEF QueryLatest, database
<1>5. CASE QueryTarget
  <2>1. PICK s \in Turn : labels' = Append(labels, Target(telemetry, s, ts, Horizon))
    BY <1>5 DEF QueryTarget
  <2>2. /\ step = "rows" /\ todo # {} /\ Len(labels) + 1 # Len(config.horizons_s)
        /\ UNCHANGED <<segments, step, config, known, ts, todo, rows>>
    BY <1>5 DEF QueryTarget, database, LastHorizon, Turn
  <2>3. Len(config.horizons_s) \in Nat \ {0} /\ Len(labels) \in Nat
    BY <2>2, HorizonsAreInts
  <2>4. labels' \in Seq(SUBSET Samples) /\ Len(labels') = Len(labels) + 1
    BY <2>1 DEF Target, In, LatestExists
  <2> QED
    BY <2>2, <2>3, <2>4
<1>6. CASE FinishRow
  <2>1. PICK row : rows' = Append(rows, row)
    BY <1>6 DEF FinishRow
  <2>3. IsSequence(rows')
    BY <2>1, AppendKeepsRows
  <2>4. /\ step = "rows" /\ labels' = <<>>
        /\ UNCHANGED <<segments, step, config, known, ts>>
    BY <1>6 DEF FinishRow, database
  <2>5. Len(config.horizons_s) \in Nat \ {0}
    BY <2>4, HorizonsAreInts
  <2> QED
    BY <2>3, <2>4, <2>5
<1>7. CASE OpenCsv \/ CloseCsv
  BY <1>7 DEF OpenCsv, CloseCsv, BetweenBuckets, database, session
<1>8. CASE WriteManifest \/ Dies
  <2>1. step' = "idle" /\ known' = {} /\ ts' = 0 /\ todo' = {} /\ labels' = <<>> /\ rows' = <<>>
    BY <1>8 DEF WriteManifest, Dies, ProcessEnds
  <2>2. segments' = segments
    BY <1>8 DEF WriteManifest, Dies, ProcessEnds, database
  <2> QED
    BY <2>1, <2>2, EmptyIsSequence
<1>9. CASE Commit \/ Import
  BY <1>9, Untouched DEF Commit, Import
<1> QED
  BY <1>1, <1>2, <1>3, <1>4, <1>5, <1>6, <1>7, <1>8, <1>9 DEF DatasetNext, Generate

-----------------------------------------------------------------------------
\* The files: dataset.csv of a run is closed before its manifest is written.
LEMMA FilesStep ==
  ASSUME FilesFollow, SessionTypes, DatasetNext
  PROVE  FilesFollow'
<1> USE DEF FilesFollow, NoFile
<1>1. CASE Start
  BY <1>1 DEF Start
<1>2. CASE UNCHANGED files /\ step \in {"started", "static", "aggregates", "rows"}
             /\ step' \in {"static", "aggregates", "rows"}
  BY <1>2 DEF files
<1>3. CASE OpenCsv
  BY <1>3 DEF OpenCsv, BetweenBuckets
<1>4. CASE CloseCsv
  BY <1>4 DEF CloseCsv, SessionTypes
<1>5. CASE WriteManifest
  BY <1>5 DEF WriteManifest, ProcessEnds
<1>6. CASE Dies
  BY <1>6 DEF Dies, ProcessEnds
<1>7. CASE Commit \/ Import
  BY <1>7, Untouched DEF files
<1> QED
  BY <1>1, <1>2, <1>3, <1>4, <1>5, <1>6, <1>7 DEF DatasetNext, Generate, LoadStatic, Aggregate,
       BetweenBuckets, QueryLatest, QueryTarget, FinishRow

-----------------------------------------------------------------------------
\* With no rows and no bucket in the making there is nothing to say of them.
LEMMA NothingBuilt ==
  ASSUME rows' = <<>>, todo' = {}, ~Building'
  PROVE  (\A i \in DOMAIN rows : RowSound(rows[i]))' /\ BucketSound' /\ LaterRowsSeeNoLess'
BY DEF BucketSound, LaterRowsSeeNoLess, Turn

\* The session stays as it is while samples are committed.
LEMMA GrowthKeepsRows ==
  ASSUME \A i \in DOMAIN rows : RowSound(rows[i]), BucketSound, LaterRowsSeeNoLess,
         UNCHANGED <<step, config, known, ts, counted, latest, todo, labels, rows>>,
         telemetry \subseteq telemetry'
  PROVE  (\A i \in DOMAIN rows : RowSound(rows[i]))' /\ BucketSound' /\ LaterRowsSeeNoLess'
<1>1. \A s : SampleOf(s) \subseteq SampleOf(s)'
  BY DEF SampleOf
<1>2. (\A i \in DOMAIN rows : RowSound(rows[i]))'
  BY <1>1 DEF RowSound
<1>3. ASSUME NEW s, CountedSound(s)
      PROVE  CountedSound(s)'
  BY <1>3 DEF CountedSound, Counted, In
<1>4. ASSUME NEW s, LatestSound(s)
      PROVE  LatestSound(s)'
  BY <1>1, <1>4 DEF LatestSound
<1>5. ASSUME NEW s, NEW h, LabelSound(s, h, labels[h])
      PROVE  LabelSound(s, h, labels[h])'
  BY <1>1, <1>5 DEF LabelSound
<1>6. BucketSound'
  BY <1>3, <1>4, <1>5 DEF BucketSound, Building, Turn
<1>7. LaterRowsSeeNoLess'
  BY DEF LaterRowsSeeNoLess
<1> QED
  BY <1>2, <1>6, <1>7

\* The aggregate query covers what earlier rows have used, since nothing is ever
\* deleted from telemetry.
LEMMA AggregateStep ==
  ASSUME SessionTypes, \A i \in DOMAIN rows : RowSound(rows[i]), LaterRowsSeeNoLess, Aggregate
  PROVE  (\A i \in DOMAIN rows : RowSound(rows[i]))' /\ BucketSound' /\ LaterRowsSeeNoLess'
<1>1. /\ step' = "aggregates" /\ ts' = ts + config.bucket_s /\ todo' = {} /\ todo = {}
      /\ counted' = [s \in known |-> Counted(telemetry, s, ts')]
      /\ UNCHANGED <<config, known, latest, labels, rows, telemetry>>
  BY DEF Aggregate, BetweenBuckets, NextTs, Aggregates, database
<1>2. ts \in Int /\ config.bucket_s \in Int /\ config.bucket_s > 0
  BY HorizonsAreInts DEF SessionTypes, Aggregate, BetweenBuckets, Accepts
<1>3. (\A i \in DOMAIN rows : RowSound(rows[i]))'
  BY <1>1, <1>2 DEF RowSound, SampleOf
<1>4. ASSUME NEW s \in known'
      PROVE  CountedSound(s)'
  <2>1. counted'[s] = Counted(telemetry', s, ts')
    BY <1>1
  <2>2. \A i \in DOMAIN rows' : rows'[i].segment = s => Used(rows'[i]) \subseteq SampleOf(s)'
    BY <1>3 DEF RowSound
  <2> QED
    BY <2>1, <2>2 DEF CountedSound, Counted, In, SampleOf
<1>5. BucketSound'
  BY <1>1, <1>4 DEF BucketSound, Building, Turn
<1>6. LaterRowsSeeNoLess'
  BY <1>1 DEF LaterRowsSeeNoLess
<1> QED
  BY <1>3, <1>5, <1>6

\* Wherever the aggregates cover a sample, the second query finds a latest one,
\* which is behind neither the aggregates nor an earlier row.
LEMMA LatestQueryStep ==
  ASSUME LatestExists, SessionTypes, \A i \in DOMAIN rows : RowSound(rows[i]), BucketSound,
         LaterRowsSeeNoLess, QueryLatest
  PROVE  (\A i \in DOMAIN rows : RowSound(rows[i]))' /\ BucketSound' /\ LaterRowsSeeNoLess'
<1>1. /\ step = "aggregates" /\ step' = "rows" /\ labels = <<>> /\ ts \in Int
      /\ todo' = {s \in known : counted[s] # {}}
      /\ UNCHANGED <<config, known, ts, counted, labels, rows, telemetry>>
  BY DEF QueryLatest, database, SessionTypes
<1>2. \A i \in DOMAIN rows : rows[i].ts < ts
  BY <1>1 DEF RowSound
<1>3. (\A i \in DOMAIN rows : RowSound(rows[i]))'
  BY <1>1, <1>2 DEF RowSound, SampleOf
<1>4. \A s \in known : CountedSound(s)
  BY <1>1 DEF BucketSound, Building
<1>5. ASSUME NEW s \in todo'
      PROVE  LatestSound(s)'
  <2>1. s \in known /\ s \in Segments /\ counted[s] # {}
    BY <1>1 DEF SessionTypes
  <2>2. counted[s] \subseteq Counted(telemetry, s, ts)
    BY <1>4, <2>1 DEF CountedSound
  <2>3. Latest(telemetry, s, ts) # {}
    BY <1>1, <2>1, <2>2 DEF LatestExists, SampleOf, Counted, In
  <2>4. Outcomes(s) = Found(s)
    BY <2>3 DEF Outcomes, Found
  <2>5. latest'[s] \in Found(s)
    BY <2>1, <2>4 DEF QueryLatest
  <2>6. PICK x \in Latest(telemetry, s, ts) : latest'[s] = {x}
    BY <2>5 DEF Found
  <2>7. /\ x \in telemetry /\ x.segment = s /\ x.ts < ts
        /\ \A y \in telemetry : y.segment = s /\ y.ts < ts => y.ts <= x.ts
    BY <2>6 DEF Latest
  <2>8. \A y \in counted[s] : y.ts <= x.ts
    BY <2>2, <2>7 DEF Counted, In
  <2>9. ASSUME NEW i \in DOMAIN rows, rows[i].segment = s, NEW y \in Used(rows[i]), y.ts < ts
        PROVE  y.ts <= x.ts
    BY <2>7, <2>9 DEF RowSound, SampleOf
  <2> QED
    BY <1>1, <2>6, <2>7, <2>8, <2>9 DEF LatestSound, SampleOf
<1>6. \A s \in known' : CountedSound(s)'
  BY <1>1, <1>4 DEF CountedSound
<1>7. BucketSound'
  BY <1>1, <1>5, <1>6 DEF BucketSound, Building
<1>8. LaterRowsSeeNoLess'
  BY <1>1 DEF LaterRowsSeeNoLess
<1> QED
  BY <1>3, <1>7, <1>8

\* At most one segment is at its turn.
LEMMA TurnIsOne ==
  ASSUME SessionTypes, BucketSound, NEW s \in Turn, NEW other \in Turn
  PROVE  other = s
<1>1. todo \subseteq Segments
  BY DEF BucketSound, SessionTypes
<1>2. s \in todo /\ other \in todo /\ s <= other /\ other <= s
  BY DEF Turn
<1>3. Segments \subseteq Nat
  BY ConstantsAssumption
<1> QED
  BY <1>1, <1>2, <1>3

\* A target query covers what earlier rows have used.
LEMMA TargetIsSound ==
  ASSUME \A i \in DOMAIN rows : RowSound(rows[i]), NEW s, NEW h
  PROVE  LabelSound(s, h, Target(telemetry, s, ts, config.horizons_s[h]))
<1>1. \A i \in DOMAIN rows : rows[i].segment = s => Used(rows[i]) \subseteq SampleOf(s)
  BY DEF RowSound
<1> QED
  BY <1>1 DEF LabelSound, Target, In, SampleOf

LEMMA TargetQueryStep ==
  ASSUME SessionTypes, \A i \in DOMAIN rows : RowSound(rows[i]), BucketSound,
         LaterRowsSeeNoLess, QueryTarget
  PROVE  (\A i \in DOMAIN rows : RowSound(rows[i]))' /\ BucketSound' /\ LaterRowsSeeNoLess'
<1>1. UNCHANGED <<step, config, known, ts, counted, latest, todo, rows, telemetry>>
  BY DEF QueryTarget, database
<1>2. PICK s \in Turn :
        labels' = Append(labels, Target(telemetry, s, ts, config.horizons_s[Len(labels) + 1]))
  BY DEF QueryTarget, Horizon
<1>3. \A other \in Turn : other = s
  BY TurnIsOne
<1>4. (\A i \in DOMAIN rows : RowSound(rows[i]))'
  BY <1>1 DEF RowSound, SampleOf
<1>5. ASSUME NEW h \in DOMAIN labels'
      PROVE  LabelSound(s, h, labels'[h])
  <2>1. CASE h \in DOMAIN labels
    <3>1. labels'[h] = labels[h]
      BY <1>2, <2>1 DEF SessionTypes
    <3> QED
      BY <3>1, <2>1 DEF BucketSound
  <2>2. CASE h \notin DOMAIN labels
    <3>1. h = Len(labels) + 1 /\ labels'[h] = Target(telemetry, s, ts, config.horizons_s[h])
      BY <1>2, <2>2 DEF SessionTypes
    <3> QED
      BY <3>1, TargetIsSound
  <2> QED
    BY <2>1, <2>2
<1>6. \A h \in DOMAIN labels' : LabelSound(s, h, labels[h])'
  BY <1>1, <1>5 DEF LabelSound, SampleOf
<1>7. /\ Turn' = Turn /\ Building' = Building
      /\ \A r : CountedSound(r)' <=> CountedSound(r)
      /\ \A r : LatestSound(r)' <=> LatestSound(r)
  BY <1>1 DEF Turn, Building, CountedSound, LatestSound, SampleOf
<1>8. BucketSound'
  BY <1>1, <1>3, <1>6, <1>7 DEF BucketSound
<1>9. LaterRowsSeeNoLess'
  BY <1>1 DEF LaterRowsSeeNoLess
<1> QED
  BY <1>4, <1>8, <1>9

\* The row that its last target completes: what the bucket has loaded for the
\* segment makes it sound, and nothing that an earlier row has used is missing.
LEMMA FinishRowStep ==
  ASSUME SessionTypes, LatestExists, \A i \in DOMAIN rows : RowSound(rows[i]), BucketSound,
         LaterRowsSeeNoLess, FinishRow
  PROVE  (\A i \in DOMAIN rows : RowSound(rows[i]))' /\ BucketSound' /\ LaterRowsSeeNoLess'
<1>1. /\ step = "rows" /\ labels' = <<>> /\ ts \in Int
      /\ Len(labels) \in Nat /\ Len(config.horizons_s) = Len(labels) + 1
      /\ UNCHANGED <<step, config, known, ts, counted, latest, telemetry>>
  BY DEF FinishRow, LastHorizon, database, SessionTypes
<1> DEFINE got(s) == Append(labels, Target(telemetry, s, ts, Horizon))
           Row(s) == [segment |-> s, ts |-> ts, temporal |-> Temporal(LocalTime(ts)),
                      features |-> Features(ts, counted[s], latest[s]), labels |-> got(s)]
<1>2. PICK s \in Turn : rows' = Append(rows, Row(s)) /\ todo' = todo \ {s}
  BY DEF FinishRow
<1>3. s \in todo /\ s \in known /\ s \in Segments /\ CountedSound(s) /\ LatestSound(s)
  BY <1>1, <1>2 DEF Turn, BucketSound, SessionTypes, Building
<1>4. DOMAIN got(s) = 1 .. Len(labels) + 1 /\ DOMAIN config.horizons_s = 1 .. Len(labels) + 1
  BY <1>1, HorizonsAreInts DEF SessionTypes
<1>5. ASSUME NEW h \in DOMAIN got(s)
      PROVE  LabelSound(s, h, got(s)[h])
  <2>1. CASE h \in DOMAIN labels
    <3>1. got(s)[h] = labels[h]
      BY <2>1 DEF SessionTypes
    <3> QED
      BY <3>1, <2>1 DEF BucketSound
  <2>2. CASE h \notin DOMAIN labels
    <3>1. h = Len(labels) + 1 /\ got(s)[h] = Target(telemetry, s, ts, config.horizons_s[h])
      BY <2>2, <1>4 DEF SessionTypes, Horizon
    <3> QED
      BY <3>1, TargetIsSound
  <2> QED
    BY <2>1, <2>2
<1> HIDE DEF got
<1>6. PICK row : row = Row(s)
  OBVIOUS
<1>7. /\ Observed(row) = latest[s] \cup counted[s]
      /\ row.segment = s /\ row.ts = ts /\ row.labels = got(s)
      /\ row.features.speed_now_mps = latest[s]
      /\ row.features.speed_mean_15m = counted[s]
  BY <1>6 DEF Features, Observed
<1> HIDE DEF Row
<1>8. PICK x \in SampleOf(s) :
        /\ latest[s] = {x} /\ x.ts < ts
        /\ \A y \in counted[s] : y.ts <= x.ts
        /\ \A i \in DOMAIN rows : rows[i].segment = s /\ rows[i].ts < ts =>
             \A y \in Used(rows[i]) : y.ts < ts => y.ts <= x.ts
  BY <1>3 DEF LatestSound
<1>9. /\ \A i \in DOMAIN rows : rows'[i] = rows[i]
      /\ DOMAIN rows = 1 .. Len(rows) /\ Len(rows) \in Nat
      /\ DOMAIN rows' = 1 .. Len(rows) + 1 /\ rows'[Len(rows) + 1] = row
  BY <1>2, <1>6, AppendKeepsRows DEF SessionTypes
<1>10. \A i \in DOMAIN rows : rows[i].segment = s => rows[i].ts < ts
  BY <1>1, <1>3 DEF RowSound
<1>11. RowSound(row)'
  <2>1. Used(row) \subseteq SampleOf(s)
    <3>1. \A h \in DOMAIN got(s) : got(s)[h] \subseteq SampleOf(s)
      BY <1>5 DEF LabelSound
    <3>2. counted[s] \subseteq SampleOf(s)
      BY <1>3 DEF CountedSound, Counted, In, SampleOf
    <3> QED
      BY <1>7, <1>8, <3>1, <3>2 DEF Used
  <2>2. \A y \in Observed(row) : y.ts < ts
    BY <1>3, <1>7, <1>8 DEF CountedSound, Counted, In
  <2>3. \A h \in DOMAIN got(s) : \A y \in got(s)[h] : ts + config.horizons_s[h] <= y.ts
    BY <1>5 DEF LabelSound
  <2>4. ts - x.ts <= WindowLong
    <3>1. PICK y \in counted[s] : TRUE
      BY <1>2, <1>3 DEF BucketSound, Turn, SessionTypes
    <3>2. y \in telemetry /\ ts - WindowLong <= y.ts /\ y.ts <= x.ts
      BY <3>1, <1>3, <1>8 DEF CountedSound, Counted, In
    <3>3. x.ts \in Int /\ y.ts \in Int /\ WindowLong \in Int
      BY <3>2, SamplesAssumption, ConstantsAssumption DEF LatestExists, SampleOf
    <3> QED
      BY <1>1, <3>2, <3>3
  <2>5. SampleOf(s)' = SampleOf(s)
    BY <1>1 DEF SampleOf
  <2> QED
    BY <1>1, <1>2, <1>3, <1>4, <1>7, <1>8, <2>1, <2>2, <2>3, <2>4, <2>5 DEF RowSound
<1>12. (\A i \in DOMAIN rows : RowSound(rows[i]))'
  <2>1. ASSUME NEW i \in DOMAIN rows
        PROVE  RowSound(rows[i])'
    BY <1>1, <1>2, <1>9 DEF RowSound, SampleOf
  <2> QED
    BY <1>9, <1>11, <2>1
<1>13. BucketSound'
  <2>1. \A i \in DOMAIN rows' : rows'[i].ts < ts => i \in DOMAIN rows
    BY <1>1, <1>7, <1>9
  <2>2. ASSUME NEW r \in known
        PROVE  CountedSound(r)'
    <3>1. CountedSound(r)
      BY <1>1 DEF BucketSound, Building
    <3> QED
      BY <1>1, <1>9, <2>1, <3>1 DEF CountedSound
  <2>3. ASSUME NEW r \in todo
        PROVE  LatestSound(r)'
    <3>1. LatestSound(r)
      BY DEF BucketSound
    <3>2. SampleOf(r)' = SampleOf(r)
      BY <1>1 DEF SampleOf
    <3> QED
      BY <1>1, <1>9, <2>1, <3>1, <3>2 DEF LatestSound
  <2>4. \A r \in todo' : r \in todo /\ r \in known /\ counted[r] # {}
    BY <1>2 DEF BucketSound
  <2>5. Building' => DOMAIN counted' = known'
    BY <1>1 DEF BucketSound, Building
  <2> QED
    BY <1>1, <2>2, <2>3, <2>4, <2>5 DEF BucketSound
<1>14. LaterRowsSeeNoLess'
  <2> SUFFICES ASSUME NEW i \in DOMAIN rows', NEW j \in DOMAIN rows', i < j,
                      rows'[i].segment = rows'[j].segment, NEW z \in Used(rows'[i])
               PROVE  LET T == rows'[j].ts IN
                      /\ T - WindowLong <= z.ts /\ z.ts < T
                           => z \in rows'[j].features.speed_mean_15m
                      /\ z.ts < T => \E y \in rows'[j].features.speed_now_mps : z.ts <= y.ts
                      /\ \A h \in DOMAIN config.horizons_s :
                           LET from == T + config.horizons_s[h] IN
                           from <= z.ts /\ z.ts < from + TargetWindow => z \in rows'[j].labels[h]
    BY <1>1 DEF LaterRowsSeeNoLess
  <2>1. i \in DOMAIN rows /\ rows'[i] = rows[i]
    BY <1>9
  <2>2. CASE j \in DOMAIN rows
    BY <1>9, <2>1, <2>2 DEF LaterRowsSeeNoLess
  <2>3. CASE j \notin DOMAIN rows
    <3>1. rows'[j] = row /\ rows[i].segment = s /\ rows[i].ts < ts
      BY <1>7, <1>9, <1>10, <2>1, <2>3
    <3>2. ts - WindowLong <= z.ts /\ z.ts < ts => z \in counted[s]
      BY <1>3, <2>1, <3>1 DEF CountedSound
    <3>3. z.ts < ts => \E y \in latest[s] : z.ts <= y.ts
      BY <1>8, <2>1, <3>1
    <3>4. ASSUME NEW h \in DOMAIN config.horizons_s,
                 ts + config.horizons_s[h] <= z.ts,
                 z.ts < ts + config.horizons_s[h] + TargetWindow
          PROVE  z \in got(s)[h]
      BY <1>4, <1>5, <2>1, <3>1, <3>4 DEF LabelSound
    <3> QED
      BY <1>7, <3>1, <3>2, <3>3, <3>4
  <2> QED
    BY <2>2, <2>3
<1> QED
  BY <1>12, <1>13, <1>14

-----------------------------------------------------------------------------
\* Every step of a generation, and every commit beside it, keeps the invariant.
LEMMA NextInv ==
  ASSUME DatasetIInv, [DatasetNext]_vars
  PROVE  DatasetIInv'
<1> DEFINE Rows == (\A i \in DOMAIN rows : RowSound(rows[i])) /\ BucketSound /\ LaterRowsSeeNoLess
<1>1. LatestExists /\ SessionTypes /\ FilesFollow /\ Rows
  BY DEF DatasetIInv
<1>2. CASE DatasetNext
  <2>1. LatestExists' /\ SessionTypes' /\ FilesFollow'
    BY <1>1, <1>2, LatestStep, TypesStep, FilesStep
  <2>2. CASE Start \/ LoadStatic
    <3>1. rows' = <<>> /\ todo' = {} /\ ~Building'
      BY <1>1, <2>2 DEF Start, LoadStatic, SessionTypes, Building
    <3> QED
      BY <2>1, <3>1, NothingBuilt DEF DatasetIInv
  <2>3. CASE Aggregate
    BY <1>1, <2>1, <2>3, AggregateStep DEF DatasetIInv
  <2>4. CASE QueryLatest
    BY <1>1, <2>1, <2>4, LatestQueryStep DEF DatasetIInv
  <2>5. CASE QueryTarget
    BY <1>1, <2>1, <2>5, TargetQueryStep DEF DatasetIInv
  <2>6. CASE FinishRow
    BY <1>1, <2>1, <2>6, FinishRowStep DEF DatasetIInv
  <2>7. CASE OpenCsv \/ CloseCsv
    <3>1. /\ step' \in {"csv", "manifest"} /\ todo = {}
          /\ UNCHANGED <<config, known, ts, counted, latest, todo, labels, rows, telemetry>>
      BY <1>1, <2>7 DEF OpenCsv, CloseCsv, BetweenBuckets, session, database, SessionTypes
    <3>2. (\A i \in DOMAIN rows : RowSound(rows[i]))'
      BY <1>1, <3>1 DEF RowSound, SampleOf
    <3>3. BucketSound' /\ LaterRowsSeeNoLess'
      BY <1>1, <3>1 DEF BucketSound, Building, Turn, LaterRowsSeeNoLess
    <3> QED
      BY <2>1, <3>2, <3>3 DEF DatasetIInv
  <2>8. CASE WriteManifest \/ Dies
    <3>1. rows' = <<>> /\ todo' = {} /\ ~Building'
      BY <2>8 DEF WriteManifest, Dies, ProcessEnds, Building
    <3> QED
      BY <2>1, <3>1, NothingBuilt DEF DatasetIInv
  <2>9. CASE Commit \/ Import
    BY <1>1, <2>1, <2>9, Untouched, GrowthKeepsRows DEF DatasetIInv
  <2> QED
    BY <1>2, <2>2, <2>3, <2>4, <2>5, <2>6, <2>7, <2>8, <2>9 DEF DatasetNext, Generate
<1>3. CASE UNCHANGED vars
  <2>1. UNCHANGED <<step, config, known, ts, counted, latest, todo, labels, rows, files,
                    telemetry, segments>>
    BY <1>3 DEF vars, session, database
  <2>2. Rows'
    BY <1>1, <2>1, GrowthKeepsRows
  <2>3. LatestExists'
    BY <1>1, <2>1 DEF LatestExists, SampleOf, Latest
  <2>4. SessionTypes' /\ FilesFollow'
    BY <1>1, <2>1 DEF SessionTypes, FilesFollow, files
  <2> QED
    BY <2>2, <2>3, <2>4 DEF DatasetIInv
<1> QED
  BY <1>2, <1>3

LEMMA InitInv == DatasetInit => DatasetIInv
<1> SUFFICES ASSUME DatasetInit PROVE DatasetIInv
  OBVIOUS
<1>1. LatestExists
  BY DEF DatasetInit, LatestExists, SampleOf
<1>2. SessionTypes
  BY EmptyIsSequence DEF DatasetInit, SessionTypes
<1>3. (\A i \in DOMAIN rows : RowSound(rows[i])) /\ BucketSound /\ LaterRowsSeeNoLess
  BY DEF DatasetInit, BucketSound, Building, Turn, LaterRowsSeeNoLess
<1>4. FilesFollow
  BY DEF DatasetInit, FilesFollow, NoFile
<1> QED
  BY <1>1, <1>2, <1>3, <1>4 DEF DatasetIInv

\* The invariant holds of every reachable state.
THEOREM InvariantHolds == DatasetSpec => []DatasetIInv
BY InitInv, NextInv, PTL DEF DatasetSpec

-----------------------------------------------------------------------------
\* Targets never leak into the features of their row, whatever the horizons are
\* as long as they are not negative.
THEOREM NothingLeaks == DatasetSpec => []NoLeakage
<1>1. DatasetIInv => NoLeakage
  <2> SUFFICES ASSUME DatasetIInv, NEW i \in DOMAIN rows
               PROVE  /\ \A x \in Observed(rows[i]) : x.ts < rows[i].ts
                      /\ \A h \in DOMAIN rows[i].labels :
                           config.horizons_s[h] >= 0 =>
                             \A x \in rows[i].labels[h] : x.ts >= rows[i].ts
    BY DEF NoLeakage
  <2>1. RowSound(rows[i])
    BY DEF DatasetIInv
  <2>2. \A x \in Observed(rows[i]) : x.ts < rows[i].ts
    BY <2>1 DEF RowSound
  <2>3. ASSUME NEW h \in DOMAIN rows[i].labels, config.horizons_s[h] >= 0,
               NEW x \in rows[i].labels[h]
        PROVE  x.ts >= rows[i].ts
    <3>1. x \in Samples
      BY <2>1 DEF RowSound, Used, SampleOf, DatasetIInv, LatestExists
    <3>2. x.ts \in Int /\ rows[i].ts \in Int
      BY <2>1, <3>1, SamplesAssumption DEF RowSound
    <3>3. config.horizons_s[h] \in Int
      BY <2>1, HorizonsAreInts DEF RowSound, DatasetIInv, SessionTypes
    <3> QED
      BY <2>1, <2>3, <3>2, <3>3 DEF RowSound
  <2> QED
    BY <2>2, <2>3
<1> QED
  BY <1>1, InvariantHolds, PTL

\* The latest sample of a row is never behind its aggregates, although another
\* query reads it, because telemetry only grows.
THEOREM LatestIsNeverBehind == DatasetSpec => []LatestCoversCounted
<1>1. DatasetIInv => LatestCoversCounted
  BY DEF DatasetIInv, RowSound, LatestCoversCounted
<1> QED
  BY <1>1, InvariantHolds, PTL

\* Rows that are made later miss nothing that an earlier row has used.
THEOREM NothingGoesMissing == DatasetSpec => []LaterRowsSeeNoLess
<1>1. DatasetIInv => LaterRowsSeeNoLess
  BY DEF DatasetIInv
<1> QED
  BY <1>1, InvariantHolds, PTL

\* Files of two generations validate together only when the later one is still
\* writing or has died writing.
THEOREM MixturesMeanInterruption == DatasetSpec => []MixedOnlyIfInterrupted
<1>1. DatasetIInv => MixedOnlyIfInterrupted
  <2> SUFFICES ASSUME DatasetIInv, Verdict = "valid"
               PROVE  \/ csv.run = manifest.run /\ csv.whole
                      \/ /\ csv.run > manifest.run
                         /\ csv.run \in interrupted \/ (csv.run = runs /\ step \in {"csv", "manifest"})
    BY DEF MixedOnlyIfInterrupted
  <2>1. csv # NoFile /\ manifest # NoFile
    BY DEF Verdict
  <2> QED
    BY <2>1 DEF DatasetIInv, FilesFollow
<1> QED
  BY <1>1, InvariantHolds, PTL
-----------------------------------------------------------------------------
(* Buckets *)

LEMMA Division ==
  ASSUME NEW a \in Int, NEW d \in Nat \ {0}
  PROVE  /\ a \div d \in Int /\ a % d \in 0 .. d - 1
         /\ a = d * (a \div d) + (a % d)
OBVIOUS

LEMMA Products ==
  ASSUME NEW a \in Int, NEW b \in Int, NEW d \in Nat \ {0}
  PROVE  /\ a <= b => d * a <= d * b
         /\ a < b => d * a + d <= d * b
         /\ d * a < d * b => a < b
OBVIOUS

\* Two multiples of d lie d apart, at least.
LEMMA GridGap ==
  ASSUME NEW a \in Int, NEW b \in Int, NEW d \in Nat \ {0}, a % d = 0, b % d = 0, a < b
  PROVE  a + d <= b
<1>1. a \div d \in Int /\ a = d * (a \div d)
  BY Division
<1>2. b \div d \in Int /\ b = d * (b \div d)
  BY Division
<1>3. PICK p \in Int, q \in Int : a = d * p /\ b = d * q
  BY <1>1, <1>2
<1> QED
  BY <1>3, Products

LEMMA GridNext ==
  ASSUME NEW a \in Int, NEW d \in Nat \ {0}, a % d = 0
  PROVE  (a + d) % d = 0
<1>1. PICK p \in Int : a = d * p
  <2>1. a \div d \in Int /\ a = d * (a \div d)
    BY Division
  <2> QED
    BY <2>1
<1>2. PICK q \in Int, r \in 0 .. d - 1 : a + d = d * q + r /\ (a + d) % d = r
  <2>1. a + d \in Int
    OBVIOUS
  <2> QED
    BY <2>1, Division
<1>3. a + d = d * (p + 1)
  BY <1>1
<1>4. CASE q < p + 1
  <2>1. d * q + d <= d * (p + 1)
    BY <1>4, Products
  <2> QED
    BY <1>2, <1>3, <2>1
<1>5. CASE p + 1 <= q
  <2>1. d * (p + 1) <= d * q
    BY <1>5, Products
  <2> QED
    BY <1>2, <1>3, <2>1
<1> QED
  BY <1>4, <1>5

\* What a bucket counts and a target averages grow with the table.
LEMMA EvidenceGrows ==
  ASSUME NEW t, NEW u, t \subseteq u, NEW s, NEW T
  PROVE  /\ Counted(t, s, T) \subseteq Counted(u, s, T)
         /\ \A horizon : Target(t, s, T, horizon) \subseteq Target(u, s, T, horizon)
BY DEF Counted, Target, In

\* What is known of the numbers of a generation that runs.
LEMMA RunNumbers ==
  ASSUME SessionTypes, step # "idle"
  PROVE  /\ config.start \in Int /\ config.end \in Int /\ config.bucket_s \in Nat \ {0}
         /\ config.start < config.end /\ ts \in Int /\ config \in Configs
<1>1. config \in Configs /\ Accepts(config) /\ ts \in Int
  BY DEF SessionTypes
<1>2. config.start \in Int /\ config.end \in Int /\ config.bucket_s \in Int
  BY <1>1, HorizonsAreInts
<1> QED
  BY <1>1, <1>2 DEF Accepts

\* A bucket that is not after the next one is not after the present one.
LEMMA BucketsApart ==
  ASSUME SessionTypes, OnGrid, step # "idle", NEW T \in Buckets, ts < T
  PROVE  ts + config.bucket_s <= T
<1>1. /\ config.start \in Int /\ config.end \in Int /\ config.bucket_s \in Nat \ {0} /\ ts \in Int
  BY RunNumbers
<1>2. T \in Int /\ (T - config.start) % config.bucket_s = 0
  BY <1>1 DEF Buckets
<1>3. (ts - config.start) % config.bucket_s = 0
  BY DEF OnGrid
<1>4. PICK a \in Int, b \in Int, d \in Nat \ {0} :
        a = ts - config.start /\ b = T - config.start /\ d = config.bucket_s
  BY <1>1, <1>2
<1>5. a % d = 0 /\ b % d = 0 /\ a < b
  BY <1>1, <1>2, <1>3, <1>4
<1>6. a + d <= b
  BY <1>5, GridGap
<1> QED
  BY <1>1, <1>2, <1>4, <1>6

-----------------------------------------------------------------------------
(* The second invariant, step by step *)

\* Without rows and before the first bucket there is nothing to say.
LEMMA NothingMade ==
  ASSUME rows' = <<>>, todo' = {}, step' \in {"idle", "started", "static"},
         began' \subseteq telemetry', OnGrid', SessionTypes'
  PROVE  DatasetRowsInv'
<1>1. ~Building' /\ Turn' = {}
  BY DEF Building, Turn
<1>2. (\A i \in DOMAIN rows : RowMade(rows[i]))' /\ RowsOrdered'
  BY DEF RowsOrdered
<1>3. NoneLeftOut'
  <2>1. SUFFICES ASSUME step' = "static", NEW T \in Buckets', T < ts' \/ T = ts'
                 PROVE  FALSE
    BY DEF NoneLeftOut, Passed
  <2>2. ts' = config'.start
    BY <2>1 DEF OnGrid
  <2>3. config' \in Configs
    BY <2>1 DEF SessionTypes
  <2>4. config'.start \in Int /\ config'.end \in Int
    BY <2>3, HorizonsAreInts
  <2>5. T \in config'.start + 1 .. config'.end
    BY DEF Buckets
  <2> QED
    BY <2>1, <2>2, <2>4, <2>5
<1> QED
  BY <1>1, <1>2, <1>3 DEF DatasetRowsInv

LEMMA BeginsMade ==
  ASSUME DatasetIInv, DatasetRowsInv, SessionTypes',
         Start \/ LoadStatic \/ WriteManifest \/ Dies
  PROVE  DatasetRowsInv'
<1>1. CASE Start
  <2>1. PICK c \in Configs : Accepts(c) /\ config' = c /\ ts' = c.start
    BY <1>1 DEF Start
  <2>2. c.start \in Int /\ c.bucket_s \in Nat \ {0}
    BY <2>1, HorizonsAreInts DEF Accepts
  <2>3. step' = "started" /\ began' = telemetry /\ telemetry' = telemetry /\ todo' = {} /\ rows' = <<>>
    BY <1>1 DEF Start, DatasetIInv, SessionTypes, database
  <2>4. c.start <= c.start /\ (c.start - c.start) % c.bucket_s = 0
    BY <2>2
  <2>5. OnGrid'
    BY <2>1, <2>3, <2>4 DEF OnGrid
  <2> QED
    BY <2>3, <2>5, NothingMade
<1>2. CASE LoadStatic
  <2>1. /\ step = "started" /\ step' = "static" /\ began' = began /\ telemetry' = telemetry
        /\ todo' = {} /\ rows' = <<>> /\ config' = config /\ ts' = ts
    BY <1>2 DEF LoadStatic, DatasetIInv, SessionTypes, database
  <2>2. OnGrid'
    BY <2>1 DEF DatasetRowsInv, OnGrid
  <2> QED
    BY <2>1, <2>2, NothingMade DEF DatasetRowsInv
<1>3. CASE WriteManifest \/ Dies
  <2>1. step' = "idle" /\ began' = {} /\ todo' = {} /\ rows' = <<>>
    BY <1>3 DEF WriteManifest, Dies, ProcessEnds
  <2>2. OnGrid'
    BY <2>1 DEF OnGrid
  <2> QED
    BY <2>1, <2>2, NothingMade
<1> QED
  BY <1>1, <1>2, <1>3

\* A new bucket: the rows there are, are all of earlier ones.
LEMMA AggregateMade ==
  ASSUME DatasetIInv, DatasetRowsInv, Aggregate
  PROVE  DatasetRowsInv'
<1>1. /\ step \in {"static", "rows"} /\ step' = "aggregates" /\ todo = {} /\ todo' = {}
      /\ ts' = ts + config.bucket_s
      /\ counted' = [s \in known |-> Counted(telemetry, s, ts')]
      /\ UNCHANGED <<config, known, began, labels, rows, telemetry>>
  BY DEF Aggregate, BetweenBuckets, NextTs, Aggregates, database
<1>2. /\ config.start \in Int /\ config.end \in Int /\ config.bucket_s \in Nat \ {0}
      /\ ts \in Int /\ SessionTypes
  BY <1>1, RunNumbers DEF DatasetIInv
<1>3. \A i \in DOMAIN rows : rows[i].ts \in Int /\ RowMade(rows[i])
  BY DEF DatasetIInv, RowSound, DatasetRowsInv
<1>4. (\A i \in DOMAIN rows : RowMade(rows[i]))'
  <2>1. SUFFICES ASSUME NEW i \in DOMAIN rows PROVE RowMade(rows[i])'
    BY <1>1
  <2>2. RowMade(rows[i]) /\ rows[i].ts \in Int
    BY <1>3
  <2>3. rows[i].ts + config.bucket_s <= ts'
    BY <1>1, <1>2, <2>2 DEF RowMade, LocalTime
  <2> QED
    BY <1>1, <2>2, <2>3 DEF RowMade, LocalTime
<1>5. RowsOrdered'
  BY <1>1 DEF DatasetRowsInv, RowsOrdered
<1>6. OnGrid'
  <2>1. config.start <= ts /\ (ts - config.start) % config.bucket_s = 0
    BY <1>1 DEF DatasetRowsInv, OnGrid
  <2>2. ts - config.start \in Int
    BY <1>2
  <2>3. (ts - config.start + config.bucket_s) % config.bucket_s = 0
    BY <1>2, <2>1, <2>2, GridNext
  <2>4. ts' - config.start = ts - config.start + config.bucket_s /\ config.start <= ts'
    BY <1>1, <1>2, <2>1
  <2>5. (ts' - config'.start) % config'.bucket_s = 0 /\ config'.start <= ts'
    BY <1>1, <2>3, <2>4
  <2> QED
    BY <1>1, <2>5 DEF OnGrid
<1>7. \A s \in known : Counted(began, s, ts') \subseteq counted'[s]
  BY <1>1, EvidenceGrows DEF DatasetRowsInv
<1>8. NoneLeftOut'
  <2>1. SUFFICES ASSUME NEW T \in Buckets, NEW s \in known, T < ts', Counted(began, s, T) # {}
                 PROVE  \E i \in DOMAIN rows : rows[i].ts = T /\ rows[i].segment = s
    BY <1>1 DEF NoneLeftOut, Passed, Buckets
  <2>2. T \in Int
    BY <1>2 DEF Buckets
  <2>3. ~(ts < T)
    BY <1>1, <1>2, <2>1, <2>2, BucketsApart DEF DatasetRowsInv
  <2>4. Passed(T, s)
    BY <1>1, <1>2, <2>2, <2>3 DEF Passed
  <2> QED
    BY <1>1, <2>1, <2>4 DEF DatasetRowsInv, NoneLeftOut
<1>9. began' \subseteq telemetry' /\ Turn' = {}
  BY <1>1 DEF DatasetRowsInv, Turn
<1> QED
  BY <1>1, <1>4, <1>5, <1>6, <1>7, <1>8, <1>9 DEF DatasetRowsInv

\* Segments that get no row in this bucket had no sample in it at the start.
LEMMA LatestQueryMade ==
  ASSUME DatasetIInv, DatasetRowsInv, QueryLatest
  PROVE  DatasetRowsInv'
<1>1. /\ step = "aggregates" /\ step' = "rows" /\ labels = <<>> /\ labels' = <<>> /\ ts \in Int
      /\ todo' = {s \in known : counted[s] # {}} /\ Building
      /\ UNCHANGED <<config, known, began, ts, counted, rows, telemetry>>
  BY DEF QueryLatest, database, DatasetIInv, SessionTypes, Building
<1>2. (\A i \in DOMAIN rows : RowMade(rows[i]))'
  <2>1. SUFFICES ASSUME NEW i \in DOMAIN rows PROVE RowMade(rows[i])'
    BY <1>1
  <2>2. RowMade(rows[i]) /\ rows[i].ts \in Int /\ rows[i].ts < ts
    BY <1>1 DEF DatasetIInv, RowSound, DatasetRowsInv
  <2>3. rows[i].ts # ts
    BY <1>1, <2>2
  <2> QED
    BY <1>1, <2>2, <2>3 DEF RowMade, LocalTime
<1>3. RowsOrdered' /\ OnGrid' /\ began' \subseteq telemetry'
  BY <1>1 DEF DatasetRowsInv, RowsOrdered, OnGrid
<1>4. \A s \in known : Counted(began, s, ts) \subseteq counted[s]
  BY <1>1 DEF DatasetRowsInv
<1>5. \A s \in Turn' : Bracketed(s, counted[s], labels)'
  <2>1. \A s \in Turn' : s \in known
    BY <1>1 DEF Turn
  <2> QED
    BY <1>1, <1>4, <2>1 DEF Bracketed
<1>6. NoneLeftOut'
  <2>1. SUFFICES ASSUME NEW T \in Buckets, NEW s \in known, Counted(began, s, T) # {},
                        T < ts \/ (T = ts /\ s \notin todo')
                 PROVE  \E i \in DOMAIN rows : rows[i].ts = T /\ rows[i].segment = s
    BY <1>1 DEF NoneLeftOut, Passed, Buckets
  <2>2. T < ts
    BY <1>1, <1>4, <2>1
  <2> QED
    BY <1>1, <2>1, <2>2 DEF DatasetRowsInv, NoneLeftOut, Passed
<1> QED
  BY <1>1, <1>2, <1>3, <1>4, <1>5, <1>6 DEF DatasetRowsInv
\* A target query finds the samples of the start and none that is not there.
LEMMA TargetBracketed ==
  ASSUME SessionTypes, began \subseteq telemetry, NEW s, labels \in Seq(SUBSET Samples),
         Bracketed(s, counted[s], labels),
         NEW longer, longer = Append(labels, Target(telemetry, s, ts, config.horizons_s[Len(labels) + 1]))
  PROVE  Bracketed(s, counted[s], longer)
<1>1. PICK new : new = Target(telemetry, s, ts, config.horizons_s[Len(labels) + 1])
  OBVIOUS
<1>2. /\ DOMAIN longer = 1 .. Len(labels) + 1 /\ DOMAIN labels = 1 .. Len(labels) /\ Len(labels) \in Nat
      /\ longer[Len(labels) + 1] = new
      /\ \A h \in DOMAIN labels : longer[h] = labels[h]
  BY <1>1, AppendKeepsRows DEF IsSequence
<1>3. ASSUME NEW h \in DOMAIN longer
      PROVE  /\ Target(began, s, ts, config.horizons_s[h]) \subseteq longer[h]
             /\ longer[h] \subseteq Target(telemetry, s, ts, config.horizons_s[h])
  <2>1. CASE h \in DOMAIN labels
    BY <1>2, <2>1 DEF Bracketed
  <2>2. CASE h = Len(labels) + 1
    <3>1. PICK z : z = config.horizons_s[Len(labels) + 1]
      OBVIOUS
    <3>2. Target(began, s, ts, z) \subseteq Target(telemetry, s, ts, z)
      BY EvidenceGrows
    <3>3. longer[h] = Target(telemetry, s, ts, z) /\ config.horizons_s[h] = z
      BY <1>1, <1>2, <2>2, <3>1
    <3> QED
      BY <3>2, <3>3
  <2> QED
    BY <1>2, <2>1, <2>2
<1> QED
  BY <1>3 DEF Bracketed

LEMMA TargetQueryMade ==
  ASSUME DatasetIInv, DatasetRowsInv, QueryTarget
  PROVE  DatasetRowsInv'
<1>1. UNCHANGED <<step, config, known, began, ts, counted, latest, todo, rows, telemetry>>
  BY DEF QueryTarget, database
<1>2. PICK s \in Turn :
        labels' = Append(labels, Target(telemetry, s, ts, config.horizons_s[Len(labels) + 1]))
  BY DEF QueryTarget, Horizon
<1>3. \A other \in Turn : other = s
  BY TurnIsOne DEF DatasetIInv
<1>4. Bracketed(s, counted[s], labels')
  <2>1. Bracketed(s, counted[s], labels) /\ began \subseteq telemetry
    BY DEF DatasetRowsInv
  <2>2. SessionTypes /\ labels \in Seq(SUBSET Samples)
    BY DEF DatasetIInv, SessionTypes
  <2> QED
    BY <1>2, <2>1, <2>2, TargetBracketed
<1>5. \A r \in Turn' : Bracketed(r, counted[r], labels)'
  <2>1. Turn' = Turn
    BY <1>1 DEF Turn
  <2> QED
    BY <1>1, <1>3, <1>4, <2>1 DEF Bracketed
<1>6. (\A i \in DOMAIN rows : RowMade(rows[i]))'
  BY <1>1 DEF DatasetRowsInv, RowMade, LocalTime
<1>7. RowsOrdered' /\ OnGrid' /\ NoneLeftOut' /\ began' \subseteq telemetry'
  BY <1>1 DEF DatasetRowsInv, RowsOrdered, OnGrid, PastEnd, NextTs, NoneLeftOut, Passed, Buckets
<1>8. (Building => \A r \in known : Counted(began, r, ts) \subseteq counted[r])'
  BY <1>1 DEF DatasetRowsInv, Building
<1> QED
  BY <1>5, <1>6, <1>7, <1>8 DEF DatasetRowsInv

\* The new row is the last of its bucket so far, and the one its segment gets.
LEMMA FinishRowMade ==
  ASSUME DatasetIInv, DatasetRowsInv, FinishRow
  PROVE  DatasetRowsInv'
<1>1. /\ step = "rows" /\ labels' = <<>> /\ ts \in Int /\ Building
      /\ UNCHANGED <<step, config, known, began, ts, counted, latest, telemetry>>
  BY DEF FinishRow, database, DatasetIInv, SessionTypes, Building
<1> DEFINE got(s) == Append(labels, Target(telemetry, s, ts, config.horizons_s[Len(labels) + 1]))
           Row(s) == [segment |-> s, ts |-> ts, temporal |-> Temporal(LocalTime(ts)),
                      features |-> Features(ts, counted[s], latest[s]), labels |-> got(s)]
<1>2. PICK s \in Turn : rows' = Append(rows, Row(s)) /\ todo' = todo \ {s}
  BY DEF FinishRow, Horizon
<1>3. /\ s \in todo /\ s \in known /\ CountedSound(s) /\ todo \subseteq known /\ known \subseteq Nat
      /\ \A o \in todo : s <= o
  BY <1>1, <1>2, ConstantsAssumption DEF Turn, DatasetIInv, BucketSound, SessionTypes
<1>4. Bracketed(s, counted[s], got(s))
  <2>1. Bracketed(s, counted[s], labels) /\ began \subseteq telemetry
    BY <1>2 DEF DatasetRowsInv
  <2>2. SessionTypes /\ labels \in Seq(SUBSET Samples)
    BY DEF DatasetIInv, SessionTypes
  <2> HIDE DEF got
  <2>3. got(s) = Append(labels, Target(telemetry, s, ts, config.horizons_s[Len(labels) + 1]))
    BY DEF got
  <2> QED
    BY <2>1, <2>2, <2>3, TargetBracketed
<1> HIDE DEF got
<1>5. PICK row : row = Row(s)
  OBVIOUS
<1>6. /\ row.segment = s /\ row.ts = ts /\ row.labels = got(s) /\ row.temporal = Temporal(LocalTime(ts))
      /\ row.features = Features(ts, counted[s], latest[s])
      /\ row.features.speed_now_mps = latest[s]
      /\ row.features.speed_mean_15m = counted[s]
  BY <1>5 DEF Features
<1> HIDE DEF Row
<1>7. /\ \A i \in DOMAIN rows : rows'[i] = rows[i]
      /\ DOMAIN rows = 1 .. Len(rows) /\ Len(rows) \in Nat
      /\ DOMAIN rows' = 1 .. Len(rows) + 1 /\ rows'[Len(rows) + 1] = row
  BY <1>2, <1>5, AppendKeepsRows DEF DatasetIInv, SessionTypes
<1>8. \A i \in DOMAIN rows : RowMade(rows[i])
  BY DEF DatasetRowsInv
<1>9. \A o \in todo' : s < o
  <2>1. SUFFICES ASSUME NEW o \in todo, o # s PROVE s < o
    BY <1>2
  <2>2. s \in Nat /\ o \in Nat /\ s <= o
    BY <1>3
  <2> QED
    BY <2>1, <2>2
<1>10. RowMade(row)'
  <2>1. Counted(began, s, ts) \subseteq counted[s]
    BY <1>1, <1>3 DEF DatasetRowsInv
  <2>2. counted[s] \subseteq Counted(telemetry, s, ts)
    BY <1>3 DEF CountedSound
  <2>3. \A h \in DOMAIN got(s) :
          /\ Target(began, s, ts, config.horizons_s[h]) \subseteq got(s)[h]
          /\ got(s)[h] \subseteq Target(telemetry, s, ts, config.horizons_s[h])
    BY <1>4 DEF Bracketed
  <2> QED
    BY <1>1, <1>6, <1>9, <2>1, <2>2, <2>3 DEF RowMade, LocalTime
<1>11. (\A i \in DOMAIN rows : RowMade(rows[i]))'
  <2>1. ASSUME NEW i \in DOMAIN rows PROVE RowMade(rows[i])'
    <3>1. RowMade(rows[i]) /\ rows'[i] = rows[i]
      BY <1>7, <1>8
    <3> QED
      BY <1>1, <1>2, <3>1 DEF RowMade, LocalTime
  <2> QED
    BY <1>7, <1>10, <2>1
<1>12. RowsOrdered'
  <2>1. SUFFICES ASSUME NEW i \in DOMAIN rows', NEW j \in DOMAIN rows', i < j
                 PROVE  \/ rows'[i].ts + config.bucket_s <= rows'[j].ts
                        \/ rows'[i].ts = rows'[j].ts /\ rows'[i].segment < rows'[j].segment
    BY <1>1 DEF RowsOrdered
  <2>2. i \in DOMAIN rows /\ rows'[i] = rows[i]
    BY <1>7, <2>1
  <2>3. CASE j \in DOMAIN rows
    BY <1>7, <2>1, <2>2, <2>3 DEF DatasetRowsInv, RowsOrdered
  <2>4. CASE j \notin DOMAIN rows
    <3>1. rows'[j].ts = ts /\ rows'[j].segment = s
      BY <1>6, <1>7, <2>4
    <3>2. RowMade(rows[i])
      BY <1>8, <2>2
    <3> QED
      BY <1>3, <2>2, <3>1, <3>2 DEF RowMade
  <2> QED
    BY <2>3, <2>4
<1>13. OnGrid' /\ began' \subseteq telemetry'
  BY <1>1 DEF DatasetRowsInv, OnGrid
<1>14. (Building => \A r \in known : Counted(began, r, ts) \subseteq counted[r])'
  BY <1>1 DEF DatasetRowsInv, Building
<1>15. \A r \in Turn' : Bracketed(r, counted[r], labels)'
  <2>1. \A r \in Turn' : r \in known
    BY <1>2, <1>3 DEF Turn
  <2> QED
    BY <1>1, <2>1 DEF DatasetRowsInv, Bracketed
<1>16. NoneLeftOut'
  <2>1. SUFFICES ASSUME NEW T \in Buckets, NEW o \in known, Counted(began, o, T) # {},
                        T < ts \/ (T = ts /\ o \notin todo')
                 PROVE  \E i \in DOMAIN rows' : rows'[i].ts = T /\ rows'[i].segment = o
    BY <1>1 DEF NoneLeftOut, Passed, Buckets
  <2>2. CASE Passed(T, o)
    <3>1. PICK i \in DOMAIN rows : rows[i].ts = T /\ rows[i].segment = o
      BY <1>1, <2>1, <2>2 DEF DatasetRowsInv, NoneLeftOut
    <3> QED
      BY <1>7, <3>1
  <2>3. CASE ~Passed(T, o)
    <3>1. T = ts /\ o = s
      BY <1>1, <1>2, <2>1, <2>3 DEF Passed
    <3> QED
      BY <1>6, <1>7, <3>1
  <2> QED
    BY <2>2, <2>3
<1> QED
  BY <1>11, <1>12, <1>13, <1>14, <1>15, <1>16 DEF DatasetRowsInv

LEMMA FilesMade ==
  ASSUME DatasetIInv, DatasetRowsInv, OpenCsv \/ CloseCsv
  PROVE  DatasetRowsInv'
<1>1. /\ step \in {"static", "rows", "csv"} /\ step' \in {"csv", "manifest"} /\ todo = {} /\ PastEnd
      /\ UNCHANGED <<config, known, began, ts, counted, latest, todo, labels, rows, telemetry>>
  BY DEF OpenCsv, CloseCsv, BetweenBuckets, session, database, DatasetIInv, SessionTypes,
         DatasetRowsInv, OnGrid
<1>2. (\A i \in DOMAIN rows : RowMade(rows[i]))'
  BY <1>1 DEF DatasetRowsInv, RowMade, LocalTime
<1>3. RowsOrdered' /\ began' \subseteq telemetry'
  BY <1>1 DEF DatasetRowsInv, RowsOrdered
<1>4. OnGrid'
  BY <1>1 DEF DatasetRowsInv, OnGrid, PastEnd, NextTs
<1>5. ~Building' /\ Turn' = {}
  BY <1>1 DEF Building, Turn
<1>6. NoneLeftOut'
  <2>1. SUFFICES ASSUME NEW T \in Buckets, NEW s \in known, Counted(began, s, T) # {},
                        T < ts \/ T = ts
                 PROVE  \E i \in DOMAIN rows : rows[i].ts = T /\ rows[i].segment = s
    BY <1>1 DEF NoneLeftOut, Passed, Buckets
  <2>2. Passed(T, s)
    BY <1>1, <2>1 DEF Passed
  <2> QED
    BY <1>1, <2>1, <2>2 DEF DatasetRowsInv, NoneLeftOut
<1> QED
  BY <1>2, <1>3, <1>4, <1>5, <1>6 DEF DatasetRowsInv

\* What is committed meanwhile only widens the brackets.
LEMMA GrowthMade ==
  ASSUME DatasetRowsInv, telemetry \subseteq telemetry',
         UNCHANGED <<step, config, known, began, ts, counted, latest, todo, labels, rows>>
  PROVE  DatasetRowsInv'
<1>1. ASSUME NEW i \in DOMAIN rows PROVE RowMade(rows[i])'
  <2>1. RowMade(rows[i])
    BY DEF DatasetRowsInv
  <2>2. \A s, T : /\ Counted(telemetry, s, T) \subseteq Counted(telemetry', s, T)
                  /\ \A horizon : Target(telemetry, s, T, horizon) \subseteq Target(telemetry', s, T, horizon)
    BY EvidenceGrows
  <2> QED
    BY <2>1, <2>2 DEF RowMade, LocalTime
<1>2. ASSUME NEW s \in Turn PROVE Bracketed(s, counted[s], labels)'
  <2>1. Bracketed(s, counted[s], labels)
    BY DEF DatasetRowsInv
  <2>2. \A T, horizon : Target(telemetry, s, T, horizon) \subseteq Target(telemetry', s, T, horizon)
    BY EvidenceGrows
  <2> QED
    BY <2>1, <2>2 DEF Bracketed
<1>3. Turn' = Turn /\ (Building' <=> Building)
  BY DEF Turn, Building
<1>4. RowsOrdered' /\ OnGrid' /\ NoneLeftOut' /\ began' \subseteq telemetry'
  BY DEF DatasetRowsInv, RowsOrdered, OnGrid, PastEnd, NextTs, NoneLeftOut, Passed, Buckets
<1> QED
  BY <1>1, <1>2, <1>3, <1>4 DEF DatasetRowsInv

LEMMA NextMade ==
  ASSUME DatasetIInv, DatasetIInv', DatasetRowsInv, [DatasetNext]_vars
  PROVE  DatasetRowsInv'
<1>1. CASE Start \/ LoadStatic \/ WriteManifest \/ Dies
  BY <1>1, BeginsMade DEF DatasetIInv
<1>2. CASE Aggregate
  BY <1>2, AggregateMade
<1>3. CASE QueryLatest
  BY <1>3, LatestQueryMade
<1>4. CASE QueryTarget
  BY <1>4, TargetQueryMade
<1>5. CASE FinishRow
  BY <1>5, FinishRowMade
<1>6. CASE OpenCsv \/ CloseCsv
  BY <1>6, FilesMade
<1>7. CASE Commit \/ Import
  <2>1. UNCHANGED <<step, config, known, ts, counted, latest, todo, labels, rows>>
    BY <1>7, Untouched
  <2>2. telemetry \subseteq telemetry' /\ began' = began
    BY <1>7 DEF Commit, Import, session
  <2> QED
    BY <2>1, <2>2, GrowthMade
<1>8. CASE UNCHANGED vars
  <2>1. UNCHANGED <<step, config, known, began, ts, counted, latest, todo, labels, rows, telemetry>>
    BY <1>8 DEF vars, session, database
  <2> QED
    BY <2>1, GrowthMade
<1> QED
  BY <1>1, <1>2, <1>3, <1>4, <1>5, <1>6, <1>7, <1>8 DEF DatasetNext, Generate

LEMMA InitMade == DatasetInit => DatasetRowsInv
BY DEF DatasetInit, DatasetRowsInv, RowsOrdered, OnGrid, Building, Turn, NoneLeftOut

\* Also this holds of every reachable state: every row is what its features and
\* targets are computed to be, from evidence between that of the start and that
\* of now, the rows are in order, and none is left out.
THEOREM RowsInvariantHolds == DatasetSpec => []DatasetRowsInv
BY InitMade, NextMade, InvariantHolds, PTL DEF DatasetSpec

-----------------------------------------------------------------------------
(* The feature contract *)

LEMMA TemporalMeets ==
  ASSUME NEW T \in Int
  PROVE  /\ Temporal(T).hour_of_day \in 0 .. 23 /\ Temporal(T).day_of_week \in 0 .. 6
         /\ Temporal(T).is_weekend <=> Temporal(T).day_of_week \in {5, 6}
         /\ Temporal(T).is_peak <=>
              ~Temporal(T).is_weekend /\ Temporal(T).hour_of_day \in (7 .. 9) \cup (17 .. 19)
<1>1. Hour \in Nat \ {0}
  BY ConstantsAssumption
<1>2. PICK longDay \in Nat \ {0} : longDay = 24 * Hour
  BY <1>1
<1>3. PICK a \in Int, b \in Int : a = T \div Hour /\ b = T \div longDay
  BY <1>1, Division
<1>4. a % 24 \in 0 .. 23 /\ b % 7 \in 0 .. 6
  BY <1>3
<1>5. PICK hour, day : hour = a % 24 /\ day = b % 7
  OBVIOUS
<1>6. PICK weekend, peak :
        /\ weekend = (day >= 5)
        /\ peak = (day < 5 /\ \E w \in {<<7, 10>>, <<17, 20>>} : hour \in w[1] .. w[2] - 1)
  OBVIOUS
<1>7. Temporal(T) = [hour_of_day |-> hour, day_of_week |-> day, is_weekend |-> weekend, is_peak |-> peak]
  BY <1>2, <1>3, <1>5, <1>6 DEF Temporal
<1>8. hour \in 0 .. 23 /\ day \in 0 .. 6
  BY <1>4, <1>5
<1>9. (day >= 5 <=> day \in {5, 6}) /\ (day < 5 <=> ~(day >= 5))
  BY <1>8
<1>10. (\E w \in {<<7, 10>>, <<17, 20>>} : hour \in w[1] .. w[2] - 1)
         <=> hour \in (7 .. 9) \cup (17 .. 19)
  BY <1>8
<1>11. weekend <=> day \in {5, 6}
  BY <1>6, <1>9, Zenon
<1>12. peak <=> ~weekend /\ hour \in (7 .. 9) \cup (17 .. 19)
  BY <1>6, <1>9, <1>10, Zenon
<1> QED
  BY <1>7, <1>8, <1>11, <1>12

\* There are no more vehicles than samples, and none only without a sample.
LEMMA FewerVehicles ==
  ASSUME NEW group \in SUBSET Samples
  PROVE  /\ Cardinality(group) \in Nat /\ Cardinality(Vehicles(group)) \in Nat
         /\ Cardinality(Vehicles(group)) <= Cardinality(group)
         /\ Cardinality(group) = 0 <=> group = {}
         /\ Cardinality(Vehicles(group)) = 0 <=> group = {}
         /\ IsFiniteSet(Vehicles(group))
<1>1. IsFiniteSet(group)
  BY SamplesAssumption, FS_Subset
<1>2. PICK f : f = [x \in group |-> x.vehicle]
  OBVIOUS
<1>3. PICK seen : seen = Vehicles(group)
  OBVIOUS
<1>4. f \in Surjection(group, seen)
  BY <1>2, <1>3 DEF Surjection, Vehicles
<1>5. IsFiniteSet(seen) /\ Cardinality(seen) <= Cardinality(group)
  BY <1>1, <1>4, FS_Surjection
<1>6. seen = {} <=> group = {}
  BY <1>3 DEF Vehicles
<1> QED
  BY <1>1, <1>3, <1>5, <1>6, FS_CardinalityType, FS_EmptySet

\* The samples of the short window are among those of the long one.
LEMMA FeaturesMeet ==
  ASSUME LatestExists, NEW row, RowSound(row), RowMade(row)
  PROVE  TelemetryContract(row)
<1>1. PICK T, group, last :
        T = row.ts /\ group = row.features.speed_mean_15m /\ last = row.features.speed_now_mps
  OBVIOUS
<1>2. row.features = Features(T, group, last)
  BY <1>1 DEF RowMade
<1>3. PICK short : short = {x \in group : x.ts >= T - WindowShort}
  OBVIOUS
<1>4. group \subseteq Samples /\ last \subseteq Samples /\ short \subseteq group
  <2>1. Used(row) \subseteq Samples
    BY DEF RowSound, SampleOf, LatestExists
  <2> QED
    BY <1>1, <1>3, <2>1 DEF Used, Observed
<1>5. \A x \in last : T - x.ts \in Nat
  <2>1. T \in Int /\ \A x \in last : x.ts < T
    BY <1>1 DEF RowSound, Observed
  <2> QED
    BY <1>4, <2>1, SamplesAssumption
<1>6. PICK spread : spread = IF Cardinality(group) >= 2 THEN group ELSE {}
  OBVIOUS
<1>7. row.features = [speed_now_mps |-> last, age_s |-> {T - x.ts : x \in last},
        speed_mean_5m |-> short, speed_mean_15m |-> group, speed_std_15m |-> spread,
        vehicle_count_5m |-> Cardinality(Vehicles(short)),
        vehicle_count_15m |-> Cardinality(Vehicles(group)),
        observation_count_15m |-> Cardinality(group)]
  BY <1>2, <1>3, <1>6 DEF Features
<1>8. /\ Cardinality(group) \in Nat /\ Cardinality(Vehicles(group)) <= Cardinality(group)
      /\ Cardinality(group) = 0 <=> group = {}
  BY <1>4, FewerVehicles
<1>9. Cardinality(Vehicles(short)) = 0 <=> short = {}
  BY <1>4, FewerVehicles
<1>10. Cardinality(Vehicles(short)) <= Cardinality(Vehicles(group))
  <2>1. IsFiniteSet(Vehicles(group))
    BY <1>4, FewerVehicles
  <2>2. PICK few, many : few = Vehicles(short) /\ many = Vehicles(group)
    OBVIOUS
  <2>3. few \in SUBSET many
    BY <1>4, <2>2 DEF Vehicles
  <2>4. Cardinality(few) <= Cardinality(many)
    BY <2>1, <2>2, <2>3, FS_Subset
  <2> QED
    BY <2>2, <2>4
<1>11. spread = {} <=> Cardinality(group) < 2
  BY <1>6, <1>8
<1>12. {T - x.ts : x \in last} = {} <=> last = {}
  OBVIOUS
<1> HIDE DEF Vehicles
<1>13. {T - x.ts : x \in last} \subseteq Nat
  BY <1>5
<1> QED
  BY <1>7, <1>8, <1>9, <1>10, <1>11, <1>12, <1>13 DEF TelemetryContract

\* Rows there are only while a generation runs.
LEMMA RowsMeanRunning ==
  ASSUME SessionTypes, NEW i \in DOMAIN rows
  PROVE  step # "idle"
BY DEF SessionTypes

\* Rows meet the feature contract, and no key comes twice or out of order.
THEOREM RowsAlwaysMeetContract == DatasetSpec => []RowsMeetContract
<1>1. DatasetIInv /\ DatasetRowsInv => RowsMeetContract
  <2> SUFFICES ASSUME DatasetIInv, DatasetRowsInv
               PROVE  RowsMeetContract
    OBVIOUS
  <2>1. SessionTypes /\ LatestExists
    BY DEF DatasetIInv
  <2>2. ASSUME NEW i \in DOMAIN rows PROVE TemporalContract(rows[i]) /\ TelemetryContract(rows[i])
    <3>1. PICK row : row = rows[i]
      OBVIOUS
    <3>2. RowSound(row) /\ RowMade(row)
      BY <3>1 DEF DatasetIInv, DatasetRowsInv
    <3>3. TelemetryContract(row)
      BY <2>1, <3>2, FeaturesMeet
    <3>4. PICK clock \in Int : row.temporal = Temporal(clock)
      <4>1. config.offset \in Int
        BY <2>1, RowsMeanRunning, HorizonsAreInts DEF SessionTypes
      <4>2. LocalTime(row.ts) \in Int
        BY <3>2, <4>1 DEF RowSound, LocalTime
      <4> QED
        BY <3>2, <4>2 DEF RowMade
    <3>5. TemporalContract(row)
      BY <3>4, TemporalMeets DEF TemporalContract
    <3> QED
      BY <3>1, <3>3, <3>5
  <2>3. ASSUME NEW i \in DOMAIN rows, NEW j \in DOMAIN rows, i < j
        PROVE  \/ rows[i].ts < rows[j].ts
               \/ rows[i].ts = rows[j].ts /\ rows[i].segment < rows[j].segment
    <3>1. config.bucket_s \in Nat \ {0}
      BY <2>1, RowsMeanRunning, RunNumbers
    <3>2. rows[i].ts \in Int /\ rows[j].ts \in Int
      BY DEF DatasetIInv, RowSound
    <3>3. \/ rows[i].ts + config.bucket_s <= rows[j].ts
          \/ rows[i].ts = rows[j].ts /\ rows[i].segment < rows[j].segment
      BY <2>3 DEF DatasetRowsInv, RowsOrdered
    <3> QED
      BY <3>1, <3>2, <3>3
  <2> QED
    BY <2>2, <2>3 DEF RowsMeetContract
<1> QED
  BY <1>1, InvariantHolds, RowsInvariantHolds, PTL

\* What is written lies between the datasets of the start and of the end.
THEOREM RowsAlwaysBracketed == DatasetSpec => []RowsBracketed
<1>1. DatasetIInv /\ DatasetRowsInv => RowsBracketed
  <2> SUFFICES ASSUME DatasetIInv, DatasetRowsInv, step = "csv",
                      NEW T \in Buckets, NEW s \in known, Counted(began, s, T) # {}
               PROVE  \E i \in DOMAIN rows :
                        /\ rows[i].ts = T /\ rows[i].segment = s
                        /\ Counted(began, s, T) \subseteq rows[i].features.speed_mean_15m
                        /\ rows[i].features.speed_mean_15m \subseteq Counted(telemetry, s, T)
                        /\ \A h \in DOMAIN config.horizons_s :
                             /\ Target(began, s, T, config.horizons_s[h]) \subseteq rows[i].labels[h]
                             /\ rows[i].labels[h] \subseteq Target(telemetry, s, T, config.horizons_s[h])
    BY DEF RowsBracketed
  <2>1. SessionTypes /\ OnGrid /\ todo = {} /\ PastEnd
    BY DEF DatasetIInv, DatasetRowsInv, SessionTypes, OnGrid
  <2>2. /\ config.start \in Int /\ config.end \in Int /\ config.bucket_s \in Nat \ {0} /\ ts \in Int
    BY <2>1, RunNumbers
  <2>3. T \in Int /\ T <= config.end
    BY <2>2 DEF Buckets
  <2>4. T <= ts
    <3>1. ASSUME ts < T PROVE FALSE
      <4>1. ts + config.bucket_s <= T
        BY <2>1, <3>1, BucketsApart
      <4> QED
        BY <2>1, <2>2, <2>3, <4>1 DEF PastEnd, NextTs
    <3> QED
      BY <2>2, <2>3, <3>1
  <2>5. PICK i \in DOMAIN rows : rows[i].ts = T /\ rows[i].segment = s
    BY <2>1, <2>2, <2>3, <2>4 DEF DatasetRowsInv, NoneLeftOut, Passed
  <2>6. RowMade(rows[i]) /\ DOMAIN rows[i].labels = DOMAIN config.horizons_s
    BY DEF DatasetIInv, DatasetRowsInv, RowSound
  <2> QED
    BY <2>5, <2>6 DEF RowMade
<1> QED
  BY <1>1, InvariantHolds, RowsInvariantHolds, PTL

\* A row in an earlier part of the split is an earlier row.
LEMMA PartsApart ==
  ASSUME NEW T \in Int, NEW U \in Int,
         config.start \in Int, config.end \in Int, config.start < config.end,
         <<Part(T), Part(U)>> \in
           {<<"train", "validation">>, <<"train", "test">>, <<"validation", "test">>}
  PROVE  T < U
<1>1. PICK a \in Nat \ {0}, b \in Nat \ {0}, c \in Nat \ {0} :
        a = TrainShare /\ b = ValidationShare /\ c = TestShare
  BY ConstantsAssumption
<1>2. PICK shares \in Nat \ {0}, span \in Nat \ {0} :
        shares = a + b + c /\ span = config.end - config.start
  <2>1. a + b + c \in Nat \ {0} /\ config.end - config.start \in Nat \ {0}
    OBVIOUS
  <2> QED
    BY <2>1
<1>3. PICK t \in Int, u \in Int : t = T - config.start /\ u = U - config.start
  OBVIOUS
<1>4. PICK p \in Int, q \in Int : p = shares * t /\ q = shares * u
  OBVIOUS
<1>5. PICK first \in Int, second \in Int :
        first = span * a /\ second = span * (a + b) /\ first <= second
  <2>1. a <= a + b
    OBVIOUS
  <2> QED
    BY <2>1, Products
<1>6. /\ Part(T) = (CASE p < first -> "train"
                      [] p >= first /\ p < second -> "validation"
                      [] p >= second /\ T < config.end -> "test"
                      [] OTHER -> "none")
      /\ Part(U) = (CASE q < first -> "train"
                      [] q >= first /\ q < second -> "validation"
                      [] q >= second /\ U < config.end -> "test"
                      [] OTHER -> "none")
  BY <1>1, <1>2, <1>3, <1>4, <1>5 DEF Part
<1>7. p < q
  BY <1>4, <1>5, <1>6
<1>8. t < u
  BY <1>4, <1>7, Products
<1> QED
  BY <1>3, <1>8

\* No evaluation target is behind a feature of an earlier part of the split, and
\* none behind a target of it but of close rows and longer horizons.
THEOREM EvaluationAlwaysUnseen == DatasetSpec => []EvaluationIsUnseen
<1>1. DatasetIInv /\ DatasetRowsInv => EvaluationIsUnseen
  <2> SUFFICES ASSUME DatasetIInv, DatasetRowsInv, NEW i \in DOMAIN rows, NEW j \in DOMAIN rows,
                      <<Part(rows[i].ts), Part(rows[j].ts)>> \in
                        {<<"train", "validation">>, <<"train", "test">>, <<"validation", "test">>},
                      NEW h \in DOMAIN config.horizons_s, config.horizons_s[h] >= 0
               PROVE  /\ Observed(rows[i]) \cap rows[j].labels[h] = {}
                      /\ \A g \in DOMAIN config.horizons_s :
                           rows[i].labels[g] \cap rows[j].labels[h] # {} =>
                             /\ rows[j].ts - rows[i].ts <
                                  config.horizons_s[g] - config.horizons_s[h] + TargetWindow
                             /\ config.bucket_s >= TargetWindow =>
                                  config.horizons_s[g] - config.horizons_s[h] > 0
    BY DEF EvaluationIsUnseen
  <2>1. SessionTypes /\ step # "idle"
    BY RowsMeanRunning DEF DatasetIInv
  <2>2. /\ config.start \in Int /\ config.end \in Int /\ config.bucket_s \in Nat \ {0}
        /\ config.start < config.end /\ config \in Configs
    BY <2>1, RunNumbers
  <2>3. PICK z \in Int : z = config.horizons_s[h]
    BY <2>2, HorizonsAreInts
  <2>4. PICK T \in Int, U \in Int : T = rows[i].ts /\ U = rows[j].ts
    BY DEF DatasetIInv, RowSound
  <2>5. T < U
    BY <2>2, <2>4, PartsApart
  <2>6. RowSound(rows[i]) /\ RowSound(rows[j]) /\ RowMade(rows[i])
    BY DEF DatasetIInv, DatasetRowsInv
  <2>7. /\ DOMAIN rows[i].labels = DOMAIN config.horizons_s
        /\ DOMAIN rows[j].labels = DOMAIN config.horizons_s
    BY <2>6 DEF RowSound
  <2>8. \A x \in rows[j].labels[h] : x.ts \in Int /\ U + z <= x.ts
    <3>1. rows[j].labels[h] \subseteq Samples
      BY <2>6, <2>7 DEF RowSound, Used, SampleOf, LatestExists, DatasetIInv
    <3> QED
      BY <2>3, <2>4, <2>6, <2>7, <3>1, SamplesAssumption DEF RowSound
  <2>9. \A x \in Observed(rows[i]) : x.ts < T
    BY <2>4, <2>6 DEF RowSound
  <2>10. Observed(rows[i]) \cap rows[j].labels[h] = {}
    BY <2>3, <2>4, <2>5, <2>8, <2>9
  <2>11. T + config.bucket_s <= U
    <3>1. i \in Nat /\ j \in Nat
      BY <2>1 DEF SessionTypes, IsSequence
    <3>2. CASE i < j
      BY <2>4, <2>5, <3>2 DEF DatasetRowsInv, RowsOrdered
    <3>3. CASE j < i
      <4>1. U + config.bucket_s <= T \/ U = T
        BY <2>4, <3>3 DEF DatasetRowsInv, RowsOrdered
      <4> QED
        BY <2>2, <2>5, <4>1
    <3> QED
      BY <2>4, <2>5, <3>1, <3>2, <3>3
  <2>12. ASSUME NEW g \in DOMAIN config.horizons_s, rows[i].labels[g] \cap rows[j].labels[h] # {}
         PROVE  /\ rows[j].ts - rows[i].ts <
                     config.horizons_s[g] - config.horizons_s[h] + TargetWindow
                /\ config.bucket_s >= TargetWindow =>
                     config.horizons_s[g] - config.horizons_s[h] > 0
    <3>1. PICK y \in Int : y = config.horizons_s[g]
      BY <2>2, HorizonsAreInts
    <3>2. PICK x : x \in rows[i].labels[g] /\ x \in rows[j].labels[h]
      BY <2>12
    <3>3. x.ts \in Int /\ U + z <= x.ts
      BY <2>8, <3>2
    <3>4. x.ts < T + y + TargetWindow
      BY <2>4, <2>6, <2>7, <3>1, <3>2 DEF RowMade, Target, In
    <3>5. TargetWindow \in Nat
      BY ConstantsAssumption
    <3>6. U - T < y - z + TargetWindow
      BY <3>3, <3>4, <3>5
    <3>7. config.bucket_s >= TargetWindow => y - z > 0
      BY <2>2, <2>11, <3>5, <3>6
    <3> QED
      BY <2>3, <2>4, <3>1, <3>6, <3>7
  <2> QED
    BY <2>10, <2>12
<1> QED
  BY <1>1, InvariantHolds, RowsInvariantHolds, PTL
=============================================================================
