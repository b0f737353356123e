---------------------------- MODULE OsmIngestion ----------------------------
(***************************************************************************)
(* Runs of the OSM ingestion command over the road-network tables.  A run   *)
(* resolves the intersections, the roads and then the segments of its       *)
(* extract, one key after the other, in one READ COMMITTED transaction; a   *)
(* dry run does the same lookups and writes nothing.  Several runs may be   *)
(* open at a time.  What a file asks for is a parameter here; module OsmPlan *)
(* derives it from the ways of the file.                                    *)
(***************************************************************************)
EXTENDS Integers, Sequences, FiniteSets, Rows

CONSTANTS Runs,           \* processes that execute the command
          Extracts,       \* input files
          WantedRows(_),  \* the rows a file asks for: key -> value
          Work(_),        \* the keys a run on a file resolves, in order
          MaxStarts,      \* bound of the model: runs started
          AtOnce,         \* runs that may be open at the same time
          SameFile,       \* runs that are open together read the same file
          Failures,       \* the database may fail a run
          Nothing         \* stands for null: no file, no road

Image == [extract \in Extracts |-> WantedRows(extract)]
Agenda == [extract \in Extracts |-> Work(extract)]

Keys(extract) == {Agenda[extract][i] : i \in DOMAIN Agenda[extract]}

\* Every wanted row is on the agenda, and so is every degenerate segment,
\* which has no row; the columns of a row depend on its key only (module
\* OsmPlan).
ASSUME PlanAssumption ==
  /\ Nothing \notin Extracts
  /\ \A extract \in Extracts :
       /\ Agenda[extract] \in Seq(Keys(extract))
       /\ DOMAIN Image[extract] \subseteq Keys(extract)
       /\ \A key \in Keys(extract) \ DOMAIN Image[extract] : key[1] = "segment"
       /\ \A other \in Extracts :
            \A key \in DOMAIN Image[extract] \cap DOMAIN Image[other] :
              Image[extract][key] =
                [column \in DOMAIN Image[other][key] |-> Image[extract][key][column]]

\* The rows a segment refers to: its intersections, and its road if it has one.
References(row) == {row.start, row.end, row.road} \ {Nothing}

\* No key is on an agenda twice, and the rows a segment refers to are on it
\* before the segment.
ASSUME AgendaAssumption ==
  \A extract \in Extracts :
    /\ \A i, j \in DOMAIN Agenda[extract] :
         Agenda[extract][i] = Agenda[extract][j] => i = j
    /\ \A i \in DOMAIN Agenda[extract] :
         Agenda[extract][i][1] = "segment" /\ Agenda[extract][i] \in DOMAIN Image[extract] =>
           LET row == Image[extract][Agenda[extract][i]] IN
           /\ {"start", "end", "road"} \subseteq DOMAIN row
           /\ \A key \in References(row) :
                key \in DOMAIN Image[extract] /\ \E j \in 1 .. i - 1 : key = Agenda[extract][j]

ASSUME BoundsAssumption ==
  MaxStarts \in Nat /\ AtOnce \in Nat /\ SameFile \in BOOLEAN /\ Failures \in BOOLEAN

VARIABLES rows,     \* the committed rows: key -> value
          run,      \* the state of each process
          starts,   \* runs started so far
          imported  \* history: the extract of the last committed run

vars == <<rows, run, starts, imported>>

NoStats == [created |-> 0, updated |-> 0, skipped |-> 0, rejected |-> 0]

Closed ==
  [pc |-> "closed", extract |-> Nothing, dry |-> FALSE,
   done |-> 0,          \* keys resolved so far
   dirty |-> <<>>,      \* the change the session has not flushed: key -> columns
   tx |-> <<>>,         \* rows written by the open transaction: key -> value
   stats |-> NoStats,
   base |-> <<>>]       \* history: the rows when the run began

Init ==
  /\ rows = <<>>
  /\ run = [r \in Runs |-> Closed]
  /\ starts = 0
  /\ imported = Nothing

-----------------------------------------------------------------------------
Open == {r \in Runs : run[r].pc # "closed"}

\* The key the run resolves next.
Key(r) == Agenda[run[r].extract][run[r].done + 1]

Finished(r) == run[r].done = Len(Agenda[run[r].extract])

\* What a query of the run's session returns: its own flushed writes, or else
\* what is committed by now.
Seen(r) == Over(run[r].tx, rows)

\* Another open transaction holds the row, or has inserted the key.
Locked(r, key) == \E other \in Runs \ {r} : key \in DOMAIN run[other].tx

Count(r, counter) == [run[r].stats EXCEPT ![counter] = @ + 1]

\* Mutant: road_id is compared but not assigned.
MutantDifference(new, old) ==
  [c \in {c \in DOMAIN new : (new[c] # old[c] \/ c = "geometry") /\ c # "road"} |-> new[c]]

\* What a flush writes of a changed row: all columns are assigned, those that
\* differ are sent, and with them the line of a segment, which is a new object.
Difference(new, old) ==
  [c \in {c \in DOMAIN new : new[c] # old[c] \/ c = "geometry"} |-> new[c]]

\* _main_async: a run starts on one of the files.
Begin(r, extract, dry) ==
  /\ run[r].pc = "closed"
  /\ starts < MaxStarts
  /\ Cardinality(Open) < AtOnce
  /\ SameFile => \A other \in Open : run[other].extract = extract
  /\ starts' = starts + 1
  /\ run' = [run EXCEPT ![r] =
       [Closed EXCEPT !.pc = "select", !.extract = extract, !.dry = dry,
                      !.base = rows]]
  /\ UNCHANGED <<rows, imported>>

\* Mutant: what was flushed before the exception is committed.
MutantRollback(r) ==
  /\ run' = [run EXCEPT ![r] = Closed]
  /\ rows' = Over(run[r].tx, rows)
  /\ UNCHANGED <<starts, imported>>

\* The session is rolled back and the command ends.
Rollback(r) ==
  /\ run' = [run EXCEPT ![r] = Closed]
  /\ UNCHANGED <<rows, starts, imported>>

\* Mutant: a dry run returns before it counts.
MutantCreate(r) ==
  run' = [run EXCEPT ![r].stats = IF run[r].dry THEN @ ELSE Count(r, "created"),
                     ![r].done = IF run[r].dry THEN @ + 1 ELSE @,
                     ![r].pc = IF run[r].dry THEN @ ELSE "insert"]

\* The row is missing: counted, and inserted by the next step.
Create(r) ==
  run' = [run EXCEPT ![r].stats = Count(r, "created"),
                     ![r].done = IF run[r].dry THEN @ + 1 ELSE @,
                     ![r].pc = IF run[r].dry THEN @ ELSE "insert"]

\* The row differs: counted, and changed on the session's object.
Update(r, columns) ==
  run' = [run EXCEPT ![r].stats = Count(r, "updated"),
                     ![r].done = @ + 1,
                     ![r].dirty = IF run[r].dry THEN @ ELSE Row(Key(r), columns)]

\* The key needs no write.
Pass(r, stats) == run' = [run EXCEPT ![r].stats = stats, ![r].done = @ + 1]

\* The session is about to query for the next key; a change made to the
\* previous row is flushed first.
Queries(r, kind) ==
  /\ run[r].pc = "select"
  /\ run[r].dirty = <<>>
  /\ ~Finished(r)
  /\ Key(r)[1] = kind
  /\ UNCHANGED <<rows, starts, imported>>

\* Mutant: an existing row is written without being compared.
MutantUpsert(r, new, unchanged) ==
  LET key == Key(r) IN
  \/ key \notin DOMAIN Seen(r) /\ Create(r)
  \/ key \in DOMAIN Seen(r) /\ Update(r, new)

\* Query for a row, compare it with the wanted one, and create or update it.
Upsert(r, new, unchanged) ==
  LET key == Key(r) IN
  \/ key \notin DOMAIN Seen(r) /\ Create(r)
  \/ key \in DOMAIN Seen(r) /\ Seen(r)[key] # new /\ Update(r, Difference(new, Seen(r)[key]))
  \/ key \in DOMAIN Seen(r) /\ Seen(r)[key] = new /\ Pass(r, unchanged)

Wanted(r) == Image[run[r].extract][Key(r)]

\* Mutant: a missing intersection is counted but not added to the session.
MutantResolveIntersection(r) ==
  /\ Queries(r, "intersection")
  /\ IF Key(r) \in DOMAIN Seen(r) THEN Upsert(r, Wanted(r), run[r].stats)
                                 ELSE Pass(r, Count(r, "created"))

ResolveIntersection(r) ==
  Queries(r, "intersection") /\ Upsert(r, Wanted(r), run[r].stats)

\* A road has nothing to compare but its name.
ResolveRoad(r) == Queries(r, "road") /\ Upsert(r, Wanted(r), run[r].stats)

\* A degenerate line is rejected before the row is looked up.
ResolveSegment(r) ==
  /\ Queries(r, "segment")
  /\ IF Key(r) \in DOMAIN Image[run[r].extract]
       THEN Upsert(r, Wanted(r), Count(r, "skipped"))
       ELSE Pass(r, Count(r, "rejected"))

\* The UPDATE waits for the transaction that holds the row, then changes the
\* columns that are sent, on the row as it is by now.
FlushUpdate(r) ==
  /\ \E key \in DOMAIN run[r].dirty :
       /\ ~Locked(r, key)
       /\ run' = [run EXCEPT
            ![r].tx = Over(Row(key, Over(run[r].dirty[key], Seen(r)[key])), @),
            ![r].dirty = <<>>]
  /\ UNCHANGED <<rows, starts, imported>>

\* The INSERT waits for the transaction that has inserted the key.
FlushInsert(r) ==
  /\ run[r].pc = "insert"
  /\ ~Locked(r, Key(r))
  /\ Key(r) \notin DOMAIN rows
  /\ run' = [run EXCEPT ![r].tx = Over(Row(Key(r), Wanted(r)), @),
                        ![r].done = @ + 1,
                        ![r].pc = "select"]
  /\ UNCHANGED <<rows, starts, imported>>

\* The other transaction committed the key: IntegrityError.
InsertConflict(r) ==
  /\ run[r].pc = "insert"
  /\ ~Locked(r, Key(r))
  /\ Key(r) \in DOMAIN rows
  /\ Rollback(r)

\* All keys resolved and flushed; the command commits, once.  A commit that is
\* applied but reported as failed leaves the same tables.
Commit(r) ==
  /\ run[r].pc = "select"
  /\ Finished(r)
  /\ run[r].dirty = <<>>
  /\ ~run[r].dry
  /\ rows' = Over(run[r].tx, rows)
  /\ imported' = run[r].extract
  /\ run' = [run EXCEPT ![r] = Closed]
  /\ UNCHANGED starts

\* A dry run is rolled back although it wrote nothing.
EndDryRun(r) ==
  /\ run[r].pc = "select"
  /\ Finished(r)
  /\ run[r].dry
  /\ Rollback(r)

\* Any exception: a lost connection, a deadlock victim, a failed commit.
Fail(r) ==
  /\ Failures
  /\ run[r].pc # "closed"
  /\ Rollback(r)

Next ==
  \E r \in Runs :
    \/ \E extract \in Extracts, dry \in BOOLEAN : Begin(r, extract, dry)
    \/ ResolveIntersection(r) \/ ResolveRoad(r) \/ ResolveSegment(r)
    \/ FlushUpdate(r) \/ FlushInsert(r) \/ InsertConflict(r)
    \/ Commit(r) \/ EndDryRun(r) \/ Fail(r)

Spec == Init /\ [][Next]_vars

-----------------------------------------------------------------------------
\* The tables change by whole extracts: no failure, conflict or interleaving
\* leaves a part of one behind.
Network == INSTANCE NetworkImport WITH Images <- {Image[e] : e \in Extracts}
ImportsWholeExtracts == Network!Spec

\* Foreign keys: a transaction that has written a segment sees the
\* intersections it starts and ends at and its road.
ReferencesExist ==
  \A r \in Runs : \A key \in DOMAIN Seen(r) :
    key[1] = "segment" => References(Seen(r)[key]) \subseteq DOMAIN Seen(r)

\* A run that has resolved everything, and meanwhile no other run has changed
\* the tables; others may be open.
Undisturbed(r) == run[r].pc = "select" /\ Finished(r) /\ rows = run[r].base

\* Importing the extract that was imported last writes nothing.
RerunWritesNothing ==
  \A r \in Open :
    Undisturbed(r) /\ run[r].extract = imported =>
      /\ run[r].tx = <<>> /\ run[r].dirty = <<>>
      /\ run[r].stats.created = 0 /\ run[r].stats.updated = 0

\* How the tables differ from an extract.
Missing(extract) == DOMAIN Image[extract] \ DOMAIN rows
Different(extract) ==
  {k \in DOMAIN Image[extract] \cap DOMAIN rows : Image[extract][k] # rows[k]}
SameSegments(extract) ==
  {k \in DOMAIN Image[extract] \cap DOMAIN rows :
     k[1] = "segment" /\ Image[extract][k] = rows[k]}
WithoutRow(extract) == Keys(extract) \ DOMAIN Image[extract]

\* The statistics say, in a dry run as in a real one, how the tables differ
\* from the extract.
StatsAreExact ==
  \A r \in Open :
    Undisturbed(r) =>
      run[r].stats = [created |-> Cardinality(Missing(run[r].extract)),
                      updated |-> Cardinality(Different(run[r].extract)),
                      skipped |-> Cardinality(SameSegments(run[r].extract)),
                      rejected |-> Cardinality(WithoutRow(run[r].extract))]

\* The row a run's next write needs.
WaitsFor(r) ==
  DOMAIN run[r].dirty \cup (IF run[r].pc = "insert" THEN {Key(r)} ELSE {})

\* There is no set of runs of which each one waits for another one's rows.
NoDeadlock ==
  \A D \in (SUBSET Runs) \ {{}} : \E r \in D : \A s \in D \ {r} :
    WaitsFor(r) \cap DOMAIN run[s].tx = {}

\* The segments of every way of the imported extract are the stretches between
\* its consecutive intersections, no more.
OneSegmentPerStretch ==
  imported # Nothing =>
    \A key \in DOMAIN rows :
      key[1] = "segment" /\ (\E planned \in Keys(imported) :
                               planned[1] = "segment" /\ planned[2] = key[2])
        => key \in Keys(imported)

-----------------------------------------------------------------------------
(* The inductive invariants.  AgendaInv and ReferencesInv hold whatever files *)
(* the runs read, the other two for SameFile.                               *)

RunFields == {"pc", "extract", "dry", "done", "dirty", "tx", "stats", "base"}
IsRun(state) == state = [field \in RunFields |-> state[field]]

RunShape == run = [r \in Runs |-> run[r]] /\ \A r \in Runs : IsRun(run[r])

\* What a run has written lies behind it on its agenda, what it is about to
\* change is the last key it has resolved, and what it is about to insert is
\* the next one.
OnAgenda(r) ==
  /\ run[r].extract \in Extracts
  /\ run[r].done \in 0 .. Len(Agenda[run[r].extract])
  /\ run[r].pc \in {"select", "insert"}
  /\ run[r].pc = "insert" =>
       /\ ~Finished(r) /\ run[r].dirty = <<>> /\ ~run[r].dry
       /\ Key(r) \in DOMAIN Image[run[r].extract]
  /\ run[r].dry => run[r].tx = <<>> /\ run[r].dirty = <<>>
  /\ \A key \in DOMAIN run[r].tx :
       /\ key \in DOMAIN Image[run[r].extract] \ DOMAIN run[r].dirty
       /\ \E i \in 1 .. run[r].done : key = Agenda[run[r].extract][i]
  /\ \A key \in DOMAIN run[r].dirty :
       /\ run[r].done > 0 /\ key = Agenda[run[r].extract][run[r].done]
       /\ key \in DOMAIN Image[run[r].extract] \cap DOMAIN Seen(r)
       /\ \A column \in DOMAIN run[r].dirty[key] :
            /\ column \in DOMAIN Image[run[r].extract][key]
            /\ run[r].dirty[key][column] = Image[run[r].extract][key][column]

AgendaInv ==
  /\ RunShape
  /\ \A r \in Open : OnAgenda(r)
  /\ \A r \in Runs \ Open : run[r] = Closed

\* The row refers to keys in the set.
RefersInto(row, keys) ==
  {"start", "end", "road"} \subseteq DOMAIN row /\ References(row) \subseteq keys

\* The committed rows refer to committed rows, what a transaction has written
\* to rows it sees, and a real run sees what it has resolved.
ReferencesInv ==
  /\ \A key \in DOMAIN rows : key[1] = "segment" => RefersInto(rows[key], DOMAIN rows)
  /\ \A r \in Open :
       /\ \A key \in DOMAIN run[r].tx :
            key[1] = "segment" => RefersInto(run[r].tx[key], DOMAIN Seen(r))
       /\ ~run[r].dry =>
            \A i \in 1 .. run[r].done :
              Agenda[run[r].extract][i] \in DOMAIN Image[run[r].extract] =>
                Agenda[run[r].extract][i] \in DOMAIN Seen(r)

\* Runs that are open together write towards the same rows.
OneFile == \A r, s \in Open : run[r].extract = run[s].extract

\* Every committed row is what some file asks for.
RowsFromFiles ==
  \A key \in DOMAIN rows : \E extract \in Extracts :
    key \in DOMAIN Image[extract] /\ rows[key] = Image[extract][key]

\* A run has written wanted rows only.
WritesWanted(r) ==
  \A key \in DOMAIN run[r].tx :
    /\ key \in DOMAIN Image[run[r].extract]
    /\ run[r].tx[key] = Image[run[r].extract][key]

\* The pending change turns the row as it is now, whoever wrote it, into the
\* wanted one.
PendingWanted(r) ==
  \A key \in DOMAIN run[r].dirty :
    Over(run[r].dirty[key], Seen(r)[key]) = Image[run[r].extract][key]

\* What a real run has resolved it also sees, but for the pending change.
ResolvedIsWritten(r) ==
  ~run[r].dry =>
    \A i \in 1 .. run[r].done :
      LET key == Agenda[run[r].extract][i] IN
      key \in DOMAIN Image[run[r].extract] =>
        \/ key \in DOMAIN run[r].dirty
        \/ key \in DOMAIN Seen(r) /\ Seen(r)[key] = Image[run[r].extract][key]

InProgress(r) == WritesWanted(r) /\ PendingWanted(r) /\ ResolvedIsWritten(r)

FilesInv == OneFile /\ RowsFromFiles /\ \A r \in Open : InProgress(r)

\* The table has all rows of the extract, as they are wanted.
HasImage(table, extract) ==
  \A key \in DOMAIN Image[extract] :
    key \in DOMAIN table /\ table[key] = Image[extract][key]

\* The statistics for a set of keys of the extract.
Tally(keys, extract) ==
  [created |-> Cardinality(keys \cap Missing(extract)),
   updated |-> Cardinality(keys \cap Different(extract)),
   skipped |-> Cardinality(keys \cap SameSegments(extract)),
   rejected |-> Cardinality(keys \cap WithoutRow(extract))]

\* The keys a run has counted.
Counted(r) ==
  {Agenda[run[r].extract][i] : i \in 1 .. run[r].done}
  \cup (IF run[r].pc = "insert" THEN {Key(r)} ELSE {})

\* While a run is open, the tables are as it found them or have all rows of
\* its file; a run that found all rows there writes nothing; and until the
\* tables change, the statistics tell its keys apart as the tables do.
CountingInv(r) ==
  LET extract == run[r].extract IN
  /\ rows = run[r].base \/ (HasImage(rows, extract) /\ ~HasImage(run[r].base, extract))
  /\ HasImage(run[r].base, extract) =>
       /\ run[r].pc = "select" /\ run[r].tx = <<>> /\ run[r].dirty = <<>>
       /\ run[r].stats.created = 0 /\ run[r].stats.updated = 0
  /\ rows = run[r].base => run[r].stats = Tally(Counted(r), extract)

StatsInv ==
  /\ rows = [key \in DOMAIN rows |-> rows[key]]
  /\ imported # Nothing => imported \in Extracts /\ HasImage(rows, imported)
  /\ \A r \in Open : CountingInv(r)

IInv == AgendaInv /\ ReferencesInv /\ FilesInv /\ StatsInv
=============================================================================
