------------------------- MODULE OsmIngestionProofs -------------------------
(***************************************************************************)
(* Theorems about runs of the OSM ingestion command, for every set of files *)
(* and every number of runs, with any failures and conflicts.              *)
(*                                                                         *)
(*   any files open together:  AgendaInvariant, ReferencesAlwaysExist,     *)
(*                             RunsNeverDeadlock                           *)
(*   the same file (SameFile): RunsInvariant, WholeExtracts,               *)
(*                             RerunsWriteNothing, StatsTellDifferences    *)
(***************************************************************************)
EXTENDS OsmIngestion, FiniteSetTheorems, TLAPS

-----------------------------------------------------------------------------
\* What a session sees of a row.
LEMMA SeenRow ==
  ASSUME NEW r \in Runs
  PROVE  /\ DOMAIN Seen(r) = DOMAIN run[r].tx \cup DOMAIN rows
         /\ \A key \in DOMAIN Seen(r) :
              Seen(r)[key] = IF key \in DOMAIN run[r].tx THEN run[r].tx[key] ELSE rows[key]
BY DEF Seen, Over

\* The plan of a file.
LEMMA Plan ==
  ASSUME NEW extract \in Extracts
  PROVE  /\ Len(Agenda[extract]) \in Nat
         /\ DOMAIN Agenda[extract] = 1 .. Len(Agenda[extract])
         /\ \A key \in DOMAIN Image[extract] :
              \E i \in 1 .. Len(Agenda[extract]) : key = Agenda[extract][i]
         /\ \A key \in Keys(extract) \ DOMAIN Image[extract] : key[1] = "segment"
<1>1. Agenda[extract] \in Seq(Keys(extract))
  BY PlanAssumption
<1>2. Len(Agenda[extract]) \in Nat /\ DOMAIN Agenda[extract] = 1 .. Len(Agenda[extract])
  BY <1>1
<1>3. \A key \in DOMAIN Image[extract] : \E i \in 1 .. Len(Agenda[extract]) :
        key = Agenda[extract][i]
  <2>1. DOMAIN Image[extract] \subseteq Keys(extract)
    BY PlanAssumption
  <2> QED
    BY <1>2, <2>1 DEF Keys
<1>4. \A key \in Keys(extract) \ DOMAIN Image[extract] : key[1] = "segment"
  BY PlanAssumption
<1> QED
  BY <1>2, <1>3, <1>4

\* Writing what a flush sends over a row gives the wanted row.
LEMMA DifferenceSuffices ==
  ASSUME NEW new, NEW old, new = [c \in DOMAIN old |-> new[c]]
  PROVE  /\ Over(Difference(new, old), old) = new
         /\ \A c \in DOMAIN Difference(new, old) :
              c \in DOMAIN new /\ Difference(new, old)[c] = new[c]
<1>1. DOMAIN new = DOMAIN old
  OBVIOUS
<1>2. DOMAIN Difference(new, old) = {c \in DOMAIN new : new[c] # old[c] \/ c = "geometry"}
  BY DEF Difference
<1>3. \A c \in DOMAIN Difference(new, old) : Difference(new, old)[c] = new[c]
  BY DEF Difference
<1>4. Over(Difference(new, old), old) = [c \in DOMAIN old |-> new[c]]
  BY <1>1, <1>2, <1>3 DEF Over
<1> QED
  BY <1>2, <1>3, <1>4

\* Wanted columns change nothing of the wanted row.
LEMMA WantedColumns ==
  ASSUME NEW new, NEW columns, new = [c \in DOMAIN new |-> new[c]],
         \A c \in DOMAIN columns : c \in DOMAIN new /\ columns[c] = new[c]
  PROVE  Over(columns, new) = new
BY DEF Over

\* A wanted row is a function of the columns that any file gives it.
LEMMA WantedRow ==
  ASSUME NEW e \in Extracts, NEW f \in Extracts,
         NEW key \in DOMAIN Image[e] \cap DOMAIN Image[f]
  PROVE  Image[e][key] = [c \in DOMAIN Image[f][key] |-> Image[e][key][c]]
BY PlanAssumption

\* A step that gives one run a new state keeps the shape.
LEMMA ShapeKept ==
  ASSUME RunShape, NEW r \in Runs, NEW new, IsRun(new), run' = [run EXCEPT ![r] = new]
  PROVE  RunShape' /\ run'[r] = new /\ \A s \in Runs \ {r} : run'[s] = run[s]
<1>1. run'[r] = new /\ \A s \in Runs \ {r} : run'[s] = run[s]
  BY DEF RunShape
<1>2. run' = [s \in Runs |-> run'[s]]
  BY <1>1 DEF RunShape
<1>3. \A s \in Runs : IsRun(run'[s])
  BY <1>1 DEF RunShape
<1> QED
  BY <1>1, <1>2, <1>3 DEF RunShape

LEMMA ClosedIsRun == IsRun(Closed)
BY DEF IsRun, RunFields, Closed

-----------------------------------------------------------------------------
\* The run is at its next key, and everything before it is flushed.
AtKey(r) ==
  /\ r \in Open
  /\ run[r].pc = "select"
  /\ run[r].dirty = <<>>
  /\ ~Finished(r)

\* What a step does to the run that takes it; r keeps its file.
Keeps(r) ==
  /\ rows' = rows /\ imported' = imported
  /\ run'[r].extract = run[r].extract
  /\ run'[r].dry = run[r].dry
  /\ run'[r].base = run[r].base

Began(r) ==
  /\ rows' = rows /\ imported' = imported
  /\ run[r].pc = "closed"
  /\ run'[r].extract \in Extracts /\ run'[r].done = 0 /\ run'[r].pc = "select"
  /\ run'[r].dirty = <<>> /\ run'[r].tx = <<>> /\ run'[r].stats = NoStats
  /\ run'[r].base = rows
  /\ SameFile => \A s \in Open : run[s].extract = run'[r].extract

Ended(r) == rows' = rows /\ imported' = imported /\ run'[r] = Closed

Committed(r) ==
  /\ r \in Open /\ Finished(r) /\ run[r].pc = "select" /\ run[r].dirty = <<>> /\ ~run[r].dry
  /\ rows' = Over(run[r].tx, rows) /\ imported' = run[r].extract /\ run'[r] = Closed

Rejected(r) ==
  /\ AtKey(r) /\ Keeps(r) /\ run'[r].tx = run[r].tx
  /\ Key(r) \notin DOMAIN Image[run[r].extract]
  /\ run'[r].pc = "select" /\ run'[r].done = run[r].done + 1 /\ run'[r].dirty = <<>>
  /\ run'[r].stats = Count(r, "rejected")

Found(r) ==
  /\ AtKey(r) /\ Keeps(r) /\ run'[r].tx = run[r].tx
  /\ Key(r) \in DOMAIN Image[run[r].extract] \cap DOMAIN Seen(r)
  /\ Seen(r)[Key(r)] = Wanted(r)
  /\ run'[r].pc = "select" /\ run'[r].done = run[r].done + 1 /\ run'[r].dirty = <<>>
  /\ run'[r].stats = IF Key(r)[1] = "segment" THEN Count(r, "skipped") ELSE run[r].stats

Changed(r) ==
  /\ AtKey(r) /\ Keeps(r) /\ run'[r].tx = run[r].tx
  /\ Key(r) \in DOMAIN Image[run[r].extract] \cap DOMAIN Seen(r)
  /\ Seen(r)[Key(r)] # Wanted(r)
  /\ run'[r].pc = "select" /\ run'[r].done = run[r].done + 1
  /\ run'[r].dirty = IF run[r].dry THEN <<>>
                     ELSE Row(Key(r), Difference(Wanted(r), Seen(r)[Key(r)]))
  /\ run'[r].stats = Count(r, "updated")

Created(r) ==
  /\ AtKey(r) /\ Keeps(r) /\ run'[r].tx = run[r].tx
  /\ Key(r) \in DOMAIN Image[run[r].extract] \ DOMAIN Seen(r)
  /\ run'[r].pc = IF run[r].dry THEN "select" ELSE "insert"
  /\ run'[r].done = IF run[r].dry THEN run[r].done + 1 ELSE run[r].done
  /\ run'[r].dirty = <<>>
  /\ run'[r].stats = Count(r, "created")

FlushedUpdate(r) ==
  /\ r \in Open /\ Keeps(r)
  /\ \E key \in DOMAIN run[r].dirty :
       run'[r].tx = Over(Row(key, Over(run[r].dirty[key], Seen(r)[key])), run[r].tx)
  /\ run'[r].pc = run[r].pc /\ run'[r].done = run[r].done
  /\ run'[r].dirty = <<>> /\ run'[r].stats = run[r].stats

FlushedInsert(r) ==
  /\ r \in Open /\ Keeps(r)
  /\ run[r].pc = "insert" /\ Key(r) \notin DOMAIN rows
  /\ run'[r].tx = Over(Row(Key(r), Wanted(r)), run[r].tx)
  /\ run'[r].pc = "select" /\ run'[r].done = run[r].done + 1
  /\ run'[r].dirty = <<>> /\ run'[r].stats = run[r].stats

Resolved(r) == Rejected(r) \/ Found(r) \/ Changed(r) \/ Created(r)
Flushed(r) == FlushedUpdate(r) \/ FlushedInsert(r)

\* The step is one of run r.
StepOf(r) ==
  /\ RunShape'
  /\ \A s \in Runs \ {r} : run'[s] = run[s]
  /\ Began(r) \/ Ended(r) \/ Committed(r) \/ Resolved(r) \/ Flushed(r)

LEMMA BeginEffect ==
  ASSUME AgendaInv, NEW r \in Runs, NEW extract \in Extracts, NEW dry \in BOOLEAN,
         Begin(r, extract, dry)
  PROVE  StepOf(r)
<1> DEFINE new == [Closed EXCEPT !.pc = "select", !.extract = extract, !.dry = dry,
                              !.base = rows]
<1>1. IsRun(new) /\ RunShape
  BY DEF IsRun, RunFields, Closed, AgendaInv
<1>2. RunShape' /\ run'[r] = new /\ \A s \in Runs \ {r} : run'[s] = run[s]
  BY <1>1, ShapeKept DEF Begin
<1>3. /\ run'[r].extract = extract /\ run'[r].done = 0 /\ run'[r].pc = "select"
      /\ run'[r].dirty = <<>> /\ run'[r].tx = <<>> /\ run'[r].stats = NoStats
      /\ run'[r].base = rows
  BY <1>2 DEF Closed
<1>4. Began(r)
  BY <1>3 DEF Began, Begin
<1> QED
  BY <1>2, <1>4 DEF StepOf

LEMMA RollbackEffect ==
  ASSUME AgendaInv, NEW r \in Runs, Rollback(r)
  PROVE  StepOf(r)
<1>1. IsRun(Closed) /\ RunShape
  BY ClosedIsRun DEF AgendaInv
<1>2. RunShape' /\ run'[r] = Closed /\ \A s \in Runs \ {r} : run'[s] = run[s]
  BY <1>1, ShapeKept DEF Rollback
<1>3. Ended(r)
  BY <1>2 DEF Ended, Rollback
<1> QED
  BY <1>2, <1>3 DEF StepOf

LEMMA CommitEffect ==
  ASSUME AgendaInv, NEW r \in Runs, Commit(r)
  PROVE  StepOf(r)
<1>1. IsRun(Closed) /\ RunShape
  BY ClosedIsRun DEF AgendaInv
<1>2. RunShape' /\ run'[r] = Closed /\ \A s \in Runs \ {r} : run'[s] = run[s]
  BY <1>1, ShapeKept DEF Commit
<1>3. Committed(r)
  BY <1>2 DEF Committed, Commit, Open
<1> QED
  BY <1>2, <1>3 DEF StepOf

LEMMA PassEffect ==
  ASSUME AgendaInv, NEW r \in Runs, AtKey(r), rows' = rows, imported' = imported,
         NEW stats, Pass(r, stats)
  PROVE  /\ RunShape' /\ \A s \in Runs \ {r} : run'[s] = run[s]
         /\ Keeps(r) /\ run'[r].tx = run[r].tx
         /\ run'[r].pc = "select" /\ run'[r].done = run[r].done + 1
         /\ run'[r].dirty = <<>> /\ run'[r].stats = stats
<1> DEFINE new == [run[r] EXCEPT !.stats = stats, !.done = run[r].done + 1]
<1>1. RunShape /\ IsRun(run[r]) /\ IsRun(new) /\ run' = [run EXCEPT ![r] = new]
  BY DEF AgendaInv, RunShape, IsRun, RunFields, Pass
<1>2. RunShape' /\ run'[r] = new /\ \A s \in Runs \ {r} : run'[s] = run[s]
  BY <1>1, ShapeKept
<1>3. run[r].pc = "select" /\ run[r].dirty = <<>> /\ IsRun(run[r])
  BY <1>1 DEF AtKey
<1>4. /\ Keeps(r) /\ run'[r].tx = run[r].tx
      /\ run'[r].pc = "select" /\ run'[r].done = run[r].done + 1
      /\ run'[r].dirty = <<>> /\ run'[r].stats = stats
  BY <1>2, <1>3 DEF IsRun, RunFields, Keeps
<1> QED
  BY <1>2, <1>4

LEMMA CreateEffect ==
  ASSUME AgendaInv, NEW r \in Runs, AtKey(r), rows' = rows, imported' = imported,
         Key(r) \in DOMAIN Image[run[r].extract] \ DOMAIN Seen(r), Create(r)
  PROVE  StepOf(r)
<1> DEFINE new == [run[r] EXCEPT !.stats = Count(r, "created"),
                      !.done = IF run[r].dry THEN run[r].done + 1 ELSE run[r].done,
                      !.pc = IF run[r].dry THEN run[r].pc ELSE "insert"]
<1>1. RunShape /\ IsRun(run[r]) /\ IsRun(new) /\ run' = [run EXCEPT ![r] = new]
  BY DEF AgendaInv, RunShape, IsRun, RunFields, Create
<1>2. RunShape' /\ run'[r] = new /\ \A s \in Runs \ {r} : run'[s] = run[s]
  BY <1>1, ShapeKept
<1>3. Created(r)
  <2>1. run[r].pc = "select" /\ run[r].dirty = <<>> /\ IsRun(run[r])
    BY <1>1 DEF AtKey
  <2> QED
    BY <1>2, <2>1 DEF IsRun, RunFields, Keeps, Created
<1> QED
  BY <1>2, <1>3 DEF StepOf, Resolved

LEMMA UpdateEffect ==
  ASSUME AgendaInv, NEW r \in Runs, AtKey(r), rows' = rows, imported' = imported,
         Key(r) \in DOMAIN Image[run[r].extract] \cap DOMAIN Seen(r),
         Seen(r)[Key(r)] # Wanted(r),
         Update(r, Difference(Wanted(r), Seen(r)[Key(r)]))
  PROVE  StepOf(r)
<1> DEFINE columns == Difference(Wanted(r), Seen(r)[Key(r)])
           new == [run[r] EXCEPT !.stats = Count(r, "updated"),
                     !.done = run[r].done + 1,
                     !.dirty = IF run[r].dry THEN run[r].dirty ELSE Row(Key(r), columns)]
<1>1. RunShape /\ IsRun(run[r]) /\ IsRun(new) /\ run' = [run EXCEPT ![r] = new]
  BY DEF AgendaInv, RunShape, IsRun, RunFields, Update
<1>2. RunShape' /\ run'[r] = new /\ \A s \in Runs \ {r} : run'[s] = run[s]
  BY <1>1, ShapeKept
<1>3. /\ run'[r].pc = "select" /\ Keeps(r)
      /\ run'[r].tx = run[r].tx /\ run'[r].stats = Count(r, "updated")
      /\ run'[r].dirty = IF run[r].dry THEN <<>> ELSE Row(Key(r), columns)
      /\ run'[r].done = run[r].done + 1
  <2>1. run[r].pc = "select" /\ run[r].dirty = <<>> /\ IsRun(run[r])
    BY <1>1 DEF AtKey
  <2>2. run'[r] = new
    BY <1>2
  <2> HIDE DEF columns
  <2> QED
    BY <2>1, <2>2 DEF IsRun, RunFields, Keeps
<1>4. Changed(r)
  BY <1>3 DEF Changed
<1> QED
  BY <1>2, <1>4 DEF StepOf, Resolved

LEMMA UpsertEffect ==
  ASSUME AgendaInv, NEW r \in Runs, NEW kind, NEW unchanged, Queries(r, kind),
         Key(r) \in DOMAIN Image[run[r].extract],
         unchanged = IF Key(r)[1] = "segment" THEN Count(r, "skipped") ELSE run[r].stats,
         Upsert(r, Wanted(r), unchanged)
  PROVE  StepOf(r)
<1>1. AtKey(r) /\ rows' = rows /\ imported' = imported
  BY DEF Queries, AtKey, Open
<1>2. CASE Key(r) \notin DOMAIN Seen(r) /\ Create(r)
  BY <1>1, <1>2, CreateEffect
<1>3. CASE /\ Key(r) \in DOMAIN Seen(r) /\ Seen(r)[Key(r)] # Wanted(r)
           /\ Update(r, Difference(Wanted(r), Seen(r)[Key(r)]))
  BY <1>1, <1>3, UpdateEffect
<1>4. CASE /\ Key(r) \in DOMAIN Seen(r) /\ Seen(r)[Key(r)] = Wanted(r)
           /\ Pass(r, unchanged)
  <2>1. Found(r) /\ RunShape' /\ \A s \in Runs \ {r} : run'[s] = run[s]
    BY <1>1, <1>4, PassEffect DEF Found
  <2> QED
    BY <2>1 DEF StepOf, Resolved
<1> QED
  BY <1>2, <1>3, <1>4 DEF Upsert

\* The next key is on the agenda, and wanted unless it is a segment.
LEMMA KeyAhead ==
  ASSUME AgendaInv, NEW r \in Open, ~Finished(r)
  PROVE  /\ r \in Runs
         /\ run[r].extract \in Extracts
         /\ run[r].done \in Nat
         /\ run[r].done + 1 \in DOMAIN Agenda[run[r].extract]
         /\ run[r].done + 1 \in 0 .. Len(Agenda[run[r].extract])
         /\ Key(r) = Agenda[run[r].extract][run[r].done + 1]
         /\ Key(r) \in Keys(run[r].extract)
         /\ Key(r) \notin DOMAIN Image[run[r].extract] => Key(r)[1] = "segment"
<1>1. r \in Runs /\ run[r].extract \in Extracts
      /\ run[r].done \in 0 .. Len(Agenda[run[r].extract])
  BY DEF AgendaInv, Open, OnAgenda
<1>2. Len(Agenda[run[r].extract]) \in Nat
      /\ DOMAIN Agenda[run[r].extract] = 1 .. Len(Agenda[run[r].extract])
  BY <1>1, Plan
<1>3. run[r].done + 1 \in 1 .. Len(Agenda[run[r].extract])
  BY <1>1, <1>2 DEF Finished
<1>4. Key(r) \in Keys(run[r].extract)
  BY <1>2, <1>3 DEF Key, Keys
<1> QED
  BY <1>1, <1>2, <1>3, <1>4, Plan DEF Key

LEMMA ResolveEffect ==
  ASSUME AgendaInv, NEW r \in Runs,
         ResolveIntersection(r) \/ ResolveRoad(r) \/ ResolveSegment(r)
  PROVE  StepOf(r)
<1>1. ASSUME NEW kind, Queries(r, kind), kind # "segment"
      PROVE  Key(r) \in DOMAIN Image[run[r].extract] /\ Key(r)[1] # "segment"
  <2>1. r \in Open /\ ~Finished(r) /\ Key(r)[1] # "segment"
    BY <1>1 DEF Queries, Open
  <2> QED
    BY <2>1, KeyAhead
<1>2. CASE ResolveIntersection(r)
  BY <1>1, <1>2, UpsertEffect DEF ResolveIntersection
<1>3. CASE ResolveRoad(r)
  BY <1>1, <1>3, UpsertEffect DEF ResolveRoad
<1>4. CASE ResolveSegment(r)
  <2>1. /\ Queries(r, "segment") /\ AtKey(r) /\ rows' = rows /\ imported' = imported
        /\ Key(r)[1] = "segment"
    BY <1>4 DEF ResolveSegment, Queries, AtKey, Open
  <2>2. CASE Key(r) \in DOMAIN Image[run[r].extract]
    BY <1>4, <2>1, <2>2, UpsertEffect DEF ResolveSegment
  <2>3. CASE Key(r) \notin DOMAIN Image[run[r].extract]
    <3>1. Pass(r, Count(r, "rejected"))
      BY <1>4, <2>3 DEF ResolveSegment
    <3>2. Rejected(r) /\ RunShape' /\ \A s \in Runs \ {r} : run'[s] = run[s]
      BY <2>1, <2>3, <3>1, PassEffect DEF Rejected
    <3> QED
      BY <3>2 DEF StepOf, Resolved
  <2> QED
    BY <2>2, <2>3
<1> QED
  BY <1>2, <1>3, <1>4

LEMMA FlushUpdateEffect ==
  ASSUME AgendaInv, NEW r \in Runs, FlushUpdate(r)
  PROVE  StepOf(r)
<1>1. PICK key \in DOMAIN run[r].dirty :
        run' = [run EXCEPT
          ![r].tx = Over(Row(key, Over(run[r].dirty[key], Seen(r)[key])), run[r].tx),
          ![r].dirty = <<>>]
  BY DEF FlushUpdate
<1>2. RunShape /\ IsRun(run[r])
  BY DEF AgendaInv, RunShape
<1>3. r \in Open /\ rows' = rows /\ imported' = imported
  BY <1>1 DEF FlushUpdate, Open, AgendaInv, Closed
<1> DEFINE tx == Over(Row(key, Over(run[r].dirty[key], Seen(r)[key])), run[r].tx)
           new == [run[r] EXCEPT !.tx = tx, !.dirty = <<>>]
<1>4. IsRun(new) /\ run' = [run EXCEPT ![r] = new]
  BY <1>1, <1>2 DEF IsRun, RunFields
<1>5. RunShape' /\ run'[r] = new /\ \A s \in Runs \ {r} : run'[s] = run[s]
  BY <1>2, <1>4, ShapeKept
<1>6. FlushedUpdate(r)
  <2>1. run'[r].tx = tx
    <3> HIDE DEF tx
    <3> QED
      BY <1>2, <1>5 DEF IsRun, RunFields
  <2>2. \E k \in DOMAIN run[r].dirty :
          run'[r].tx = Over(Row(k, Over(run[r].dirty[k], Seen(r)[k])), run[r].tx)
    BY <2>1
  <2> HIDE DEF tx
  <2> QED
    BY <1>2, <1>3, <1>5, <2>2 DEF IsRun, RunFields, FlushedUpdate, Keeps
<1> QED
  BY <1>5, <1>6 DEF StepOf, Flushed

LEMMA FlushInsertEffect ==
  ASSUME AgendaInv, NEW r \in Runs, FlushInsert(r)
  PROVE  StepOf(r)
<1> DEFINE tx == Over(Row(Key(r), Wanted(r)), run[r].tx)
           new == [run[r] EXCEPT !.tx = tx, !.done = run[r].done + 1, !.pc = "select"]
<1>1. RunShape /\ IsRun(run[r]) /\ run[r].pc = "insert" /\ Key(r) \notin DOMAIN rows
      /\ rows' = rows /\ imported' = imported
  BY DEF FlushInsert, AgendaInv, RunShape
<1>2. r \in Open /\ run[r].dirty = <<>>
  BY <1>1 DEF Open, AgendaInv, OnAgenda
<1>3. IsRun(new) /\ run' = [run EXCEPT ![r] = new]
  BY <1>1 DEF FlushInsert, IsRun, RunFields
<1>4. RunShape' /\ run'[r] = new /\ \A s \in Runs \ {r} : run'[s] = run[s]
  BY <1>1, <1>3, ShapeKept
<1>5. FlushedInsert(r)
  <2>1. run'[r].tx = tx
    <3> HIDE DEF tx
    <3> QED
      BY <1>1, <1>4 DEF IsRun, RunFields
  <2> HIDE DEF tx
  <2>2. Keeps(r) /\ run'[r].pc = "select" /\ run'[r].done = run[r].done + 1
        /\ run'[r].dirty = <<>> /\ run'[r].stats = run[r].stats
    BY <1>1, <1>2, <1>4 DEF IsRun, RunFields, Keeps
  <2> QED
    BY <1>1, <1>2, <2>1, <2>2 DEF FlushedInsert, tx
<1> QED
  BY <1>4, <1>5 DEF StepOf, Flushed

\* Every step is the step of one run.
LEMMA StepEffect ==
  ASSUME AgendaInv, Next
  PROVE  \E r \in Runs : StepOf(r)
<1>1. PICK r \in Runs :
    \/ \E extract \in Extracts, dry \in BOOLEAN : Begin(r, extract, dry)
    \/ ResolveIntersection(r) \/ ResolveRoad(r) \/ ResolveSegment(r)
    \/ FlushUpdate(r) \/ FlushInsert(r) \/ InsertConflict(r)
    \/ Commit(r) \/ EndDryRun(r) \/ Fail(r)
  BY DEF Next
<1>2. CASE \E extract \in Extracts, dry \in BOOLEAN : Begin(r, extract, dry)
  BY <1>2, BeginEffect
<1>3. CASE ResolveIntersection(r) \/ ResolveRoad(r) \/ ResolveSegment(r)
  BY <1>3, ResolveEffect
<1>4. CASE FlushUpdate(r) \/ FlushInsert(r)
  BY <1>4, FlushUpdateEffect, FlushInsertEffect
<1>5. CASE Commit(r)
  BY <1>5, CommitEffect
<1>6. CASE InsertConflict(r) \/ EndDryRun(r) \/ Fail(r)
  BY <1>6, RollbackEffect DEF InsertConflict, EndDryRun, Fail
<1> QED
  BY <1>1, <1>2, <1>3, <1>4, <1>5, <1>6

-----------------------------------------------------------------------------
\* A step ends its run or leaves it open.
LEMMA OpenAfter ==
  ASSUME AgendaInv, NEW r \in Runs, StepOf(r)
  PROVE  /\ \A s \in Runs \ {r} : s \in Open' <=> s \in Open
         /\ Ended(r) \/ Committed(r) => r \notin Open'
         /\ Began(r) => r \in Open' /\ r \notin Open
         /\ Resolved(r) \/ Flushed(r) => r \in Open' /\ r \in Open
<1>1. \A s \in Runs \ {r} : s \in Open' <=> s \in Open
  BY DEF StepOf, Open
<1>2. Ended(r) \/ Committed(r) => r \notin Open'
  BY DEF Ended, Committed, Open, Closed
<1>3. Began(r) => r \in Open' /\ r \notin Open
  BY DEF Began, Open
<1>4. Resolved(r) => r \in Open' /\ r \in Open
  BY DEF Resolved, Rejected, Found, Changed, Created, AtKey, Open
<1>5. FlushedInsert(r) => r \in Open' /\ r \in Open
  BY DEF FlushedInsert, Open
<1>6. FlushedUpdate(r) => r \in Open' /\ r \in Open
  BY DEF FlushedUpdate, Open
<1> QED
  BY <1>1, <1>2, <1>3, <1>4, <1>5, <1>6 DEF Flushed

\* Rows are never deleted.
LEMMA RowsStay ==
  ASSUME NEW r \in Runs, StepOf(r)
  PROVE  /\ DOMAIN rows \subseteq DOMAIN rows'
         /\ \A s \in Runs \ {r} : DOMAIN Seen(s) \subseteq DOMAIN Seen(s)'
<1>1. DOMAIN rows \subseteq DOMAIN rows'
  BY DEF StepOf, Began, Ended, Committed, Resolved, Rejected, Found, Changed, Created,
         Flushed, FlushedUpdate, FlushedInsert, Keeps, Over
<1>2. \A s \in Runs \ {r} : run'[s] = run[s]
  BY DEF StepOf
<1> QED
  BY <1>1, <1>2 DEF Seen, Over

\* What the session of a run sees once it has written a row.
LEMMA Writes ==
  ASSUME NEW r \in Runs, rows' = rows, NEW key, NEW value,
         run'[r].tx = Over(Row(key, value), run[r].tx)
  PROVE  /\ DOMAIN run'[r].tx = DOMAIN run[r].tx \cup {key}
         /\ DOMAIN Seen(r)' = DOMAIN Seen(r) \cup {key}
         /\ run'[r].tx[key] = value
         /\ \A k \in DOMAIN run[r].tx \ {key} : run'[r].tx[k] = run[r].tx[k]
<1>1. /\ DOMAIN run'[r].tx = DOMAIN run[r].tx \cup {key}
      /\ run'[r].tx[key] = value
      /\ \A k \in DOMAIN run[r].tx \ {key} : run'[r].tx[k] = run[r].tx[k]
  BY DEF Over, Row
<1>2. DOMAIN Seen(r)' = DOMAIN run'[r].tx \cup DOMAIN rows
  BY DEF Seen, Over
<1> QED
  BY <1>1, <1>2, SeenRow

LEMMA OthersOnAgenda ==
  ASSUME AgendaInv, NEW r \in Runs, StepOf(r), NEW s \in Open, s # r
  PROVE  OnAgenda(s)'
<1>1. s \in Runs /\ run'[s] = run[s] /\ OnAgenda(s) /\ DOMAIN Seen(s) \subseteq DOMAIN Seen(s)'
  BY RowsStay DEF StepOf, AgendaInv, Open
<1> QED
  BY <1>1 DEF OnAgenda, Finished, Key

\* A key the run resolves it has not resolved before.
LEMMA NewKey ==
  ASSUME AgendaInv, NEW r \in Open, ~Finished(r)
  PROVE  /\ \A i \in 1 .. run[r].done : Agenda[run[r].extract][i] # Key(r)
         /\ Key(r) \notin DOMAIN run[r].tx
<1> DEFINE agenda == Agenda[run[r].extract]
<1>1. /\ run[r].extract \in Extracts /\ run[r].done + 1 \in DOMAIN agenda
      /\ run[r].done \in Nat /\ Key(r) = agenda[run[r].done + 1]
  BY KeyAhead
<1>2. DOMAIN agenda = 1 .. Len(agenda) /\ Len(agenda) \in Nat
  BY <1>1, Plan
<1>3. ASSUME NEW i \in 1 .. run[r].done PROVE agenda[i] # Key(r)
  <2>1. i \in DOMAIN agenda /\ i # run[r].done + 1
    BY <1>1, <1>2
  <2>2. \A j, k \in DOMAIN agenda : agenda[j] = agenda[k] => j = k
    BY <1>1, AgendaAssumption
  <2> QED
    BY <1>1, <2>1, <2>2
<1>4. Key(r) \notin DOMAIN run[r].tx
  BY <1>3 DEF AgendaInv, OnAgenda
<1> QED
  BY <1>3, <1>4

LEMMA ResolvedOnAgenda ==
  ASSUME AgendaInv, NEW r \in Runs, Resolved(r)
  PROVE  OnAgenda(r)'
<1> DEFINE e == run[r].extract
<1>1. AtKey(r) /\ r \in Open /\ Keeps(r) /\ run'[r].tx = run[r].tx
  BY DEF Resolved, Rejected, Found, Changed, Created, AtKey
<1>2. OnAgenda(r) /\ e \in Extracts /\ run'[r].extract = e /\ run'[r].dry = run[r].dry
  BY <1>1 DEF AgendaInv, OnAgenda, Keeps
<1>3. /\ run[r].done \in Nat /\ run[r].done + 1 \in 0 .. Len(Agenda[e])
      /\ Key(r) = Agenda[e][run[r].done + 1] /\ Key(r) \notin DOMAIN run[r].tx
  BY <1>1, KeyAhead, NewKey DEF AtKey
<1>4. Seen(r)' = Seen(r)
  BY <1>1 DEF Seen, Keeps
<1>5. CASE Created(r) /\ ~run[r].dry
  <2>1. /\ run'[r].pc = "insert" /\ run'[r].done = run[r].done /\ run'[r].dirty = <<>>
        /\ Key(r) \in DOMAIN Image[e]
    BY <1>5 DEF Created
  <2>2. Key(r)' = Key(r) /\ ~Finished(r)'
    BY <1>1, <1>2, <2>1 DEF Key, Finished, AtKey
  <2>3. \A key \in DOMAIN run'[r].tx :
          /\ key \in DOMAIN Image[e] \ DOMAIN run'[r].dirty
          /\ \E i \in 1 .. run'[r].done : key = Agenda[e][i]
    BY <1>1, <1>2, <2>1 DEF OnAgenda
  <2> QED
    BY <1>2, <1>5, <2>1, <2>2, <2>3 DEF OnAgenda
<1>6. CASE run'[r].done = run[r].done + 1 /\ run'[r].pc = "select"
  <2>1. \A key \in DOMAIN run'[r].tx :
          key \in DOMAIN Image[e] /\ key # Key(r) /\ \E i \in 1 .. run'[r].done : key = Agenda[e][i]
    <3>1. \A i \in 1 .. run[r].done : i \in 1 .. run'[r].done
      BY <1>3, <1>6
    <3> QED
      BY <1>1, <1>2, <1>3, <3>1 DEF OnAgenda
  <2>2. CASE run'[r].dirty = <<>>
    BY <1>1, <1>2, <1>3, <1>6, <2>1, <2>2 DEF OnAgenda
  <2>3. CASE Changed(r) /\ ~run[r].dry
    <3> DEFINE columns == Difference(Wanted(r), Seen(r)[Key(r)])
    <3>1. /\ run'[r].dirty = Row(Key(r), columns)
          /\ Key(r) \in DOMAIN Image[e] \cap DOMAIN Seen(r) /\ Wanted(r) = Image[e][Key(r)]
      BY <2>3 DEF Changed, Wanted
    <3>2. \A c \in DOMAIN columns : c \in DOMAIN Wanted(r) /\ columns[c] = Wanted(r)[c]
      BY DEF Difference
    <3> HIDE DEF columns
    <3>3. DOMAIN run'[r].dirty = {Key(r)} /\ run'[r].dirty[Key(r)] = columns
      BY <3>1 DEF Row
    <3>4. \A key \in DOMAIN run'[r].dirty :
             /\ run'[r].done > 0 /\ key = Agenda[e][run'[r].done]
             /\ key \in DOMAIN Image[e] \cap DOMAIN Seen(r)'
             /\ \A column \in DOMAIN run'[r].dirty[key] :
                  /\ column \in DOMAIN Image[e][key]
                  /\ run'[r].dirty[key][column] = Image[e][key][column]
      <4>1. run'[r].done > 0 /\ Key(r) = Agenda[e][run'[r].done]
        BY <1>3, <1>6
      <4>2. Key(r) \in DOMAIN Image[e] \cap DOMAIN Seen(r)'
        BY <1>4, <3>1
      <4> QED
        BY <3>1, <3>2, <3>3, <4>1, <4>2
    <3>5. \A key \in DOMAIN run'[r].tx :
            /\ key \in DOMAIN Image[e] \ DOMAIN run'[r].dirty
            /\ \E i \in 1 .. run'[r].done : key = Agenda[e][i]
      BY <2>1, <3>3
    <3> QED
      BY <1>2, <1>3, <1>6, <2>3, <3>4, <3>5 DEF OnAgenda
  <2> QED
    BY <2>2, <2>3 DEF Resolved, Rejected, Found, Changed, Created
<1> QED
  BY <1>5, <1>6 DEF Resolved, Rejected, Found, Changed, Created

LEMMA FlushedOnAgenda ==
  ASSUME AgendaInv, NEW r \in Runs, Flushed(r)
  PROVE  OnAgenda(r)'
<1> DEFINE e == run[r].extract
<1>1. r \in Open /\ Keeps(r) /\ run'[r].dirty = <<>>
  BY DEF Flushed, FlushedUpdate, FlushedInsert
<1>2. OnAgenda(r) /\ e \in Extracts /\ run'[r].extract = e /\ run'[r].dry = run[r].dry
      /\ rows' = rows
  BY <1>1 DEF AgendaInv, OnAgenda, Keeps
<1>3. CASE FlushedUpdate(r)
  <2>1. PICK key \in DOMAIN run[r].dirty :
          run'[r].tx = Over(Row(key, Over(run[r].dirty[key], Seen(r)[key])), run[r].tx)
    BY <1>3 DEF FlushedUpdate
  <2>2. /\ run[r].done > 0 /\ key = Agenda[e][run[r].done] /\ key \in DOMAIN Image[e]
        /\ run[r].dirty # <<>>
    BY <1>2 DEF OnAgenda
  <2>3. run[r].pc = "select" /\ run'[r].pc = "select" /\ run'[r].done = run[r].done
        /\ ~run[r].dry /\ run[r].done \in Nat
    BY <1>2, <1>3, <2>2, Plan DEF FlushedUpdate, OnAgenda
  <2>4. DOMAIN run'[r].tx = DOMAIN run[r].tx \cup {key}
    BY <2>1 DEF Over, Row
  <2>5. \A k \in DOMAIN run'[r].tx :
          k \in DOMAIN Image[e] /\ \E i \in 1 .. run'[r].done : k = Agenda[e][i]
    BY <1>2, <2>2, <2>3, <2>4 DEF OnAgenda
  <2> QED
    BY <1>1, <1>2, <2>3, <2>5 DEF OnAgenda
<1>4. CASE FlushedInsert(r)
  <2>1. run[r].pc = "insert" /\ run'[r].pc = "select" /\ run'[r].done = run[r].done + 1
        /\ ~Finished(r) /\ ~run[r].dry /\ Key(r) \in DOMAIN Image[e]
    BY <1>2, <1>4 DEF FlushedInsert, OnAgenda
  <2>2. /\ run[r].done \in Nat /\ run[r].done + 1 \in 0 .. Len(Agenda[e])
        /\ Key(r) = Agenda[e][run[r].done + 1]
    BY <1>1, <2>1, KeyAhead
  <2>3. DOMAIN run'[r].tx = DOMAIN run[r].tx \cup {Key(r)}
    BY <1>4 DEF FlushedInsert, Over, Row
  <2>4. \A i \in 1 .. run[r].done : i \in 1 .. run'[r].done
    BY <2>1, <2>2
  <2>5. \A k \in DOMAIN run'[r].tx :
          k \in DOMAIN Image[e] /\ \E i \in 1 .. run'[r].done : k = Agenda[e][i]
    BY <1>2, <2>1, <2>2, <2>3, <2>4 DEF OnAgenda
  <2> QED
    BY <1>1, <1>2, <2>1, <2>2, <2>5 DEF OnAgenda
<1> QED
  BY <1>3, <1>4 DEF Flushed

LEMMA BeganOnAgenda ==
  ASSUME NEW r \in Runs, Began(r)
  PROVE  OnAgenda(r)'
BY Plan DEF Began, OnAgenda

\* The invariant is inductive, whatever files the runs read.
LEMMA NextAgendaInv ==
  ASSUME AgendaInv, [Next]_vars
  PROVE  AgendaInv'
<1>1. CASE UNCHANGED vars
  BY <1>1 DEF vars, AgendaInv, RunShape, Open, OnAgenda, Finished, Key, Seen
<1>2. CASE Next
  <2>1. PICK r \in Runs : StepOf(r)
    BY <1>2, StepEffect
  <2>2. ASSUME NEW s \in Open' PROVE OnAgenda(s)'
    <3>1. CASE s # r
      <4>1. s \in Open
        BY <2>1, <3>1, <2>2, OpenAfter DEF Open
      <4> QED
        BY <2>1, <3>1, <4>1, OthersOnAgenda
    <3>2. CASE s = r
      <4>1. Began(r) \/ Resolved(r) \/ Flushed(r)
        BY <2>1, <2>2, <3>2, OpenAfter DEF StepOf
      <4> QED
        BY <3>2, <4>1, BeganOnAgenda, ResolvedOnAgenda, FlushedOnAgenda
    <3> QED
      BY <3>1, <3>2
  <2>3. ASSUME NEW s \in Runs \ Open' PROVE run'[s] = Closed
    <3>1. CASE s # r
      <4>1. s \notin Open /\ run'[s] = run[s]
        BY <2>1, <2>3, <3>1, OpenAfter DEF StepOf
      <4> QED
        BY <4>1 DEF AgendaInv
    <3>2. CASE s = r
      BY <2>1, <2>3, <3>2, OpenAfter DEF StepOf, Ended, Committed
    <3> QED
      BY <3>1, <3>2
  <2>4. RunShape'
    BY <2>1 DEF StepOf
  <2> QED
    BY <2>2, <2>3, <2>4 DEF AgendaInv
<1> QED
  BY <1>1, <1>2

LEMMA InitAgendaInv == ASSUME Init PROVE AgendaInv
<1>1. RunShape
  BY ClosedIsRun DEF Init, RunShape
<1>2. \A r \in Runs : run[r] = Closed
  BY DEF Init
<1>3. Open = {}
  BY <1>2 DEF Open, Closed
<1> QED
  BY <1>1, <1>2, <1>3 DEF AgendaInv

THEOREM AgendaInvariant == Spec => []AgendaInv
<1> QED
  BY InitAgendaInv, NextAgendaInv, PTL DEF Spec

-----------------------------------------------------------------------------
LEMMA RefersMore ==
  ASSUME NEW row, NEW few, NEW more, RefersInto(row, few), few \subseteq more
  PROVE  RefersInto(row, more)
BY DEF RefersInto

\* Each reference of a changed row is one of the old row or of the wanted one.
LEMMA ChangedRefers ==
  ASSUME NEW columns, NEW old, NEW new, NEW keys, RefersInto(old, keys), RefersInto(new, keys),
         \A c \in DOMAIN columns : c \in DOMAIN new /\ columns[c] = new[c]
  PROVE  RefersInto(Over(columns, old), keys)
<1> DEFINE row == Over(columns, old)
<1>1. DOMAIN row = DOMAIN columns \cup DOMAIN old
  BY DEF Over
<1>2. \A c \in DOMAIN old : row[c] = new[c] \/ row[c] = old[c]
  BY DEF Over
<1>3. {"start", "end", "road"} \subseteq DOMAIN old
  BY DEF RefersInto
<1>4. /\ row.start = new.start \/ row.start = old.start
      /\ row.end = new.end \/ row.end = old.end
      /\ row.road = new.road \/ row.road = old.road
  BY <1>2, <1>3
<1>5. /\ {new.start, new.end, new.road} \ {Nothing} \subseteq keys
      /\ {old.start, old.end, old.road} \ {Nothing} \subseteq keys
  BY DEF RefersInto, References
<1> HIDE DEF row
<1>6. {row.start, row.end, row.road} \ {Nothing} \subseteq keys
  BY <1>4, <1>5
<1>7. RefersInto(row, keys)
  BY <1>1, <1>3, <1>6 DEF RefersInto, References
<1> QED
  BY <1>7 DEF row

\* What a real run sees of a segment refers to rows it sees, and so does the
\* row the file wants, for every key up to the next one.
LEMMA SeenRefers ==
  ASSUME ReferencesInv, NEW r \in Open, NEW key \in DOMAIN Seen(r), key[1] = "segment"
  PROVE  RefersInto(Seen(r)[key], DOMAIN Seen(r))
<1>0. r \in Runs
  BY DEF Open
<1>1. CASE key \in DOMAIN run[r].tx
  BY <1>0, <1>1, SeenRow DEF ReferencesInv
<1>2. CASE key \notin DOMAIN run[r].tx
  <2>1. key \in DOMAIN rows /\ Seen(r)[key] = rows[key] /\ DOMAIN rows \subseteq DOMAIN Seen(r)
    BY <1>0, <1>2, SeenRow
  <2> QED
    BY <2>1, RefersMore DEF ReferencesInv
<1> QED
  BY <1>1, <1>2

LEMMA WantedRefers ==
  ASSUME AgendaInv, ReferencesInv, NEW r \in Open, ~run[r].dry,
         NEW i \in DOMAIN Agenda[run[r].extract], i <= run[r].done + 1,
         Agenda[run[r].extract][i] \in DOMAIN Image[run[r].extract],
         Agenda[run[r].extract][i][1] = "segment"
  PROVE  RefersInto(Image[run[r].extract][Agenda[run[r].extract][i]], DOMAIN Seen(r))
<1> DEFINE e == run[r].extract
           row == Image[e][Agenda[e][i]]
<1>1. e \in Extracts /\ run[r].done \in Nat /\ i \in Nat
  <2>1. e \in Extracts /\ run[r].done \in 0 .. Len(Agenda[e])
    BY DEF AgendaInv, OnAgenda
  <2> QED
    BY <2>1, Plan
<1>2. /\ {"start", "end", "road"} \subseteq DOMAIN row
      /\ \A key \in References(row) :
           key \in DOMAIN Image[e] /\ \E j \in 1 .. i - 1 : key = Agenda[e][j]
  BY <1>1, AgendaAssumption
<1>3. ASSUME NEW key \in References(row) PROVE key \in DOMAIN Seen(r)
  <2>1. PICK j \in 1 .. i - 1 : key = Agenda[e][j]
    BY <1>2, <1>3
  <2>2. j \in 1 .. run[r].done
    BY <1>1, <2>1
  <2> QED
    BY <1>2, <1>3, <2>1, <2>2 DEF ReferencesInv
<1> HIDE DEF row
<1> QED
  BY <1>2, <1>3 DEF RefersInto, row

\* What a step of a run does to its own part of the invariant.
ReferencesOf(r) ==
  /\ \A key \in DOMAIN run[r].tx :
       key[1] = "segment" => RefersInto(run[r].tx[key], DOMAIN Seen(r))
  /\ ~run[r].dry =>
       \A i \in 1 .. run[r].done :
         Agenda[run[r].extract][i] \in DOMAIN Image[run[r].extract] =>
           Agenda[run[r].extract][i] \in DOMAIN Seen(r)

LEMMA ResolvedReferences ==
  ASSUME AgendaInv, ReferencesInv, NEW r \in Runs, Resolved(r)
  PROVE  ReferencesOf(r)'
<1> DEFINE e == run[r].extract
<1>1. AtKey(r) /\ r \in Open /\ Keeps(r) /\ run'[r].tx = run[r].tx
  BY DEF Resolved, Rejected, Found, Changed, Created, AtKey
<1>2. /\ run'[r].extract = e /\ run'[r].dry = run[r].dry
      /\ Seen(r)' = Seen(r) /\ ReferencesOf(r)
  BY <1>1 DEF Keeps, Seen, ReferencesInv, ReferencesOf
<1>3. run[r].done \in Nat /\ Key(r) = Agenda[e][run[r].done + 1]
  BY <1>1, KeyAhead DEF AtKey
<1>4. \/ run'[r].done = run[r].done
      \/ run[r].dry
      \/ /\ run'[r].done = run[r].done + 1
         /\ Key(r) \in DOMAIN Image[e] => Key(r) \in DOMAIN Seen(r)
  BY DEF Resolved, Rejected, Found, Changed, Created
<1>5. ASSUME ~run[r].dry, NEW i \in 1 .. run'[r].done, Agenda[e][i] \in DOMAIN Image[e]
      PROVE  Agenda[e][i] \in DOMAIN Seen(r)
  <2>1. CASE i \in 1 .. run[r].done
    BY <1>2, <1>5, <2>1 DEF ReferencesOf
  <2>2. CASE i \notin 1 .. run[r].done
    <3>1. i = run[r].done + 1 /\ run'[r].done = run[r].done + 1
      BY <1>3, <1>4, <1>5, <2>2
    <3> QED
      BY <1>3, <1>4, <1>5, <3>1
  <2> QED
    BY <2>1, <2>2
<1> QED
  BY <1>1, <1>2, <1>5 DEF ReferencesOf

LEMMA FlushedReferences ==
  ASSUME AgendaInv, ReferencesInv, NEW r \in Runs, Flushed(r)
  PROVE  ReferencesOf(r)'
<1> DEFINE e == run[r].extract
<1>1. r \in Open /\ Keeps(r)
  BY DEF Flushed, FlushedUpdate, FlushedInsert
<1>2. /\ run'[r].extract = e /\ run'[r].dry = run[r].dry /\ rows' = rows
      /\ ReferencesOf(r) /\ OnAgenda(r) /\ e \in Extracts
  BY <1>1 DEF Keeps, ReferencesInv, ReferencesOf, AgendaInv, OnAgenda
<1>3. /\ Len(Agenda[e]) \in Nat /\ DOMAIN Agenda[e] = 1 .. Len(Agenda[e])
      /\ run[r].done \in 0 .. Len(Agenda[e])
  BY <1>2, Plan DEF OnAgenda
<1>4. CASE FlushedUpdate(r)
  <2>1. PICK key \in DOMAIN run[r].dirty :
          run'[r].tx = Over(Row(key, Over(run[r].dirty[key], Seen(r)[key])), run[r].tx)
    BY <1>4 DEF FlushedUpdate
  <2> DEFINE value == Over(run[r].dirty[key], Seen(r)[key])
  <2>2. /\ run[r].done > 0 /\ key = Agenda[e][run[r].done] /\ ~run[r].dry
        /\ key \in DOMAIN Image[e] \cap DOMAIN Seen(r)
        /\ \A c \in DOMAIN run[r].dirty[key] :
             c \in DOMAIN Image[e][key] /\ run[r].dirty[key][c] = Image[e][key][c]
    BY <1>2 DEF OnAgenda
  <2>3. key[1] = "segment" => RefersInto(value, DOMAIN Seen(r))
    <3>1. SUFFICES ASSUME key[1] = "segment" PROVE RefersInto(value, DOMAIN Seen(r))
      OBVIOUS
    <3>2. RefersInto(Seen(r)[key], DOMAIN Seen(r))
      BY <1>1, <2>2, <3>1, SeenRefers
    <3>3. RefersInto(Image[e][key], DOMAIN Seen(r))
      <4>1. run[r].done \in DOMAIN Agenda[e] /\ run[r].done <= run[r].done + 1
        <5>1. run[r].done > 0
          BY <2>2
        <5> QED
          BY <1>3, <5>1
      <4> QED
        BY <1>1, <2>2, <3>1, <4>1, WantedRefers
    <3> QED
      BY <2>2, <3>2, <3>3, ChangedRefers
  <2> HIDE DEF value
  <2>4. run'[r].tx = Over(Row(key, value), run[r].tx)
    BY <2>1 DEF value
  <2>5. /\ DOMAIN run'[r].tx = DOMAIN run[r].tx \cup {key}
        /\ DOMAIN Seen(r)' = DOMAIN Seen(r) \cup {key}
        /\ run'[r].tx[key] = value
        /\ \A k \in DOMAIN run[r].tx \ {key} : run'[r].tx[k] = run[r].tx[k]
    BY <1>2, <2>4, Writes
  <2>6. DOMAIN Seen(r)' = DOMAIN Seen(r)
    BY <2>2, <2>5
  <2>7. \A k \in DOMAIN run'[r].tx :
          k[1] = "segment" => RefersInto(run'[r].tx[k], DOMAIN Seen(r))
    BY <1>2, <2>3, <2>5 DEF ReferencesOf
  <2>8. run'[r].done = run[r].done
    BY <1>4 DEF FlushedUpdate
  <2> QED
    BY <1>2, <2>6, <2>7, <2>8 DEF ReferencesOf
<1>5. CASE FlushedInsert(r)
  <2> DEFINE value == Image[e][Key(r)]
  <2>1. /\ run[r].pc = "insert" /\ ~Finished(r) /\ ~run[r].dry /\ Key(r) \in DOMAIN Image[e]
        /\ run'[r].done = run[r].done + 1
    BY <1>2, <1>5 DEF FlushedInsert, OnAgenda
  <2>2. /\ run[r].done + 1 \in DOMAIN Agenda[e] /\ Key(r) = Agenda[e][run[r].done + 1]
        /\ run[r].done + 1 <= run[r].done + 1 /\ run[r].done \in Nat
    BY <1>1, <2>1, KeyAhead
  <2>3. Key(r)[1] = "segment" => RefersInto(value, DOMAIN Seen(r))
    BY <1>1, <2>1, <2>2, WantedRefers
  <2> HIDE DEF value
  <2>4. run'[r].tx = Over(Row(Key(r), value), run[r].tx)
    BY <1>5 DEF FlushedInsert, value, Wanted
  <2>5. /\ DOMAIN run'[r].tx = DOMAIN run[r].tx \cup {Key(r)}
        /\ DOMAIN Seen(r)' = DOMAIN Seen(r) \cup {Key(r)}
        /\ run'[r].tx[Key(r)] = value
        /\ \A k \in DOMAIN run[r].tx \ {Key(r)} : run'[r].tx[k] = run[r].tx[k]
    BY <1>2, <2>4, Writes
  <2>6. \A k \in DOMAIN run'[r].tx :
          k[1] = "segment" => RefersInto(run'[r].tx[k], DOMAIN Seen(r))
    BY <1>2, <2>3, <2>5 DEF ReferencesOf
  <2>7. \A k \in DOMAIN run'[r].tx :
          k[1] = "segment" => RefersInto(run'[r].tx[k], DOMAIN Seen(r)')
    BY <2>5, <2>6, RefersMore
  <2>8. ASSUME ~run[r].dry, NEW i \in 1 .. run'[r].done, Agenda[e][i] \in DOMAIN Image[e]
        PROVE  Agenda[e][i] \in DOMAIN Seen(r)'
    <3>1. CASE i = run[r].done + 1
      BY <2>2, <2>5, <3>1
    <3>2. CASE i # run[r].done + 1
      <4>1. i \in 1 .. run[r].done
        BY <2>1, <2>2, <3>2
      <4> QED
        BY <1>2, <2>5, <2>8, <4>1 DEF ReferencesOf
    <3> QED
      BY <3>1, <3>2
  <2> QED
    BY <1>2, <2>7, <2>8 DEF ReferencesOf
<1> QED
  BY <1>4, <1>5 DEF Flushed

LEMMA CommittedReferences ==
  ASSUME ReferencesInv, NEW r \in Runs, StepOf(r)
  PROVE  \A key \in DOMAIN rows' :
           key[1] = "segment" => RefersInto(rows'[key], DOMAIN rows')
<1>1. CASE rows' = rows
  BY <1>1 DEF ReferencesInv
<1>2. CASE Committed(r)
  <2>1. /\ rows' = Seen(r) /\ r \in Open
    BY <1>2 DEF Committed, Seen
  <2> QED
    BY <2>1, SeenRefers
<1> QED
  BY <1>1, <1>2 DEF StepOf, Began, Ended, Resolved, Rejected, Found, Changed, Created,
                    Flushed, FlushedUpdate, FlushedInsert, Keeps

LEMMA NextReferencesInv ==
  ASSUME AgendaInv, ReferencesInv, [Next]_vars
  PROVE  ReferencesInv'
<1>1. CASE UNCHANGED vars
  BY <1>1 DEF vars, ReferencesInv, Open, Seen
<1>2. CASE Next
  <2>1. PICK r \in Runs : StepOf(r)
    BY <1>2, StepEffect
  <2>2. ASSUME NEW s \in Open' PROVE ReferencesOf(s)'
    <3>1. CASE s # r
      <4>1. s \in Open /\ s \in Runs /\ run'[s] = run[s]
            /\ DOMAIN Seen(s) \subseteq DOMAIN Seen(s)'
        BY <2>1, <2>2, <3>1, OpenAfter, RowsStay DEF Open, StepOf
      <4>2. ReferencesOf(s)
        BY <4>1 DEF ReferencesInv, ReferencesOf
      <4> QED
        BY <4>1, <4>2, RefersMore DEF ReferencesOf
    <3>2. CASE s = r
      <4>1. Began(r) \/ Resolved(r) \/ Flushed(r)
        BY <2>1, <2>2, <3>2, OpenAfter DEF StepOf
      <4>2. CASE Began(r)
        BY <3>2, <4>2 DEF Began, ReferencesOf
      <4> QED
        BY <3>2, <4>1, <4>2, ResolvedReferences, FlushedReferences
    <3> QED
      BY <3>1, <3>2
  <2>3. \A key \in DOMAIN rows' :
           key[1] = "segment" => RefersInto(rows'[key], DOMAIN rows')
    BY <2>1, CommittedReferences
  <2> QED
    BY <2>2, <2>3 DEF ReferencesInv, ReferencesOf
<1> QED
  BY <1>1, <1>2

LEMMA InitReferencesInv == ASSUME Init PROVE ReferencesInv
BY DEF Init, ReferencesInv, Open, Closed

\* Foreign keys, for every set of files, read by any number of runs at the
\* same time, with any failures and conflicts: resolving the intersections and
\* the roads before the segments is enough for every written segment to find
\* its rows.
THEOREM ReferencesAlwaysExist == Spec => []ReferencesExist
<1>1. Init => AgendaInv /\ ReferencesInv
  BY InitAgendaInv, InitReferencesInv
<1>2. AgendaInv /\ ReferencesInv /\ [Next]_vars => (AgendaInv /\ ReferencesInv)'
  BY NextAgendaInv, NextReferencesInv
<1>3. AgendaInv /\ ReferencesInv => ReferencesExist
  <2>1. SUFFICES ASSUME AgendaInv, ReferencesInv, NEW r \in Runs, NEW key \in DOMAIN Seen(r),
                        key[1] = "segment"
                 PROVE  References(Seen(r)[key]) \subseteq DOMAIN Seen(r)
    BY DEF ReferencesExist
  <2>2. CASE r \in Open
    BY <2>1, <2>2, SeenRefers DEF RefersInto
  <2>3. CASE r \notin Open
    <3>1. DOMAIN run[r].tx = {}
      BY <2>1, <2>3 DEF AgendaInv, Closed
    <3>2. key \in DOMAIN rows /\ Seen(r)[key] = rows[key] /\ DOMAIN Seen(r) = DOMAIN rows
      BY <2>1, <3>1, SeenRow
    <3> QED
      BY <2>1, <3>2 DEF ReferencesInv, RefersInto
  <2> QED
    BY <2>2, <2>3
<1> QED
  BY <1>1, <1>2, <1>3, PTL DEF Spec

-----------------------------------------------------------------------------
\* Among subsets of a finite set there is one that contains no other.
LEMMA MinimalSet ==
  ASSUME NEW S, IsFiniteSet(S), NEW C, C \subseteq SUBSET S, C # {}
  PROVE  \E c \in C : \A d \in C : d \subseteq c => d = c
<1>1. IsWellFoundedOn(StrictSubsetOrdering(S), SUBSET S)
  BY FS_StrictSubsetOrderingWellFounded, FS_FiniteSubsetsOfFinite
<1>2. PICK c \in C : \A d \in C : ~(<<d, c>> \in StrictSubsetOrdering(S))
  BY <1>1, WFMin
<1>3. ASSUME NEW d \in C, d \subseteq c PROVE d = c
  <2>1. <<d, c>> \in (SUBSET S) \X (SUBSET S)
    OBVIOUS
  <2>2. <<d, c>>[1] = d /\ <<d, c>>[2] = c
    OBVIOUS
  <2> QED
    BY <1>2, <1>3, <2>1, <2>2 DEF StrictSubsetOrdering
<1> QED
  BY <1>3

\* All files list their keys in one order.
OneOrder(rank) ==
  \A extract \in Extracts : \A i \in DOMAIN Agenda[extract] :
    /\ rank[Agenda[extract][i]] \in Int
    /\ \A j \in 1 .. i - 1 : rank[Agenda[extract][j]] < rank[Agenda[extract][i]]

\* A run waits for one row only, which comes after the rows it holds.
LEMMA WaitsAhead ==
  ASSUME AgendaInv, NEW rank, OneOrder(rank), NEW r \in Runs, NEW key \in WaitsFor(r)
  PROVE  /\ WaitsFor(r) = {key} /\ rank[key] \in Int
         /\ \A held \in DOMAIN run[r].tx : rank[held] < rank[key]
<1> DEFINE e == run[r].extract
<1>1. r \in Open
  BY DEF AgendaInv, WaitsFor, Closed
<1>2. OnAgenda(r) /\ e \in Extracts
  BY <1>1 DEF AgendaInv, OnAgenda
<1>3. /\ Len(Agenda[e]) \in Nat /\ DOMAIN Agenda[e] = 1 .. Len(Agenda[e])
      /\ run[r].done \in 0 .. Len(Agenda[e])
  BY <1>2, Plan DEF OnAgenda
<1>4. PICK n \in DOMAIN Agenda[e] :
        /\ key = Agenda[e][n] /\ WaitsFor(r) = {key}
        /\ \A held \in DOMAIN run[r].tx : \E i \in 1 .. n - 1 : held = Agenda[e][i]
  <2>1. CASE run[r].pc = "insert"
    <3>1. run[r].dirty = <<>> /\ ~Finished(r)
      BY <1>2, <2>1 DEF OnAgenda
    <3>2. WaitsFor(r) = {Key(r)}
      BY <2>1, <3>1 DEF WaitsFor
    <3>3. run[r].done + 1 \in DOMAIN Agenda[e] /\ Key(r) = Agenda[e][run[r].done + 1]
          /\ (run[r].done + 1) - 1 = run[r].done
      BY <1>1, <3>1, KeyAhead
    <3>4. \A held \in DOMAIN run[r].tx : \E i \in 1 .. run[r].done : held = Agenda[e][i]
      BY <1>2 DEF OnAgenda
    <3> QED
      BY <3>2, <3>3, <3>4
  <2>2. CASE run[r].pc # "insert"
    <3>1. key \in DOMAIN run[r].dirty /\ WaitsFor(r) = DOMAIN run[r].dirty
      BY <2>2 DEF WaitsFor
    <3>2. /\ run[r].done > 0 /\ key = Agenda[e][run[r].done] /\ WaitsFor(r) = {key}
      BY <1>2, <3>1 DEF OnAgenda
    <3>3. run[r].done \in DOMAIN Agenda[e]
      BY <1>3, <3>2
    <3>4. ASSUME NEW held \in DOMAIN run[r].tx
          PROVE  \E i \in 1 .. run[r].done - 1 : held = Agenda[e][i]
      <4>1. PICK i \in 1 .. run[r].done : held = Agenda[e][i]
        BY <1>2 DEF OnAgenda
      <4>2. held # key
        BY <1>2, <3>1 DEF OnAgenda
      <4>3. i # run[r].done
        BY <3>2, <4>1, <4>2
      <4>4. i \in 1 .. run[r].done - 1
        BY <1>3, <4>1, <4>3
      <4> QED
        BY <4>1, <4>4
    <3> QED
      BY <3>2, <3>3, <3>4
  <2> QED
    BY <2>1, <2>2
<1>5. rank[key] \in Int /\ \A i \in 1 .. n - 1 : rank[Agenda[e][i]] < rank[key]
  BY <1>2, <1>4 DEF OneOrder
<1> QED
  BY <1>4, <1>5

LEMMA NoCycle ==
  ASSUME AgendaInv, IsFiniteSet(Runs), NEW rank, OneOrder(rank)
  PROVE  NoDeadlock
<1> SUFFICES ASSUME ~NoDeadlock PROVE FALSE
  OBVIOUS
<1>1. PICK D \in SUBSET Runs :
        D # {} /\ (\A r \in D : \E s \in D \ {r} : WaitsFor(r) \cap DOMAIN run[s].tx # {})
  BY DEF NoDeadlock
<1> DEFINE wanted == [r \in D |-> CHOOSE key \in WaitsFor(r) : TRUE]
           Above(r) == {s \in D : rank[wanted[r]] < rank[wanted[s]]}
           C == {Above(r) : r \in D}
<1>2. ASSUME NEW r \in D
      PROVE  /\ WaitsFor(r) = {wanted[r]} /\ rank[wanted[r]] \in Int
             /\ \A held \in DOMAIN run[r].tx : rank[held] < rank[wanted[r]]
  <2>1. wanted[r] \in WaitsFor(r)
    BY <1>1
  <2> HIDE DEF wanted
  <2> QED
    BY <2>1, WaitsAhead
<1> HIDE DEF wanted
<1>3. IsFiniteSet(D) /\ C \subseteq SUBSET D /\ C # {}
  <2>1. IsFiniteSet(D)
    BY FS_Subset
  <2>2. C \subseteq SUBSET D
    OBVIOUS
  <2>3. C # {}
    <3> HIDE DEF Above
    <3> QED
      BY <1>1
  <2> QED
    BY <2>1, <2>2, <2>3
<1>4. PICK c \in C : \A d \in C : d \subseteq c => d = c
  <2> HIDE DEF C
  <2> QED
    BY <1>3, MinimalSet
<1>5. PICK r \in D : c = Above(r)
  OBVIOUS
<1>6. PICK s \in D : WaitsFor(r) \cap DOMAIN run[s].tx # {}
  BY <1>1
<1>7. rank[wanted[r]] < rank[wanted[s]]
  BY <1>2, <1>6
<1>8. Above(s) \subseteq Above(r) /\ s \in Above(r) /\ s \notin Above(s)
  BY <1>2, <1>7
<1> QED
  BY <1>4, <1>5, <1>8

\* Runs that read any files at the same time never wait for each other in a
\* circle, however many there are, as long as all files list their keys in
\* one order: intersections by id, roads by name and the ways as OSM files do.
THEOREM RunsNeverDeadlock ==
  ASSUME IsFiniteSet(Runs), NEW rank, OneOrder(rank)
  PROVE  Spec => []NoDeadlock
<1>1. AgendaInv => NoDeadlock
  BY NoCycle
<1> QED
  BY <1>1, AgendaInvariant, PTL

-----------------------------------------------------------------------------
\* Runs on the same file.  (No step of another run but its commit matters.)
LEMMA OthersKeep ==
  ASSUME NEW s \in Runs, run'[s] = run[s], rows' = rows, InProgress(s)
  PROVE  InProgress(s)'
BY DEF InProgress, WritesWanted, PendingWanted, ResolvedIsWritten, Seen

\* The row a run sees has the columns of the wanted one.
LEMMA SeenColumns ==
  ASSUME AgendaInv, FilesInv, NEW r \in Open,
         NEW key \in DOMAIN Image[run[r].extract], key \in DOMAIN Seen(r)
  PROVE  Image[run[r].extract][key] =
           [c \in DOMAIN Seen(r)[key] |-> Image[run[r].extract][key][c]]
<1>1. /\ run[r].extract \in Extracts /\ WritesWanted(r) /\ RowsFromFiles /\ r \in Runs
  BY DEF AgendaInv, OnAgenda, FilesInv, InProgress, Open
<1>2. PICK f \in Extracts : key \in DOMAIN Image[f] /\ Seen(r)[key] = Image[f][key]
  <2>1. CASE key \in DOMAIN run[r].tx
    BY <1>1, <2>1, SeenRow DEF WritesWanted
  <2>2. CASE key \notin DOMAIN run[r].tx
    <3>1. key \in DOMAIN rows /\ Seen(r)[key] = rows[key]
      BY <1>1, <2>2, SeenRow
    <3> QED
      BY <1>1, <3>1 DEF RowsFromFiles
  <2> QED
    BY <2>1, <2>2
<1> QED
  BY <1>1, <1>2, WantedRow

\* A resolved key is wanted by no row, seen as wanted, or about to be changed.
LEMMA ResolvedInProgress ==
  ASSUME AgendaInv, FilesInv, NEW r \in Runs, Resolved(r)
  PROVE  InProgress(r)'
<1>0. PICK e, key : e = run[r].extract /\ key = Key(r)
  OBVIOUS
<1>1. AtKey(r) /\ r \in Open /\ Keeps(r) /\ run'[r].tx = run[r].tx
  BY DEF Resolved, Rejected, Found, Changed, Created, AtKey
<1>2. /\ run'[r].extract = e /\ run'[r].dry = run[r].dry /\ InProgress(r)
      /\ Seen(r)' = Seen(r) /\ run[r].dirty = <<>>
  BY <1>0, <1>1 DEF Keeps, FilesInv, AtKey, Seen
<1>3. run[r].done \in Nat /\ key = Agenda[e][run[r].done + 1]
  BY <1>0, <1>1, KeyAhead DEF AtKey
<1>4. WritesWanted(r)'
  BY <1>0, <1>1, <1>2 DEF InProgress, WritesWanted
<1>5. CASE Changed(r) /\ ~run[r].dry
  <2>1. PICK columns : columns = Difference(Wanted(r), Seen(r)[key])
    OBVIOUS
  <2>2. /\ run'[r].dirty = Row(key, columns) /\ Wanted(r) = Image[e][key]
        /\ key \in DOMAIN Image[e] \cap DOMAIN Seen(r)
    BY <1>0, <1>5, <2>1 DEF Changed, Wanted
  <2>3. Image[e][key] = [c \in DOMAIN Seen(r)[key] |-> Image[e][key][c]]
    BY <1>0, <1>1, <2>2, SeenColumns
  <2>4. Over(columns, Seen(r)[key]) = Image[e][key]
    BY <2>1, <2>2, <2>3, DifferenceSuffices
  <2>5. DOMAIN run'[r].dirty = {key} /\ run'[r].dirty[key] = columns
    BY <2>2 DEF Row
  <2>6. PendingWanted(r)'
    BY <1>2, <2>4, <2>5 DEF PendingWanted
  <2>7. ASSUME NEW i \in 1 .. run'[r].done, Agenda[e][i] \in DOMAIN Image[e]
        PROVE  \/ Agenda[e][i] \in DOMAIN run'[r].dirty
               \/ Agenda[e][i] \in DOMAIN Seen(r) /\ Seen(r)[Agenda[e][i]] = Image[e][Agenda[e][i]]
    <3>1. CASE i = run[r].done + 1
      BY <1>3, <2>5, <3>1
    <3>2. CASE i # run[r].done + 1
      <4>1. i \in 1 .. run[r].done
        BY <1>3, <1>5, <3>2 DEF Changed
      <4> QED
        BY <1>0, <1>2, <1>5, <2>7, <4>1 DEF InProgress, ResolvedIsWritten
    <3> QED
      BY <3>1, <3>2
  <2>8. ResolvedIsWritten(r)'
    BY <1>2, <2>7 DEF ResolvedIsWritten
  <2> QED
    BY <1>4, <2>6, <2>8 DEF InProgress
<1>6. CASE ~(Changed(r) /\ ~run[r].dry)
  <2>1. run'[r].dirty = <<>>
    BY <1>6 DEF Resolved, Rejected, Found, Changed, Created
  <2>2. PendingWanted(r)'
    BY <2>1 DEF PendingWanted
  <2>3. ASSUME ~run[r].dry, NEW i \in 1 .. run'[r].done, Agenda[e][i] \in DOMAIN Image[e]
        PROVE  Agenda[e][i] \in DOMAIN Seen(r) /\ Seen(r)[Agenda[e][i]] = Image[e][Agenda[e][i]]
    <3>1. CASE i \in 1 .. run[r].done
      BY <1>0, <1>2, <2>3, <3>1 DEF InProgress, ResolvedIsWritten
    <3>2. CASE i \notin 1 .. run[r].done
      <4>1. /\ ~Created(r) /\ i = run[r].done + 1
        BY <1>3, <2>3, <3>2 DEF Resolved, Rejected, Found, Changed, Created
      <4>2. Found(r)
        BY <1>0, <1>3, <1>6, <2>3, <4>1 DEF Resolved, Rejected
      <4> QED
        BY <1>0, <1>3, <4>1, <4>2 DEF Found, Wanted
    <3> QED
      BY <3>1, <3>2
  <2>4. ResolvedIsWritten(r)'
    BY <1>2, <2>3 DEF ResolvedIsWritten
  <2> QED
    BY <1>4, <2>2, <2>4 DEF InProgress
<1> QED
  BY <1>5, <1>6

\* A flush writes the wanted row of a key.
LEMMA FlushesWanted ==
  ASSUME AgendaInv, FilesInv, NEW r \in Runs, Flushed(r)
  PROVE  \E key \in DOMAIN Image[run[r].extract] :
           /\ run'[r].tx = Over(Row(key, Image[run[r].extract][key]), run[r].tx)
           /\ \/ key \in DOMAIN run[r].dirty /\ run'[r].done = run[r].done
              \/ /\ run[r].dirty = <<>> /\ run'[r].done = run[r].done + 1
                 /\ run[r].done \in Nat /\ key = Agenda[run[r].extract][run[r].done + 1]
           /\ \A other \in DOMAIN run[r].dirty : other = key
<1>1. r \in Open /\ OnAgenda(r) /\ PendingWanted(r)
  BY DEF Flushed, FlushedUpdate, FlushedInsert, AgendaInv, FilesInv, InProgress
<1>2. CASE FlushedUpdate(r)
  <2>1. PICK key \in DOMAIN run[r].dirty :
          run'[r].tx = Over(Row(key, Over(run[r].dirty[key], Seen(r)[key])), run[r].tx)
    BY <1>2 DEF FlushedUpdate
  <2>2. /\ key \in DOMAIN Image[run[r].extract]
        /\ Over(run[r].dirty[key], Seen(r)[key]) = Image[run[r].extract][key]
        /\ \A other \in DOMAIN run[r].dirty : other = key
    BY <1>1 DEF OnAgenda, PendingWanted
  <2> QED
    BY <1>2, <2>1, <2>2 DEF FlushedUpdate
<1>3. CASE FlushedInsert(r)
  <2>1. /\ run[r].dirty = <<>> /\ ~Finished(r) /\ Key(r) \in DOMAIN Image[run[r].extract]
        /\ run'[r].done = run[r].done + 1
        /\ run'[r].tx = Over(Row(Key(r), Image[run[r].extract][Key(r)]), run[r].tx)
    BY <1>1, <1>3 DEF FlushedInsert, OnAgenda, Wanted
  <2>2. run[r].done \in Nat /\ Key(r) = Agenda[run[r].extract][run[r].done + 1]
    BY <1>1, <2>1, KeyAhead
  <2>3. DOMAIN run[r].dirty = {}
    BY <2>1
  <2> QED
    BY <2>1, <2>2, <2>3
<1> QED
  BY <1>2, <1>3 DEF Flushed

LEMMA FlushedInProgress ==
  ASSUME AgendaInv, FilesInv, NEW r \in Runs, Flushed(r)
  PROVE  InProgress(r)'
<1>0. PICK e : e = run[r].extract
  OBVIOUS
<1>1. r \in Open /\ Keeps(r) /\ run'[r].dirty = <<>>
  BY DEF Flushed, FlushedUpdate, FlushedInsert
<1>2. /\ run'[r].extract = e /\ run'[r].dry = run[r].dry /\ rows' = rows
      /\ InProgress(r)
  BY <1>0, <1>1 DEF Keeps, FilesInv
<1>3. PICK key \in DOMAIN Image[e] :
        /\ run'[r].tx = Over(Row(key, Image[e][key]), run[r].tx)
        /\ \/ key \in DOMAIN run[r].dirty /\ run'[r].done = run[r].done
           \/ /\ run[r].dirty = <<>> /\ run'[r].done = run[r].done + 1
              /\ run[r].done \in Nat /\ key = Agenda[e][run[r].done + 1]
        /\ \A other \in DOMAIN run[r].dirty : other = key
  BY <1>0, FlushesWanted
<1>4. /\ DOMAIN run'[r].tx = DOMAIN run[r].tx \cup {key}
      /\ run'[r].tx[key] = Image[e][key]
      /\ \A k \in DOMAIN run[r].tx \ {key} : run'[r].tx[k] = run[r].tx[k]
  BY <1>3 DEF Over, Row
<1>5. WritesWanted(r)'
  BY <1>0, <1>2, <1>4 DEF InProgress, WritesWanted
<1>6. /\ DOMAIN Seen(r)' = DOMAIN run'[r].tx \cup DOMAIN rows
      /\ \A k \in DOMAIN Seen(r)' :
           Seen(r)'[k] = IF k \in DOMAIN run'[r].tx THEN run'[r].tx[k] ELSE rows[k]
  BY <1>2 DEF Seen, Over
<1>7. /\ DOMAIN Seen(r)' = DOMAIN Seen(r) \cup {key}
      /\ Seen(r)'[key] = Image[e][key]
      /\ \A k \in DOMAIN Seen(r) \ {key} : Seen(r)'[k] = Seen(r)[k]
  BY <1>4, <1>6, SeenRow
<1>8. ASSUME ~run[r].dry, NEW i \in 1 .. run'[r].done, Agenda[e][i] \in DOMAIN Image[e],
             Agenda[e][i] # key
      PROVE  Agenda[e][i] \in DOMAIN Seen(r) /\ Seen(r)[Agenda[e][i]] = Image[e][Agenda[e][i]]
  <2>1. i \in 1 .. run[r].done
    BY <1>3, <1>8
  <2> QED
    BY <1>0, <1>2, <1>3, <1>8, <2>1 DEF InProgress, ResolvedIsWritten
<1>9. ResolvedIsWritten(r)'
  BY <1>2, <1>7, <1>8 DEF ResolvedIsWritten
<1>10. PendingWanted(r)'
  BY <1>1 DEF PendingWanted
<1> QED
  BY <1>5, <1>9, <1>10 DEF InProgress

\* A run that is finished has every row of its file in sight.
LEMMA CommittedRows ==
  ASSUME AgendaInv, FilesInv, NEW r \in Runs, r \in Open, Finished(r), run[r].dirty = <<>>, ~run[r].dry
  PROVE  Over(run[r].tx, rows) = Over(Image[run[r].extract], rows)
<1> DEFINE e == run[r].extract
<1>1. InProgress(r) /\ e \in Extracts
  BY DEF AgendaInv, OnAgenda, FilesInv
<1>2. ASSUME NEW key \in DOMAIN Image[e]
      PROVE  key \in DOMAIN Seen(r) /\ Seen(r)[key] = Image[e][key]
  <2>1. PICK i \in 1 .. Len(Agenda[e]) : key = Agenda[e][i]
    BY <1>1, <1>2, Plan
  <2>2. i \in 1 .. run[r].done
    BY <2>1 DEF Finished
  <2> QED
    BY <1>1, <1>2, <2>1, <2>2 DEF InProgress, ResolvedIsWritten
<1>3. \A key \in DOMAIN run[r].tx :
        key \in DOMAIN Image[e] /\ run[r].tx[key] = Image[e][key]
  BY <1>1 DEF InProgress, WritesWanted
<1>4. DOMAIN run[r].tx \cup DOMAIN rows = DOMAIN Image[e] \cup DOMAIN rows
  BY <1>2, <1>3, SeenRow
<1>5. ASSUME NEW key \in DOMAIN Image[e] \cup DOMAIN rows
      PROVE  (IF key \in DOMAIN run[r].tx THEN run[r].tx[key] ELSE rows[key])
             = (IF key \in DOMAIN Image[e] THEN Image[e][key] ELSE rows[key])
  <2>1. CASE key \in DOMAIN Image[e]
    BY <1>2, <2>1, SeenRow
  <2>2. CASE key \notin DOMAIN Image[e]
    BY <1>3, <2>2
  <2> QED
    BY <2>1, <2>2
<1> QED
  BY <1>4, <1>5 DEF Over

\* A commit improves what the other runs on the file see: what was resolved and
\* written stays so, and a pending change still fits.
LEMMA CommittedOthers ==
  ASSUME AgendaInv, FilesInv, NEW r \in Runs, Committed(r), NEW s \in Open, s # r,
         run'[s] = run[s]
  PROVE  InProgress(s)'
<1>0. PICK e, image : e = run[s].extract /\ image = Image[e]
  OBVIOUS
<1>1. /\ s \in Runs /\ e \in Extracts /\ run[r].extract = e
      /\ InProgress(s) /\ OnAgenda(s) /\ WritesWanted(r)
  BY <1>0 DEF Committed, AgendaInv, OnAgenda, FilesInv, OneFile, InProgress, Open
<1>2. /\ DOMAIN rows' = DOMAIN run[r].tx \cup DOMAIN rows
      /\ \A key \in DOMAIN rows' :
           rows'[key] = IF key \in DOMAIN run[r].tx THEN run[r].tx[key] ELSE rows[key]
  BY DEF Committed, Over
<1>3. /\ DOMAIN Seen(s)' = DOMAIN run[s].tx \cup DOMAIN rows'
      /\ \A key \in DOMAIN Seen(s)' :
           Seen(s)'[key] = IF key \in DOMAIN run[s].tx THEN run[s].tx[key] ELSE rows'[key]
  BY DEF Seen, Over
<1>4. /\ DOMAIN Seen(s) \subseteq DOMAIN Seen(s)'
      /\ \A key \in DOMAIN Seen(s) :
           \/ key \in DOMAIN image /\ Seen(s)'[key] = image[key]
           \/ Seen(s)'[key] = Seen(s)[key]
  <2>1. /\ DOMAIN Seen(s) = DOMAIN run[s].tx \cup DOMAIN rows
        /\ \A key \in DOMAIN Seen(s) :
             Seen(s)[key] = IF key \in DOMAIN run[s].tx THEN run[s].tx[key] ELSE rows[key]
    BY <1>1, SeenRow
  <2>2. \A key \in DOMAIN run[r].tx : key \in DOMAIN image /\ run[r].tx[key] = image[key]
    BY <1>0, <1>1 DEF WritesWanted
  <2> QED
    BY <1>2, <1>3, <2>1, <2>2
<1>5. WritesWanted(s)'
  BY <1>1 DEF InProgress, WritesWanted
<1>6. ASSUME NEW key \in DOMAIN run[s].dirty
      PROVE  Over(run[s].dirty[key], Seen(s)'[key]) = image[key]
  <2>1. /\ key \in DOMAIN image \cap DOMAIN Seen(s)
        /\ \A c \in DOMAIN run[s].dirty[key] :
             c \in DOMAIN image[key] /\ run[s].dirty[key][c] = image[key][c]
        /\ Over(run[s].dirty[key], Seen(s)[key]) = image[key]
    BY <1>0, <1>1, <1>6 DEF OnAgenda, InProgress, PendingWanted
  <2>2. image[key] = [c \in DOMAIN image[key] |-> image[key][c]]
    BY <1>0, <1>1, <2>1, WantedRow
  <2>3. Over(run[s].dirty[key], image[key]) = image[key]
    BY <2>1, <2>2, WantedColumns
  <2> QED
    BY <1>4, <2>1, <2>3
<1>7. PendingWanted(s)'
  BY <1>0, <1>6 DEF PendingWanted
<1>8. ResolvedIsWritten(s)'
  BY <1>0, <1>1, <1>4 DEF InProgress, ResolvedIsWritten
<1> QED
  BY <1>5, <1>7, <1>8 DEF InProgress

LEMMA NextFilesInv ==
  ASSUME AgendaInv, FilesInv, SameFile, [Next]_vars
  PROVE  FilesInv'
<1>1. CASE UNCHANGED vars
  BY <1>1 DEF vars, FilesInv, OneFile, RowsFromFiles, Open, InProgress, WritesWanted,
              PendingWanted, ResolvedIsWritten, Seen
<1>2. CASE Next
  <2>1. PICK r \in Runs : StepOf(r)
    BY <1>2, StepEffect
  <2>2. OneFile'
    <3>1. \A s \in Open' \ {r} : s \in Open /\ run'[s].extract = run[s].extract
      BY <2>1, OpenAfter DEF StepOf, Open
    <3>2. CASE Began(r)
      BY <3>1, <3>2 DEF Began, OneFile, FilesInv
    <3>3. CASE Resolved(r) \/ Flushed(r)
      <4>1. r \in Open /\ run'[r].extract = run[r].extract
        BY <3>3 DEF Resolved, Rejected, Found, Changed, Created, AtKey,
                    Flushed, FlushedUpdate, FlushedInsert, Keeps
      <4> QED
        BY <3>1, <4>1 DEF OneFile, FilesInv
    <3>4. CASE r \notin Open'
      BY <3>1, <3>4 DEF OneFile, FilesInv
    <3> QED
      BY <2>1, <3>2, <3>3, <3>4, OpenAfter DEF StepOf
  <2>3. RowsFromFiles'
    <3>1. CASE Committed(r)
      <4>1. WritesWanted(r) /\ run[r].extract \in Extracts
        BY <3>1 DEF Committed, AgendaInv, OnAgenda, FilesInv, InProgress
      <4>2. /\ DOMAIN rows' = DOMAIN run[r].tx \cup DOMAIN rows
            /\ \A key \in DOMAIN rows' :
                 rows'[key] = IF key \in DOMAIN run[r].tx THEN run[r].tx[key] ELSE rows[key]
        BY <3>1 DEF Committed, Over
      <4> QED
        BY <4>1, <4>2 DEF FilesInv, RowsFromFiles, WritesWanted
    <3>2. CASE rows' = rows
      BY <3>2 DEF FilesInv, RowsFromFiles
    <3> QED
      BY <2>1, <3>1, <3>2 DEF StepOf, Began, Ended, Resolved, Rejected, Found, Changed,
                              Created, Flushed, FlushedUpdate, FlushedInsert, Keeps
  <2>4. ASSUME NEW s \in Open' PROVE InProgress(s)'
    <3>1. CASE s # r
      <4>1. s \in Open /\ s \in Runs /\ run'[s] = run[s] /\ InProgress(s)
        BY <2>1, <2>4, <3>1, OpenAfter DEF StepOf, Open, FilesInv
      <4>2. CASE rows' = rows
        BY <4>1, <4>2, OthersKeep
      <4>3. CASE Committed(r)
        BY <3>1, <4>1, <4>3, CommittedOthers
      <4> QED
        BY <2>1, <4>2, <4>3 DEF StepOf, Began, Ended, Resolved, Rejected, Found, Changed,
                                Created, Flushed, FlushedUpdate, FlushedInsert, Keeps
    <3>2. CASE s = r
      <4>1. Began(r) \/ Resolved(r) \/ Flushed(r)
        BY <2>1, <2>4, <3>2, OpenAfter DEF StepOf
      <4>2. CASE Began(r)
        BY <3>2, <4>2 DEF Began, InProgress, WritesWanted, PendingWanted, ResolvedIsWritten
      <4> QED
        BY <3>2, <4>1, <4>2, ResolvedInProgress, FlushedInProgress
    <3> QED
      BY <3>1, <3>2
  <2> QED
    BY <2>2, <2>3, <2>4 DEF FilesInv
<1> QED
  BY <1>1, <1>2

LEMMA InitFilesInv == ASSUME Init PROVE FilesInv
<1>1. Open = {}
  BY DEF Init, Open, Closed
<1> QED
  BY <1>1 DEF Init, FilesInv, OneFile, RowsFromFiles

LEMMA FilesInvariant == ASSUME SameFile PROVE Spec => []FilesInv
<1>1. Init => FilesInv
  BY InitFilesInv
<1>2. AgendaInv /\ FilesInv /\ [Next]_vars => FilesInv'
  BY NextFilesInv
<1> QED
  BY <1>1, <1>2, AgendaInvariant, PTL DEF Spec

\* The tables change by whole extracts only: a commit of ingest_osm_file lays
\* all rows of its file over the tables, and nothing else changes them.
THEOREM WholeExtracts == ASSUME SameFile PROVE Spec => ImportsWholeExtracts
<1>1. Init => Network!Init
  BY DEF Init, Network!Init
<1>2. ASSUME AgendaInv, FilesInv, [Next]_vars PROVE [Network!Next]_rows
  <2>1. ASSUME NEW r \in Runs, Commit(r) PROVE Network!Next
    <3>1. /\ r \in Open /\ Finished(r) /\ run[r].dirty = <<>> /\ ~run[r].dry
          /\ rows' = Over(run[r].tx, rows)
      BY <2>1 DEF Commit, Open
    <3>2. run[r].extract \in Extracts
      BY <1>2, <3>1 DEF AgendaInv, OnAgenda
    <3>3. rows' = Over(Image[run[r].extract], rows)
      BY <1>2, <3>1, CommittedRows
    <3> QED
      BY <3>2, <3>3 DEF Network!Next, Network!Import, Network!Over, Over
  <2>2. CASE \E r \in Runs : Commit(r)
    BY <2>1, <2>2
  <2>3. CASE ~\E r \in Runs : Commit(r)
    BY <1>2, <2>3 DEF Next, vars, Begin, ResolveIntersection, ResolveRoad, ResolveSegment,
       Queries, FlushUpdate, FlushInsert, InsertConflict, EndDryRun, Fail, Rollback
  <2> QED
    BY <2>2, <2>3
<1> QED
  BY <1>1, <1>2, AgendaInvariant, FilesInvariant, PTL DEF Spec, ImportsWholeExtracts, Network!Spec

-----------------------------------------------------------------------------
\* One more element of a set, and of one of its parts or not.
LEMMA OneMore ==
  ASSUME NEW S, IsFiniteSet(S), NEW x, x \notin S, NEW P
  PROVE  /\ Cardinality(S \cap P) \in Nat
         /\ x \in P => Cardinality((S \cup {x}) \cap P) = Cardinality(S \cap P) + 1
         /\ x \notin P => Cardinality((S \cup {x}) \cap P) = Cardinality(S \cap P)
<1>1. IsFiniteSet(S \cap P)
  BY FS_Intersection
<1>2. CASE x \in P
  <2>1. (S \cup {x}) \cap P = (S \cap P) \cup {x}
    BY <1>2
  <2> QED
    BY <1>1, <1>2, <2>1, FS_AddElement, FS_CardinalityType
<1>3. CASE x \notin P
  <2>1. (S \cup {x}) \cap P = S \cap P
    BY <1>3
  <2> QED
    BY <1>1, <1>3, <2>1, FS_CardinalityType
<1> QED
  BY <1>2, <1>3

LEMMA FiniteKeys ==
  ASSUME NEW agenda, NEW n \in Nat
  PROVE  IsFiniteSet({agenda[i] : i \in 1 .. n})
<1> DEFINE keys == {agenda[i] : i \in 1 .. n}
           f == [i \in 1 .. n |-> agenda[i]]
<1>1. f \in Surjection(1 .. n, keys)
  BY DEF Surjection
<1>2. IsFiniteSet(1 .. n)
  BY FS_Interval
<1> HIDE DEF f
<1> QED
  BY <1>1, <1>2, FS_Surjection

\* A commit lays the rows of its file over the tables.
LEMMA CommittedImage ==
  ASSUME AgendaInv, FilesInv, StatsInv, NEW r \in Runs, Committed(r)
  PROVE  /\ rows' = [key \in DOMAIN rows' |-> rows'[key]]
         /\ HasImage(rows', run[r].extract) /\ run[r].extract \in Extracts
         /\ HasImage(rows, run[r].extract) => rows' = rows
<1> DEFINE e == run[r].extract
<1>1. rows' = Over(Image[e], rows)
  BY CommittedRows DEF Committed
<1>2. rows = [key \in DOMAIN rows |-> rows[key]]
  BY DEF StatsInv
<1>3. rows' = [key \in DOMAIN rows' |-> rows'[key]] /\ HasImage(rows', e)
  BY <1>1 DEF Over, HasImage
<1>4. ASSUME HasImage(rows, e) PROVE rows' = rows
  <2>1. DOMAIN rows' = DOMAIN rows /\ \A key \in DOMAIN rows : rows'[key] = rows[key]
    BY <1>1, <1>4 DEF Over, HasImage
  <2> QED
    BY <1>2, <1>3, <2>1
<1>5. e \in Extracts
  BY DEF Committed, AgendaInv, OnAgenda
<1> QED
  BY <1>3, <1>4, <1>5

LEMMA OthersCounting ==
  ASSUME AgendaInv, FilesInv, StatsInv, NEW r \in Runs, StepOf(r), NEW s \in Open, s # r
  PROVE  CountingInv(s)'
<1>1. /\ s \in Runs /\ run'[s] = run[s] /\ CountingInv(s)
      /\ Counted(s)' = Counted(s)
  BY DEF StepOf, StatsInv, Open, Counted, Key
<1>2. CASE rows' = rows
  BY <1>1, <1>2 DEF CountingInv, HasImage, Tally, Missing, Different, SameSegments, WithoutRow
<1>3. CASE Committed(r)
  <2>1. run[s].extract = run[r].extract
    BY <1>3 DEF Committed, FilesInv, OneFile
  <2>2. rows' = rows \/ (HasImage(rows', run[s].extract) /\ ~HasImage(rows, run[s].extract))
    BY <1>3, <2>1, CommittedImage
  <2>3. CASE HasImage(rows', run[s].extract) /\ ~HasImage(rows, run[s].extract)
    <3>1. ~HasImage(run[s].base, run[s].extract) /\ rows' # run[s].base
      BY <1>1, <2>3 DEF CountingInv
    <3> QED
      BY <1>1, <2>3, <3>1 DEF CountingInv, HasImage
  <2> QED
    BY <1>2, <2>2, <2>3
<1> QED
  BY <1>2, <1>3 DEF StepOf, Began, Ended, Resolved, Rejected, Found, Changed, Created,
                    Flushed, FlushedUpdate, FlushedInsert, Keeps

\* A run that found every row of its file sees every row of its file.
LEMMA NothingToDo ==
  ASSUME AgendaInv, FilesInv, StatsInv, NEW r \in Open, HasImage(run[r].base, run[r].extract)
  PROVE  /\ rows = run[r].base
         /\ run[r].pc = "select" /\ run[r].tx = <<>> /\ run[r].dirty = <<>>
         /\ \A key \in DOMAIN Image[run[r].extract] :
              key \in DOMAIN Seen(r) /\ Seen(r)[key] = Image[run[r].extract][key]
<1>1. CountingInv(r) /\ r \in Runs
  BY DEF StatsInv, Open
<1>2. rows = run[r].base /\ run[r].pc = "select" /\ run[r].tx = <<>> /\ run[r].dirty = <<>>
  BY <1>1 DEF CountingInv
<1>3. DOMAIN run[r].tx = {}
  BY <1>2
<1> QED
  BY <1>1, <1>2, <1>3, SeenRow DEF HasImage

One(x, set) == IF x \in set THEN 1 ELSE 0

\* Counting one more key.
LEMMA CountedOnce ==
  ASSUME NEW S, IsFiniteSet(S), NEW x, x \notin S, NEW e
  PROVE  Tally(S \cup {x}, e) =
           [created |-> Tally(S, e).created + One(x, Missing(e)),
            updated |-> Tally(S, e).updated + One(x, Different(e)),
            skipped |-> Tally(S, e).skipped + One(x, SameSegments(e)),
            rejected |-> Tally(S, e).rejected + One(x, WithoutRow(e))]
<1>1. Cardinality((S \cup {x}) \cap Missing(e))
        = Cardinality(S \cap Missing(e)) + One(x, Missing(e))
  BY OneMore DEF One
<1>2. Cardinality((S \cup {x}) \cap Different(e))
        = Cardinality(S \cap Different(e)) + One(x, Different(e))
  BY OneMore DEF One
<1>3. Cardinality((S \cup {x}) \cap SameSegments(e))
        = Cardinality(S \cap SameSegments(e)) + One(x, SameSegments(e))
  BY OneMore DEF One
<1>4. Cardinality((S \cup {x}) \cap WithoutRow(e))
        = Cardinality(S \cap WithoutRow(e)) + One(x, WithoutRow(e))
  BY OneMore DEF One
<1> QED
  BY <1>1, <1>2, <1>3, <1>4 DEF Tally

LEMMA TallyCounts ==
  ASSUME NEW S, IsFiniteSet(S), NEW e
  PROVE  /\ Tally(S, e).created \in Nat /\ Tally(S, e).updated \in Nat
         /\ Tally(S, e).skipped \in Nat /\ Tally(S, e).rejected \in Nat
         /\ Tally(S, e) = [created |-> Tally(S, e).created, updated |-> Tally(S, e).updated,
                           skipped |-> Tally(S, e).skipped, rejected |-> Tally(S, e).rejected]
<1>1. /\ Cardinality(S \cap Missing(e)) \in Nat /\ Cardinality(S \cap Different(e)) \in Nat
      /\ Cardinality(S \cap SameSegments(e)) \in Nat /\ Cardinality(S \cap WithoutRow(e)) \in Nat
  BY FS_Intersection, FS_CardinalityType
<1> QED
  BY <1>1 DEF Tally

\* The keys a run has counted are finitely many, and the next one is new.
LEMMA CountedKeys ==
  ASSUME AgendaInv, NEW r \in Open
  PROVE  /\ IsFiniteSet({Agenda[run[r].extract][i] : i \in 1 .. run[r].done})
         /\ ~Finished(r) => Key(r) \notin {Agenda[run[r].extract][i] : i \in 1 .. run[r].done}
<1>1. run[r].done \in Nat
  BY Plan DEF AgendaInv, OnAgenda
<1>2. ~Finished(r) => \A i \in 1 .. run[r].done : Agenda[run[r].extract][i] # Key(r)
  BY NewKey
<1> QED
  BY <1>1, <1>2, FiniteKeys

\* One more resolved key.
LEMMA MoreKeys ==
  ASSUME NEW agenda, NEW n \in Nat
  PROVE  {agenda[i] : i \in 1 .. n + 1} = {agenda[i] : i \in 1 .. n} \cup {agenda[n + 1]}
<1>1. \A i \in 1 .. n + 1 : i \in 1 .. n \/ i = n + 1
  OBVIOUS
<1>2. \A i \in 1 .. n : i \in 1 .. n + 1
  OBVIOUS
<1>3. n + 1 \in 1 .. n + 1
  OBVIOUS
<1> QED
  BY <1>1, <1>2, <1>3

LEMMA ResolvedCounted ==
  ASSUME AgendaInv, NEW r \in Runs, Resolved(r)
  PROVE  Counted(r)' = Counted(r) \cup {Key(r)} /\ Key(r) \notin Counted(r)
         /\ IsFiniteSet(Counted(r))
<1> DEFINE e == run[r].extract
           keys == {Agenda[e][i] : i \in 1 .. run[r].done}
<1>1. AtKey(r) /\ r \in Open /\ run'[r].extract = e
  BY DEF Resolved, Rejected, Found, Changed, Created, AtKey, Keeps
<1>2. run[r].done \in Nat /\ Key(r) = Agenda[e][run[r].done + 1] /\ ~Finished(r)
  BY <1>1, KeyAhead DEF AtKey
<1>3. Counted(r) = keys
  BY <1>1 DEF Counted, AtKey
<1>4. Key(r) \notin keys /\ IsFiniteSet(keys)
  BY <1>1, <1>2, CountedKeys
<1>5. CASE run'[r].pc = "insert" /\ run'[r].done = run[r].done
  BY <1>1, <1>3, <1>4, <1>5 DEF Counted, Key
<1>6. CASE run'[r].pc = "select" /\ run'[r].done = run[r].done + 1
  <2>1. Counted(r)' = {Agenda[e][i] : i \in 1 .. run[r].done + 1}
    BY <1>1, <1>6 DEF Counted
  <2> QED
    BY <1>2, <1>3, <1>4, <2>1, MoreKeys
<1> QED
  BY <1>5, <1>6 DEF Resolved, Rejected, Found, Changed, Created

LEMMA ResolvedCounting ==
  ASSUME AgendaInv, FilesInv, StatsInv, NEW r \in Runs, Resolved(r)
  PROVE  CountingInv(r)'
<1>0. PICK e, k, keys : e = run[r].extract /\ k = Key(r) /\ keys = Counted(r)
  OBVIOUS
<1> DEFINE after == Tally(keys \cup {k}, e)
<1>1. AtKey(r) /\ r \in Open /\ Keeps(r) /\ run'[r].tx = run[r].tx
  BY DEF Resolved, Rejected, Found, Changed, Created, AtKey
<1>2. /\ run'[r].extract = e /\ run'[r].base = run[r].base /\ rows' = rows
      /\ CountingInv(r)
  BY <1>0, <1>1 DEF Keeps, StatsInv
<1>3. ASSUME rows = run[r].base PROVE run'[r].stats = after
  <2>0. IsFiniteSet(keys) /\ k \notin keys
    BY <1>0, ResolvedCounted
  <2>1. run[r].stats = Tally(keys, e)
    BY <1>0, <1>2, <1>3 DEF CountingInv
  <2>2. /\ k \in Keys(e) /\ k \notin DOMAIN run[r].tx
    BY <1>0, <1>1, KeyAhead, NewKey DEF AtKey
  <2>3. /\ k \in DOMAIN Seen(r) <=> k \in DOMAIN rows
        /\ k \in DOMAIN rows => Seen(r)[k] = rows[k]
    BY <2>2, SeenRow
  <2>4. PICK tally : tally = Tally(keys, e)
    OBVIOUS
  <2>5. /\ tally.created \in Nat /\ tally.updated \in Nat
        /\ tally.skipped \in Nat /\ tally.rejected \in Nat
        /\ tally = [created |-> tally.created, updated |-> tally.updated,
                    skipped |-> tally.skipped, rejected |-> tally.rejected]
    BY <2>0, <2>4, TallyCounts
  <2>6. after = [created |-> tally.created + One(k, Missing(e)),
                 updated |-> tally.updated + One(k, Different(e)),
                 skipped |-> tally.skipped + One(k, SameSegments(e)),
                 rejected |-> tally.rejected + One(k, WithoutRow(e))]
    BY <2>0, <2>4, CountedOnce
  <2> HIDE DEF after
  <2>7. CASE Rejected(r)
    <3>1. k \in WithoutRow(e) /\ k \notin Missing(e) \cup Different(e) \cup SameSegments(e)
      BY <1>0, <2>2, <2>3, <2>7 DEF Rejected, Missing, Different, SameSegments, WithoutRow
    <3>2. run'[r].stats = [tally EXCEPT !.rejected = @ + 1]
      BY <2>1, <2>4, <2>7 DEF Rejected, Count
    <3>3. /\ One(k, WithoutRow(e)) = 1
          /\ One(k, Missing(e)) = 0
          /\ One(k, Different(e)) = 0
          /\ One(k, SameSegments(e)) = 0
      BY <3>1 DEF One
    <3> QED
      BY <2>5, <2>6, <3>2, <3>3
  <2>8. CASE Created(r)
    <3>1. k \in Missing(e) /\ k \notin Different(e) \cup SameSegments(e) \cup WithoutRow(e)
      BY <1>0, <2>2, <2>3, <2>8 DEF Created, Missing, Different, SameSegments, WithoutRow
    <3>2. run'[r].stats = [tally EXCEPT !.created = @ + 1]
      BY <2>1, <2>4, <2>8 DEF Created, Count
    <3>3. /\ One(k, Missing(e)) = 1
          /\ One(k, Different(e)) = 0
          /\ One(k, SameSegments(e)) = 0
          /\ One(k, WithoutRow(e)) = 0
      BY <3>1 DEF One
    <3> QED
      BY <2>5, <2>6, <3>2, <3>3
  <2>9. CASE Changed(r)
    <3>1. k \in Different(e) /\ k \notin Missing(e) \cup SameSegments(e) \cup WithoutRow(e)
      BY <1>0, <2>2, <2>3, <2>9 DEF Changed, Wanted, Missing, Different, SameSegments, WithoutRow
    <3>2. run'[r].stats = [tally EXCEPT !.updated = @ + 1]
      BY <2>1, <2>4, <2>9 DEF Changed, Count
    <3>3. /\ One(k, Different(e)) = 1
          /\ One(k, Missing(e)) = 0
          /\ One(k, SameSegments(e)) = 0
          /\ One(k, WithoutRow(e)) = 0
      BY <3>1 DEF One
    <3> QED
      BY <2>5, <2>6, <3>2, <3>3
  <2>10. CASE Found(r) /\ k[1] = "segment"
    <3>1. k \in SameSegments(e) /\ k \notin Missing(e) \cup Different(e) \cup WithoutRow(e)
      BY <1>0, <2>2, <2>3, <2>10 DEF Found, Wanted, Missing, Different, SameSegments, WithoutRow
    <3>2. run'[r].stats = [tally EXCEPT !.skipped = @ + 1]
      BY <1>0, <2>1, <2>4, <2>10 DEF Found, Count
    <3>3. /\ One(k, SameSegments(e)) = 1
          /\ One(k, Missing(e)) = 0
          /\ One(k, Different(e)) = 0
          /\ One(k, WithoutRow(e)) = 0
      BY <3>1 DEF One
    <3> QED
      BY <2>5, <2>6, <3>2, <3>3
  <2>11. CASE Found(r) /\ k[1] # "segment"
    <3>1. k \notin Missing(e) \cup Different(e) \cup SameSegments(e) \cup WithoutRow(e)
      BY <1>0, <2>2, <2>3, <2>11 DEF Found, Wanted, Missing, Different, SameSegments, WithoutRow
    <3>2. run'[r].stats = tally
      BY <1>0, <2>1, <2>4, <2>11 DEF Found
    <3>3. /\ One(k, Missing(e)) = 0 /\ One(k, Different(e)) = 0
          /\ One(k, SameSegments(e)) = 0 /\ One(k, WithoutRow(e)) = 0
      BY <3>1 DEF One
    <3> QED
      BY <2>5, <2>6, <3>2, <3>3
  <2> QED
    BY <2>7, <2>8, <2>9, <2>10, <2>11 DEF Resolved
<1>4. ASSUME HasImage(run[r].base, e)
      PROVE  /\ run'[r].pc = "select" /\ run'[r].tx = <<>> /\ run'[r].dirty = <<>>
             /\ run'[r].stats.created = 0 /\ run'[r].stats.updated = 0
  <2>1. /\ rows = run[r].base /\ run[r].tx = <<>>
        /\ \A key \in DOMAIN Image[e] : key \in DOMAIN Seen(r) /\ Seen(r)[key] = Image[e][key]
    BY <1>0, <1>1, <1>4, NothingToDo
  <2>2. ~Created(r) /\ ~Changed(r)
    BY <1>0, <2>1 DEF Created, Changed, Wanted
  <2>3. run'[r].pc = "select" /\ run'[r].tx = <<>> /\ run'[r].dirty = <<>>
    BY <1>1, <2>1, <2>2 DEF Resolved, Rejected, Found
  <2>4. run[r].stats.created = 0 /\ run[r].stats.updated = 0
    BY <1>0, <1>2, <1>4 DEF CountingInv
  <2>5. run[r].stats = [c \in {"created", "updated", "skipped", "rejected"} |-> run[r].stats[c]]
    BY <1>0, <1>2, <2>1 DEF CountingInv, Tally
  <2>6. run'[r].stats.created = 0 /\ run'[r].stats.updated = 0
    BY <2>2, <2>4, <2>5 DEF Resolved, Rejected, Found, Count
  <2> QED
    BY <2>3, <2>6
<1>5. Tally(Counted(r), run[r].extract)' = after
  BY <1>0, <1>2, ResolvedCounted DEF Tally, Missing, Different, SameSegments, WithoutRow
<1> HIDE DEF after
<1>6. CountingInv(r)
  BY <1>2
<1>7. \/ rows = run[r].base
      \/ HasImage(rows, e) /\ ~HasImage(run[r].base, e)
  BY <1>0, <1>6 DEF CountingInv
<1> QED
  BY <1>2, <1>3, <1>4, <1>5, <1>7 DEF CountingInv, HasImage

LEMMA FlushedCounting ==
  ASSUME AgendaInv, FilesInv, StatsInv, NEW r \in Runs, Flushed(r)
  PROVE  CountingInv(r)'
<1>0. PICK e : e = run[r].extract
  OBVIOUS
<1>1. /\ r \in Open /\ Keeps(r) /\ run'[r].stats = run[r].stats
  BY DEF Flushed, FlushedUpdate, FlushedInsert
<1>2. /\ run'[r].extract = e /\ run'[r].base = run[r].base /\ rows' = rows
      /\ CountingInv(r)
  BY <1>0, <1>1 DEF Keeps, StatsInv
<1>3. ~HasImage(run[r].base, e)
  <2>1. SUFFICES ASSUME HasImage(run[r].base, e) PROVE FALSE
    OBVIOUS
  <2>2. run[r].pc = "select" /\ DOMAIN run[r].dirty = {}
    BY <1>0, <1>1, <2>1, NothingToDo
  <2> QED
    BY <2>2 DEF Flushed, FlushedUpdate, FlushedInsert
<1>4. Counted(r)' = Counted(r)
  <2>1. CASE FlushedUpdate(r)
    <3>1. run'[r].pc = run[r].pc /\ run'[r].done = run[r].done
      BY <2>1 DEF FlushedUpdate
    <3> QED
      BY <1>0, <1>2, <3>1 DEF Counted, Key
  <2>2. CASE FlushedInsert(r)
    <3>1. /\ run[r].pc = "insert" /\ run'[r].pc = "select"
          /\ run'[r].done = run[r].done + 1
      BY <2>2 DEF FlushedInsert
    <3>2. run[r].done \in Nat /\ Key(r) = Agenda[e][run[r].done + 1]
      BY <1>0, <1>1, <3>1, KeyAhead DEF AgendaInv, OnAgenda
    <3>3. Counted(r) = {Agenda[e][i] : i \in 1 .. run[r].done} \cup {Key(r)}
      BY <1>0, <3>1 DEF Counted
    <3>4. Counted(r)' = {Agenda[e][i] : i \in 1 .. run[r].done + 1}
      BY <1>2, <3>1 DEF Counted
    <3> QED
      BY <3>2, <3>3, <3>4, MoreKeys
  <2> QED
    BY <2>1, <2>2 DEF Flushed
<1>5. Tally(Counted(r), run[r].extract)' = Tally(Counted(r), run[r].extract)
  BY <1>0, <1>2, <1>4 DEF Tally, Missing, Different, SameSegments, WithoutRow
<1> QED
  BY <1>0, <1>1, <1>2, <1>3, <1>5 DEF CountingInv, HasImage

LEMMA BeganCounting ==
  ASSUME NEW r \in Runs, Began(r)
  PROVE  CountingInv(r)'
<1>1. /\ run'[r].base = rows' /\ run'[r].pc = "select" /\ run'[r].tx = <<>>
      /\ run'[r].dirty = <<>> /\ run'[r].stats = NoStats /\ run'[r].done = 0
  BY DEF Began
<1>2. Counted(r)' = {}
  BY <1>1 DEF Counted
<1>3. Tally(Counted(r), run[r].extract)' = NoStats
  <2>1. \A S : Cardinality({} \cap S) = 0
    BY FS_EmptySet
  <2> QED
    BY <1>2, <2>1 DEF Tally, NoStats
<1> QED
  BY <1>1, <1>3 DEF CountingInv, NoStats

LEMMA NextStatsInv ==
  ASSUME AgendaInv, FilesInv, StatsInv, [Next]_vars
  PROVE  StatsInv'
<1>1. CASE UNCHANGED vars
  BY <1>1 DEF vars, StatsInv, Open, CountingInv, HasImage, Counted, Key, Tally, Missing,
              Different, SameSegments, WithoutRow
<1>2. CASE Next
  <2>1. PICK r \in Runs : StepOf(r)
    BY <1>2, StepEffect
  <2>2. ASSUME NEW s \in Open' PROVE CountingInv(s)'
    <3>1. CASE s # r
      <4>1. s \in Open
        BY <2>1, <2>2, <3>1, OpenAfter DEF Open
      <4> QED
        BY <2>1, <3>1, <4>1, OthersCounting
    <3>2. CASE s = r
      <4>1. Began(r) \/ Resolved(r) \/ Flushed(r)
        BY <2>1, <2>2, <3>2, OpenAfter DEF StepOf
      <4> QED
        BY <3>2, <4>1, BeganCounting, ResolvedCounting, FlushedCounting
    <3> QED
      BY <3>1, <3>2
  <2>3. /\ rows' = [key \in DOMAIN rows' |-> rows'[key]]
        /\ imported' # Nothing => imported' \in Extracts /\ HasImage(rows', imported')
    <3>1. CASE Committed(r)
      BY <3>1, CommittedImage DEF Committed
    <3>2. CASE rows' = rows /\ imported' = imported
      BY <3>2 DEF StatsInv, HasImage
    <3> QED
      BY <2>1, <3>1, <3>2 DEF StepOf, Began, Ended, Resolved, Rejected, Found, Changed,
                              Created, Flushed, FlushedUpdate, FlushedInsert, Keeps
  <2> QED
    BY <2>2, <2>3 DEF StatsInv, HasImage
<1> QED
  BY <1>1, <1>2

LEMMA InitStatsInv == ASSUME Init PROVE StatsInv
<1>1. rows = [key \in DOMAIN rows |-> rows[key]]
  BY DEF Init
<1> QED
  BY <1>1 DEF Init, StatsInv, Open, Closed

\* All keys of a file are counted by a run that is finished.
LEMMA AllCounted ==
  ASSUME AgendaInv, NEW r \in Open, Finished(r), run[r].pc = "select"
  PROVE  /\ Counted(r) = Keys(run[r].extract)
         /\ DOMAIN Image[run[r].extract] \subseteq Keys(run[r].extract)
<1>1. run[r].extract \in Extracts
  BY DEF AgendaInv, OnAgenda
<1>2. DOMAIN Agenda[run[r].extract] = 1 .. run[r].done
  BY <1>1, Plan DEF Finished
<1>3. DOMAIN Image[run[r].extract] \subseteq Keys(run[r].extract)
  BY <1>1, PlanAssumption
<1> QED
  BY <1>2, <1>3 DEF Counted, Keys

\* The invariant of counting, for runs that read the same file while they are
\* open together.
LEMMA StatsInvariant == ASSUME SameFile PROVE Spec => []StatsInv
<1>1. Init => StatsInv
  BY InitStatsInv
<1>2. AgendaInv /\ FilesInv /\ StatsInv /\ [Next]_vars => StatsInv'
  BY NextStatsInv
<1> QED
  BY <1>1, <1>2, FilesInvariant, AgendaInvariant, PTL DEF Spec

\* For every set of files, every number of runs that read the same file while
\* they are open together, with any failures: each run stays within the rows
\* of its file, what it has resolved is written or pending, and its statistics
\* tell the resolved keys apart as the tables do.
THEOREM RunsInvariant == ASSUME SameFile PROVE Spec => []IInv
<1>1. Init => ReferencesInv
  BY InitReferencesInv
<1>2. AgendaInv /\ ReferencesInv /\ [Next]_vars => ReferencesInv'
  BY NextReferencesInv
<1> QED
  BY <1>1, <1>2, AgendaInvariant, FilesInvariant, StatsInvariant, PTL DEF Spec, IInv

\* Importing the extract that was imported last writes nothing: not one row is
\* created or updated, or waits to be.
THEOREM RerunsWriteNothing == ASSUME SameFile PROVE Spec => []RerunWritesNothing
<1>1. AgendaInv /\ FilesInv /\ StatsInv => RerunWritesNothing
  <2>1. SUFFICES ASSUME AgendaInv, FilesInv, StatsInv, NEW r \in Open, Undisturbed(r),
                        run[r].extract = imported
                 PROVE  /\ run[r].tx = <<>> /\ run[r].dirty = <<>>
                        /\ run[r].stats.created = 0 /\ run[r].stats.updated = 0
    BY DEF RerunWritesNothing
  <2>2. run[r].extract \in Extracts /\ rows = run[r].base
    BY <2>1 DEF AgendaInv, OnAgenda, Undisturbed
  <2>3. HasImage(run[r].base, run[r].extract)
    BY <2>1, <2>2, PlanAssumption DEF StatsInv
  <2> QED
    BY <2>1, <2>3 DEF StatsInv, CountingInv
<1> QED
  BY <1>1, FilesInvariant, AgendaInvariant, StatsInvariant, PTL

\* The statistics of a finished run, a dry run or a real one, are the
\* differences between the tables and its file, for every file and whatever
\* the tables held before.
THEOREM StatsTellDifferences == ASSUME SameFile PROVE Spec => []StatsAreExact
<1>1. AgendaInv /\ StatsInv => StatsAreExact
  <2>1. SUFFICES ASSUME AgendaInv, StatsInv, NEW r \in Open, Undisturbed(r)
        PROVE  run[r].stats = [created |-> Cardinality(Missing(run[r].extract)),
                               updated |-> Cardinality(Different(run[r].extract)),
                               skipped |-> Cardinality(SameSegments(run[r].extract)),
                               rejected |-> Cardinality(WithoutRow(run[r].extract))]
    BY DEF StatsAreExact
  <2>2. PICK e, keys : e = run[r].extract /\ keys = Keys(e)
    OBVIOUS
  <2>3. Counted(r) = keys /\ DOMAIN Image[e] \subseteq keys
    BY <2>1, <2>2, AllCounted DEF Undisturbed
  <2>4. run[r].stats = Tally(keys, e)
    BY <2>1, <2>2, <2>3 DEF StatsInv, CountingInv, Undisturbed
  <2>5. /\ keys \cap Missing(e) = Missing(e) /\ keys \cap Different(e) = Different(e)
        /\ keys \cap SameSegments(e) = SameSegments(e)
        /\ keys \cap WithoutRow(e) = WithoutRow(e)
    BY <2>2, <2>3 DEF Missing, Different, SameSegments, WithoutRow
  <2> QED
    BY <2>2, <2>4, <2>5 DEF Tally
<1> QED
  BY <1>1, AgendaInvariant, StatsInvariant, PTL
=============================================================================
