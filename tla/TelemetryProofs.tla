-------------------------- MODULE TelemetryProofs ---------------------------
(***************************************************************************)
(* Proofs about Telemetry for every set of slots, vehicles, sources and      *)
(* segments, with every failure and with or without serial clients.          *)
(***************************************************************************)
EXTENDS Telemetry, TLAPS

-----------------------------------------------------------------------------
\* The row made for a known payload is a row of the table, and its key is the
\* payload's.
LEMMA RowForType ==
  ASSUME NEW e \in Events, e.vehicle \in Registered,
         NEW segment \in Segments \cup {NoSegment}
  PROVE  /\ RowFor(e, segment) \in Rows
         /\ Key(RowFor(e, segment)) = Key(e)
  BY DEF RowFor, Rows, Key, Events

\* A row's projection is a state.
LEMMA StateOfType ==
  ASSUME NEW row \in Rows
  PROVE  StateOf(row) \in States
  BY DEF StateOf, Rows, States

LEMMA InitInv == Init => IInv
  <1> SUFFICES ASSUME Init PROVE IInv
    OBVIOUS
  <1> USE ConstantsAssumption DEF Init
  <1>1. TypeOK
    BY DEF TypeOK, Times, Results, Awaits
  <1>2. PayloadKnown /\ InsertedIsOwn /\ OneInsertPerKey /\ PendingResult
    BY DEF PayloadKnown, InsertedIsOwn, OneInsertPerKey, PendingResult
  <1>3. AnsweredPayload /\ OneRowPerKey /\ AcceptedIsDurable /\ DuplicateIsDurable
    BY DEF AnsweredPayload, OneRowPerKey, AcceptedIsDurable, DuplicateIsDurable, Accepted
  <1> QED
    BY <1>1, <1>2, <1>3 DEF IInv

\* What Leave does to the slot that answers.
LEMMA LeaveSlot ==
  ASSUME TypeOK, NEW r \in Requests, NEW answer \in Results, Leave(r, answer)
  PROVE  /\ pc' \in [Requests -> Awaits \cup {"ready"}]
         /\ event' \in [Requests -> Events \cup {NoEvent}]
         /\ previous' \in [Requests -> Timestamps \cup {NoTs}]
         /\ inserted' \in [Requests -> Rows \cup {NoRow}]
         /\ result' \in [Requests -> Results]
         /\ pc'[r] = "ready" /\ inserted'[r] = NoRow /\ result'[r] = answer
         /\ answer \in Accepted \cup {"duplicate"} => event'[r] = event[r]
         /\ \A s \in Requests \ {r} :
              /\ pc'[s] = pc[s] /\ event'[s] = event[s]
              /\ inserted'[s] = inserted[s] /\ result'[s] = result[s]
  BY DEF Leave, GoTo, TypeOK

\* A step that lets r answer, with what its transaction wrote added to the table
\* or not, keeps the invariant if the answer tells the truth.
LEMMA LeavePreserves ==
  ASSUME IInv, NEW r \in Requests, NEW answer \in Results, Leave(r, answer),
         \/ history' = history
         \/ pc[r] = "commit" /\ history' = TableAfter(r),
         answer \in Accepted =>
           /\ inserted[r] # NoRow
           /\ history' = TableAfter(r),
         answer = "duplicate" => pc[r] # "ready" /\ Recorded(event[r]),
         UNCHANGED <<clock, redisUp, cache>>
  PROVE  IInv'
  <1> USE ConstantsAssumption
  <1>0. TypeOK /\ PayloadKnown /\ InsertedIsOwn /\ OneInsertPerKey /\ PendingResult
        /\ AnsweredPayload /\ OneRowPerKey /\ AcceptedIsDurable /\ DuplicateIsDurable
    BY DEF IInv
  <1>1. /\ pc' \in [Requests -> Awaits \cup {"ready"}]
        /\ event' \in [Requests -> Events \cup {NoEvent}]
        /\ previous' \in [Requests -> Timestamps \cup {NoTs}]
        /\ inserted' \in [Requests -> Rows \cup {NoRow}]
        /\ result' \in [Requests -> Results]
        /\ pc'[r] = "ready" /\ inserted'[r] = NoRow /\ result'[r] = answer
        /\ answer \in Accepted \cup {"duplicate"} => event'[r] = event[r]
        /\ \A s \in Requests \ {r} :
              /\ pc'[s] = pc[s] /\ event'[s] = event[s]
              /\ inserted'[s] = inserted[s] /\ result'[s] = result[s]
    BY <1>0, LeaveSlot
  <1>2. history \subseteq history' /\ history' \subseteq history \cup Written(r)
    BY DEF TableAfter
  <1>3. TypeOK'
    BY <1>0, <1>1, <1>2 DEF TypeOK, Written
  <1>4. \A row \in history' \ history :
          row = inserted[r] /\ inserted[r] # NoRow /\ Key(row) = Key(event[r])
          /\ ~Recorded(event[r]) /\ event[r] \in Events
    <2> SUFFICES ASSUME NEW row \in history' \ history
                 PROVE  row = inserted[r] /\ inserted[r] # NoRow /\ Key(row) = Key(event[r])
                        /\ ~Recorded(event[r]) /\ event[r] \in Events
      OBVIOUS
    <2>1. row = inserted[r] /\ inserted[r] # NoRow
      BY <1>2 DEF Written
    <2>2. inserted[r] = RowFor(event[r], inserted[r].segment) /\ ~Recorded(event[r])
          /\ pc[r] # "ready"
      BY <1>0, <2>1 DEF InsertedIsOwn
    <2>3. event[r] \in Events
      BY <1>0, <2>2 DEF PayloadKnown
    <2> QED
      BY <2>1, <2>2, <2>3 DEF RowFor, Key
  <1>5. \A e \in Events : Recorded(e) => Recorded(e)'
    BY <1>2 DEF Recorded
  <1>6. PayloadKnown'
    BY <1>0, <1>1 DEF PayloadKnown
  <1>7. InsertedIsOwn'
    <2> SUFFICES ASSUME NEW s \in Requests, inserted'[s] # NoRow
                 PROVE  /\ pc'[s] \in {"publish", "commit"}
                        /\ result'[s] \in Accepted
                        /\ inserted'[s] = RowFor(event'[s], inserted'[s].segment)
                        /\ ~Recorded(event[s])'
      BY DEF InsertedIsOwn
    <2>1. s # r
      BY <1>1
    <2>2. /\ pc[s] \in {"publish", "commit"}
          /\ result[s] \in Accepted
          /\ inserted[s] = RowFor(event[s], inserted[s].segment)
          /\ ~Recorded(event[s])
      BY <1>0, <1>1, <2>1 DEF InsertedIsOwn
    <2>3. Key(inserted[s]) = Key(event[s])
      BY <2>2 DEF RowFor, Key
    <2>4. \A row \in history' \ history : Key(row) # Key(event[s])
      BY <1>0, <1>1, <1>4, <2>1, <2>3 DEF OneInsertPerKey
    <2>5. ~Recorded(event[s])'
      BY <1>1, <2>1, <2>2, <2>4 DEF Recorded
    <2> QED
      BY <1>1, <2>1, <2>2, <2>5
  <1>8. OneInsertPerKey'
    BY <1>0, <1>1 DEF OneInsertPerKey
  <1>9. PendingResult'
    <2> SUFFICES ASSUME NEW s \in Requests
                 PROVE  /\ pc'[s] = "publish" => inserted'[s] # NoRow
                        /\ pc'[s] = "commit" =>
                             \/ inserted'[s] # NoRow
                             \/ result'[s] = "duplicate" /\ Recorded(event[s])'
      BY DEF PendingResult
    <2>1. CASE s = r
      BY <1>1, <2>1
    <2>2. CASE s # r
      BY <1>0, <1>1, <1>2, <2>2 DEF PendingResult, Recorded
    <2> QED
      BY <2>1, <2>2
  <1>10. AnsweredPayload'
    <2> SUFFICES ASSUME NEW s \in Requests, pc'[s] = "ready",
                        result'[s] \in Accepted \cup {"duplicate"}
                 PROVE  event'[s] \in Events
      BY DEF AnsweredPayload
    <2>1. CASE s = r
      <3>1. pc[r] # "ready"
        BY <1>0, <1>1, <2>1 DEF InsertedIsOwn
      <3> QED
        BY <1>0, <1>1, <2>1, <3>1 DEF PayloadKnown
    <2>2. CASE s # r
      BY <1>0, <1>1, <2>2 DEF AnsweredPayload
    <2> QED
      BY <2>1, <2>2
  <1>11. OneRowPerKey'
    <2> SUFFICES ASSUME NEW row \in history', NEW other \in history',
                        Key(row) = Key(other)
                 PROVE  row = other
      BY DEF OneRowPerKey
    <2>1. CASE row \in history /\ other \in history
      BY <1>0, <2>1 DEF OneRowPerKey
    <2>2. CASE row \notin history /\ other \notin history
      BY <1>4, <2>2
    <2>3. CASE row \in history /\ other \notin history
      BY <1>4, <2>3 DEF Recorded
    <2>4. CASE row \notin history /\ other \in history
      BY <1>4, <2>4 DEF Recorded
    <2> QED
      BY <2>1, <2>2, <2>3, <2>4
  <1>12. AcceptedIsDurable'
    <2> SUFFICES ASSUME NEW s \in Requests, pc'[s] = "ready", result'[s] \in Accepted
                 PROVE  \E row \in history' : row = RowFor(event'[s], row.segment)
      BY DEF AcceptedIsDurable
    <2>1. CASE s = r
      <3>1. inserted[r] \in history'
        BY <1>1, <2>1 DEF Written, TableAfter
      <3>2. inserted[r] = RowFor(event'[r], inserted[r].segment)
        BY <1>0, <1>1, <2>1 DEF InsertedIsOwn
      <3> QED
        BY <2>1, <3>1, <3>2
    <2>2. CASE s # r
      BY <1>0, <1>1, <1>2, <2>2 DEF AcceptedIsDurable
    <2> QED
      BY <2>1, <2>2
  <1>13. DuplicateIsDurable'
    <2> SUFFICES ASSUME NEW s \in Requests, pc'[s] = "ready", result'[s] = "duplicate"
                 PROVE  Recorded(event[s])'
      BY DEF DuplicateIsDurable
    <2>1. CASE s = r
      BY <1>1, <1>2, <2>1 DEF Recorded
    <2>2. CASE s # r
      BY <1>0, <1>1, <1>2, <2>2 DEF DuplicateIsDurable, Recorded
    <2> QED
      BY <2>1, <2>2
  <1> QED
    BY <1>3, <1>6, <1>7, <1>8, <1>9, <1>10, <1>11, <1>12, <1>13 DEF IInv

-----------------------------------------------------------------------------
\* Each action preserves the invariant.

LEMMA ReceiveInv ==
  ASSUME IInv, NEW r \in Requests, NEW e \in Events, Receive(r, e)
  PROVE  IInv'
  <1> USE ConstantsAssumption
  <1>1. CASE ~ValidAt(e, clock)
    BY <1>1, LeavePreserves DEF Receive, Results, Accepted
  <1>2. CASE ValidAt(e, clock)
    <2>0. /\ pc[r] = "ready" /\ pc' = [pc EXCEPT ![r] = "exists"]
          /\ event' = [event EXCEPT ![r] = e]
          /\ result' = [result EXCEPT ![r] = "none"]
          /\ UNCHANGED <<clock, history, redisUp, cache, previous, inserted>>
      BY <1>2 DEF Receive, GoTo
    <2>1. inserted[r] = NoRow
      BY <2>0 DEF IInv, InsertedIsOwn
    <2>2. TypeOK'
      BY <2>0 DEF IInv, TypeOK, Awaits, Results
    <2>3. PayloadKnown' /\ AnsweredPayload' /\ OneInsertPerKey' /\ OneRowPerKey'
      BY <2>0 DEF IInv, TypeOK, PayloadKnown, AnsweredPayload, OneInsertPerKey, OneRowPerKey
    <2>4. InsertedIsOwn' /\ PendingResult'
      BY <2>0, <2>1 DEF IInv, TypeOK, InsertedIsOwn, PendingResult, Recorded
    <2>5. AcceptedIsDurable' /\ DuplicateIsDurable'
      BY <2>0 DEF IInv, TypeOK, AcceptedIsDurable, DuplicateIsDurable, Recorded
    <2> QED
      BY <2>2, <2>3, <2>4, <2>5 DEF IInv
  <1> QED
    BY <1>1, <1>2

LEMMA CheckVehicleInv ==
  ASSUME IInv, NEW r \in Requests, CheckVehicle(r)
  PROVE  IInv'
  <1> USE ConstantsAssumption
  <1>1. CASE event[r].vehicle \notin Registered
    BY <1>1, LeavePreserves DEF CheckVehicle, Results, Accepted
  <1>2. CASE event[r].vehicle \in Registered
    <2>0. /\ pc[r] = "exists" /\ pc' = [pc EXCEPT ![r] = "duplicate"]
          /\ UNCHANGED <<clock, history, redisUp, cache, event, previous, inserted, result>>
      BY <1>2 DEF CheckVehicle, GoTo
    <2>1. inserted[r] = NoRow
      BY <2>0 DEF IInv, InsertedIsOwn
    <2>2. TypeOK'
      BY <2>0 DEF IInv, TypeOK, Awaits
    <2>3. PayloadKnown' /\ AnsweredPayload' /\ OneInsertPerKey' /\ OneRowPerKey'
      BY <1>2, <2>0 DEF IInv, TypeOK, PayloadKnown, AnsweredPayload, OneInsertPerKey, OneRowPerKey
    <2>4. InsertedIsOwn' /\ PendingResult'
      BY <2>0, <2>1 DEF IInv, TypeOK, InsertedIsOwn, PendingResult, Recorded
    <2>5. AcceptedIsDurable' /\ DuplicateIsDurable'
      BY <2>0 DEF IInv, TypeOK, AcceptedIsDurable, DuplicateIsDurable, Recorded
    <2> QED
      BY <2>2, <2>3, <2>4, <2>5 DEF IInv
  <1> QED
    BY <1>1, <1>2

LEMMA CheckDuplicateInv ==
  ASSUME IInv, NEW r \in Requests, CheckDuplicate(r)
  PROVE  IInv'
  <1> USE ConstantsAssumption
  <1>0. /\ pc[r] = "duplicate"
        /\ pc' = [pc EXCEPT ![r] = IF Recorded(event[r]) THEN "commit" ELSE "cached"]
        /\ result' = [result EXCEPT ![r] = IF Recorded(event[r]) THEN "duplicate" ELSE @]
        /\ UNCHANGED <<clock, history, redisUp, cache, event, previous, inserted>>
    BY DEF CheckDuplicate, IsDuplicate, GoTo, IInv, TypeOK
  <1>1. inserted[r] = NoRow
    BY <1>0 DEF IInv, InsertedIsOwn
  <1>2. TypeOK'
    BY <1>0 DEF IInv, TypeOK, Awaits, Results
  <1>3. PayloadKnown' /\ AnsweredPayload' /\ OneInsertPerKey' /\ OneRowPerKey'
    BY <1>0 DEF IInv, TypeOK, PayloadKnown, AnsweredPayload, OneInsertPerKey, OneRowPerKey
  <1>4. InsertedIsOwn' /\ PendingResult'
    BY <1>0, <1>1 DEF IInv, TypeOK, InsertedIsOwn, PendingResult, Recorded
  <1>5. AcceptedIsDurable' /\ DuplicateIsDurable'
    BY <1>0 DEF IInv, TypeOK, AcceptedIsDurable, DuplicateIsDurable, Recorded
  <1> QED
    BY <1>2, <1>3, <1>4, <1>5 DEF IInv

\* The two reads of _latest_known_ts only learn a timestamp.
LEMMA ReadPreviousInv ==
  ASSUME IInv, NEW r \in Requests, ReadCache(r) \/ ReadLatest(r)
  PROVE  IInv'
  <1> USE ConstantsAssumption
  <1>0. /\ pc[r] \in {"cached", "latest"}
        /\ pc' \in {[pc EXCEPT ![r] = "insert"], [pc EXCEPT ![r] = "latest"]}
        /\ UNCHANGED <<clock, history, redisUp, cache, event, inserted, result>>
    BY DEF ReadCache, ReadLatest, GoTo
  <1>1. inserted[r] = NoRow
    BY <1>0 DEF IInv, InsertedIsOwn
  <1>2. previous' \in [Requests -> Timestamps \cup {NoTs}]
    <2>1. CASE ReadCache(r)
      <3>1. event[r].vehicle \in Vehicles
        BY <1>0 DEF IInv, PayloadKnown, Events
      <3>2. cache[event[r].vehicle] # NoRow => cache[event[r].vehicle].ts \in Timestamps
        BY <3>1 DEF IInv, TypeOK, States
      <3> QED
        BY <2>1, <3>2 DEF ReadCache, IInv, TypeOK
    <2>2. CASE ReadLatest(r)
      <3>1. \A row \in LatestRows(event[r].vehicle) : row.ts \in Timestamps
        BY DEF LatestRows, RowsOf, IInv, TypeOK, Rows
      <3> QED
        BY <2>2, <3>1 DEF ReadLatest, IInv, TypeOK
    <2> QED
      BY <2>1, <2>2
  <1>3. TypeOK'
    BY <1>0, <1>2 DEF IInv, TypeOK, Awaits
  <1>4. PayloadKnown' /\ AnsweredPayload' /\ OneInsertPerKey' /\ OneRowPerKey'
    BY <1>0 DEF IInv, TypeOK, PayloadKnown, AnsweredPayload, OneInsertPerKey, OneRowPerKey
  <1>5. InsertedIsOwn' /\ PendingResult'
    BY <1>0, <1>1 DEF IInv, TypeOK, InsertedIsOwn, PendingResult, Recorded
  <1>6. AcceptedIsDurable' /\ DuplicateIsDurable'
    BY <1>0 DEF IInv, TypeOK, AcceptedIsDurable, DuplicateIsDurable, Recorded
  <1> QED
    BY <1>3, <1>4, <1>5, <1>6 DEF IInv

\* The insert is where the race between two handlers of one sample is settled.
LEMMA InsertInv ==
  ASSUME IInv, NEW r \in Requests, Insert(r)
  PROVE  IInv'
  <1> USE ConstantsAssumption
  <1>0. /\ pc[r] = "insert" /\ ~InsertWaits(r)
        /\ UNCHANGED <<clock, history, redisUp, cache, event, previous>>
    BY DEF Insert
  <1>1. inserted[r] = NoRow
    BY <1>0 DEF IInv, InsertedIsOwn
  <1>2. event[r] \in Events /\ event[r].vehicle \in Registered
    BY <1>0 DEF IInv, PayloadKnown
  <1>3. CASE Recorded(event[r])
    <2>0. /\ pc' = [pc EXCEPT ![r] = "commit"]
          /\ result' = [result EXCEPT ![r] = "duplicate"]
          /\ UNCHANGED inserted
      BY <1>3 DEF Insert, InsertConflicts, GoTo
    <2>2. TypeOK'
      BY <1>0, <2>0 DEF IInv, TypeOK, Awaits, Results
    <2>3. PayloadKnown' /\ AnsweredPayload' /\ OneInsertPerKey' /\ OneRowPerKey'
      BY <1>0, <2>0 DEF IInv, TypeOK, PayloadKnown, AnsweredPayload, OneInsertPerKey, OneRowPerKey
    <2>4. InsertedIsOwn' /\ PendingResult'
      BY <1>0, <1>1, <1>3, <2>0 DEF IInv, TypeOK, InsertedIsOwn, PendingResult, Recorded
    <2>5. AcceptedIsDurable' /\ DuplicateIsDurable'
      BY <1>0, <2>0 DEF IInv, TypeOK, AcceptedIsDurable, DuplicateIsDurable, Recorded
    <2> QED
      BY <2>2, <2>3, <2>4, <2>5 DEF IInv
  <1>4. CASE ~Recorded(event[r])
    <2>0. PICK segment \in Segments \cup {NoSegment} :
            inserted' = [inserted EXCEPT ![r] = RowFor(event[r], segment)]
      BY <1>4 DEF Insert, InsertConflicts
    <2>1. \/ /\ pc' = [pc EXCEPT ![r] = "publish"]
             /\ result' = [result EXCEPT ![r] = "advanced"]
          \/ /\ pc' = [pc EXCEPT ![r] = "commit"]
             /\ result' = [result EXCEPT ![r] = "out_of_order"]
      BY <1>4 DEF Insert, InsertConflicts, GoTo
    <2>2. /\ RowFor(event[r], segment) \in Rows
          /\ Key(RowFor(event[r], segment)) = Key(event[r])
          /\ RowFor(event[r], segment).segment = segment
      BY <1>2, RowForType DEF RowFor
    <2>3. inserted'[r] = RowFor(event[r], segment) /\ inserted'[r] # NoRow
      BY <2>0, <2>2 DEF IInv, TypeOK
    <2>4. \A s \in Requests \ {r} : inserted'[s] = inserted[s]
      BY <2>0 DEF IInv, TypeOK
    <2>5. \A s \in Requests \ {r} :
            inserted[s] # NoRow => Key(inserted[s]) # Key(event[r])
      BY <1>0 DEF InsertWaits
    <2>6. TypeOK'
      BY <1>0, <2>0, <2>1, <2>2 DEF IInv, TypeOK, Awaits, Results
    <2>7. OneInsertPerKey'
      BY <2>2, <2>3, <2>4, <2>5 DEF IInv, OneInsertPerKey
    <2>8. InsertedIsOwn'
      <3> SUFFICES ASSUME NEW s \in Requests, inserted'[s] # NoRow
                   PROVE  /\ pc'[s] \in {"publish", "commit"}
                          /\ result'[s] \in Accepted
                          /\ inserted'[s] = RowFor(event'[s], inserted'[s].segment)
                          /\ ~Recorded(event[s])'
        BY DEF InsertedIsOwn
      <3>1. CASE s = r
        BY <1>0, <1>4, <2>1, <2>2, <2>3, <3>1 DEF IInv, TypeOK, Accepted, Recorded
      <3>2. CASE s # r
        BY <1>0, <2>1, <2>4, <3>2 DEF IInv, TypeOK, InsertedIsOwn, Recorded
      <3> QED
        BY <3>1, <3>2
    <2>9. PendingResult'
      BY <1>0, <2>1, <2>3, <2>4 DEF IInv, TypeOK, PendingResult, Recorded
    <2>10. PayloadKnown' /\ AnsweredPayload' /\ OneRowPerKey'
      BY <1>0, <2>1 DEF IInv, TypeOK, PayloadKnown, AnsweredPayload, OneRowPerKey
    <2>11. AcceptedIsDurable' /\ DuplicateIsDurable'
      BY <1>0, <2>1 DEF IInv, TypeOK, AcceptedIsDurable, DuplicateIsDurable, Recorded
    <2> QED
      BY <2>6, <2>7, <2>8, <2>9, <2>10, <2>11 DEF IInv
  <1> QED
    BY <1>3, <1>4

LEMMA PublishInv ==
  ASSUME IInv, NEW r \in Requests, Publish(r)
  PROVE  IInv'
  <1> USE ConstantsAssumption
  <1>0. /\ pc[r] = "publish" /\ pc' = [pc EXCEPT ![r] = "commit"]
        /\ UNCHANGED <<clock, history, redisUp, event, previous, inserted, result>>
    BY DEF Publish, GoTo
  <1>1. inserted[r] # NoRow
    BY <1>0 DEF IInv, PendingResult
  <1>2. cache' \in [Vehicles -> States \cup {NoRow}]
    <2>1. inserted[r] \in Rows
      BY <1>1 DEF IInv, TypeOK
    <2>2. StateOf(inserted[r]) \in States
      BY <2>1, StateOfType
    <2> QED
      BY <2>2 DEF Publish, IInv, TypeOK
  <1>3. TypeOK'
    BY <1>0, <1>2 DEF IInv, TypeOK, Awaits
  <1>4. PayloadKnown' /\ AnsweredPayload' /\ OneInsertPerKey' /\ OneRowPerKey'
    BY <1>0 DEF IInv, TypeOK, PayloadKnown, AnsweredPayload, OneInsertPerKey, OneRowPerKey
  <1>5. InsertedIsOwn' /\ PendingResult'
    BY <1>0, <1>1 DEF IInv, TypeOK, InsertedIsOwn, PendingResult, Recorded
  <1>6. AcceptedIsDurable' /\ DuplicateIsDurable'
    BY <1>0 DEF IInv, TypeOK, AcceptedIsDurable, DuplicateIsDurable, Recorded
  <1> QED
    BY <1>3, <1>4, <1>5, <1>6 DEF IInv

\* A committing handler holds a row or found its sample recorded.
LEMMA CommitInv ==
  ASSUME IInv, NEW r \in Requests, Commit(r)
  PROVE  IInv'
  <1>0. /\ pc[r] = "commit" /\ history' = TableAfter(r)
        /\ Leave(r, result[r]) /\ UNCHANGED <<clock, redisUp, cache>>
    BY DEF Commit
  <1>1. result[r] \in Results
    BY DEF IInv, TypeOK
  <1>2. CASE inserted[r] # NoRow
    <2>1. result[r] # "duplicate"
      BY <1>2 DEF IInv, InsertedIsOwn, Accepted
    <2> QED
      BY <1>0, <1>1, <1>2, <2>1, LeavePreserves
  <1>3. CASE inserted[r] = NoRow
    <2>1. result[r] = "duplicate" /\ Recorded(event[r])
      BY <1>0, <1>3 DEF IInv, PendingResult
    <2>2. result[r] \notin Accepted
      BY <2>1 DEF Accepted
    <2> QED
      BY <1>0, <1>1, <2>1, <2>2, LeavePreserves
  <1> QED
    BY <1>2, <1>3

LEMMA FailureInv ==
  ASSUME IInv, NEW r \in Requests, CommitUnacknowledged(r) \/ Abort(r)
  PROVE  IInv'
  <1>1. CASE CommitUnacknowledged(r)
    BY <1>1, LeavePreserves DEF CommitUnacknowledged, Results, Accepted
  <1>2. CASE Abort(r)
    BY <1>2, LeavePreserves DEF Abort, Results, Accepted
  <1> QED
    BY <1>1, <1>2

\* Time, eviction and Redis outages touch neither the table nor a handler.
LEMMA EnvironmentInv ==
  ASSUME IInv,
         \/ Tick
         \/ \E v \in Vehicles : Evict(v)
         \/ RedisFails
         \/ RedisRecovers
         \/ UNCHANGED vars
  PROVE  IInv'
  <1> USE ConstantsAssumption
  <1>0. UNCHANGED <<history, pc, event, previous, inserted, result>>
    BY DEF Tick, Evict, RedisFails, RedisRecovers, vars
  <1>1. clock' \in Times
    BY DEF Tick, Evict, RedisFails, RedisRecovers, vars, IInv, TypeOK, Times
  <1>2. redisUp' \in BOOLEAN
    <2>1. redisUp' = redisUp \/ redisUp' = TRUE \/ redisUp' = FALSE
      BY Zenon DEF Tick, Evict, RedisFails, RedisRecovers, vars
    <2> QED
      BY <2>1 DEF IInv, TypeOK
  <1>3. cache' \in [Vehicles -> States \cup {NoRow}]
    BY DEF Tick, Evict, RedisFails, RedisRecovers, vars, IInv, TypeOK
  <1>4. TypeOK'
    BY <1>0, <1>1, <1>3, <1>2 DEF IInv, TypeOK
  <1>5. PayloadKnown' /\ AnsweredPayload' /\ OneInsertPerKey' /\ OneRowPerKey'
    BY <1>0 DEF IInv, PayloadKnown, AnsweredPayload, OneInsertPerKey, OneRowPerKey
  <1>6. InsertedIsOwn' /\ PendingResult'
    BY <1>0 DEF IInv, InsertedIsOwn, PendingResult, Recorded
  <1>7. AcceptedIsDurable' /\ DuplicateIsDurable'
    BY <1>0 DEF IInv, AcceptedIsDurable, DuplicateIsDurable, Recorded
  <1> QED
    BY <1>4, <1>5, <1>6, <1>7 DEF IInv

LEMMA NextInv == IInv /\ [Next]_vars => IInv'
  <1> SUFFICES ASSUME IInv, [Next]_vars PROVE IInv'
    OBVIOUS
  <1>1. ASSUME NEW r \in Requests, NEW e \in Events, Receive(r, e) PROVE IInv'
    BY <1>1, ReceiveInv
  <1>2. ASSUME NEW r \in Requests, Handler(r) PROVE IInv'
    BY <1>2, CheckVehicleInv, CheckDuplicateInv, ReadPreviousInv, InsertInv, PublishInv,
       CommitInv DEF Handler
  <1>3. ASSUME NEW r \in Requests, CommitUnacknowledged(r) \/ Abort(r) PROVE IInv'
    BY <1>3, FailureInv
  <1> QED
    BY <1>1, <1>2, <1>3, EnvironmentInv DEF Next

-----------------------------------------------------------------------------
\* The invariant holds throughout, for every interleaving and every failure.
THEOREM Invariance == Spec => []IInv
  BY InitInv, NextInv, PTL DEF Spec

\* The state of the endpoint is well typed (the handler's locals, the table and
\* the cache), in particular no row or state of an unregistered vehicle exists.
THEOREM TypeCorrect == Spec => []TypeOK
  BY Invariance, PTL DEF IInv

\* The unique index with ON CONFLICT DO NOTHING settles every race between
\* handlers of one sample: no two rows share (vehicle, ts, source).
THEOREM UniqueRows == Spec => []OneRowPerKey
  BY Invariance, PTL DEF IInv

\* post_telemetry answers 202 "accepted" only after the row of this very payload
\* is committed.
THEOREM AcceptedAnswers == Spec => []AcceptedIsDurable
  BY Invariance, PTL DEF IInv

\* It answers 202 "duplicate" only after a row with the payload's key is
\* committed, its own or that of another attempt.
THEOREM DuplicateAnswers == Spec => []DuplicateIsDurable
  BY Invariance, PTL DEF IInv

\* No step changes or removes a committed row.
THEOREM AppendOnly == Spec => HistoryAppendOnly
  <1>1. [Next]_vars => [history \subseteq history']_history
    BY DEF Next, vars, Receive, Handler, CheckVehicle, CheckDuplicate, ReadCache, ReadLatest,
           Insert, Publish, Commit, CommitUnacknowledged, Abort, TableAfter, Tick, Evict,
           RedisFails, RedisRecovers
  <1> QED
    BY <1>1, PTL DEF Spec, HistoryAppendOnly

-----------------------------------------------------------------------------
\* Telemetry implements EventLog.

\* Calls and Answers after a step that changes them at slot r only.
LEMMA MappedAt ==
  ASSUME NEW r \in Requests,
         pc \in [Requests -> Awaits \cup {"ready"}],
         \A s \in Requests \ {r} :
           pc'[s] = pc[s] /\ event'[s] = event[s] /\ result'[s] = result[s]
  PROVE  /\ Calls' = [Calls EXCEPT ![r] = Calls'[r]]
         /\ Answers' = [Answers EXCEPT ![r] = Answers'[r]]
  BY DEF Calls, Answers

\* A step inside a handler is invisible to the client.
LEMMA HiddenStep ==
  ASSUME NEW r \in Requests, TypeOK, pc[r] # "ready", pc'[r] # "ready",
         UNCHANGED <<history, event>>,
         \A s \in Requests \ {r} : pc'[s] = pc[s] /\ result'[s] = result[s]
  PROVE  UNCHANGED <<history, Calls, Answers>>
  <1>1. Calls' = Calls
    BY DEF Calls
  <1>2. Answers' = Answers
    BY DEF Answers
  <1> QED
    BY <1>1, <1>2

\* A handler that leaves with an answer ends the call of its slot.
LEMMA VisibleAnswer ==
  ASSUME IInv, NEW r \in Requests, NEW answer \in Results, Leave(r, answer),
         pc[r] # "ready"
  PROVE  /\ Calls[r] = event[r] /\ Calls[r] # NoEvent
         /\ Calls' = [Calls EXCEPT ![r] = NoEvent]
         /\ Answers' = [Answers EXCEPT ![r] =
              IF answer \in Accepted THEN "accepted" ELSE answer]
  <1> USE ConstantsAssumption
  <1>1. /\ pc'[r] = "ready" /\ result'[r] = answer
        /\ \A s \in Requests \ {r} :
             pc'[s] = pc[s] /\ event'[s] = event[s] /\ result'[s] = result[s]
    BY LeaveSlot DEF IInv
  <1>2. /\ Calls' = [Calls EXCEPT ![r] = Calls'[r]]
        /\ Answers' = [Answers EXCEPT ![r] = Answers'[r]]
    BY <1>1, MappedAt DEF IInv, TypeOK
  <1>3. Calls'[r] = NoEvent /\ Answers'[r] = IF answer \in Accepted THEN "accepted" ELSE answer
    BY <1>1 DEF Calls, Answers
  <1>4. Calls[r] = event[r] /\ event[r] # NoEvent
    BY DEF Calls, IInv, PayloadKnown
  <1> QED
    BY <1>2, <1>3, <1>4

\* What the transaction of r wrote is appended to the log for the call of r.
LEMMA VisibleAppend ==
  ASSUME IInv, NEW r \in Requests, pc[r] = "commit", inserted[r] # NoRow,
         Calls[r] = event[r], history' = TableAfter(r)
  PROVE  Log!Append(r)
  <1>1. /\ inserted[r] = RowFor(event[r], inserted[r].segment)
        /\ ~Recorded(event[r]) /\ inserted[r] \in Rows
    BY DEF IInv, InsertedIsOwn, TypeOK
  <1>2. Log!RecordOf(inserted[r], event[r])
    BY <1>1 DEF Log!RecordOf, Log!LogKey, RowFor
  <1>3. ~Log!InLog(event[r])
    BY <1>1 DEF Log!InLog, Log!LogKey, Recorded, Key
  <1>4. history' = history \cup {inserted[r]}
    BY DEF Written, TableAfter
  <1> QED
    BY <1>1, <1>2, <1>3, <1>4 DEF Log!Append

LEMMA LogInit == Init => Log!Init
  BY DEF Init, Log!Init, Calls, Answers, Accepted

LEMMA LogReceive ==
  ASSUME IInv, NEW r \in Requests, NEW e \in Events, Receive(r, e)
  PROVE  Log!Refuse(r) \/ Log!Submit(r, e)
  <1> USE ConstantsAssumption
  <1>0. pc[r] = "ready" /\ Calls[r] = NoEvent /\ UNCHANGED history
    BY DEF Receive, Calls
  <1>1. CASE ~ValidAt(e, clock)
    <2>1. Leave(r, "rejected")
      BY <1>1 DEF Receive
    <2>2. /\ pc'[r] = "ready" /\ result'[r] = "rejected"
          /\ \A s \in Requests \ {r} :
               pc'[s] = pc[s] /\ event'[s] = event[s] /\ result'[s] = result[s]
      BY <2>1, LeaveSlot DEF IInv, Results
    <2>3. Calls' = Calls
      BY <1>0, <2>2 DEF Calls
    <2>4. Answers' = [Answers EXCEPT ![r] = "rejected"]
      BY <2>2 DEF Answers, Accepted
    <2> QED
      BY <1>0, <2>3, <2>4 DEF Log!Refuse
  <1>2. CASE ValidAt(e, clock)
    <2>1. /\ pc' = [pc EXCEPT ![r] = "exists"] /\ event' = [event EXCEPT ![r] = e]
          /\ result' = [result EXCEPT ![r] = "none"]
      BY <1>2 DEF Receive, GoTo
    <2>2. Calls' = [Calls EXCEPT ![r] = e]
      BY <2>1 DEF Calls, IInv, TypeOK
    <2>3. Answers' = [Answers EXCEPT ![r] = "none"]
      BY <2>1 DEF Answers, IInv, TypeOK
    <2> QED
      BY <1>0, <2>2, <2>3 DEF Log!Submit
  <1> QED
    BY <1>1, <1>2

LEMMA LogCheckVehicle ==
  ASSUME IInv, NEW r \in Requests, CheckVehicle(r)
  PROVE  Log!Reject(r) \/ UNCHANGED Log!logVars
  <1>1. CASE event[r].vehicle \notin Registered
    <2>1. Leave(r, "rejected") /\ pc[r] # "ready" /\ UNCHANGED history
      BY <1>1 DEF CheckVehicle
    <2>2. /\ Calls[r] # NoEvent /\ Calls' = [Calls EXCEPT ![r] = NoEvent]
          /\ Answers' = [Answers EXCEPT ![r] = "rejected"]
      BY <2>1, VisibleAnswer DEF Results, Accepted
    <2> QED
      BY <2>1, <2>2 DEF Log!Reject, Log!Answer
  <1>2. CASE event[r].vehicle \in Registered
    BY <1>2, HiddenStep DEF CheckVehicle, GoTo, IInv, TypeOK, Log!logVars
  <1> QED
    BY <1>1, <1>2

LEMMA LogHidden ==
  ASSUME IInv, NEW r \in Requests,
         CheckDuplicate(r) \/ ReadCache(r) \/ ReadLatest(r) \/ Insert(r) \/ Publish(r)
  PROVE  UNCHANGED Log!logVars
  <1>1. /\ pc[r] # "ready" /\ pc'[r] # "ready" /\ UNCHANGED <<history, event>>
        /\ \A s \in Requests \ {r} : pc'[s] = pc[s] /\ result'[s] = result[s]
    BY DEF CheckDuplicate, ReadCache, ReadLatest, Insert, Publish, GoTo, IInv, TypeOK
  <1> QED
    BY <1>1, HiddenStep DEF IInv, Log!logVars

LEMMA LogCommit ==
  ASSUME IInv, NEW r \in Requests, Commit(r)
  PROVE  Log!Accept(r) \/ Log!Duplicate(r)
  <1>1. /\ pc[r] = "commit" /\ history' = TableAfter(r)
        /\ Leave(r, result[r]) /\ result[r] \in Results
    BY DEF Commit, IInv, TypeOK
  <1>2. /\ Calls[r] = event[r] /\ Calls[r] # NoEvent
        /\ Calls' = [Calls EXCEPT ![r] = NoEvent]
        /\ Answers' = [Answers EXCEPT ![r] =
             IF result[r] \in Accepted THEN "accepted" ELSE result[r]]
    BY <1>1, VisibleAnswer
  <1>3. CASE inserted[r] # NoRow
    <2>1. result[r] \in Accepted
      BY <1>3 DEF IInv, InsertedIsOwn
    <2>2. Log!Append(r)
      BY <1>1, <1>2, <1>3, VisibleAppend
    <2> QED
      BY <1>2, <2>1, <2>2 DEF Log!Accept, Log!Answer
  <1>4. CASE inserted[r] = NoRow
    <2>1. result[r] = "duplicate" /\ Recorded(event[r])
      BY <1>1, <1>4 DEF IInv, PendingResult
    <2>2. history' = history
      BY <1>1, <1>4 DEF Written, TableAfter
    <2>3. Log!InLog(event[r])
      BY <2>1 DEF Log!InLog, Log!LogKey, Recorded, Key
    <2> QED
      BY <1>2, <2>1, <2>2, <2>3 DEF Log!Duplicate, Log!Answer, Accepted
  <1> QED
    BY <1>3, <1>4

LEMMA LogFailure ==
  ASSUME IInv, NEW r \in Requests, CommitUnacknowledged(r) \/ Abort(r)
  PROVE  Log!Lose(r)
  <1>1. Leave(r, "error") /\ pc[r] # "ready"
    BY DEF CommitUnacknowledged, Abort
  <1>2. /\ Calls[r] = event[r] /\ Calls[r] # NoEvent
        /\ Calls' = [Calls EXCEPT ![r] = NoEvent]
        /\ Answers' = [Answers EXCEPT ![r] = "error"]
    BY <1>1, VisibleAnswer DEF Results, Accepted
  <1>3. Log!Append(r) \/ UNCHANGED history
    <2>1. CASE UNCHANGED history
      BY <2>1
    <2>2. CASE ~UNCHANGED history
      <3>1. pc[r] = "commit" /\ history' = TableAfter(r)
        BY <2>2 DEF CommitUnacknowledged, Abort
      <3>2. inserted[r] # NoRow
        BY <2>2, <3>1 DEF Written, TableAfter
      <3> QED
        BY <1>2, <3>1, <3>2, VisibleAppend
    <2> QED
      BY <2>1, <2>2
  <1> QED
    BY <1>2, <1>3 DEF Log!Lose, Log!Answer

LEMMA LogEnvironment ==
  ASSUME \/ Tick
         \/ \E v \in Vehicles : Evict(v)
         \/ RedisFails
         \/ RedisRecovers
         \/ UNCHANGED vars
  PROVE  UNCHANGED Log!logVars
  BY DEF Tick, Evict, RedisFails, RedisRecovers, vars, Log!logVars, Calls, Answers

\* Whatever the interleaving and whatever fails, clients of post_telemetry see
\* an atomic, idempotent append to a log.
THEOREM ImplementsEventLog == Spec => LogSpec
  <1>1. IInv /\ [Next]_vars => [Log!Next]_(Log!logVars)
    <2> SUFFICES ASSUME IInv, [Next]_vars PROVE Log!Next \/ UNCHANGED Log!logVars
      OBVIOUS
    <2>1. ASSUME NEW r \in Requests, NEW e \in Events, Receive(r, e)
          PROVE  Log!Next
      BY <2>1, LogReceive DEF Log!Next
    <2>2. ASSUME NEW r \in Requests, Handler(r)
          PROVE  Log!Next \/ UNCHANGED Log!logVars
      BY <2>2, LogCheckVehicle, LogHidden, LogCommit DEF Handler, Log!Next
    <2>3. ASSUME NEW r \in Requests, CommitUnacknowledged(r) \/ Abort(r)
          PROVE  Log!Next
      BY <2>3, LogFailure DEF Log!Next
    <2> QED
      BY <2>1, <2>2, <2>3, LogEnvironment DEF Next
  <1> QED
    BY <1>1, LogInit, Invariance, PTL DEF Spec, LogSpec, Log!Spec
=============================================================================
