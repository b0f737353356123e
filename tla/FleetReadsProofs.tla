-------------------------- MODULE FleetReadsProofs --------------------------
(***************************************************************************)
(* Proofs of the fleet reads: nobody who has reported is missing from an     *)
(* answer, and the answer is right at one instant, for any number of         *)
(* handlers and vehicles, whatever fails.  The invariant of the handlers is  *)
(* the one of TelemetryProofs.                                              *)
(***************************************************************************)
EXTENDS FleetReads, TelemetryOrderProofs

\* What a step of the handlers, the cache or the clock does to what readers see.
LEMMA Growth ==
  ASSUME IInv, Next
  PROVE  \/ history' = history
         \/ \E row \in Rows : history' = history \cup {row}
<1>1. ASSUME NEW r \in Requests, history' = TableAfter(r)
      PROVE  \/ history' = history
             \/ \E row \in Rows : history' = history \cup {row}
  BY <1>1 DEF IInv, TypeOK, TableAfter, Written
<1> QED
  BY <1>1 DEF Next, Receive, Handler, CheckVehicle, CheckDuplicate, ReadCache, ReadLatest,
              Insert, Publish, Commit, CommitUnacknowledged, Abort, Tick, Evict,
              RedisFails, RedisRecovers

LEMMA ClockRuns ==
  ASSUME IInv, Next
  PROVE  clock' = clock \/ clock' = clock + 1
BY DEF Next, Receive, Handler, CheckVehicle, CheckDuplicate, ReadCache, ReadLatest,
       Insert, Publish, Commit, CommitUnacknowledged, Abort, Tick, Evict,
       RedisFails, RedisRecovers

LEMMA CacheWrites ==
  ASSUME IInv, Next, CachedIsOwn
  PROVE  CachedIsOwn'
<1>1. ASSUME NEW r \in Requests, Publish(r) PROVE CachedIsOwn'
  <2>1. /\ inserted[r] # NoRow /\ event[r] \in Events
        /\ inserted[r] = RowFor(event[r], inserted[r].segment)
    BY <1>1 DEF Publish, IInv, PendingResult, PayloadKnown, InsertedIsOwn
  <2>2. StateOf(inserted[r]).vehicle = event[r].vehicle
    BY <2>1 DEF StateOf, RowFor
  <2>3. cache \in [Vehicles -> States \cup {NoRow}]
    BY DEF IInv, TypeOK
  <2> QED
    BY <1>1, <2>2, <2>3 DEF Publish, CachedIsOwn
<1>2. ASSUME NEW v \in Vehicles, Evict(v) PROVE CachedIsOwn'
  BY <1>2 DEF Evict, CachedIsOwn, IInv, TypeOK
<1>3. CASE UNCHANGED cache
  BY <1>3 DEF CachedIsOwn
<1> QED
  BY <1>1, <1>2, <1>3
  DEF Next, Receive, Handler, CheckVehicle, CheckDuplicate, ReadCache, ReadLatest,
      Insert, Commit, CommitUnacknowledged, Abort, Tick, RedisFails, RedisRecovers

-----------------------------------------------------------------------------
\* A step of the handlers leaves the reader's locals and its invariant alone.
LEMMA HandlersKeep ==
  ASSUME ReaderIInv, Next, UNCHANGED reader
  PROVE  ReaderIInv'
<1> USE DEF reader
<1>1. IInv /\ IInv'
  BY NextInv DEF ReaderIInv
<1>2. /\ CachedIsOwn /\ LatestExists /\ ReaderPlace /\ AskedKept /\ ServedOnce /\ RightAtNow
      /\ history \subseteq Rows
  BY DEF ReaderIInv, IInv, TypeOK
<1>3. CachedIsOwn'
  BY <1>1, <1>2, CacheWrites
<1>4. LatestExists'
  BY <1>1, <1>2, LatestStep
<1>5. ReaderPlace'
  <2>1. clock \in Nat
    BY <1>1, ConstantsAssumption DEF IInv, TypeOK, Times
  <2>2. now' \in 0 .. clock'
    BY <1>1, <1>2, <2>1, ClockRuns DEF ReaderPlace
  <2> QED
    BY <1>2, <2>2 DEF ReaderPlace, Pending
<1>6. AskedKept'
  <2>1. Reported \subseteq Reported'
    BY <1>1, Growth DEF Reported
  <2> QED
    BY <1>2, <2>1 DEF AskedKept, ServedVehicles, Pending
<1>7. ServedOnce' /\ RightAtNow'
  BY <1>2 DEF ServedOnce, ServedVehicles, Pending, RightAtNow
<1> QED
  BY <1>1, <1>3, <1>4, <1>5, <1>6, <1>7 DEF ReaderIInv

\* The handlers' part of the invariant, during a step of the reader.
LEMMA StoresKeep ==
  ASSUME ReaderIInv, UNCHANGED ingestion
  PROVE  IInv' /\ CachedIsOwn' /\ LatestExists' /\ Reported' = Reported
<1>1. IInv'
  BY NextInv DEF ReaderIInv, ingestion
<1> QED
  BY <1>1 DEF ReaderIInv, ingestion, vars, CachedIsOwn, LatestExists, LatestRows, RowsOf, Reported

LEMMA TurnToKeeps ==
  ASSUME NEW S, TurnTo(S)
  PROVE  /\ Pending' = S /\ todo' \cap current' = {}
         /\ step' \in {"cache", "answered"}
         /\ step' = "answered" => S = {}
         /\ step' = "cache" => \E v \in S : current' = {v}
BY DEF TurnTo, Pending

LEMMA AskStep ==
  ASSUME ReaderIInv, \/ AskFleet \/ \E v \in Vehicles : AskVehicle(v)
  PROVE  ReaderIInv'
<1>0. step = "idle"
  BY DEF AskFleet, AskVehicle
<1>1. /\ step = "idle" /\ served = {} /\ todo = {} /\ current = {}
      /\ clock \in Nat
  BY <1>0, ConstantsAssumption DEF ReaderIInv, ReaderPlace, Pending, IInv, TypeOK, Times
<1>2. UNCHANGED ingestion /\ served' = served /\ now' = clock /\ clock' = clock
  BY DEF AskFleet, AskVehicle, ingestion, vars
<1>3. IInv' /\ CachedIsOwn' /\ LatestExists' /\ Reported' = Reported
  BY <1>2, StoresKeep
<1>4. ServedOnce' /\ RightAtNow'
  BY <1>1, <1>2 DEF ServedOnce, ServedVehicles, RightAtNow
<1>5. CASE AskFleet
  BY <1>1, <1>2, <1>3, <1>4, <1>5
  DEF AskFleet, Remember, ReaderIInv, ReaderPlace, AskedKept, Pending
<1>6. ASSUME NEW v \in Vehicles, AskVehicle(v) PROVE ReaderIInv'
  <2>1. /\ Pending' = {v} /\ todo' \cap current' = {} /\ step' = "cache"
        /\ current' = {v} /\ asked' \subseteq {v} \cap Reported
    BY <1>6, TurnToKeeps DEF AskVehicle, Remember
  <2>2. ReaderPlace' /\ AskedKept'
    BY <1>1, <1>2, <1>3, <2>1 DEF ReaderPlace, AskedKept
  <2> QED
    BY <1>3, <1>4, <2>2 DEF ReaderIInv
<1> QED
  BY <1>5, <1>6

\* Reported vehicles are vehicles.
LEMMA ReportedType == IInv => Reported \subseteq Vehicles
BY ConstantsAssumption DEF IInv, TypeOK, Reported, Rows

LEMMA ListStep ==
  ASSUME ReaderIInv, ListVehicles
  PROVE  ReaderIInv'
<1>1. /\ step = "list" /\ served = {} /\ asked \subseteq Reported /\ Reported \subseteq Vehicles
      /\ now \in 0 .. clock
  BY ReportedType DEF ListVehicles, ReaderIInv, ReaderPlace, AskedKept
<1>2. UNCHANGED <<ingestion, now, served, asked>> /\ TurnTo(Reported) /\ clock' = clock
  BY DEF ListVehicles, ingestion, vars
<1>3. IInv' /\ CachedIsOwn' /\ LatestExists' /\ Reported' = Reported
  BY <1>2, StoresKeep
<1>4. /\ Pending' = Reported /\ todo' \cap current' = {}
      /\ step' \in {"cache", "answered"}
      /\ step' = "answered" => Reported = {}
      /\ step' = "cache" => \E v \in Reported : current' = {v}
  BY <1>2, TurnToKeeps
<1>5. ReaderPlace' /\ AskedKept'
  BY <1>1, <1>2, <1>3, <1>4 DEF ReaderPlace, AskedKept
<1>6. ServedOnce' /\ RightAtNow'
  BY <1>1, <1>2 DEF ServedOnce, ServedVehicles, RightAtNow
<1> QED
  BY <1>3, <1>5, <1>6 DEF ReaderIInv

LEMMA CacheStep ==
  ASSUME ReaderIInv, LookInCache
  PROVE  ReaderIInv'
<1>1. PICK v \in Vehicles : current = {v} /\ step = "cache"
  BY DEF LookInCache, ReaderIInv, ReaderPlace
<1>2. UNCHANGED <<ingestion, now, todo, current, served, asked>> /\ clock' = clock
  BY DEF LookInCache, ingestion, vars
<1>3. IInv' /\ CachedIsOwn' /\ LatestExists' /\ Reported' = Reported
  BY <1>2, StoresKeep
<1>4. step' \in {"table", "assignment"} /\ (step' = "assignment" => current' = {state'.vehicle})
  BY <1>1, <1>2 DEF LookInCache, Misses, ReaderIInv, CachedIsOwn
<1>5. ReaderPlace' /\ AskedKept' /\ ServedOnce' /\ RightAtNow'
  BY <1>1, <1>2, <1>3, <1>4
  DEF ReaderIInv, ReaderPlace, AskedKept, ServedOnce, ServedVehicles, Pending, RightAtNow
<1> QED
  BY <1>3, <1>5 DEF ReaderIInv

\* A vehicle that has reported has a latest row: it is never passed over.
LEMMA TableStep ==
  ASSUME ReaderIInv, LookInTable
  PROVE  ReaderIInv'
<1>1. PICK v \in Vehicles : current = {v} /\ step = "table"
  BY DEF LookInTable, ReaderIInv, ReaderPlace
<1>2. UNCHANGED <<ingestion, now, served, asked>> /\ clock' = clock
  BY DEF LookInTable, ingestion, vars
<1>3. IInv' /\ CachedIsOwn' /\ LatestExists' /\ Reported' = Reported
  BY <1>2, StoresKeep
<1>4. /\ now \in 0 .. clock /\ todo \cap {v} = {} /\ todo \subseteq Vehicles
      /\ asked \subseteq Reported /\ asked \subseteq ServedVehicles \cup todo \cup {v}
      /\ ServedVehicles \cap (todo \cup {v}) = {}
      /\ \A x, y \in served : x.vehicle = y.vehicle => x = y
  BY <1>1 DEF ReaderIInv, ReaderPlace, AskedKept, ServedOnce, Pending
<1>5. RightAtNow' /\ ServedVehicles' = ServedVehicles
  BY <1>2 DEF ReaderIInv, RightAtNow, ServedVehicles
<1>6. CASE FallbackRows(v) = {}
  <2>1. TurnTo(todo)
    BY <1>1, <1>6 DEF LookInTable
  <2>2. v \notin Reported
    BY <1>6 DEF FallbackRows, ReaderIInv, LatestExists, RowsOf, Reported
  <2>3. /\ Pending' = todo /\ todo' \cap current' = {}
        /\ step' \in {"cache", "answered"}
        /\ step' = "answered" => todo = {}
        /\ step' = "cache" => \E w \in todo : current' = {w}
    BY <2>1, TurnToKeeps
  <2>4. ReaderPlace' /\ AskedKept' /\ ServedOnce'
    BY <1>2, <1>3, <1>4, <1>5, <2>2, <2>3 DEF ReaderPlace, AskedKept, ServedOnce
  <2> QED
    BY <1>3, <1>5, <2>4 DEF ReaderIInv
<1>7. CASE FallbackRows(v) # {}
  <2>1. /\ step' = "assignment" /\ todo' = todo /\ current' = {v}
        /\ \E row \in LatestRows(v) : state' = StateOf(row)
    BY <1>1, <1>7 DEF LookInTable, FallbackRows
  <2>2. state'.vehicle = v
    BY <2>1 DEF LatestRows, RowsOf, StateOf
  <2>3. ReaderPlace' /\ AskedKept' /\ ServedOnce'
    BY <1>1, <1>2, <1>3, <1>4, <1>5, <2>1, <2>2 DEF ReaderPlace, AskedKept, ServedOnce, Pending
  <2> QED
    BY <1>3, <1>5, <2>3 DEF ReaderIInv
<1> QED
  BY <1>6, <1>7

LEMMA EntryStep ==
  ASSUME ReaderIInv, MakeEntry
  PROVE  ReaderIInv'
<1>1. PICK v \in Vehicles : current = {v} /\ step = "assignment" /\ state.vehicle = v
  BY DEF MakeEntry, ReaderIInv, ReaderPlace
<1>2. UNCHANGED <<ingestion, now, asked>> /\ clock' = clock /\ TurnTo(todo)
  BY DEF MakeEntry, ingestion, vars
<1>3. IInv' /\ CachedIsOwn' /\ LatestExists' /\ Reported' = Reported
  BY <1>2, StoresKeep
<1>4. /\ now \in 0 .. clock /\ todo \cap {v} = {} /\ todo \subseteq Vehicles
      /\ asked \subseteq Reported /\ asked \subseteq ServedVehicles \cup todo \cup {v}
      /\ ServedVehicles \cap (todo \cup {v}) = {}
      /\ \A x, y \in served : x.vehicle = y.vehicle => x = y
  BY <1>1 DEF ReaderIInv, ReaderPlace, AskedKept, ServedOnce, Pending
<1>5. PICK entry : /\ served' = served \cup {entry}
                   /\ entry.vehicle = v
                   /\ entry.freshness = Freshness(now - entry.ts)
                   /\ entry.active_assignment \in ActiveOn(v, now \div Day)
  <2>1. PICK assignment \in ActiveOn(v, now \div Day) :
          served' = served \cup {[vehicle |-> state.vehicle, ts |-> state.ts, speed |-> state.speed,
                                  segment |-> state.segment,
                                  freshness |-> Freshness(now - state.ts),
                                  active_assignment |-> assignment]}
    BY <1>1 DEF MakeEntry, ReadNow
  <2> DEFINE made ==
        [vehicle |-> state.vehicle, ts |-> state.ts, speed |-> state.speed,
         segment |-> state.segment, freshness |-> Freshness(now - state.ts),
         active_assignment |-> assignment]
  <2>2. /\ made.vehicle = v /\ made.freshness = Freshness(now - made.ts)
        /\ made.active_assignment \in ActiveOn(v, now \div Day)
    BY <1>1, <2>1
  <2>3. served' = served \cup {made}
    BY <2>1
  <2> HIDE DEF made
  <2> QED
    BY <2>2, <2>3
<1>6. ServedVehicles' = ServedVehicles \cup {v}
  BY <1>5 DEF ServedVehicles
<1>7. RightAtNow'
  BY <1>2, <1>5 DEF ReaderIInv, RightAtNow
<1>8. /\ Pending' = todo /\ todo' \cap current' = {}
      /\ step' \in {"cache", "answered"}
      /\ step' = "answered" => todo = {}
      /\ step' = "cache" => \E w \in todo : current' = {w}
  BY <1>2, TurnToKeeps
<1>9. \A x, y \in served' : x.vehicle = y.vehicle => x = y
  BY <1>4, <1>5 DEF ServedVehicles
<1>10. ReaderPlace' /\ AskedKept' /\ ServedOnce'
  BY <1>2, <1>3, <1>4, <1>6, <1>8, <1>9 DEF ReaderPlace, AskedKept, ServedOnce
<1> QED
  BY <1>3, <1>7, <1>10 DEF ReaderIInv

LEMMA EndStep ==
  ASSUME ReaderIInv, Answer \/ ReadFails
  PROVE  ReaderIInv'
<1>1. /\ step' = "idle" /\ now' = 0 /\ todo' = {} /\ current' = {} /\ served' = {} /\ asked' = {}
      /\ UNCHANGED ingestion /\ clock' = clock /\ clock \in Nat
  BY ConstantsAssumption
  DEF Answer, ReadFails, ForgetRequest, ingestion, vars, ReaderIInv, IInv, TypeOK, Times
<1>2. IInv' /\ CachedIsOwn' /\ LatestExists' /\ Reported' = Reported
  BY <1>1, StoresKeep
<1> QED
  BY <1>1, <1>2
  DEF ReaderIInv, ReaderPlace, AskedKept, ServedOnce, ServedVehicles, Pending, RightAtNow

LEMMA ReadStep == ReaderIInv /\ [ReadNext]_readVars => ReaderIInv'
<1> SUFFICES ASSUME ReaderIInv, [ReadNext]_readVars PROVE ReaderIInv'
  OBVIOUS
<1>1. CASE UNCHANGED readVars
  <2>1. UNCHANGED ingestion /\ UNCHANGED reader /\ clock' = clock
    BY <1>1 DEF readVars, ingestion, vars
  <2>2. IInv' /\ CachedIsOwn' /\ LatestExists' /\ Reported' = Reported
    BY <2>1, StoresKeep
  <2> QED
    BY <2>1, <2>2
    DEF reader, ReaderIInv, ReaderPlace, AskedKept, ServedOnce, ServedVehicles, Pending, RightAtNow
<1> QED
  BY <1>1, HandlersKeep, AskStep, ListStep, CacheStep, TableStep, EntryStep, EndStep
  DEF ReadNext, Reading

LEMMA ReadStart == ReadInit => ReaderIInv
<1> SUFFICES ASSUME ReadInit PROVE ReaderIInv
  OBVIOUS
<1>1. IInv /\ clock = 0 /\ history = {} /\ cache = [v \in Vehicles |-> NoRow]
  BY InitInv DEF ReadInit, Init
<1> QED
  BY <1>1
  DEF ReadInit, ReaderIInv, CachedIsOwn, LatestExists, RowsOf, ReaderPlace, AskedKept, ServedOnce,
      ServedVehicles, Pending, RightAtNow

\* The invariant of a reader beside any handlers holds of every reachable state.
THEOREM ReaderInvariant == ReadSpec => []ReaderIInv
BY ReadStart, ReadStep, PTL DEF ReadSpec

-----------------------------------------------------------------------------
\* GET /fleet answers for every vehicle that has reported before it was asked,
\* once, whatever expires, fails or arrives between its awaits.
THEOREM NobodyIsMissing == ReadSpec => []ReportedVehiclesServed
<1>1. ReaderIInv => ReportedVehiclesServed
  BY DEF ReaderIInv, ReaderPlace, AskedKept, ServedOnce, ServedVehicles, ReportedVehiclesServed
<1> QED
  BY <1>1, ReaderInvariant, PTL

\* Freshness labels and assignments of one answer are right at one instant of
\* the request, the one that `now` was taken at.
THEOREM OneInstant == ReadSpec => []AnswerOfOneInstant
<1>1. ReaderIInv => AnswerOfOneInstant
  <2> SUFFICES ASSUME ReaderIInv PROVE AnswerOfOneInstant
    OBVIOUS
  <2>1. now \in now .. clock
    BY ConstantsAssumption DEF ReaderIInv, ReaderPlace, IInv, TypeOK, Times
  <2> QED
    BY <2>1 DEF ReaderIInv, RightAtNow, AnswerOfOneInstant
<1> QED
  BY <1>1, ReaderInvariant, PTL

-----------------------------------------------------------------------------
\* Reading one's writes: every floor is a row, and neither the cache nor the
\* query for the newest row ever gives less than a row of the table.
LEMMA FloorTypes ==
  ASSUME IInv
  PROVE  /\ Registered \subseteq Vehicles
         /\ \A row \in history : row.ts \in Int /\ row.ts # NoTs /\ row.vehicle \in Registered
         /\ \A v \in Vehicles :
              cache[v] # NoRow => cache[v].ts \in Int /\ cache[v].vehicle \in Registered
BY ConstantsAssumption DEF IInv, TypeOK, Rows, States, Timestamps

LEMMA RememberStep ==
  ASSUME IInv, LatestExists, NEW S, Remember(S), history' = history
  PROVE  FloorsCommitted'
<1> SUFFICES ASSUME NEW v \in Registered, floor'[v] # NoTs
             PROVE  \E row \in RowsOf(v)' : row.ts = floor'[v]
  BY DEF FloorsCommitted
<1>1. RowsOf(v)' = RowsOf(v)
  BY DEF RowsOf
<1>2. RowsOf(v) # {} /\ floor'[v] = (CHOOSE row \in LatestRows(v) : TRUE).ts
  BY DEF Remember
<1>3. LatestRows(v) # {}
  BY <1>2, ConstantsAssumption DEF LatestExists
<1>4. (CHOOSE row \in LatestRows(v) : TRUE) \in RowsOf(v)
  BY <1>3 DEF LatestRows
<1> QED
  BY <1>1, <1>2, <1>4

\* What is held once the cache or the table has answered.
LEMMA CacheAtFloor ==
  ASSUME ReaderIInv, FloorInv, AheadInv, redisUp, LookInCache
  PROVE  HeldAtFloor'
<1>1. PICK v \in Vehicles : current = {v}
  BY DEF LookInCache, ReaderIInv, ReaderPlace
<1>2. CASE Misses(v)
  BY <1>1, <1>2 DEF LookInCache, HeldAtFloor
<1>3. CASE ~Misses(v)
  <2>1. state' = cache[v] /\ floor' = floor /\ cache[v] # NoRow
    BY <1>1, <1>3 DEF LookInCache, Misses
  <2>2. cache[v].vehicle = v /\ v \in Registered /\ cache[v].ts \in Int
    BY <2>1, FloorTypes DEF ReaderIInv, CachedIsOwn
  <2>3. \A row \in RowsOf(v) : row.ts <= cache[v].ts
    BY <2>1 DEF AheadInv, CacheAhead
  <2>4. floor[v] # NoTs => cache[v].ts >= floor[v]
    BY <2>2, <2>3, FloorTypes DEF FloorInv, FloorsCommitted, ReaderIInv, RowsOf
  <2> QED
    BY <2>1, <2>2, <2>4 DEF HeldAtFloor
<1> QED
  BY <1>2, <1>3

LEMMA TableAtFloor ==
  ASSUME ReaderIInv, FloorInv, LookInTable
  PROVE  HeldAtFloor'
<1>1. PICK v \in Vehicles : current = {v}
  BY DEF LookInTable, ReaderIInv, ReaderPlace
<1>2. CASE FallbackRows(v) = {}
  BY <1>1, <1>2, TurnToKeeps DEF LookInTable, HeldAtFloor
<1>3. CASE FallbackRows(v) # {}
  <2>1. PICK row \in LatestRows(v) : state' = StateOf(row)
    BY <1>1, <1>3 DEF LookInTable, FallbackRows
  <2>2. floor' = floor
    BY DEF LookInTable
  <2>3. /\ row \in history /\ row.vehicle = v /\ v \in Registered /\ row.ts \in Int
        /\ \A other \in RowsOf(v) : other.ts \in Int /\ other.ts <= row.ts
    BY <2>1, FloorTypes DEF LatestRows, RowsOf, ReaderIInv
  <2>4. floor[v] # NoTs => row.ts >= floor[v]
    BY <2>3 DEF FloorInv, FloorsCommitted
  <2> QED
    BY <2>1, <2>2, <2>3, <2>4 DEF HeldAtFloor, StateOf
<1> QED
  BY <1>2, <1>3

LEMMA EntryAtFloor ==
  ASSUME FloorInv, MakeEntry
  PROVE  ServedAtFloor'
<1>1. PICK v \in Registered : state.vehicle = v /\ (floor[v] # NoTs => state.ts >= floor[v])
  BY DEF FloorInv, HeldAtFloor, MakeEntry
<1>2. PICK w, assignment :
        served' = served \cup {[vehicle |-> state.vehicle, ts |-> state.ts, speed |-> state.speed,
                                segment |-> state.segment,
                                freshness |-> Freshness(w - state.ts),
                                active_assignment |-> assignment]}
  BY DEF MakeEntry
<1>3. floor' = floor
  BY DEF MakeEntry
<1> QED
  BY <1>1, <1>2, <1>3 DEF FloorInv, ServedAtFloor

LEMMA FloorStep ==
  ReaderIInv /\ AheadInv /\ redisUp /\ FloorInv /\ [ReadNext]_readVars => FloorInv'
<1> SUFFICES ASSUME ReaderIInv, AheadInv, redisUp, FloorInv, [ReadNext]_readVars
             PROVE  FloorInv'
  OBVIOUS
<1>1. /\ IInv /\ LatestExists /\ (step \in {"idle", "list"} => served = {})
      /\ FloorsCommitted /\ HeldAtFloor /\ ServedAtFloor
  BY DEF ReaderIInv, ReaderPlace, FloorInv
<1>2. ASSUME UNCHANGED reader, Next \/ UNCHANGED ingestion PROVE FloorInv'
  <2>1. history \subseteq history'
    BY <1>1, <1>2, Growth DEF ingestion, vars
  <2> QED
    BY <1>1, <1>2, <2>1
    DEF reader, FloorInv, FloorsCommitted, HeldAtFloor, ServedAtFloor, RowsOf
<1>3. ASSUME \/ AskFleet \/ \E v \in Vehicles : AskVehicle(v) PROVE FloorInv'
  <2>1. /\ history' = history /\ served' = {} /\ \E S : Remember(S)
        /\ step' # "assignment"
    BY <1>1, <1>3, TurnToKeeps DEF AskFleet, AskVehicle, ingestion, vars
  <2> QED
    BY <1>1, <2>1, RememberStep DEF FloorInv, HeldAtFloor, ServedAtFloor
<1>4. ASSUME ListVehicles \/ LookInCache \/ LookInTable \/ MakeEntry
      PROVE  FloorsCommitted' /\ floor' = floor
  <2>1. history' = history /\ floor' = floor
    BY <1>4 DEF ListVehicles, LookInCache, LookInTable, MakeEntry, ingestion, vars
  <2> QED
    BY <1>1, <2>1 DEF FloorsCommitted, RowsOf
<1>5. ASSUME ListVehicles \/ LookInCache \/ LookInTable PROVE ServedAtFloor'
  BY <1>1, <1>4, <1>5 DEF ListVehicles, LookInCache, LookInTable, ServedAtFloor
<1>6. ASSUME ListVehicles \/ MakeEntry PROVE HeldAtFloor'
  BY <1>6, TurnToKeeps DEF ListVehicles, MakeEntry, HeldAtFloor
<1>7. ASSUME Answer \/ ReadFails PROVE FloorInv'
  BY <1>7 DEF Answer, ReadFails, ForgetRequest, FloorInv, FloorsCommitted, HeldAtFloor,
              ServedAtFloor
<1> QED
  BY <1>2, <1>3, <1>4, <1>5, <1>6, <1>7, CacheAtFloor, TableAtFloor, EntryAtFloor
  DEF ReadNext, Reading, FloorInv, readVars

\* The handlers' invariants, beside the reader.
LEMMA AheadBesideReader ==
  ReaderIInv /\ SerialVehicles /\ AheadInv /\ redisUp /\ [ReadNext]_readVars => AheadInv'
<1> SUFFICES ASSUME ReaderIInv, SerialVehicles, AheadInv, redisUp, [ReadNext]_readVars
             PROVE  AheadInv'
  OBVIOUS
<1>1. [Next]_vars
  BY DEF ReadNext, Reading, AskFleet, ListVehicles, AskVehicle, LookInCache, LookInTable, MakeEntry,
         Answer, ReadFails, ForgetRequest, ingestion, readVars
<1> QED
  BY <1>1, AheadStep DEF ReaderIInv

\* While clients wait for their answers and Redis answers, a sample answered 202
\* is never followed by a fleet answer with an older state of its vehicle.
THEOREM WritesAreRead ==
  ASSUME SerialVehicles
  PROVE  ReadSpec => ReadYourWrites
<1>1. ReadInit => AheadInv /\ FloorInv
  BY AheadInit
  DEF ReadInit, FloorInv, FloorsCommitted, HeldAtFloor, ServedAtFloor
<1>2. ReaderIInv /\ AheadInv /\ FloorInv /\ redisUp /\ [ReadNext]_readVars =>
        AheadInv' /\ FloorInv'
  BY AheadBesideReader, FloorStep
<1>3. FloorInv => NoOlderThanCommitted
  BY DEF FloorInv, ServedAtFloor, NoOlderThanCommitted
<1> QED
  BY <1>1, <1>2, <1>3, ReaderInvariant, PTL DEF ReadSpec, ReadYourWrites
=============================================================================
