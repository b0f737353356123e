------------------------ MODULE TelemetryOrderProofs ------------------------
(***************************************************************************)
(* Proofs about the cached state.  When clients send one sample of a vehicle *)
(* at a time: while Redis answers, the newest state is served; and writes to *)
(* the cache stay in order through outages, as long as the database does     *)
(* not fail.  However they send: the cache is the only copy of a state by an *)
(* error alone.                                                             *)
(***************************************************************************)
EXTENDS TelemetryProofs

\* A step of one handler: what it leaves alone.
OthersAlone(r) ==
  \A s \in Requests \ {r} :
    /\ pc'[s] = pc[s] /\ event'[s] = event[s]
    /\ previous'[s] = previous[s] /\ inserted'[s] = inserted[s]

Works(r) == Handler(r) \/ CommitUnacknowledged(r) \/ Abort(r)

LEMMA HandlerFrame ==
  ASSUME IInv, NEW r \in Requests, Works(r)
  PROVE  /\ pc[r] # "ready"
         /\ OthersAlone(r)
         /\ pc'[r] = "ready" \/ event'[r] = event[r]
         /\ \/ history' = history
            \/ pc[r] = "commit" /\ history' = TableAfter(r)
         /\ cache' = cache \/ Publish(r)
BY DEF Works, Handler, CheckVehicle, CheckDuplicate, ReadCache, ReadLatest, Insert, Publish,
       Commit, CommitUnacknowledged, Abort, Leave, GoTo, OthersAlone, IInv, TypeOK

LEMMA ReceiveFrame ==
  ASSUME IInv, NEW r \in Requests, NEW e \in Events, Receive(r, e)
  PROVE  /\ pc[r] = "ready" /\ OthersAlone(r)
         /\ pc'[r] = "ready" \/ (pc'[r] = "exists" /\ event'[r] = e)
         /\ UNCHANGED <<history, cache>>
<1>1. CASE ValidAt(e, clock)
  BY <1>1 DEF Receive, GoTo, OthersAlone, IInv, TypeOK
<1>2. CASE ~ValidAt(e, clock)
  BY <1>2 DEF Receive, Leave, GoTo, OthersAlone, IInv, TypeOK
<1> QED
  BY <1>1, <1>2

\* A row that a transaction holds is about the vehicle of its payload.
LEMMA InsertedVehicle ==
  ASSUME IInv, NEW r \in Requests, inserted[r] # NoRow
  PROVE  /\ inserted[r].vehicle = event[r].vehicle /\ inserted[r].ts = event[r].ts
         /\ inserted[r] \in Rows
         /\ pc[r] \in {"publish", "commit"} /\ event[r].vehicle \in Vehicles
<1>1. /\ pc[r] \in {"publish", "commit"} /\ inserted[r] = RowFor(event[r], inserted[r].segment)
  BY DEF IInv, InsertedIsOwn
<1>2. event[r] \in Events
  BY <1>1 DEF IInv, PayloadKnown
<1> QED
  BY <1>1, <1>2 DEF IInv, TypeOK, RowFor, Events

LEMMA RowsGrowBy ==
  ASSUME IInv, NEW r \in Requests, history' = TableAfter(r)
  PROVE  /\ \A v : v # event[r].vehicle => RowsOf(v)' = RowsOf(v)
         /\ inserted[r] = NoRow => history' = history
         /\ inserted[r] # NoRow =>
              \A v : v = event[r].vehicle => RowsOf(v)' = RowsOf(v) \cup {inserted[r]}
<1>1. CASE inserted[r] = NoRow
  BY <1>1 DEF TableAfter, Written, RowsOf
<1>2. CASE inserted[r] # NoRow
  <2>1. history' = history \cup {inserted[r]} /\ inserted[r].vehicle = event[r].vehicle
    BY <1>2, InsertedVehicle DEF TableAfter, Written
  <2> QED
    BY <1>2, <2>1 DEF RowsOf
<1> QED
  BY <1>1, <1>2

\* One more row: a latest one exists as before, or it is the new one.
LEMMA LatestAfterGrowth ==
  ASSUME history \subseteq Rows, LatestExists,
         NEW row \in Rows, history' = history \cup {row}
  PROVE  LatestExists'
<1> SUFFICES ASSUME NEW v \in Vehicles, RowsOf(v)' # {}
             PROVE  LatestRows(v)' # {}
  BY DEF LatestExists
<1>1. \A x \in history' : x.ts \in Int
  BY ConstantsAssumption DEF Rows, Timestamps
<1>2. CASE row.vehicle # v
  <2>1. RowsOf(v)' = RowsOf(v)
    BY <1>2 DEF RowsOf
  <2> QED
    BY <2>1 DEF LatestExists, LatestRows
<1>3. CASE row.vehicle = v
  <2>1. RowsOf(v)' = RowsOf(v) \cup {row}
    BY <1>3 DEF RowsOf
  <2>2. CASE RowsOf(v) = {}
    BY <1>1, <2>1, <2>2 DEF LatestRows, RowsOf
  <2>3. CASE RowsOf(v) # {}
    <3>1. PICK top \in RowsOf(v) : \A other \in RowsOf(v) : other.ts <= top.ts
      BY <2>3 DEF LatestExists, LatestRows
    <3>2. CASE row.ts <= top.ts
      BY <2>1, <3>1, <3>2 DEF LatestRows
    <3>3. CASE top.ts < row.ts
      BY <1>1, <2>1, <3>1, <3>3 DEF LatestRows, RowsOf
    <3> QED
      BY <1>1, <2>1, <3>1, <3>2, <3>3 DEF RowsOf
  <2> QED
    BY <2>2, <2>3
<1> QED
  BY <1>2, <1>3

LEMMA LatestStep == IInv /\ LatestExists /\ [Next]_vars => LatestExists'
<1> SUFFICES ASSUME IInv, LatestExists, [Next]_vars PROVE LatestExists'
  OBVIOUS
<1>1. CASE history' = history
  BY <1>1 DEF LatestExists, LatestRows, RowsOf
<1>2. ASSUME NEW r \in Requests, history' = TableAfter(r), history' # history PROVE LatestExists'
  BY <1>2, LatestAfterGrowth DEF IInv, TypeOK, TableAfter, Written
<1> QED
  BY <1>1, <1>2, HandlerFrame
  DEF Next, Works, Receive, Tick, Evict, RedisFails, RedisRecovers, vars

-----------------------------------------------------------------------------
\* Clients that wait for an answer have one sample of a vehicle in flight.
LEMMA OneInFlightStep ==
  ASSUME IInv, SerialVehicles, OneInFlight, [Next]_vars
  PROVE  OneInFlight'
<1>1. ASSUME NEW r \in Requests, Works(r) PROVE OneInFlight'
  BY <1>1, HandlerFrame DEF OthersAlone, OneInFlight
<1>2. ASSUME NEW r \in Requests, NEW e \in Events, Receive(r, e) PROVE OneInFlight'
  <2>1. \A s \in Requests : pc[s] # "ready" => event[s].vehicle # e.vehicle
    BY <1>2 DEF Receive, InFlight
  <2> QED
    BY <1>2, <2>1, ReceiveFrame DEF OthersAlone, OneInFlight
<1>3. CASE UNCHANGED <<pc, event>>
  BY <1>3 DEF OneInFlight
<1> QED
  BY <1>1, <1>2, <1>3 DEF Next, Works, Tick, Evict, RedisFails, RedisRecovers, vars

\* A step of another handler changes nothing of what concerns the vehicle of s.
LEMMA ElsewhereStep ==
  ASSUME IInv, OneInFlight, NEW r \in Requests, Works(r),
         NEW s \in Requests \ {r}, pc[s] # "ready"
  PROVE  /\ RowsOf(event[s].vehicle)' = RowsOf(event[s].vehicle)
         /\ cache'[event[s].vehicle] = cache[event[s].vehicle]
         /\ pc'[s] = pc[s] /\ event'[s] = event[s]
         /\ previous'[s] = previous[s] /\ inserted'[s] = inserted[s]
<1>1. event[s].vehicle # event[r].vehicle /\ event'[s] = event[s]
  BY HandlerFrame DEF OneInFlight, OthersAlone
<1>2. cache'[event[s].vehicle] = cache[event[s].vehicle]
  BY <1>1, HandlerFrame DEF Publish, IInv, TypeOK, PayloadKnown, Events
<1>3. RowsOf(event[s].vehicle)' = RowsOf(event[s].vehicle)
  <2> DEFINE v == event[s].vehicle
  <2>1. PICK w : w = v
    OBVIOUS
  <2>2. RowsOf(w)' = RowsOf(w)
    BY <1>1, <2>1, HandlerFrame, RowsGrowBy DEF RowsOf
  <2> QED
    BY <1>1, <2>1, <2>2
<1> QED
  BY <1>2, <1>3, HandlerFrame DEF OthersAlone

-----------------------------------------------------------------------------
\* While Redis answers: entries are ahead of the table, handlers know the newest.
LEMMA AheadTypes ==
  ASSUME IInv, NEW r \in Requests, pc[r] \notin {"ready", "exists"}
  PROVE  /\ event[r].vehicle \in Vehicles /\ event[r].ts \in Int /\ event[r] \in Events
         /\ \A row \in history : row.ts \in Int
         /\ previous[r] # NoTs => previous[r] \in Int
         /\ cache \in [Vehicles -> States \cup {NoRow}]
         /\ \A v \in Vehicles : cache[v] # NoRow => cache[v].ts \in Int
BY ConstantsAssumption DEF IInv, TypeOK, PayloadKnown, Events, Rows, States, Timestamps

\* The handler of r moves: it still knows the newest state of its vehicle.
LEMMA KnowsStep ==
  ASSUME IInv, AheadInv, LatestExists, redisUp, NEW r \in Requests, Works(r)
  PROVE  KnowsLatest(r)'
<1> USE DEF AheadInv
<1>1. CASE pc'[r] \notin {"latest", "insert", "publish", "commit"}
  BY <1>1 DEF KnowsLatest
<1>2. CASE ReadCache(r)
  <2>1. /\ event' = event /\ inserted' = inserted /\ cache' = cache /\ history' = history
        /\ pc' = [pc EXCEPT ![r] = pc'[r]] /\ pc[r] = "cached"
    BY <1>2 DEF ReadCache, GoTo, IInv, TypeOK
  <2>2. event[r].vehicle \in Vehicles /\ \A row \in history : row.ts \in Int
    BY <2>1, AheadTypes
  <2>3. CASE cache[event[r].vehicle] # NoRow
    <3>1. /\ pc'[r] = "insert" /\ previous'[r] = cache[event[r].vehicle].ts
          /\ cache[event[r].vehicle].ts \in Int
      BY <1>2, <2>1, <2>2, <2>3, AheadTypes DEF ReadCache, GoTo, IInv, TypeOK
    <3> QED
      BY <2>1, <2>2, <2>3, <3>1, ConstantsAssumption DEF KnowsLatest, CacheAhead, RowsOf
  <2>4. CASE cache[event[r].vehicle] = NoRow
    <3>1. pc'[r] = "latest"
      BY <1>2, <2>4 DEF ReadCache, GoTo, IInv, TypeOK
    <3> QED
      BY <2>1, <2>4, <3>1 DEF KnowsLatest
  <2> QED
    BY <2>3, <2>4
<1>3. CASE ReadLatest(r)
  <2>1. /\ event' = event /\ inserted' = inserted /\ cache' = cache /\ history' = history
        /\ pc'[r] = "insert" /\ pc[r] = "latest" /\ cache[event[r].vehicle] = NoRow
    BY <1>3 DEF ReadLatest, GoTo, IInv, TypeOK, KnowsLatest
  <2>2. event[r].vehicle \in Vehicles /\ \A row \in history : row.ts \in Int
    BY <2>1, AheadTypes
  <2>3. CASE RowsOf(event[r].vehicle) = {}
    BY <2>1, <2>3 DEF KnowsLatest, RowsOf
  <2>4. CASE RowsOf(event[r].vehicle) # {}
    <3>1. PICK row \in LatestRows(event[r].vehicle) : previous'[r] = row.ts
      BY <1>3, <2>4 DEF ReadLatest, IInv, TypeOK
    <3>2. \A other \in RowsOf(event[r].vehicle) :
            previous'[r] # NoTs /\ other.ts <= previous'[r]
      BY <2>2, <3>1, ConstantsAssumption DEF LatestRows, RowsOf
    <3> QED
      BY <2>1, <3>2 DEF KnowsLatest, RowsOf
  <2> QED
    BY <2>3, <2>4
<1>4. CASE Insert(r)
  <2>1. /\ event' = event /\ previous' = previous /\ cache' = cache /\ history' = history
        /\ pc[r] = "insert"
    BY <1>4 DEF Insert
  <2>2. /\ event[r].vehicle \in Vehicles /\ event[r].ts \in Int
        /\ \A row \in history : row.ts \in Int
        /\ previous[r] # NoTs => previous[r] \in Int
        /\ cache[event[r].vehicle] # NoRow => cache[event[r].vehicle].ts \in Int
    BY <2>1, AheadTypes
  <2>3. CASE InsertConflicts(r)
    <3>1. pc'[r] = "commit" /\ inserted'[r] = NoRow
      BY <1>4, <2>1, <2>3 DEF Insert, GoTo, IInv, TypeOK, InsertedIsOwn
    <3> QED
      BY <3>1 DEF KnowsLatest
  <2>4. CASE ~InsertConflicts(r)
    <3>1. inserted'[r].ts = event[r].ts
      BY <1>4, <2>4 DEF Insert, RowFor, IInv, TypeOK
    <3>2. CASE Newer(event[r].ts, previous[r])
      <4>1. pc'[r] = "publish"
        BY <1>4, <2>4, <3>2 DEF Insert, GoTo, IInv, TypeOK
      <4>2. \A row \in RowsOf(event[r].vehicle) : row.ts <= event[r].ts
        BY <2>1, <2>2, <3>2 DEF Newer, KnowsLatest, RowsOf
      <4> QED
        BY <2>1, <3>1, <4>1, <4>2 DEF KnowsLatest, RowsOf
    <3>3. CASE ~Newer(event[r].ts, previous[r])
      <4>1. pc'[r] = "commit"
        BY <1>4, <2>4, <3>3 DEF Insert, GoTo, IInv, TypeOK
      <4>2. cache[event[r].vehicle] # NoRow => event[r].ts <= cache[event[r].vehicle].ts
        BY <2>1, <2>2, <3>3 DEF Newer, KnowsLatest
      <4> QED
        BY <2>1, <3>1, <4>1, <4>2 DEF KnowsLatest
    <3> QED
      BY <3>2, <3>3
  <2> QED
    BY <2>3, <2>4
<1>5. CASE Publish(r)
  <2>1. /\ event' = event /\ inserted' = inserted /\ pc'[r] = "commit" /\ pc[r] = "publish"
        /\ inserted[r] # NoRow
    BY <1>5 DEF Publish, GoTo, IInv, TypeOK, PendingResult
  <2>2. event[r].vehicle \in Vehicles /\ inserted[r].ts \in Int
    BY <2>1, InsertedVehicle, AheadTypes
  <2>3. cache'[event[r].vehicle] = StateOf(inserted[r])
    BY <1>5, <2>2 DEF Publish, IInv, TypeOK
  <2> QED
    BY <2>1, <2>2, <2>3 DEF KnowsLatest, StateOf
<1>6. CASE CheckDuplicate(r)
  <2>1. pc'[r] = "commit" => inserted'[r] = NoRow
    BY <1>6 DEF CheckDuplicate, GoTo, IInv, TypeOK, InsertedIsOwn
  <2>2. pc'[r] \in {"commit", "cached"}
    BY <1>6 DEF CheckDuplicate, GoTo, IInv, TypeOK
  <2> QED
    BY <2>1, <2>2 DEF KnowsLatest
<1>7. ASSUME CheckVehicle(r) \/ Commit(r) \/ CommitUnacknowledged(r) \/ Abort(r)
      PROVE  pc'[r] \notin {"latest", "insert", "publish", "commit"}
  BY <1>7 DEF CheckVehicle, Commit, CommitUnacknowledged, Abort, Leave, GoTo, IInv, TypeOK
<1> QED
  BY <1>1, <1>2, <1>3, <1>4, <1>5, <1>6, <1>7 DEF Works, Handler

\* Entries stay ahead: a commit adds a row that is no newer than the entry.
LEMMA CacheAheadStep ==
  ASSUME IInv, AheadInv, redisUp, NEW r \in Requests, Works(r)
  PROVE  CacheAhead'
<1> USE DEF AheadInv
<1> SUFFICES ASSUME NEW v \in Vehicles, cache'[v] # NoRow
             PROVE  \A row \in RowsOf(v)' : row.ts <= cache'[v].ts
  BY DEF CacheAhead
<1>1. CASE Publish(r)
  <2>1. /\ history' = history /\ inserted[r] # NoRow /\ pc[r] = "publish"
    BY <1>1 DEF Publish, IInv, PendingResult
  <2>2. CASE v = event[r].vehicle
    <3>1. cache'[v] = StateOf(inserted[r])
      BY <1>1, <2>2 DEF Publish, IInv, TypeOK
    <3> QED
      BY <2>1, <2>2, <3>1 DEF KnowsLatest, StateOf, RowsOf
  <2>3. CASE v # event[r].vehicle
    BY <1>1, <2>1, <2>3 DEF Publish, IInv, TypeOK, CacheAhead, RowsOf
  <2> QED
    BY <2>2, <2>3
<1>2. CASE cache' = cache /\ history' = history
  BY <1>2 DEF CacheAhead, RowsOf
<1>3. CASE cache' = cache /\ pc[r] = "commit" /\ history' = TableAfter(r)
  <2>1. CASE v = event[r].vehicle /\ inserted[r] # NoRow
    <3>1. RowsOf(v)' = RowsOf(v) \cup {inserted[r]} /\ inserted[r].ts <= cache[v].ts
      BY <1>3, <2>1, RowsGrowBy DEF KnowsLatest
    <3> QED
      BY <1>3, <3>1 DEF CacheAhead
  <2>2. CASE ~(v = event[r].vehicle /\ inserted[r] # NoRow)
    <3>1. RowsOf(v)' = RowsOf(v)
      BY <1>3, <2>2, RowsGrowBy DEF RowsOf
    <3> QED
      BY <1>3, <3>1 DEF CacheAhead
  <2> QED
    BY <2>1, <2>2
<1> QED
  BY <1>1, <1>2, <1>3, HandlerFrame

LEMMA AheadStep ==
  IInv /\ LatestExists /\ SerialVehicles /\ AheadInv /\ redisUp /\ [Next]_vars => AheadInv'
<1> SUFFICES ASSUME IInv, LatestExists, SerialVehicles, AheadInv, redisUp, [Next]_vars
             PROVE  AheadInv'
  OBVIOUS
<1> USE DEF AheadInv
<1>1. OneInFlight'
  BY OneInFlightStep
<1>2. ASSUME NEW r \in Requests, Works(r) PROVE CacheAhead' /\ \A s \in Requests : KnowsLatest(s)'
  <2>1. ASSUME NEW s \in Requests \ {r} PROVE KnowsLatest(s)'
    <3>1. CASE pc[s] = "ready"
      BY <1>2, <3>1, HandlerFrame DEF OthersAlone, KnowsLatest
    <3>2. CASE pc[s] # "ready"
      BY <1>2, <3>2, ElsewhereStep DEF KnowsLatest
    <3> QED
      BY <3>1, <3>2
  <2> QED
    BY <1>2, <2>1, KnowsStep, CacheAheadStep
<1>3. ASSUME NEW r \in Requests, NEW e \in Events, Receive(r, e)
      PROVE  CacheAhead' /\ \A s \in Requests : KnowsLatest(s)'
  BY <1>3, ReceiveFrame DEF OthersAlone, CacheAhead, KnowsLatest, RowsOf
<1>4. ASSUME NEW v \in Vehicles, Evict(v)
      PROVE  CacheAhead' /\ \A s \in Requests : KnowsLatest(s)'
  <2>1. /\ \A w \in Vehicles : cache'[w] = NoRow \/ cache'[w] = cache[w]
        /\ UNCHANGED <<history, pc, event, previous, inserted>>
    BY <1>4 DEF Evict, IInv, TypeOK
  <2>2. \A s \in Requests : pc[s] \notin {"ready", "exists"} => event[s].vehicle \in Vehicles
    BY AheadTypes
  <2> QED
    BY <2>1, <2>2 DEF CacheAhead, KnowsLatest, RowsOf
<1>5. ASSUME UNCHANGED <<history, cache, pc, event, previous, inserted>>
      PROVE  CacheAhead' /\ \A s \in Requests : KnowsLatest(s)'
  BY <1>5 DEF CacheAhead, KnowsLatest, RowsOf
<1>6. ASSUME Tick \/ RedisFails \/ RedisRecovers \/ UNCHANGED vars
      PROVE  CacheAhead' /\ \A s \in Requests : KnowsLatest(s)'
  BY <1>5, <1>6 DEF Tick, RedisFails, RedisRecovers, vars
<1>7. CacheAhead' /\ \A s \in Requests : KnowsLatest(s)'
  BY <1>2, <1>3, <1>4, <1>6 DEF Next, Works
<1> QED
  BY <1>1, <1>7

LEMMA AheadInit == Init => AheadInv /\ LatestExists
BY DEF Init, AheadInv, OneInFlight, CacheAhead, KnowsLatest, LatestExists, RowsOf

LEMMA AheadServes == IInv /\ AheadInv /\ LatestExists => ServedStateIsLatest
<1> SUFFICES ASSUME IInv, AheadInv, LatestExists, NEW v \in Registered
             PROVE  /\ \A state \in ServedStates(v), row \in RowsOf(v) : state.ts >= row.ts
                    /\ RowsOf(v) # {} => ServedStates(v) # {}
  BY DEF ServedStateIsLatest
<1>1. v \in Vehicles /\ \A row \in history : row.ts \in Int
  BY ConstantsAssumption DEF IInv, TypeOK, Rows, Timestamps
<1>2. CASE redisUp /\ cache[v] # NoRow
  <2>1. cache[v].ts \in Int /\ ServedStates(v) = {cache[v]}
    BY <1>1, <1>2, ConstantsAssumption DEF IInv, TypeOK, States, Timestamps, ServedStates
  <2> QED
    BY <1>1, <1>2, <2>1 DEF AheadInv, CacheAhead, RowsOf
<1>3. CASE ~(redisUp /\ cache[v] # NoRow)
  <2>1. ServedStates(v) = {StateOf(row) : row \in LatestRows(v)}
    BY <1>3 DEF ServedStates
  <2>2. \A top \in LatestRows(v), row \in RowsOf(v) : StateOf(top).ts >= row.ts
    BY <1>1 DEF LatestRows, RowsOf, StateOf
  <2>3. RowsOf(v) # {} => LatestRows(v) # {}
    BY <1>1 DEF LatestExists
  <2> QED
    BY <2>1, <2>2, <2>3
<1> QED
  BY <1>2, <1>3

\* While clients wait for their answers and Redis answers, the state served for
\* a vehicle is the newest one recorded; failures of the database do no harm.
THEOREM NewestIsServed ==
  ASSUME SerialVehicles
  PROVE  Spec => LatestWhileRedisAnswers
<1>1. IInv /\ LatestExists /\ AheadInv /\ redisUp /\ [Next]_vars => AheadInv' /\ LatestExists'
  BY AheadStep, LatestStep
<1> QED
  BY <1>1, AheadInit, AheadServes, Invariance, PTL DEF Spec, LatestWhileRedisAnswers

-----------------------------------------------------------------------------
\* While the database does not fail: no entry is newer than the table, or than
\* the row about to be committed, so what a handler reads is never behind it.
LEMMA BusyVehicle ==
  ASSUME IInv, OrderInv, NEW r \in Requests, pc[r] \notin {"ready", "commit"},
         NEW v \in Vehicles, v = event[r].vehicle, cache[v] # NoRow
  PROVE  \E row \in RowsOf(v) : cache[v].ts <= row.ts
<1>1. ASSUME NEW s \in Requests, pc[s] = "commit", inserted[s] # NoRow, inserted[s].vehicle = v
      PROVE  FALSE
  BY <1>1, InsertedVehicle DEF OrderInv, OneInFlight
<1> QED
  BY <1>1 DEF OrderInv, CacheHasRow

\* The handler of r moves: what it has read is still no older than the entry.
LEMMA ForwardStep ==
  ASSUME IInv, OrderInv, NEW r \in Requests, Works(r)
  PROVE  PublishesForward(r)'
<1>1. CASE pc'[r] \notin {"insert", "publish"}
  BY <1>1 DEF PublishesForward
<1>2. CASE ReadCache(r)
  <2>1. /\ event' = event /\ cache' = cache /\ pc[r] = "cached"
    BY <1>2 DEF ReadCache
  <2>2. /\ event[r].vehicle \in Vehicles
        /\ cache[event[r].vehicle] # NoRow => cache[event[r].vehicle].ts \in Int
    BY <2>1, AheadTypes
  <2>3. CASE redisUp /\ cache[event[r].vehicle] # NoRow
    <3>1. pc'[r] = "insert" /\ previous'[r] = cache[event[r].vehicle].ts
      BY <1>2, <2>3 DEF ReadCache, GoTo, IInv, TypeOK
    <3> QED
      BY <2>1, <2>2, <2>3, <3>1, ConstantsAssumption DEF PublishesForward
  <2>4. CASE ~(redisUp /\ cache[event[r].vehicle] # NoRow)
    <3>1. pc'[r] = "latest"
      BY <1>2, <2>4 DEF ReadCache, GoTo, IInv, TypeOK
    <3> QED
      BY <3>1 DEF PublishesForward
  <2> QED
    BY <2>3, <2>4
<1>3. CASE ReadLatest(r)
  <2>1. /\ event' = event /\ cache' = cache /\ pc[r] = "latest" /\ pc'[r] = "insert"
    BY <1>3 DEF ReadLatest, GoTo, IInv, TypeOK
  <2>2. /\ event[r].vehicle \in Vehicles /\ \A row \in history : row.ts \in Int
        /\ cache[event[r].vehicle] # NoRow => cache[event[r].vehicle].ts \in Int
    BY <2>1, AheadTypes
  <2>3. CASE cache[event[r].vehicle] # NoRow
    <3>1. PICK row \in RowsOf(event[r].vehicle) : cache[event[r].vehicle].ts <= row.ts
      BY <2>1, <2>2, <2>3, BusyVehicle
    <3>2. PICK top \in LatestRows(event[r].vehicle) : previous'[r] = top.ts
      BY <1>3, <3>1 DEF ReadLatest, IInv, TypeOK
    <3>3. top.ts \in Int /\ row.ts \in Int /\ row.ts <= top.ts
      BY <2>2, <3>1, <3>2 DEF LatestRows, RowsOf
    <3> QED
      BY <2>1, <2>2, <2>3, <3>1, <3>2, <3>3, ConstantsAssumption DEF PublishesForward
  <2>4. CASE cache[event[r].vehicle] = NoRow
    BY <2>1, <2>4 DEF PublishesForward
  <2> QED
    BY <2>3, <2>4
<1>4. CASE Insert(r)
  <2>1. /\ event' = event /\ cache' = cache /\ pc[r] = "insert"
    BY <1>4 DEF Insert
  <2>2. /\ event[r].vehicle \in Vehicles /\ event[r].ts \in Int
        /\ previous[r] # NoTs => previous[r] \in Int
        /\ cache[event[r].vehicle] # NoRow => cache[event[r].vehicle].ts \in Int
    BY <2>1, AheadTypes
  <2>3. ASSUME pc'[r] \in {"insert", "publish"}
        PROVE  /\ pc'[r] = "publish" /\ inserted'[r].ts = event[r].ts
               /\ Newer(event[r].ts, previous[r])
    BY <1>4, <2>3 DEF Insert, GoTo, RowFor, IInv, TypeOK
  <2>4. cache[event[r].vehicle] # NoRow =>
          previous[r] # NoTs /\ cache[event[r].vehicle].ts <= previous[r]
    BY <2>1 DEF OrderInv, PublishesForward
  <2> QED
    BY <2>1, <2>2, <2>3, <2>4 DEF PublishesForward, Newer
<1>5. ASSUME \/ CheckVehicle(r) \/ CheckDuplicate(r) \/ Publish(r) \/ Commit(r)
             \/ CommitUnacknowledged(r) \/ Abort(r)
      PROVE  pc'[r] \notin {"insert", "publish"}
  BY <1>5 DEF CheckVehicle, CheckDuplicate, Publish, Commit, CommitUnacknowledged, Abort, Leave,
              GoTo, IInv, TypeOK
<1> QED
  BY <1>1, <1>2, <1>3, <1>4, <1>5 DEF Works, Handler

\* A state enters the cache with its row open, and the commit leaves the row.
LEMMA HasRowStep ==
  ASSUME IInv, OrderInv, ~DatabaseFailures, NEW r \in Requests, Works(r)
  PROVE  CacheHasRow'
<1> SUFFICES ASSUME NEW v \in Vehicles, cache'[v] # NoRow
             PROVE  \/ \E row \in RowsOf(v)' : cache'[v].ts <= row.ts
                    \/ \E s \in Requests :
                         /\ pc'[s] = "commit" /\ inserted'[s] # NoRow
                         /\ inserted'[s].vehicle = v /\ cache'[v].ts <= inserted'[s].ts
  BY DEF CacheHasRow
<1>1. CASE Publish(r) /\ cache'[v] # cache[v]
  <2>1. /\ pc[r] = "publish" /\ pc'[r] = "commit" /\ inserted' = inserted /\ inserted[r] # NoRow
    BY <1>1 DEF Publish, GoTo, IInv, TypeOK, PendingResult
  <2>2. v = event[r].vehicle /\ cache'[v] = StateOf(inserted[r])
    BY <1>1 DEF Publish, IInv, TypeOK
  <2>3. inserted[r].vehicle = v /\ inserted[r].ts \in Int
    BY <2>1, <2>2, InsertedVehicle, AheadTypes
  <2> QED
    BY <2>1, <2>2, <2>3 DEF StateOf
<1>2. CASE cache'[v] = cache[v]
  <2>1. RowsOf(v) \subseteq RowsOf(v)'
    BY HandlerFrame DEF RowsOf, TableAfter
  <2>2. CASE \E row \in RowsOf(v) : cache[v].ts <= row.ts
    BY <1>2, <2>1, <2>2
  <2>3. ASSUME NEW s \in Requests, pc[s] = "commit", inserted[s] # NoRow,
               inserted[s].vehicle = v, cache[v].ts <= inserted[s].ts
        PROVE  \/ \E row \in RowsOf(v)' : cache'[v].ts <= row.ts
               \/ \E q \in Requests :
                    /\ pc'[q] = "commit" /\ inserted'[q] # NoRow
                    /\ inserted'[q].vehicle = v /\ cache'[v].ts <= inserted'[q].ts
    <3>1. CASE s # r
      BY <1>2, <2>3, <3>1, HandlerFrame DEF OthersAlone
    <3>2. CASE s = r
      <4>1. Commit(r)
        BY <2>3, <3>2 DEF Works, Handler, CheckVehicle, CheckDuplicate, ReadCache, ReadLatest,
                          Insert, Publish, CommitUnacknowledged, Abort
      <4>2. history' = history \cup {inserted[r]}
        BY <2>3, <3>2, <4>1 DEF Commit, TableAfter, Written
      <4>3. inserted[r] \in RowsOf(v)'
        BY <2>3, <3>2, <4>2 DEF RowsOf
      <4> QED
        BY <1>2, <2>3, <3>2, <4>3
    <3> QED
      BY <3>1, <3>2
  <2> QED
    BY <1>2, <2>2, <2>3 DEF OrderInv, CacheHasRow
<1> QED
  BY <1>1, <1>2, HandlerFrame

LEMMA OrderStep ==
  IInv /\ SerialVehicles /\ ~DatabaseFailures /\ OrderInv /\ [Next]_vars => OrderInv'
<1> SUFFICES ASSUME IInv, SerialVehicles, ~DatabaseFailures, OrderInv, [Next]_vars
             PROVE  OrderInv'
  OBVIOUS
<1>1. OneInFlight'
  BY OneInFlightStep DEF OrderInv
<1>2. ASSUME NEW r \in Requests, Works(r)
      PROVE  CacheHasRow' /\ \A s \in Requests : PublishesForward(s)'
  <2>1. ASSUME NEW s \in Requests \ {r} PROVE PublishesForward(s)'
    <3>1. CASE pc[s] = "ready"
      BY <1>2, <3>1, HandlerFrame DEF OthersAlone, PublishesForward
    <3>2. CASE pc[s] # "ready"
      BY <1>2, <3>2, ElsewhereStep DEF OrderInv, PublishesForward
    <3> QED
      BY <3>1, <3>2
  <2> QED
    BY <1>2, <2>1, ForwardStep, HasRowStep
<1>3. ASSUME NEW r \in Requests, NEW e \in Events, Receive(r, e)
      PROVE  CacheHasRow' /\ \A s \in Requests : PublishesForward(s)'
  <2>1. /\ UNCHANGED <<history, cache>> /\ pc[r] = "ready" /\ OthersAlone(r)
        /\ pc'[r] \in {"ready", "exists"}
    BY <1>3, ReceiveFrame
  <2>2. \A s \in Requests : PublishesForward(s)'
    BY <2>1 DEF OthersAlone, OrderInv, PublishesForward
  <2>3. CacheHasRow'
    BY <2>1 DEF OthersAlone, OrderInv, CacheHasRow, RowsOf
  <2> QED
    BY <2>2, <2>3
<1>4. ASSUME NEW v \in Vehicles, Evict(v)
      PROVE  CacheHasRow' /\ \A s \in Requests : PublishesForward(s)'
  <2>1. /\ \A w \in Vehicles : cache'[w] = NoRow \/ cache'[w] = cache[w]
        /\ UNCHANGED <<history, pc, event, previous, inserted>>
    BY <1>4 DEF Evict, IInv, TypeOK
  <2>2. \A s \in Requests : pc[s] \notin {"ready", "exists"} => event[s].vehicle \in Vehicles
    BY AheadTypes
  <2> QED
    BY <2>1, <2>2 DEF OrderInv, CacheHasRow, PublishesForward, RowsOf
<1>5. ASSUME UNCHANGED <<history, cache, pc, event, previous, inserted>>
      PROVE  CacheHasRow' /\ \A s \in Requests : PublishesForward(s)'
  BY <1>5 DEF OrderInv, CacheHasRow, PublishesForward, RowsOf
<1>6. ASSUME Tick \/ RedisFails \/ RedisRecovers \/ UNCHANGED vars
      PROVE  CacheHasRow' /\ \A s \in Requests : PublishesForward(s)'
  BY <1>5, <1>6 DEF Tick, RedisFails, RedisRecovers, vars
<1>7. CacheHasRow' /\ \A s \in Requests : PublishesForward(s)'
  BY <1>2, <1>3, <1>4, <1>6 DEF Next, Works
<1> QED
  BY <1>1, <1>7 DEF OrderInv

\* While clients wait for their answers and the database does not fail, a write
\* never replaces a state by an older one, through any outage and eviction.
THEOREM WritesInOrder ==
  ASSUME SerialVehicles, ~DatabaseFailures
  PROVE  Spec => CacheNeverRegresses
<1>1. Init => OrderInv
  BY DEF Init, OrderInv, OneInFlight, CacheHasRow, PublishesForward
<1>2. IInv /\ OrderInv /\ [Next]_vars => OrderInv'
  BY OrderStep
<1>3. IInv /\ OrderInv /\ [Next]_vars =>
        [\A v \in Vehicles :
           cache[v] # NoRow /\ cache'[v] # NoRow => cache[v].ts <= cache'[v].ts]_cache
  <2> SUFFICES ASSUME IInv, OrderInv, [Next]_vars, NEW v \in Vehicles,
                      cache[v] # NoRow, cache'[v] # NoRow, cache' # cache
               PROVE  cache[v].ts <= cache'[v].ts
    OBVIOUS
  <2>1. cache[v].ts \in Int
    BY ConstantsAssumption DEF IInv, TypeOK, States, Timestamps
  <2>2. CASE cache'[v] = cache[v]
    BY <2>1, <2>2
  <2>3. ASSUME NEW r \in Requests, Publish(r), cache'[v] # cache[v]
        PROVE  cache[v].ts <= cache'[v].ts
    <3>1. v = event[r].vehicle /\ cache'[v] = StateOf(inserted[r]) /\ pc[r] = "publish"
      BY <2>3 DEF Publish, IInv, TypeOK
    <3> QED
      BY <3>1 DEF OrderInv, PublishesForward, StateOf
  <2>4. ASSUME NEW w \in Vehicles, Evict(w) PROVE cache'[v] = cache[v]
    BY <2>4 DEF Evict, IInv, TypeOK
  <2> QED
    BY <2>2, <2>3, <2>4, HandlerFrame
    DEF Next, Works, Receive, Tick, RedisFails, RedisRecovers, vars
<1> QED
  BY <1>1, <1>2, <1>3, Invariance, PTL DEF Spec, CacheNeverRegresses

-----------------------------------------------------------------------------
\* Without errors: the row of a cached state is committed, or open still.
NoErrors == \A r \in Requests : result[r] # "error"

\* A handler that does not end in an error keeps its row until it commits it.
LEMMA RowsAreKept ==
  ASSUME IInv, NEW r \in Requests, Works(r), NoErrors'
  PROVE  \A s \in Requests :
           inserted[s] # NoRow => inserted'[s] = inserted[s] \/ inserted[s] \in history'
<1>1. Handler(r)
  BY DEF Works, CommitUnacknowledged, Abort, Leave, NoErrors, IInv, TypeOK
<1>2. CASE Commit(r)
  <2>1. inserted[r] # NoRow => inserted[r] \in history'
    BY <1>2 DEF Commit, TableAfter, Written
  <2> QED
    BY <2>1, HandlerFrame DEF OthersAlone
<1>3. CASE CheckVehicle(r)
  BY <1>3, HandlerFrame DEF CheckVehicle, OthersAlone, IInv, InsertedIsOwn
<1>4. CASE Insert(r)
  BY <1>4, HandlerFrame DEF Insert, OthersAlone, IInv, InsertedIsOwn
<1>5. CASE CheckDuplicate(r) \/ ReadCache(r) \/ ReadLatest(r) \/ Publish(r)
  BY <1>5 DEF CheckDuplicate, ReadCache, ReadLatest, Publish
<1> QED
  BY <1>1, <1>2, <1>3, <1>4, <1>5 DEF Handler

LEMMA ReconstructableStep ==
  IInv /\ NoErrors' /\ CacheIsReconstructable /\ [Next]_vars => CacheIsReconstructable'
<1> SUFFICES ASSUME IInv, NoErrors', CacheIsReconstructable, [Next]_vars,
                    NEW v \in Vehicles, cache'[v] # NoRow
             PROVE  \/ \E row \in history' : StateOf(row) = cache'[v]
                    \/ \E s \in Requests : inserted'[s] # NoRow /\ StateOf(inserted'[s]) = cache'[v]
  BY DEF CacheIsReconstructable
<1>1. ASSUME NEW r \in Requests, Publish(r), cache'[v] # cache[v]
      PROVE  \E s \in Requests : inserted'[s] # NoRow /\ StateOf(inserted'[s]) = cache'[v]
  <2>1. inserted[r] # NoRow /\ inserted' = inserted
    BY <1>1 DEF Publish, IInv, PendingResult
  <2>2. cache'[v] = StateOf(inserted[r])
    BY <1>1 DEF Publish, IInv, TypeOK
  <2> QED
    BY <2>1, <2>2
<1>2. ASSUME cache'[v] = cache[v], history \subseteq history',
             \A s \in Requests :
               inserted[s] # NoRow => inserted'[s] = inserted[s] \/ inserted[s] \in history'
      PROVE  \/ \E row \in history' : StateOf(row) = cache'[v]
             \/ \E s \in Requests : inserted'[s] # NoRow /\ StateOf(inserted'[s]) = cache'[v]
  BY <1>2 DEF CacheIsReconstructable
<1>3. ASSUME NEW r \in Requests, Works(r)
      PROVE  \/ \E row \in history' : StateOf(row) = cache'[v]
             \/ \E s \in Requests : inserted'[s] # NoRow /\ StateOf(inserted'[s]) = cache'[v]
  <2>1. history \subseteq history'
    BY <1>3, HandlerFrame DEF TableAfter
  <2> QED
    BY <1>1, <1>2, <1>3, <2>1, RowsAreKept, HandlerFrame
<1>4. ASSUME NEW r \in Requests, NEW e \in Events, Receive(r, e)
      PROVE  \/ \E row \in history' : StateOf(row) = cache'[v]
             \/ \E s \in Requests : inserted'[s] # NoRow /\ StateOf(inserted'[s]) = cache'[v]
  BY <1>2, <1>4, ReceiveFrame DEF OthersAlone, IInv, InsertedIsOwn
<1>5. ASSUME NEW w \in Vehicles, Evict(w)
      PROVE  cache'[v] = cache[v] /\ UNCHANGED <<history, inserted>>
  BY <1>5 DEF Evict, IInv, TypeOK
<1>6. ASSUME Tick \/ RedisFails \/ RedisRecovers \/ UNCHANGED vars
      PROVE  UNCHANGED <<cache, history, inserted>>
  BY <1>6 DEF Tick, RedisFails, RedisRecovers, vars
<1> QED
  BY <1>2, <1>3, <1>4, <1>5, <1>6 DEF Next, Works

\* A cached state without a committed row is the work of an error: while every
\* request is answered with success or a rejection there is none, whatever
\* Redis does and however many samples of a vehicle are in flight.
THEOREM PhantomsNeedErrors == Spec => OnlyErrorsLeavePhantoms
<1>1. Init => CacheIsReconstructable
  BY DEF Init, CacheIsReconstructable
<1>2. IInv /\ NoErrors' /\ CacheIsReconstructable /\ [Next]_vars => CacheIsReconstructable'
  BY ReconstructableStep
<1> USE DEF NoErrors
<1> QED
  BY <1>1, <1>2, Invariance, PTL DEF Spec, OnlyErrorsLeavePhantoms
=============================================================================
