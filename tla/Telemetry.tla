----------------------------- MODULE Telemetry ------------------------------
(***************************************************************************)
(* POST /telemetry: the ingestion handler of services/api, its Postgres     *)
(* transaction and the Redis cache of the current vehicle state.            *)
(*                                                                         *)
(* A request slot runs one handler at a time; every await of the handler is *)
(* a point where the other handlers, Redis and the database move.  A step   *)
(* of a slot is the code from one await to the next.  Postgres runs READ    *)
(* COMMITTED: a query sees the rows committed when it executes.             *)
(***************************************************************************)
EXTENDS Integers, FiniteSets

CONSTANTS
  Requests,          \* request slots, each one serving a request at a time
  Vehicles,          \* vehicle ids a payload may carry
  Registered,        \* those with a row in vehicles
  Sources,           \* phone, sumo, synthetic
  Speeds,            \* speed_mps values a payload may carry
  Segments,          \* road segment ids a position may be matched to
  MaxSpeed,          \* telemetry_max_speed_mps
  SkewPast,          \* telemetry_max_clock_skew_past_s
  SkewFuture,        \* telemetry_max_clock_skew_future_s
  MaxTime,           \* bound of the model: the server clock stops here
  NoEvent,           \* the slot serves no payload
  NoRow,             \* no row inserted, no state cached, None
  NoSegment,         \* no segment within the radius
  NoTs,              \* no timestamp known yet
  SerialVehicles,    \* clients wait for an answer before the next sample
  DatabaseFailures,  \* statements and commits may fail, handlers may die
  RedisFailures      \* Redis may become unreachable

VARIABLES
  clock,      \* server time
  history,    \* committed rows of the telemetry table
  redisUp,    \* Redis answers
  cache,      \* aura:vehicle_state:{vehicle_id}
  pc,         \* the await a slot's handler stands at
  event,      \* its payload
  previous,   \* previous_ts
  inserted,   \* the row its open transaction inserted
  result      \* its IngestResult, the answer once pc is "ready"

vars == <<clock, history, redisUp, cache, pc, event, previous, inserted, result>>

Times == 0 .. MaxTime
Timestamps == 0 .. MaxTime + SkewFuture

Events == [vehicle : Vehicles, ts : Timestamps, zoned : BOOLEAN,
           source : Sources, speed : Speeds]
Rows == [vehicle : Registered, ts : Timestamps, source : Sources,
         speed : Speeds, segment : Segments \cup {NoSegment}]
States == [vehicle : Registered, ts : Timestamps, speed : Speeds,
           segment : Segments \cup {NoSegment}]

Awaits == {"exists", "duplicate", "cached", "latest", "insert", "publish", "commit"}
Results == {"none", "rejected", "duplicate", "advanced", "out_of_order", "error"}
Accepted == {"advanced", "out_of_order"}

\* What the proofs need of the constants.
ASSUME ConstantsAssumption ==
  /\ Registered \subseteq Vehicles
  /\ MaxTime \in Nat /\ SkewFuture \in Nat /\ SkewPast \in Nat
  /\ NoTs \notin Int
  /\ NoEvent \notin Events
  /\ NoRow \notin Rows \cup States

TypeOK ==
  /\ clock \in Times
  /\ history \subseteq Rows
  /\ redisUp \in BOOLEAN
  /\ cache \in [Vehicles -> States \cup {NoRow}]
  /\ pc \in [Requests -> Awaits \cup {"ready"}]
  /\ event \in [Requests -> Events \cup {NoEvent}]
  /\ previous \in [Requests -> Timestamps \cup {NoTs}]
  /\ inserted \in [Requests -> Rows \cup {NoRow}]
  /\ result \in [Requests -> Results]

-----------------------------------------------------------------------------
\* Rows, keys and states

Key(x) == <<x.vehicle, x.ts, x.source>>

\* A row carries the payload's measurement and the matched segment.
RowFor(e, segment) ==
  [vehicle |-> e.vehicle, ts |-> e.ts, source |-> e.source,
   speed |-> e.speed, segment |-> segment]

\* CurrentVehicleState and its JSON keep neither the source nor the id.
StateOf(row) ==
  [vehicle |-> row.vehicle, ts |-> row.ts, speed |-> row.speed,
   segment |-> row.segment]

Recorded(e) == \E row \in history : Key(row) = Key(e)

RowsOf(v) == {row \in history : row.vehicle = v}

\* ORDER BY ts DESC LIMIT 1: which of several rows with the same ts is open.
LatestRows(v) ==
  {row \in RowsOf(v) : \A other \in RowsOf(v) : other.ts <= row.ts}

-----------------------------------------------------------------------------
\* Decisions of the code

\* validate_fields returns no reason to reject.
ValidAt(e, now) ==
  /\ e.zoned
  /\ now - e.ts <= SkewPast
  /\ now - e.ts >= -SkewFuture
  /\ e.speed <= MaxSpeed

\* Mutant: every valid sample replaces the current state.
MutantNewer(ts, known) == TRUE

\* is_newer
Newer(ts, known) == IF known = NoTs THEN TRUE ELSE ts > known

\* Mutant: _is_duplicate also answers for rows another handler has not
\* committed yet.
MutantIsDuplicate(r) ==
  \/ Recorded(event[r])
  \/ \E s \in Requests : inserted[s] # NoRow /\ Key(inserted[s]) = Key(event[r])

\* _is_duplicate: sees committed rows only.
IsDuplicate(r) == Recorded(event[r])

\* Mutant: a plain INSERT into a table without the unique constraint.
MutantInsertConflicts(r) == FALSE

\* The unique index already holds the key of r's row.
InsertConflicts(r) == Recorded(event[r])

\* The unique index holds the key for a transaction that is still open: the
\* statement waits for that transaction to end.
InsertWaits(r) ==
  \E s \in Requests :
    /\ s # r
    /\ inserted[s] # NoRow
    /\ Key(inserted[s]) = Key(event[r])

-----------------------------------------------------------------------------
\* The steps of a handler

GoTo(r, label) == pc' = [pc EXCEPT ![r] = label]

\* Mutant: the session is not closed, its transaction stays open.
MutantLeave(r, answer) ==
  /\ GoTo(r, "ready")
  /\ event' = IF answer \in Accepted \cup {"duplicate"}
                THEN event
                ELSE [event EXCEPT ![r] = NoEvent]
  /\ previous' = [previous EXCEPT ![r] = NoTs]
  /\ UNCHANGED inserted
  /\ result' = [result EXCEPT ![r] = answer]

\* The handler returns.  With a conclusive answer the slot keeps the payload
\* it is about, which only the properties look at.
Leave(r, answer) ==
  /\ GoTo(r, "ready")
  /\ event' = IF answer \in Accepted \cup {"duplicate"}
                THEN event
                ELSE [event EXCEPT ![r] = NoEvent]
  /\ previous' = [previous EXCEPT ![r] = NoTs]
  /\ inserted' = [inserted EXCEPT ![r] = NoRow]
  /\ result' = [result EXCEPT ![r] = answer]

InFlight(v) == {r \in Requests : pc[r] # "ready" /\ event[r].vehicle = v}

\* A payload arrives and validate_fields runs before the first await.
Receive(r, e) ==
  /\ pc[r] = "ready"
  /\ SerialVehicles => InFlight(e.vehicle) = {}
  /\ IF ValidAt(e, clock)
       THEN /\ GoTo(r, "exists")
            /\ event' = [event EXCEPT ![r] = e]
            /\ result' = [result EXCEPT ![r] = "none"]
            /\ UNCHANGED <<previous, inserted>>
       ELSE Leave(r, "rejected")
  /\ UNCHANGED <<clock, history, redisUp, cache>>

\* _vehicle_exists
CheckVehicle(r) ==
  /\ pc[r] = "exists"
  /\ IF event[r].vehicle \in Registered
       THEN GoTo(r, "duplicate") /\ UNCHANGED <<event, previous, inserted, result>>
       ELSE Leave(r, "rejected")
  /\ UNCHANGED <<clock, history, redisUp, cache>>

\* The pre-check in front of the more expensive work.
CheckDuplicate(r) ==
  /\ pc[r] = "duplicate"
  /\ IF IsDuplicate(r)
       THEN GoTo(r, "commit") /\ result' = [result EXCEPT ![r] = "duplicate"]
       ELSE GoTo(r, "cached") /\ UNCHANGED result
  /\ UNCHANGED <<clock, history, redisUp, cache, event, previous, inserted>>

\* _latest_known_ts, the cache: a hit is final, a miss or an exception is not.
ReadCache(r) ==
  LET state == cache[event[r].vehicle] IN
  /\ pc[r] = "cached"
  /\ IF redisUp /\ state # NoRow
       THEN GoTo(r, "insert") /\ previous' = [previous EXCEPT ![r] = state.ts]
       ELSE GoTo(r, "latest") /\ UNCHANGED previous
  /\ UNCHANGED <<clock, history, redisUp, cache, event, inserted, result>>

\* _latest_known_ts, the fallback: the newest committed row.
ReadLatest(r) ==
  LET v == event[r].vehicle IN
  /\ pc[r] = "latest"
  /\ GoTo(r, "insert")
  /\ \/ RowsOf(v) = {} /\ UNCHANGED previous
     \/ \E row \in LatestRows(v) : previous' = [previous EXCEPT ![r] = row.ts]
  /\ UNCHANGED <<clock, history, redisUp, cache, event, inserted, result>>

\* find_nearest_segment, INSERT ... ON CONFLICT DO NOTHING RETURNING id, and
\* the decision taken on its result before the next await.
Insert(r) ==
  /\ pc[r] = "insert"
  /\ ~InsertWaits(r)
  /\ IF InsertConflicts(r)
       THEN /\ result' = [result EXCEPT ![r] = "duplicate"]
            /\ GoTo(r, "commit")
            /\ UNCHANGED inserted
       ELSE /\ \E segment \in Segments \cup {NoSegment} :
                 inserted' = [inserted EXCEPT ![r] = RowFor(event[r], segment)]
            /\ IF Newer(event[r].ts, previous[r])
                 THEN /\ result' = [result EXCEPT ![r] = "advanced"]
                      /\ GoTo(r, "publish")
                 ELSE /\ result' = [result EXCEPT ![r] = "out_of_order"]
                      /\ GoTo(r, "commit")
  /\ UNCHANGED <<clock, history, redisUp, cache, event, previous>>

\* Mutant: the state is stamped with the time of its arrival.
MutantPublish(r) ==
  /\ pc[r] = "publish"
  /\ cache' = IF redisUp
                THEN [cache EXCEPT ![event[r].vehicle] =
                        [StateOf(inserted[r]) EXCEPT !.ts = clock]]
                ELSE cache
  /\ GoTo(r, "commit")
  /\ UNCHANGED <<clock, history, redisUp, event, previous, inserted, result>>

\* Mutant: SET ... NX, an entry is written once and then lives out its TTL.
MutantPublishOnce(r) ==
  LET v == event[r].vehicle IN
  /\ pc[r] = "publish"
  /\ cache' = IF redisUp /\ cache[v] = NoRow
                THEN [cache EXCEPT ![v] = StateOf(inserted[r])]
                ELSE cache
  /\ GoTo(r, "commit")
  /\ UNCHANGED <<clock, history, redisUp, event, previous, inserted, result>>

\* publish_state_update: SET, or a swallowed exception.  The transaction that
\* holds the row is still open.
Publish(r) ==
  /\ pc[r] = "publish"
  /\ cache' = IF redisUp
                THEN [cache EXCEPT ![event[r].vehicle] = StateOf(inserted[r])]
                ELSE cache
  /\ GoTo(r, "commit")
  /\ UNCHANGED <<clock, history, redisUp, event, previous, inserted, result>>

\* Mutant: a sample that does not advance the state is not kept.
MutantWritten(r) == IF result[r] = "advanced" THEN {inserted[r]} ELSE {}

\* What the transaction of r adds to the table when it commits.
Written(r) == {inserted[r]} \ {NoRow}

TableAfter(r) == history \cup Written(r)

\* session.commit() in the endpoint, then the 202 answer.
Commit(r) ==
  /\ pc[r] = "commit"
  /\ history' = TableAfter(r)
  /\ Leave(r, result[r])
  /\ UNCHANGED <<clock, redisUp, cache>>

\* The commit reached the server but its acknowledgement did not come back.
CommitUnacknowledged(r) ==
  /\ DatabaseFailures
  /\ pc[r] = "commit"
  /\ history' = TableAfter(r)
  /\ Leave(r, "error")
  /\ UNCHANGED <<clock, redisUp, cache>>

\* A statement or the commit fails, or the process dies: the transaction rolls
\* back, and what was published stays published.
Abort(r) ==
  /\ DatabaseFailures
  /\ pc[r] # "ready"
  /\ Leave(r, "error")
  /\ UNCHANGED <<clock, history, redisUp, cache>>

-----------------------------------------------------------------------------
\* The environment

Tick ==
  /\ clock < MaxTime
  /\ clock' = clock + 1
  /\ UNCHANGED <<history, redisUp, cache, pc, event, previous, inserted, result>>

\* The entry's TTL runs out, or Redis evicts it or restarts empty.
Evict(v) ==
  /\ cache[v] # NoRow
  /\ cache' = [cache EXCEPT ![v] = NoRow]
  /\ UNCHANGED <<clock, history, redisUp, pc, event, previous, inserted, result>>

RedisFails ==
  /\ RedisFailures
  /\ redisUp
  /\ redisUp' = FALSE
  /\ UNCHANGED <<clock, history, cache, pc, event, previous, inserted, result>>

RedisRecovers ==
  /\ ~redisUp
  /\ redisUp' = TRUE
  /\ UNCHANGED <<clock, history, cache, pc, event, previous, inserted, result>>

-----------------------------------------------------------------------------
Init ==
  /\ clock = 0
  /\ history = {}
  /\ redisUp = TRUE
  /\ cache = [v \in Vehicles |-> NoRow]
  /\ pc = [r \in Requests |-> "ready"]
  /\ event = [r \in Requests |-> NoEvent]
  /\ previous = [r \in Requests |-> NoTs]
  /\ inserted = [r \in Requests |-> NoRow]
  /\ result = [r \in Requests |-> "none"]

\* The steps of a handler that has been started and is not disturbed.
Handler(r) ==
  \/ CheckVehicle(r)
  \/ CheckDuplicate(r)
  \/ ReadCache(r)
  \/ ReadLatest(r)
  \/ Insert(r)
  \/ Publish(r)
  \/ Commit(r)

Next ==
  \/ \E r \in Requests :
       \/ \E e \in Events : Receive(r, e)
       \/ Handler(r)
       \/ CommitUnacknowledged(r)
       \/ Abort(r)
  \/ Tick
  \/ \E v \in Vehicles : Evict(v)
  \/ RedisFails
  \/ RedisRecovers

Spec == Init /\ [][Next]_vars

\* The event loop runs every ready coroutine, Postgres answers every statement
\* it does not make wait, and it hands a freed key to its waiters in turn.
FairSpec ==
  Spec /\ \A r \in Requests : WF_vars(Handler(r)) /\ SF_vars(Insert(r))

-----------------------------------------------------------------------------
\* Requirements

\* Two handlers of the same sample, racing between the pre-check and the
\* insert, never leave two rows: (vehicle, ts, source) identifies a row.
OneRowPerKey ==
  \A row, other \in history : Key(row) = Key(other) => row = other

\* A 202 "accepted" means the row of this very payload is committed, whether or
\* not it advanced the current state.
AcceptedIsDurable ==
  \A r \in Requests :
    pc[r] = "ready" /\ result[r] \in Accepted
      => \E row \in history : row = RowFor(event[r], row.segment)

\* A 202 "duplicate" means some row with the key is committed: the client may
\* forget the sample, even when the other attempt was still open when it asked.
DuplicateIsDurable ==
  \A r \in Requests :
    pc[r] = "ready" /\ result[r] = "duplicate" => Recorded(event[r])

\* History is the record of what happened: rows are added, never changed.
HistoryAppendOnly == [][history \subseteq history']_history

\* What clients see of the slots: the payload they wait an answer for, and the
\* answer, in which both accepted results are a 202 "accepted".
Calls == [r \in Requests |-> IF pc[r] = "ready" THEN NoEvent ELSE event[r]]

Answers ==
  [r \in Requests |->
     IF pc[r] # "ready" THEN "none"
     ELSE IF result[r] \in Accepted THEN "accepted"
     ELSE result[r]]

Log == INSTANCE EventLog WITH log <- history, call <- Calls, answer <- Answers

\* The endpoint is an idempotent append to a log, at one instant, for every
\* interleaving and every failure.
LogSpec == Log!Spec

\* Every request is answered: waiting for another transaction on the unique
\* index never lasts, and no two handlers wait for each other.
EveryRequestAnswered ==
  \A r \in Requests : pc[r] # "ready" ~> pc[r] = "ready"

\* The cache is never the only copy: a cached state is that of a committed row,
\* or of a row whose handler is about to commit it.
CacheIsReconstructable ==
  \A v \in Vehicles :
    cache[v] # NoRow =>
      \/ \E row \in history : StateOf(row) = cache[v]
      \/ \E r \in Requests : inserted[r] # NoRow /\ StateOf(inserted[r]) = cache[v]

\* It becomes the only copy by an error alone: while every request is answered
\* with success or a rejection, outages and evictions of Redis included, each
\* cached state has its row.
OnlyErrorsLeavePhantoms ==
  [](\A r \in Requests : result[r] # "error") => []CacheIsReconstructable

\* A write to the cache never replaces a state by an older one.
CacheNeverRegresses ==
  [][\A v \in Vehicles :
       cache[v] # NoRow /\ cache'[v] # NoRow => cache[v].ts <= cache'[v].ts]_cache

\* get_vehicle_state for a request that finds cache and table as they are now.
ServedStates(v) ==
  IF redisUp /\ cache[v] # NoRow
    THEN {cache[v]}
    ELSE {StateOf(row) : row \in LatestRows(v)}

\* With nothing in flight for a vehicle, the state served for it is the newest
\* one ever recorded, and it is served as soon as there is one.
ServedStateIsLatest ==
  \A v \in Registered :
    InFlight(v) = {} =>
      /\ \A state \in ServedStates(v), row \in RowsOf(v) : state.ts >= row.ts
      /\ RowsOf(v) # {} => ServedStates(v) # {}

\* It stays so for as long as Redis answers: entries that expire or are evicted
\* do no harm, only an outage does.
LatestWhileRedisAnswers == []redisUp => []ServedStateIsLatest

\* While nothing is in flight for a vehicle, the state served for it does not
\* go back in time.
LiveViewNeverRegresses ==
  [][\A v \in Registered :
       InFlight(v) = {} =>
         \A old \in ServedStates(v), new \in ServedStates(v)' : old.ts <= new.ts]_vars

-----------------------------------------------------------------------------
\* Why the requirements on history hold: the parts of the inductive invariant

\* A handler past _vehicle_exists works for a registered vehicle, and a
\* handler in flight has a payload.
PayloadKnown ==
  \A r \in Requests :
    pc[r] # "ready" =>
      /\ event[r] \in Events
      /\ pc[r] # "exists" => event[r].vehicle \in Registered

\* An open transaction holds the row of its own payload, whose key no
\* committed row has.
InsertedIsOwn ==
  \A r \in Requests :
    inserted[r] # NoRow =>
      /\ pc[r] \in {"publish", "commit"}
      /\ result[r] \in Accepted
      /\ inserted[r] = RowFor(event[r], inserted[r].segment)
      /\ ~Recorded(event[r])

\* No two open transactions hold the same key.
OneInsertPerKey ==
  \A r, s \in Requests :
    r # s /\ inserted[r] # NoRow /\ inserted[s] # NoRow
      => Key(inserted[r]) # Key(inserted[s])

\* What the handler will answer when its transaction commits.
PendingResult ==
  \A r \in Requests :
    /\ pc[r] = "publish" => inserted[r] # NoRow
    /\ pc[r] = "commit" =>
         \/ inserted[r] # NoRow
         \/ result[r] = "duplicate" /\ Recorded(event[r])

\* What an answer says about the payload the slot kept.
AnsweredPayload ==
  \A r \in Requests :
    pc[r] = "ready" /\ result[r] \in Accepted \cup {"duplicate"}
      => event[r] \in Events

\* The inductive invariant behind the three requirements on history.  OneRowPerKey
\* alone is not inductive: it survives a commit only because an open
\* transaction's key is neither in the table nor in another open transaction.
IInv ==
  /\ TypeOK
  /\ PayloadKnown
  /\ InsertedIsOwn
  /\ OneInsertPerKey
  /\ PendingResult
  /\ AnsweredPayload
  /\ OneRowPerKey
  /\ AcceptedIsDurable
  /\ DuplicateIsDurable

-----------------------------------------------------------------------------
(* What keeps the cache in order while clients send one sample of a vehicle   *)
(* at a time: the parts of the invariants of TelemetryOrderProofs.            *)

\* An entry of the cache is about its own vehicle.
CachedIsOwn == \A v \in Vehicles : cache[v] # NoRow => cache[v].vehicle = v

\* Rows come one at a time: a vehicle that has rows has a latest one.
LatestExists == \A v \in Vehicles : RowsOf(v) # {} => LatestRows(v) # {}

OneInFlight ==
  \A r, s \in Requests :
    pc[r] # "ready" /\ pc[s] # "ready" /\ event[r].vehicle = event[s].vehicle => r = s

\* Without failures of the database, a cached state is no newer than the table
\* or the row that the handler is about to commit.
CacheHasRow ==
  \A v \in Vehicles : cache[v] # NoRow =>
    \/ \E row \in RowsOf(v) : cache[v].ts <= row.ts
    \/ \E r \in Requests :
         /\ pc[r] = "commit" /\ inserted[r] # NoRow
         /\ inserted[r].vehicle = v /\ cache[v].ts <= inserted[r].ts

\* What a handler has read, and what it will publish, is no older than the entry.
PublishesForward(r) ==
  pc[r] \in {"insert", "publish"} /\ cache[event[r].vehicle] # NoRow =>
    /\ pc[r] = "insert" => previous[r] # NoTs /\ cache[event[r].vehicle].ts <= previous[r]
    /\ pc[r] = "publish" => cache[event[r].vehicle].ts <= inserted[r].ts

OrderInv == OneInFlight /\ CacheHasRow /\ \A r \in Requests : PublishesForward(r)

\* While Redis answers, an entry is no older than any row of its vehicle.
CacheAhead ==
  \A v \in Vehicles : cache[v] # NoRow => \A row \in RowsOf(v) : row.ts <= cache[v].ts

\* It stays so since a handler knows the newest row, by the entry or the table.
KnowsLatest(r) ==
  LET v == event[r].vehicle IN
  /\ pc[r] = "latest" => cache[v] = NoRow
  /\ pc[r] = "insert" =>
       /\ \A row \in RowsOf(v) : previous[r] # NoTs /\ row.ts <= previous[r]
       /\ cache[v] # NoRow => previous[r] # NoTs /\ previous[r] <= cache[v].ts
  /\ pc[r] = "publish" => \A row \in RowsOf(v) : row.ts <= inserted[r].ts
  /\ pc[r] = "commit" /\ inserted[r] # NoRow /\ cache[v] # NoRow =>
       inserted[r].ts <= cache[v].ts

AheadInv == OneInFlight /\ CacheAhead /\ \A r \in Requests : KnowsLatest(r)
=============================================================================
