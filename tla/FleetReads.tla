----------------------------- MODULE FleetReads -----------------------------
(***************************************************************************)
(* GET /fleet and GET /fleet/{vehicle_id}, beside the ingestion handlers of  *)
(* Telemetry.  An answer is put together from a query for the vehicles, a    *)
(* read of the cache per vehicle, a query for its newest row when that gave  *)
(* nothing, and a query for its assignment, with an await at each of them;   *)
(* `now` is taken once, before the first.  Reads change no shared state, so  *)
(* one reader stands for any number of them.                                *)
(***************************************************************************)
EXTENDS Telemetry

CONSTANTS
  Assignments,        \* rows of vehicle_assignments: [vehicle, status, from, to]
  Day,                \* time units in a day; time 0 is a midnight
  StaleThreshold,     \* telemetry_stale_threshold_s
  OfflineThreshold,   \* telemetry_offline_threshold_s
  Forever,            \* valid_to IS NULL
  NoState             \* None

VARIABLES
  step,      \* the await the reader stands at, "answered" after the last
  now,       \* its now
  todo,      \* the vehicle ids it has not begun with
  current,   \* a set: the vehicle it is at, if any
  state,     \* what the cache or the table gave for it
  served,    \* the VehicleStateRead so far
  asked,     \* history: the vehicles whose reported state the answer must contain
  floor      \* history: newest committed ts of each vehicle when the request came

reader == <<step, now, todo, current, state, served, asked, floor>>
ingestion == vars
readVars == <<ingestion, reader>>

ASSUME ReaderAssumption ==
  /\ Day \in Nat \ {0}
  /\ StaleThreshold \in Nat /\ OfflineThreshold \in Nat
  /\ StaleThreshold <= OfflineThreshold

-----------------------------------------------------------------------------
\* Decisions of the code

\* classify_freshness; an age may be negative, the sender's clock being ahead.
Freshness(age) ==
  CASE age <= StaleThreshold -> "live"
    [] age > StaleThreshold /\ age <= OfflineThreshold -> "stale"
    [] OTHER -> "offline"

\* get_active_assignment
InForce(v, day) ==
  {a \in Assignments : /\ a.vehicle = v /\ a.status = "active"
                       /\ a.from <= day /\ (a.to = Forever \/ a.to >= day)}

\* ORDER BY valid_from DESC LIMIT 1, none as the empty set
ActiveOn(v, day) ==
  LET newest == {a \in InForce(v, day) : \A b \in InForce(v, day) : b.from <= a.from}
  IN IF newest = {} THEN {{}} ELSE {{a} : a \in newest}

\* select(Telemetry.vehicle_id).distinct()
Reported == {row.vehicle : row \in history}

\* Mutant: the clock is read for every vehicle.
MutantReadNow == clock

\* The instant ages and dates are taken at.
ReadNow == now

\* Mutant: any row of the vehicle, the query has lost its ORDER BY.
MutantFallbackRows(v) == RowsOf(v)

\* Mutant: an exception of Redis ends the lookup.
MutantNoFallback(v) == IF redisUp THEN LatestRows(v) ELSE {}

\* get_latest_telemetry
FallbackRows(v) == LatestRows(v)

\* The cache gives nothing: a miss or an exception.
Misses(v) == ~redisUp \/ cache[v] = NoRow

-----------------------------------------------------------------------------
\* The steps of the reader

\* The next vehicle of the list, or the answer when there is none.
TurnTo(vehicles) ==
  /\ state' = NoState
  /\ IF vehicles = {}
       THEN step' = "answered" /\ todo' = {} /\ current' = {}
       ELSE \E v \in vehicles :
              step' = "cache" /\ current' = {v} /\ todo' = vehicles \ {v}

\* What properties remember of the moment a request comes.
Remember(vehicles) ==
  /\ asked' = vehicles \cap Reported
  /\ floor' = [v \in Registered |->
                 IF RowsOf(v) = {} THEN NoTs
                 ELSE (CHOOSE row \in LatestRows(v) : TRUE).ts]

AskFleet ==
  /\ step = "idle"
  /\ step' = "list"
  /\ now' = clock
  /\ Remember(Vehicles)
  /\ UNCHANGED <<ingestion, todo, current, state, served>>

\* list_vehicle_ids_with_telemetry
ListVehicles ==
  /\ step = "list"
  /\ TurnTo(Reported)
  /\ UNCHANGED <<ingestion, now, served, asked, floor>>

AskVehicle(v) ==
  /\ step = "idle"
  /\ now' = clock
  /\ Remember({v})
  /\ TurnTo({v})
  /\ UNCHANGED <<ingestion, served>>

\* read_cached_state
LookInCache ==
  /\ step = "cache"
  /\ \E v \in current :
       IF Misses(v)
         THEN step' = "table" /\ UNCHANGED state
         ELSE step' = "assignment" /\ state' = cache[v]
  /\ UNCHANGED <<ingestion, now, todo, current, served, asked, floor>>

\* get_latest_telemetry; a vehicle without a row has no state.
LookInTable ==
  /\ step = "table"
  /\ \E v \in current :
       IF FallbackRows(v) = {}
         THEN TurnTo(todo)
         ELSE /\ \E row \in FallbackRows(v) : state' = StateOf(row)
              /\ step' = "assignment"
              /\ UNCHANGED <<todo, current>>
  /\ UNCHANGED <<ingestion, now, served, asked, floor>>

\* The age of the state, the assignment, and the entry made of them.
MakeEntry ==
  /\ step = "assignment"
  /\ \E v \in current : \E assignment \in ActiveOn(v, ReadNow \div Day) :
       served' = served \cup {[vehicle |-> state.vehicle, ts |-> state.ts, speed |-> state.speed,
                               segment |-> state.segment,
                               freshness |-> Freshness(ReadNow - state.ts),
                               active_assignment |-> assignment]}
  /\ TurnTo(todo)
  /\ UNCHANGED <<ingestion, now, asked, floor>>

ForgetRequest ==
  /\ step' = "idle" /\ now' = 0 /\ todo' = {} /\ current' = {} /\ state' = NoState
  /\ served' = {} /\ asked' = {} /\ floor' = [v \in Registered |-> NoTs]
  /\ UNCHANGED ingestion

\* The answer is sent, 404 for a single vehicle without state.
Answer == step = "answered" /\ ForgetRequest

\* A query fails: 500, nothing is served.
ReadFails == step \in {"list", "table", "assignment"} /\ ForgetRequest

ReadInit ==
  /\ Init
  /\ step = "idle" /\ now = 0 /\ todo = {} /\ current = {} /\ state = NoState
  /\ served = {} /\ asked = {} /\ floor = [v \in Registered |-> NoTs]

Reading ==
  \/ AskFleet \/ ListVehicles \/ \E v \in Vehicles : AskVehicle(v)
  \/ LookInCache \/ LookInTable \/ MakeEntry \/ Answer \/ ReadFails

ReadNext == Reading \/ (Next /\ UNCHANGED reader)

ReadSpec == ReadInit /\ [][ReadNext]_readVars

-----------------------------------------------------------------------------
\* Requirements

\* A vehicle that has reported before the request came is never missing from
\* the answer, nor answered 404: not when Redis goes down, when its entry is
\* evicted or when new samples come in between the awaits.  No vehicle has two
\* entries.
ReportedVehiclesServed ==
  step = "answered" =>
    /\ asked \subseteq {entry.vehicle : entry \in served}
    /\ \A x, y \in served : x.vehicle = y.vehicle => x = y

\* Mixed from several instants, the answer still speaks of one: at some instant
\* since the request came, each freshness label and each assignment was right.
AnswerOfOneInstant ==
  \E t \in now .. clock : \A entry \in served :
    /\ entry.freshness = Freshness(t - entry.ts)
    /\ entry.active_assignment \in ActiveOn(entry.vehicle, t \div Day)

\* No entry is older than what was committed for its vehicle when the request
\* came.
NoOlderThanCommitted ==
  \A entry \in served :
    floor[entry.vehicle] # NoTs => entry.ts >= floor[entry.vehicle]

\* Clients read their writes while Redis answers: a sample answered 202 is
\* never followed by a fleet answer with an older state of the vehicle.
ReadYourWrites == []redisUp => []NoOlderThanCommitted

-----------------------------------------------------------------------------
(* The inductive invariant behind the theorems of FleetReadsProofs.           *)

ServedVehicles == {entry.vehicle : entry \in served}

\* The vehicles of the request that the answer does not have yet.
Pending == todo \cup current

ReaderPlace ==
  /\ step \in {"idle", "list", "cache", "table", "assignment", "answered"}
  /\ now \in 0 .. clock
  /\ todo \cap current = {} /\ Pending \subseteq Vehicles
  /\ step \in {"idle", "list"} => served = {} /\ Pending = {}
  /\ step = "answered" => Pending = {}
  /\ step \in {"cache", "table", "assignment"} => \E v \in Vehicles : current = {v}
  /\ step = "assignment" => current = {state.vehicle}

\* A vehicle asked for is in the table, and until it is served it is pending.
AskedKept ==
  /\ asked \subseteq Reported
  /\ step \notin {"idle", "list"} => asked \subseteq ServedVehicles \cup Pending

ServedOnce ==
  /\ ServedVehicles \cap Pending = {}
  /\ \A x, y \in served : x.vehicle = y.vehicle => x = y

\* The entries are right at the instant `now`.
RightAtNow ==
  \A entry \in served :
    /\ entry.freshness = Freshness(now - entry.ts)
    /\ entry.active_assignment \in ActiveOn(entry.vehicle, now \div Day)

ReaderIInv ==
  /\ IInv
  /\ CachedIsOwn
  /\ LatestExists
  /\ ReaderPlace
  /\ AskedKept
  /\ ServedOnce
  /\ RightAtNow

\* Every floor is the ts of a row of its vehicle, and while Redis answers what
\* the reader holds or has served is no older than the floor.
FloorsCommitted ==
  \A v \in Registered : floor[v] # NoTs => \E row \in RowsOf(v) : row.ts = floor[v]

HeldAtFloor ==
  step = "assignment" =>
    \E v \in Registered :
      /\ state.vehicle = v
      /\ floor[v] # NoTs => state.ts >= floor[v]

ServedAtFloor ==
  \A entry \in served :
    /\ entry.vehicle \in Registered
    /\ floor[entry.vehicle] # NoTs => entry.ts >= floor[entry.vehicle]

FloorInv == FloorsCommitted /\ HeldAtFloor /\ ServedAtFloor
=============================================================================
