SPECIFICATION FairSpec
CONSTANTS
  Requests = {r1, r2}
  Vehicles = {v1, v2}
  Registered = {v1}
  Sources = {phone}
  Speeds = {1, 2}
  Segments = {s1}
  MaxSpeed = 1
  SkewPast = 1
  SkewFuture = 0
  MaxTime = 1
  NoEvent = NoEvent
  NoRow = NoRow
  NoSegment = NoSegment
  NoTs = NoTs
  SerialVehicles = FALSE
  DatabaseFailures = TRUE
  RedisFailures = TRUE
INVARIANTS
  OneRowPerKey
  AcceptedIsDurable
  DuplicateIsDurable
  IInv
PROPERTIES
  LogSpec
  EveryRequestAnswered
  OnlyErrorsLeavePhantoms
