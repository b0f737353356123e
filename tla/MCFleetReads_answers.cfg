SPECIFICATION ReadSpec
CONSTANTS
  Requests = {r1}
  Vehicles = {v1, v2}
  Registered = {v1, v2}
  Sources = {phone}
  Speeds = {1}
  Segments = {}
  MaxSpeed = 1
  SkewPast = 1
  SkewFuture = 0
  MaxTime = 1
  NoEvent = NoEvent
  NoRow = NoRow
  NoSegment = NoSegment
  NoTs = NoTs
  SerialVehicles = TRUE
  DatabaseFailures = FALSE
  RedisFailures = TRUE
  First = v1
  Second = v2
  Assignments <- TwoAssignments
  Day = 1
  StaleThreshold = 0
  OfflineThreshold = 1
  Forever = Forever
  NoState = NoState
INVARIANTS
  ReportedVehiclesServed
  AnswerOfOneInstant
PROPERTIES
  CacheNeverRegresses
  LatestWhileRedisAnswers
  ReadYourWrites
