SPECIFICATION Spec
CONSTANTS
  Requests = {r1}
  Vehicles = {v1}
  Registered = {v1}
  Sources = {phone}
  Speeds = {1}
  Segments = {}
  MaxSpeed = 1
  SkewPast = 1
  SkewFuture = 1
  MaxTime = 1
  NoEvent = NoEvent
  NoRow = NoRow
  NoSegment = NoSegment
  NoTs = NoTs
  SerialVehicles = TRUE
  DatabaseFailures = FALSE
  RedisFailures = TRUE
PROPERTIES
  LiveViewNeverRegresses
