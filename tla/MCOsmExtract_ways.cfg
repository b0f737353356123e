SPECIFICATION Spec
CONSTANTS
  SupportedHighways = {"primary"}
  NoTag = NoTag
  RawWays <- MCRawWays
  KnownNodes = {n1, n2, n3}
  MaxWays = 2
  MaxRefs = 6
  Nodes = {n1, n2, n3, n4}
  WayIds = {w1, w2}
  Highways = {"primary", "footway"}
  OnewayTags = {NoTag, "yes", "-1"}
SYMMETRY IdSymmetry
INVARIANTS
  SegmentsMakeUpTheWay
  JunctionsSplitSegments
  PlanKeysUnique
  TravelDirectionKept
CHECK_DEADLOCK FALSE
