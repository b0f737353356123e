SPECIFICATION GraphSpec
CONSTANTS
  SupportedHighways = {"residential"}
  NoTag = None
  NoDegree = None
  Images <- MCImages
INVARIANTS
  GraphIInv
  CountsEachSegmentOnce
  ReportsOnlyLateIntersections
  DegreesCountOwnEdges
PROPERTY FailsOnlyAfterImport
