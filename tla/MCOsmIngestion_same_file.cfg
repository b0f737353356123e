SPECIFICATION Spec
CONSTANTS
  SupportedHighways = {"residential"}
  NoTag = None
  Nothing = None
  Extracts <- MCExtracts
  WantedRows <- MCWantedRows
  Work <- MCWork
  Runs = {r1, r2}
  Files <- AllFiles
  MaxStarts = 4
  AtOnce = 2
  SameFile = TRUE
  Failures = TRUE
SYMMETRY RunSymmetry
INVARIANTS IInv RerunWritesNothing StatsAreExact
PROPERTY ImportsWholeExtracts
CHECK_DEADLOCK FALSE
