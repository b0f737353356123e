SPECIFICATION Spec
CONSTANTS
  SupportedHighways = {"residential"}
  NoTag = None
  Nothing = None
  Extracts <- MCExtracts
  WantedRows <- MCWantedRows
  Work <- MCWork
  Runs = {r1, r2}
  Files <- AllFiles
  MaxStarts = 3
  AtOnce = 2
  SameFile = FALSE
  Failures = TRUE
SYMMETRY RunSymmetry
INVARIANTS ReferencesExist NoDeadlock
CHECK_DEADLOCK FALSE
