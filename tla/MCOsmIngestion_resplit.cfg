SPECIFICATION Spec
CONSTANTS
  SupportedHighways = {"residential"}
  NoTag = None
  Nothing = None
  Extracts <- MCExtracts
  WantedRows <- MCWantedRows
  Work <- MCWork
  Runs = {r1}
  Files <- Growing
  MaxStarts = 2
  AtOnce = 1
  SameFile = TRUE
  Failures = FALSE
INVARIANT OneSegmentPerStretch
CHECK_DEADLOCK FALSE
