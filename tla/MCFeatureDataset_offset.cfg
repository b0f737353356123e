CONSTANTS
  Samples <- MCSamples
  Segments = {1, 2}
  Configs <- MCConfigs
  WindowShort = 1
  WindowLong = 3
  TargetWindow = 1
  Hour = 12
  TrainShare = 2
  ValidationShare = 1
  TestShare = 1
  MaxRuns = 2
SPECIFICATION DatasetSpec
CHECK_DEADLOCK FALSE
INVARIANTS
  TemporalColumnsAreUtc
