SPECIFICATION FairSpec
CONSTANTS
  Seeders = {s1, s2}
  Importers = {i1}
  Alembic = Alembic
  Extracts <- WholeAndSplit
  MaxRuns = 2
  MaxMigrations = 3
CHECK_DEADLOCK FALSE
INVARIANTS
  SchemaFollowsVersion
  FixturesWholeAndOnce
  ImportsOnce
PROPERTIES
  SeedMeansSeeded
  StretchesStayApart
  EveryCommandEnds
