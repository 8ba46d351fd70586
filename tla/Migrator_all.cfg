SPECIFICATION MigratorSpec
CONSTANTS
  Processes = {p1, p2}
  Versions = {1, 2, 3, 4}
  Creates = {2}
  Drops = {3}
  Reindexes = {4}
INVARIANTS Ladder WorksOnItsSchema
PROPERTIES OneAtATime WaitsEnd
