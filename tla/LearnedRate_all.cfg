SPECIFICATION Spec
CONSTANTS
  c1 = c1
  c2 = c2
  Callers = {c1, c2}
  Whole = 2
  TargetMin = 1
  SeedTarget = 4
  Latencies = {1, 2}
  Base = 2
  Minute = 4
  Margin = 1
  ProbePeriod = 8
  Delays = {0, 6}
  Ceilings = {1}
  MaxSkew = 1
  MaxClock = 12
  MaxCalls = 3
SYMMETRY PaceSymmetry
PROPERTIES OneCutPerMinute CeilingIsProbed StatedWaitHolds
CHECK_DEADLOCK FALSE
