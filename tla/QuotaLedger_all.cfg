SPECIFICATION Spec
CONSTANTS
  k1 = k1
  k2 = k2
  c1 = c1
  c2 = c2
  Keys = {k1}
  Callers = {c1, c2}
  TicksPerSecond = 1
  WindowSecs = 3
  SeedTokens = 2
  Limits = {0, 2, 6}
  Costs = {0, 3}
  Bills = {1}
  ReqLimit = 2
  Announces = TRUE
  MaxClock = 7
  MaxAsks = 4
  MaxSkew = 1
SYMMETRY QuotaSymmetry
INVARIANTS InflightExact HeldForTheWindow OneProbe NeverSealed WaitIsExact
PROPERTIES FitsTheCeiling
CHECK_DEADLOCK FALSE
