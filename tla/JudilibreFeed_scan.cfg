SPECIFICATION Spec
CONSTANTS
  Jurs <- TwoJurs
  Decisions = {1, 2, 3}
  JurOf <- FirstTwo
  ScanSize = 1
  PageSize = 1
  Hour = 1
  MaxOps = 5
  MaxFaults = 1
INVARIANTS ScanIsWhole

