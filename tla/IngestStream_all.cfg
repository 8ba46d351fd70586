SPECIFICATION Spec
CONSTANTS
  u1 = u1
  t1 = t1
  t2 = t2
  Uids = {u1}
  Texts = {t1, t2}
  BatchSize = 2
  StageQueue = 1
  ExtractQueue = 1
  MaxLines = 5
  MaxRuns = 2
INVARIANTS MarkedIsServed
PROPERTIES StaleOnlyIfBack RunEnds
CHECK_DEADLOCK FALSE
