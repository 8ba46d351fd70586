SPECIFICATION FairSpec
CONSTANTS
  Jobs = {j1, j2}
  Drivers = {l1, l2, g1}
  Pools = {luna, gem31}
  Kind <- MixKind
  Serves <- MixServes
  PoolOf <- RankPoolOf
  ShapeOf <- MixShape
  ByRank = TRUE
  MaxAttempts = 2
  MaxUnavailable = 2
  ChannelCap = 1
  NoJob = NoJob
  Writer = Writer
  j1 = j1
  j2 = j2
  j3 = j3
  l1 = l1
  l2 = l2
  g1 = g1
  luna = luna
  gem31 = gem31
INVARIANTS RankHolds
PROPERTIES StopDrains PaidIsSettled
