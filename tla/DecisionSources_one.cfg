SPECIFICATION Spec
CONSTANTS
  Uids = {1, 2, 3}
  Sources = {"judilibre", "dila"}
  SourceOf <- TwoAndOne
  RankOf <- Ranks
  Judilibre = "judilibre"
  SumsOf <- OneEdited
  Writers = {w1}
  MaxId = 2
  MaxFeeds = 4
  MaxSays = 1
  MaxCommands = 0
INVARIANTS OneActivePerSource
CHECK_DEADLOCK FALSE
