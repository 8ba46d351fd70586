SPECIFICATION Spec
CONSTANTS
  Uids = {1, 2, 3}
  Sources = {"judilibre", "dila"}
  SourceOf <- OneAndTwo
  RankOf <- Ranks
  Judilibre = "judilibre"
  SumsOf <- OneEdited
  Writers = {w1, w2}
  MaxId = 3
  MaxFeeds = 4
  MaxSays = 1
  MaxCommands = 2
INVARIANTS TypeOK Reconciled AuthorityServes
CHECK_DEADLOCK FALSE
PROPERTIES WithdrawnForGood
