SPECIFICATION Spec
CONSTANTS
  Processes = {p1, p2}
  Keys = {k1}
  Limit = 2
  MaxDay = 2
INVARIANTS CountedOnce BudgetSeesOwn ParkedIsSpent
