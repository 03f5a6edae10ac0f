SPECIFICATION Spec
CONSTANTS
  creator = creator
  Creators = {creator}
  CreatorOf <- OneCreator
  Submissions = {s1, s2}
  Workers = {w1, w2}
  Ops = {"credit"}
  Rate = 1
  Cap = 2
  Budgets = {1}
  Views = {1000}
  MaxSnapshots = 1
  MaxConsumed = 0
SYMMETRY Symmetry
INVARIANT ConsumedWithinBudget
CHECK_DEADLOCK FALSE
