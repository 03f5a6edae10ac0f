SPECIFICATION Spec
CONSTANTS
  creator = creator
  Creators = {creator}
  CreatorOf <- OneCreator
  Submissions = {s1, s2}
  Workers = {w1, w2}
  Ops = {"credit", "refresh", "status", "edit"}
  Rate = 1
  Cap = 2
  Budgets = {1, 3}
  Views = {500, 3000}
  MaxSnapshots = 2
  MaxConsumed = 4
SYMMETRY Symmetry
INVARIANTS TypeOK HighWaterMark PaidWithinBudget LedgerCovered EarnedWithinCap
CHECK_DEADLOCK FALSE
