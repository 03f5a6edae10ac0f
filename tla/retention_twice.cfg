SPECIFICATION Spec
CONSTANTS
  None = None
  Earnings = {e1}
  Workers = {w1}
  Answers = {"gone", "live"}
  Ops = {"approve", "reject"}
  Faults = {}
  RequiredStrikes = 3
  Days = 3
INVARIANT NeverMoreThanEarned
CHECK_DEADLOCK FALSE
