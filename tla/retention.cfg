SPECIFICATION Spec
CONSTANTS
  None = None
  Earnings = {e1}
  Workers = {w1, w2}
  Answers = {"live", "gone", "nodata", "transient"}
  Ops = {"approve", "reject", "review", "flag", "reverify"}
  Faults = {"db", "crash"}
  RequiredStrikes = 2
  Days = 2
SYMMETRY Symmetry
CONSTRAINT FewTroubles
INVARIANTS AdjustedOnce ViolationTakesStrikes ViolationIsDeducted RejectedIsDeducted
CHECK_DEADLOCK FALSE
