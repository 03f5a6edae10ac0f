SPECIFICATION PollingSpec
CONSTANTS
  Pollers = {w1, w2}
  Staff = {s1}
  StaffOps = {"refresh", "manual", "reject", "pause"}
  Faults = {"provider", "db", "credit", "crash"}
  Suspicions = {TRUE, FALSE}
  InitialViews = 1
  MinViews = 1
  MaxViews = 2
  MaxErrors = 1
CONSTRAINT FewTroubles
INVARIANTS OnlyMeasuredEarns NoRepeatedSnapshot
PROPERTIES EventuallyCredited SuspectIsReviewed
CHECK_DEADLOCK FALSE
