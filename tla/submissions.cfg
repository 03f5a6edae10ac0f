SPECIFICATION FairSpec
CONSTANTS
  None = None
  Rows = {s1}
  Clips = {x1}
  Creators = {c1}
  Callers = {w1, w2}
  Verifiers = {v1}
  Staff = {"approve", "review", "keep", "reverify"}
  Outcomes = {"review", "transient", "hidden"}
  Faults = {"queue", "db", "history", "crash"}
  MaxFaults = 1
  MaxErrors = 4
  MaxHistory = 2
CONSTRAINT FewTroubles
INVARIANTS HistoryTells
PROPERTIES ImplementsFlow EventuallyDecided
CHECK_DEADLOCK FALSE
