SPECIFICATION FairSpec
CONSTANTS
  None = None
  Recordings = {r1, r2}
  Workers = {w1, w2}
  Ops = {"upload", "cancel", "submit", "restart"}
  MaxDrafts = 2
  MaxSessions = 2
INVARIANTS OneUploadPerSession
PROPERTIES ImplementsFlow ProcessingEnds
CHECK_DEADLOCK FALSE
