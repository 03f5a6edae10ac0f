SPECIFICATION Spec
CONSTANTS
  Users = {u1}
  NoUser = NoUser
  Suspendable = {u1}
  PayoutIds = {p1, p2}
  Workers = {w1, w2}
  Amounts = {1}
  MinPayout = 1
  MaxEarned = 1
  MaxDeducted = 1
  MaxAttempts = 3
SYMMETRY Symmetry
INVARIANTS TypeOK CompletedIsBacked OneAttemptPerGreenLight NothingMissed NoOvercommit NewestAttemptAgrees
PROPERTIES ImplementsHistory ImplementsLifecycle
CONSTRAINTS ShortLives EarlyTrouble
CHECK_DEADLOCK FALSE
