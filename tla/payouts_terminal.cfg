SPECIFICATION Spec
CONSTANTS
  Users = {u1}
  NoUser = NoUser
  Suspendable = {}
  PayoutIds = {p1}
  Workers = {w1, w2}
  Amounts = {1}
  MinPayout = 1
  MaxEarned = 1
  MaxDeducted = 0
  MaxAttempts = 1
SYMMETRY Symmetry
PROPERTY TerminalIsFinal
CHECK_DEADLOCK FALSE
