SPECIFICATION Spec
CONSTANTS
  None = None
  j1 = j1
  j2 = j2
  A = A
  Jobs = {j1, j2}
  Orders = {A}
  Timeout = 2
  RetryAfter = 2
  Margin = 4
  MaxTime = 5
  r = r
  Refunds = {r}
  PaypalRefunds = {}
  ImportPaypal = FALSE
  Contents <- UpToCancelled
  Moves <- ToCancelled
SYMMETRY Interchangeable
INVARIANTS TypeOK MissedIsInReach UnbookedIsInReach FlagHasAnOwner OverlapsOnlyAtOnce
CHECK_DEADLOCK FALSE
