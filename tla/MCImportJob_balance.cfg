SPECIFICATION Spec
CONSTANTS
  None = None
  j1 = j1
  j2 = j2
  A = A
  Jobs = {j1}
  Orders = {A}
  Timeout = 1
  RetryAfter = 1
  Margin = 2
  MaxTime = 3
  r = r
  Refunds = {r}
  PaypalRefunds = {}
  ImportPaypal = FALSE
  Contents <- UpToReopened
  Moves <- ToReopened
INVARIANT BalanceNetsOut
CHECK_DEADLOCK FALSE
