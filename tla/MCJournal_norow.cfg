SPECIFICATION Spec
CONSTANTS
  None = None
  x1 = x1
  x2 = x2
  u = u
  l1 = l1
  l2 = l2
  l3 = l3
  A = A
  B = B
  Pulls = {x1}
  Clerks = {}
  Lines <- Lines2
  Credits = {l1, l2}
  Fleeting = {}
  Codes = {A, B}
  Reads <- Reads2
  Fit <- Fit2
  Changes <- Arrive
  Overlap = FALSE
  Crashes = FALSE
INVARIANTS EveryConfirmationHasARow
CHECK_DEADLOCK FALSE
