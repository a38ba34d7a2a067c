SPECIFICATION Spec
CONSTANTS
  None = None
  x1 = x1
  x2 = x2
  u = u
  l1 = l1
  l2 = l2
  l3 = l3
  A = A
  B = B
  Pulls = {x1, x2}
  Clerks = {}
  Lines <- Lines3
  Credits = {l1, l2, l3}
  Fleeting = {l3}
  Codes = {A, B}
  Reads <- Reads3
  Fit <- Fit3
  Changes <- Arrive
  Overlap = FALSE
  Crashes = FALSE
SYMMETRY Interchangeable
INVARIANTS DoublesAreMarked
CHECK_DEADLOCK FALSE
