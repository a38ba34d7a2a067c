SPECIFICATION FairSpec
CONSTANTS
  None = None
  x1 = x1
  x2 = x2
  u = u
  l1 = l1
  l2 = l2
  l3 = l3
  A = A
  B = B
  Pulls = {x1}
  Clerks = {u}
  Lines <- Lines2
  Credits = {l1, l2}
  Fleeting = {l2}
  Codes = {A, B}
  Reads <- Reads2
  Fit <- Fit2
  Changes <- Arrive
  Overlap = FALSE
  Crashes = TRUE
INVARIANTS TypeOK BadgeAgrees ShownPaidIsPaid
PROPERTIES HandAssignmentStands CatchesUp
CHECK_DEADLOCK FALSE
