SPECIFICATION Spec
CONSTANTS
  None = None
  s1 = s1
  s2 = s2
  p1 = p1
  p2 = p2
  p3 = p3
  e1 = e1
  e2 = e2
  Syncs = {s1, s2}
  Payments <- OnePayment
  MaxVersion <- TwoVersions
  Date <- VersionDates
  Broken = {}
  Files = {}
  Place <- AtZero
  Spans <- Instant
  MaxWindow = 3
  Steps <- OneStep
  Limit = 1
  Events = {}
  Overlap = TRUE
  Faults = FALSE
INVARIANTS OneCurrent
CHECK_DEADLOCK FALSE
