SPECIFICATION Spec
CONSTANTS
  None = None
  s1 = s1
  s2 = s2
  p1 = p1
  p2 = p2
  p3 = p3
  e1 = e1
  e2 = e2
  Syncs = {s1}
  Payments <- ThreePayments
  MaxVersion <- Versions
  Date <- Dates
  Broken <- Unreadable
  Files <- TwoFiles
  Place <- Places
  Spans <- SomeSpans
  MaxWindow = 3
  Steps <- OneStep
  Limit = 1
  Events = {e1}
  Overlap = FALSE
  Faults = TRUE
INVARIANTS TypeOK OneCurrent NewestIsCurrent HandSurvives SuccessIsComplete
PROPERTIES SuccessHeals ImplementsBook
CHECK_DEADLOCK FALSE
