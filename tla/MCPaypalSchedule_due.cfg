SPECIFICATION FairSpec
CONSTANTS
  None = None
  Interval = 3
  Lookback <- JustEnough
  Expiry = 2
  Delay = 4
  Waiting = 2
  Lasting = 1
  Vain = 2
  Deaths = 1
INVARIANTS TypeOK MissedIsInReach ArrivesInTime
PROPERTY MissedArrives
