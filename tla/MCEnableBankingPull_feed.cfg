SPECIFICATION FairSpec
CONSTANTS
  a1 = a1
  s1 = s1
  s2 = s2
  None = None
  Accounts = {a1}
  Sessions = {s1, s2}
  Covers <- OneAccount
  Dated = {s1}
  Slot = 1
  Day = 1
  Gap = 1
  Back = 2
  FirstPull = 2
  Late = 1
  Lasting = 1
  MaxAge = 1
  MaxStreak = 1
  Overlap = FALSE
INVARIANTS TypeOK MissedIsInReach QuotaIsKept StreakIsTrue
PROPERTIES NeverLockedOut
