SPECIFICATION Spec
CONSTANTS
  None = None
  r1 = r1
  u = u
  l1 = l1
  l2 = l2
  pay = pay
  book = book
  A = A
  Runs = {r1}
  Clerks = {u}
  Lines <- TwoLines
  Statements <- BothOrOne
  Valued <- Dates
  Credits = {l1, l2}
  Payments = {pay, book}
  Payouts <- PayoutOfBoth
  Transfers <- TransferOfFirst
  MaxRevision <- Revisions
  Orders = {A}
  Quotes <- AFits
  Fit <- AFits
  Armed = {A}
  Overlap = TRUE
  Crashes = TRUE
INVARIANTS TypeOK OneLinePerTransaction ReportedIsOnRecord
PROPERTIES DismissedForGood ImplementsLinks
CHECK_DEADLOCK FALSE
