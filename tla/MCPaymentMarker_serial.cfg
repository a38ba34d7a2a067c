SPECIFICATION SerialSpec
CONSTANTS
  None = None
  w1 = w1
  w2 = w2
  o1 = o1
  o2 = o2
  p1 = p1
  p2 = p2
  good = good
  cent = cent
  less = less
  debit = debit
  Workers = {w1, w2}
  Credits <- SerialCredits
  Orders <- TwoOrders
  Payments <- TwoOrdersPayments
  Codes = {"A"}
  Conns = {"k1", "k2"}
  Slugs = {"s"}
  Evidence <- SerialEvidence
  Calls <- SerialCalls
  CodeOf <- TwoOrdersCode
  ConnOf <- TwoOrdersConn
  SlugOf <- TwoOrdersSlug
  Total <- TwoOrdersTotal
  OrderOf <- TwoOrdersOf
  PayAmount <- TwoOrdersPay
  Amount <- SerialAmount
  CentSlack <- Slack
  Changes <- Refunded
  Imported = {o1}
  Late = {p2}
  MaxRecords = 2
SYMMETRY Interchangeable
INVARIANTS TypeOK OneConfirmationPerOrder ConfirmedIsBooked DeviationsAreSigned VerifiedWasPaid
PROPERTIES ImplementsDesk
CHECK_DEADLOCK FALSE
