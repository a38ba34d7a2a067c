SPECIFICATION Spec
CONSTANTS
  None = None
  w1 = w1
  w2 = w2
  o1 = o1
  o2 = o2
  p1 = p1
  p2 = p2
  good = good
  cent = cent
  less = less
  debit = debit
  Workers = {w1, w2}
  Credits <- GoodCredits
  Orders <- OneOrder
  Payments <- OneOrderPayments
  Codes = {"A"}
  Conns = {"k1", "k2"}
  Slugs = {"s"}
  Evidence <- GoodEvidence
  Calls <- GoodCalls
  CodeOf <- OneOrderCode
  ConnOf <- OneOrderConn
  SlugOf <- OneOrderSlug
  Total <- OneOrderTotal
  OrderOf <- OneOrderOf
  PayAmount <- TwoEqual
  Amount <- GoodAmount
  CentSlack <- Slack
  Changes <- NoChanges
  Imported = {o1}
  Late = {}
  MaxRecords = 2
INVARIANTS OneConfirmationPerOrder
CHECK_DEADLOCK FALSE
