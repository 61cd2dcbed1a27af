SPECIFICATION ProgressSpec
CONSTANTS
  t1 = t1 c1 = c1 c2 = c2 c3 = c3 i1 = i1 None = None
  d1 = d1 d2 = d2 g1 = g1 p1 = p1 o1 = o1
  NoDevice = NoDevice NoTransfer = NoTransfer NoGrant = NoGrant
  q1 = q1 q2 = q2 w1 = w1 seed = seed NoPage = NoPage
  r1 = r1 r2 = r2
CHECK_DEADLOCK FALSE
PROPERTIES PaymentEnds StockMoves Answered Ends
