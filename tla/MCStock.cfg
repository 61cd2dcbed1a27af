SPECIFICATION StockSpec
CONSTANTS
  NoDevice = NoDevice NoTransfer = NoTransfer NoGrant = NoGrant
  d1 = d1 d2 = d2 d3 = d3 g1 = g1 g2 = g2 p1 = p1 p2 = p2 o1 = o1 o2 = o2
CHECK_DEADLOCK FALSE
INVARIANTS NoForks NoneOversold HandedOut
PROPERTY StockPromised
