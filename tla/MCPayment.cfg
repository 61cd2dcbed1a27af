SPECIFICATION PaymentSpec
CONSTANTS
  Tabs = {t1, t2}
  Claims = {c1, c2, c3}
  Invoices = {i1, i2}
  Zaps = {z1}
  Targets = {"wallet", "manual"}
  MaxPrior = 1
  MaxCloses = 1
  None = None
SYMMETRY Symmetry
CHECK_DEADLOCK FALSE
INVARIANTS PaidOnce TrueProofs
PROPERTY OnlyForward
