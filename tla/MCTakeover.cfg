SPECIFICATION Spec
CONSTANTS
  s1 = s1
  m1 = m1
  NoDevice = NoDevice
  NumLegs = 1
  Devices <- TwoDevices
  Tabs <- TwoDevices
  DeviceOf <- OneTabEach
  Shopper = s1
  Skew <- NoSkew
  TakeoverAt = 1
  InvoiceLife = 2
  MaxTime = 1
  MaxRevision = 5
  MaxSnapshots = 5
INVARIANTS TypeOK SentIsMarked HandedOffBeforeCall
PROPERTY RowsProgress
