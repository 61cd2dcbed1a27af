SPECIFICATION Spec
CONSTANTS
  s1 = s1
  m1 = m1
  NoDevice = NoDevice
  NumLegs = 2
  Devices <- TwoDevices
  Tabs <- TwoDevices
  DeviceOf <- OneTabEach
  Shopper = s1
  Skew <- MerchantAhead
  TakeoverAt = 1
  InvoiceLife = 1
  MaxTime = 1
  MaxRevision = 5
  MaxSnapshots = 5
INVARIANT LegPaidOnce
PROPERTY ImplementsPayouts
