SPECIFICATION Spec
CONSTANTS
  s1 = s1
  m1 = m1
  NoDevice = NoDevice
  NumLegs = 2
  Devices <- TwoDevices
  Tabs <- OneMerchantTab
  DeviceOf <- OnMerchant
  Shopper = s1
  Skew <- NoSkew
  TakeoverAt = 0
  InvoiceLife = 1
  MaxTime = 1
  MaxRevision = 10
  MaxSnapshots = 7
INVARIANT RowsRestorable
