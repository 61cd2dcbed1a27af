SPECIFICATION PagesSpec
CONSTANTS
  s1 = s1 m1 = m1 m2 = m2 t1 = t1 t2 = t2
  NoDevice = NoDevice
  NumLegs = 1
  Devices <- ThreeDevices
  Tabs <- FourTabs
  DeviceOf <- OnDevice
  Shopper = s1
  Skew <- NoSkew
  TakeoverAt = 1
  InvoiceLife = 1
  MaxTime = 1
  MaxRevision = 7
  MaxSnapshots = 9
SYMMETRY MerchantSymmetry
ACTION_CONSTRAINTS OthersRest MerchantBounds
INVARIANTS AtMostOneCall PaidIsProven
