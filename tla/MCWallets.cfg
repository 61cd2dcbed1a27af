SPECIFICATION WalletsSpec
CONSTANTS
  q1 = q1 q2 = q2 s1 = s1 m3 = m3 NoDevice = NoDevice
  w1 = w1 w2 = w2 c1 = c1 seed = seed other = other NoPage = NoPage
  Attempts <- TwoPages Uris = {u1, u2} NoUri = NoUri MaxWallets = 3
  Pages <- TwoPages Wallets <- ThreeWallets Checkout <- CheckoutWallet Identity <- Seeds
  MaxCreated = 2
SYMMETRY Symmetry
CHECK_DEADLOCK FALSE
INVARIANTS TreasuryPaidOnce SessionsSafe ConnectionKept
PROPERTIES ReferenceKept RemovedWhileClosed OwnCopyOnly
