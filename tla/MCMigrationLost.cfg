SPECIFICATION Spec
CONSTANTS
  Attempts = {a1, a2}
  Uris = {u}
  NoUri = NoUri
  MaxWallets = 3
INVARIANT NeverLost
