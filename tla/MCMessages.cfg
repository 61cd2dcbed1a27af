SPECIFICATION MessagesSpec
CONSTANTS
  None = None
  Other = client
  Devices = {d1}
  DeviceOf <- OneDevice
  Order <- OtherFirst
  Own = {}
  Inboxes = {i1, i2}
  First = {i1}
  Parts = {"cutover", "attentive", "freezing"}
  Tabs = {t1, t2}
  Shared = {s1}
  Removable = {}
  MaxAt = 3
  MaxOther = 0
  Workers = {w1, w2}
  Relays = {r1, r2}
  SelfRelays = {r1}
  SelfCopy = TRUE
  Freezable = {w1}
  Ttl = 2
  MaxTries = 2
SYMMETRY Symmetry
INVARIANTS InboxesRead OneOwner MessagesSafe
PROPERTY OutcomesKept
