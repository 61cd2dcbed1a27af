SPECIFICATION MessagesSpec
CONSTANTS
  None = None
  Other = client
  Devices = {d1}
  DeviceOf <- OneDevice
  Order <- OtherFirst
  Own = {}
  Inboxes = {i1, i2}
  First = {i1}
  Parts = {"cutover"}
  Tabs = {t1}
  Shared = {s1, s2}
  Removable = {s2, i1}
  MaxAt = 2
  MaxOther = 1
  Workers = {w1, w2}
  Relays = {r1, r2}
  SelfRelays = {r1}
  SelfCopy = TRUE
  Freezable = {w1}
  Ttl = 2
  MaxTries = 2
INVARIANT InboxesRead
