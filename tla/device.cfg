SPECIFICATION PairSpec
CONSTANTS
  c1 = c1
  c2 = c2
  a1 = a1
  a2 = a2
  u1 = u1
  u2 = u2
  p1 = p1
  p2 = p2
  none = none
  Clients <- MCClients
  NoClient = none
  Idle = none
  Addresses <- MCAddresses
  NoAddress = noip
  IPv6Only = ipv6
  Unseen = unseen
  Accounts <- MCAccounts
  NoAccount = none
  NoSave = none
  MaxEvents = 3
  Probes <- MCProbes
  Self = self
  DefaultModel = "other"
INVARIANTS OneClient ClientCurrent OneDevice
PROPERTIES Follows ProbesEnd
\* A device on which nothing changes any more has nothing left to do.
CHECK_DEADLOCK FALSE
