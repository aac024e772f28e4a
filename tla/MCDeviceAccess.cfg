CONSTANTS
  b1 = b1
  d1 = d1
  d2 = d2
  s1 = s1
  s2 = s2
  c1 = c1
  c2 = c2
  undefined = undefined
  Bindings = {b1}
  Devices = {d1, d2}
  Signed = {d2}
  Sockets = {s1, s2}
  Calls = {c1, c2}
  MaxToken = 1
  MaxDrops = 2
  MaxStops = 1
  None = undefined
SPECIFICATION FairSpec
INVARIANTS
  TypeOK
  OneDevicePerBinding
  PresenceTrue
  CredentialInStep
PROPERTIES
  KeepsRegistry
  Reconnects
CHECK_DEADLOCK FALSE
