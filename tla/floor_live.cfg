SPECIFICATION FairSpec

CONSTANTS
  Tot = 4
  LeasePad = 1
  Heartbeat = 3
  Retry = 1
  Attempts = 2
  Peer = {1,2}
  Lockout = {1,2}
  Settled = {1,2}
  Relay = FALSE
  MaxDelay = 0
  MaxPress = 1
  MaxChurn = 0
  MaxCut = 1
  MaxOff = 1
  Emergencies = {}
  EarlyRelease = TRUE
  Loopback = FALSE

INVARIANTS
  TypeOK
PROPERTIES
  RequestEnds
  FloorFrees
