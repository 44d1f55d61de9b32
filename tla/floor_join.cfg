SPECIFICATION Spec

CONSTANTS
  Tot = 4
  LeasePad = 1
  Heartbeat = 3
  Retry = 1
  Attempts = 2
  Peer = {1,2}
  Lockout = {1,2}
  Settled = {2}
  Relay = FALSE
  MaxDelay = 0
  MaxPress = 2
  MaxChurn = 2
  MaxCut = 0
  MaxOff = 0
  Emergencies = {}
  EarlyRelease = FALSE
  Loopback = TRUE

PROPERTIES
  GuardHolds
