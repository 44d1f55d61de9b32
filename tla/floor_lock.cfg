SPECIFICATION FairSpec

CONSTANTS
  Tot = 3
  LeasePad = 1
  Heartbeat = 2
  Retry = 1
  Attempts = 1
  Peer = {1,2,3}
  Lockout = {}
  Settled = {1,2,3}
  Relay = FALSE
  MaxDelay = 0
  MaxPress = 2
  MaxChurn = 0
  MaxCut = 0
  MaxOff = 0
  Emergencies = {}
  EarlyRelease = FALSE
  Loopback = TRUE

PROPERTIES
  ImplementsLock
