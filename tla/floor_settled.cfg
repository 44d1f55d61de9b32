SPECIFICATION Spec

CONSTANTS
  Tot = 4
  LeasePad = 1
  Heartbeat = 3
  Retry = 1
  Attempts = 2
  Peer = {1,2,3}
  Lockout = {1,2,3}
  Settled = {1,2,3}
  Relay = FALSE
  MaxDelay = 0
  MaxPress = 3
  MaxChurn = 0
  MaxCut = 0
  MaxOff = 0
  Emergencies = {}
  EarlyRelease = FALSE
  Loopback = TRUE

INVARIANTS
  TalkerIsHeard
  ScreenSettles
  TxLedIsLit
