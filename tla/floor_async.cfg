SPECIFICATION Spec

CONSTANTS
  Tot = 4
  LeasePad = 1
  Heartbeat = 3
  Retry = 1
  Attempts = 2
  Peer = {1,2}
  Lockout = {1}
  Settled = {1,2}
  Relay = FALSE
  MaxDelay = 0
  MaxPress = 2
  MaxChurn = 0
  MaxCut = 1
  MaxOff = 0
  Emergencies = {2}
  EarlyRelease = TRUE
  Loopback = FALSE

INVARIANTS
  MicFollowsFloor
  NothingHangs
PROPERTIES
  VoicesPart
