SPECIFICATION FairSpec
CHECK_DEADLOCK FALSE

CONSTANTS
  Setting = {"direct", "relay"}
  Relayed = {"relay"}
  Initial = "direct"
  MaxGen = 3
  MaxSwitch = 1
  Overlap = FALSE

INVARIANTS
  TypeOK
  OneSession
  KeyReachesTalker
  KeyIsCurrent
  NoOrphan
PROPERTIES
  BootLands
