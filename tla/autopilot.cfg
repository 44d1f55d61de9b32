SPECIFICATION Spec

CONSTANTS
  Task = {1, 2, 3}
  Unit = {"GB", "S5"}
  Owner <- TwoOwners
  Deps <- InSequence
  Rank <- FirstIsHigh
  Owned <- Shared
  Expiry = 0
  Faults = {"refuse", "claim", "gate"}
  Reasons <- OnlyOwn
  Commands = {}
  MaxRework = 1
  Ceiling = 1
  Hour = 2
  MaxRuns = 3
  MaxSent = 0
  MaxCrash = 0

INVARIANTS
  BoardStaysLegal
  OneSession
  CeilingNearlyKept
PROPERTIES
  ImplementsLifecycle

CHECK_DEADLOCK FALSE
