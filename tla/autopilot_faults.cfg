SPECIFICATION FairSpec

CONSTANTS
  Task = {1}
  Unit = {"GB"}
  Owner <- TwoOwners
  Deps <- InSequence
  Rank <- FirstIsHigh
  Owned <- Shared
  Expiry = 1
  Faults = {"overlap", "refuse", "claim", "silent", "crash"}
  Reasons <- OwnAndTool
  Commands = {"answer", "approve", "rework", "stop", "resume", "wave", "mute"}
  MaxRework = 1
  Ceiling = 1
  Hour = 1
  MaxRuns = 2
  MaxSent = 1
  MaxCrash = 1

INVARIANTS
  TypeOK

  

CHECK_DEADLOCK FALSE
