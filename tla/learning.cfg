SPECIFICATION FairSpec

CONSTANTS
  Zone = {"relay"}
  Seed = 6
  BumpBy = 2
  Cap = 20
  DecayBy = 3
  Streak = 1
  Probation = 6
  Retire = 3
  Known <- Doubtful
  EveryReviews = 1
  MinNew = 1
  MaxTime = 2
  MaxSources = 1
  MaxReview = 2
  MaxInst = 2
  MaxFail = 1
  MaxCrash = 1

INVARIANTS
  OnlyLateFindingsMissed
  OneTaskPerMark
PROPERTIES
  RetirementIsEarned
  BatchIsLearned
