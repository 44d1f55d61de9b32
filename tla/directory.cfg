SPECIFICATION DirSpec

CONSTANTS
  Pk = {1, 2, 3}
  Callsign = {"ada", "ben", "kim"}
  Wishes <- SomeWishes
  Asks <- SomeAsks
  RequestTtl = 2
  MaxOutstanding = 1

INVARIANTS
  SettledPairs
  BlockSilences
  OutstandingCapped
PROPERTIES
  ImplementsBook
