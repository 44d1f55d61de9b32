SPECIFICATION Spec

CONSTANTS
  Pk = {1, 2, 3}
  Contacts <- Friends
  CoMembers <- Mates
  Process = {"only"}
  Moods = {"available", "offline"}
  OfflineAfter = 1
  Sweep = 1
  MaxChange = 2
  MaxVisit = 3

INVARIANTS
  SilenceShows
  OfflineIsEarned
  ViewsAgree
