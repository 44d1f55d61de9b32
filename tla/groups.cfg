SPECIFICATION Spec

CONSTANTS
  Pk = {1, 2, 3}
  Callsign = {"ada", "ben", "kim"}
  Wishes <- OwnName
  Asks <- OneAsk
  RequestTtl = 1
  MaxOutstanding = 1
  Gid = {g1}
  Room = {r1, r2, r3}
  MaxMembers = 3
  InviteTtl = 1
  AlertWindow = 0
  MaxVersion = 3
  MaxInvites = 1

INVARIANTS
  EveryGroupIsRun
  InvitesLive
  RoomsApart
PROPERTY
  RotationReachesAll
