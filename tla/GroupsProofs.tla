---------------------------- MODULE GroupsProofs ----------------------------
(***************************************************************************)
(* Proofs about Groups, for every set of identities, groups and rooms and  *)
(* every limit: a group is run by somebody, no invite outlives its group,  *)
(* a room belongs to one group or one pair, and a rotation reaches every   *)
(* member, whatever old links they came by.                                *)
(***************************************************************************)
EXTENDS Groups, DirectoryProofs

(* An id is used once; a copy is there for a member and for nobody else.   *)
Unborn == \A g \in Gid : version[g] = 0 => ~Exists(g)
CopiesHeld == \A g \in Gid, p \in Pk : IF p \in Members(g) THEN sealed[g][p] \in Room ELSE sealed[g][p] = NoRoom

(* What no step takes from a member, and a rotation gives to all of them.  *)
CopiesFollow ==
  \A g \in Gid, p \in Pk :
    p \in Members(g)' /\ ((p \in Members(g) /\ sealed[g][p] = room[g]) \/ version'[g] # version[g])
      => sealed'[g][p] = room'[g]

GroupInv ==
  /\ GroupTypeOK /\ EveryGroupIsRun /\ InvitesLive /\ RoomsApart
  /\ Unborn /\ CopiesHeld

LEMMA NoRoomIsNone == NoRoom \notin Room
  BY RoomAssumption

LEMMA InitGroupInv == GroupInit => GroupInv
<1> SUFFICES ASSUME GroupInit PROVE GroupInv OBVIOUS
<1> USE DEF GroupInit
<1>1. GroupTypeOK BY GroupsAssumption DEF GroupTypeOK, Role, Invite
<1>2. \A g \in Gid : ~Exists(g) /\ Members(g) = {} BY DEF Exists, Members
<1>3. EveryGroupIsRun BY <1>2 DEF EveryGroupIsRun
<1>4. InvitesLive BY DEF InvitesLive
<1>5. RoomsApart BY <1>2 DEF RoomsApart
<1>6. Unborn BY <1>2 DEF Unborn
<1>7. CopiesHeld BY <1>2 DEF CopiesHeld
<1> QED BY <1>1, <1>3, <1>4, <1>5, <1>6, <1>7 DEF GroupInv

(* A step that leaves groups, members and copies alone.                    *)
LEMMA SameGroups ==
  ASSUME GroupInv, GroupTypeOK', UNCHANGED <<room, version, role, sealed, direct>>, InvitesLive'
  PROVE  GroupInv' /\ CopiesFollow
<1> USE DEF GroupInv
<1>1. \A g \in Gid : Members(g)' = Members(g) /\ Admins(g)' = Admins(g) /\ (Exists(g)' <=> Exists(g))
  BY DEF Members, Admins, Exists
<1>2. EveryGroupIsRun' /\ Unborn' /\ CopiesHeld' /\ CopiesFollow
  BY <1>1 DEF EveryGroupIsRun, Unborn, CopiesHeld, CopiesFollow
<1>3. RoomsApart' BY DEF RoomsApart, Exists
<1> QED BY <1>2, <1>3

-----------------------------------------------------------------------------
LEMMA CreateInv ==
  ASSUME GroupInv, NEW p \in Pk, NEW g \in Gid, NEW r \in Room, CreateGroup(p, g, r)
  PROVE  GroupInv' /\ CopiesFollow
<1> USE DEF GroupInv, CreateGroup
<1>1. GroupTypeOK' BY GroupsAssumption DEF GroupTypeOK, Role
<1>2. ~Exists(g) /\ Members(g) = {} BY DEF Unborn, EveryGroupIsRun
<1>3. /\ room'[g] = r /\ \A h \in Gid \ {g} : room'[h] = room[h]
      /\ version'[g] = 1 /\ \A h \in Gid \ {g} : version'[h] = version[h]
  BY DEF GroupTypeOK
<1>4. /\ Members(g)' = {p} /\ Admins(g)' = {p}
      /\ \A h \in Gid \ {g} : Members(h)' = Members(h) /\ Admins(h)' = Admins(h)
  <2>1. \A h \in Gid \ {g} : role'[h] = role[h] BY DEF GroupTypeOK
  <2>2. \A q \in Pk : role'[g][q] = IF q = p THEN "admin" ELSE role[g][q] BY DEF GroupTypeOK
  <2> QED BY <1>2, <2>1, <2>2 DEF Members, Admins
<1>5. /\ \A h \in Gid \ {g} : sealed'[h] = sealed[h]
      /\ \A q \in Pk : sealed'[g][q] = IF q = p THEN r ELSE sealed[g][q]
  BY DEF GroupTypeOK
<1>6. Exists(g)' /\ \A h \in Gid \ {g} : Exists(h)' <=> Exists(h)
  BY <1>3, NoRoomIsNone DEF Exists
<1>7. EveryGroupIsRun' BY <1>4, <1>6 DEF EveryGroupIsRun
<1>8. InvitesLive' BY <1>6 DEF InvitesLive, GroupTypeOK, Invite
<1>9. RoomsApart' BY <1>3, <1>6, NoRoomIsNone DEF RoomsApart, RoomTaken, Exists
<1>10. Unborn' BY <1>3, <1>6 DEF Unborn
<1>11. CopiesHeld' BY <1>2, <1>4, <1>5 DEF CopiesHeld
<1>12. CopiesFollow BY <1>3, <1>4, <1>5 DEF CopiesFollow
<1> QED BY <1>1, <1>7, <1>8, <1>9, <1>10, <1>11, <1>12

LEMMA MintInv ==
  ASSUME GroupInv, NEW p \in Pk, NEW g \in Gid, NEW ttl \in {InviteTtl, Never}, MintInvite(p, g, ttl)
  PROVE  GroupInv' /\ CopiesFollow
<1> USE DEF MintInvite
<1>1. sealed[g][p] \in Room BY DEF GroupInv, CopiesHeld
<1>2. ttl \in {Never} \cup 0..InviteTtl BY GroupsAssumption
<1>3. GroupTypeOK' BY <1>1, <1>2 DEF GroupInv, GroupTypeOK, Invite
<1>4. Exists(g) BY DEF GroupInv, EveryGroupIsRun
<1>5. InvitesLive' BY <1>4 DEF GroupInv, InvitesLive, Exists
<1> QED BY <1>3, <1>5, SameGroups

LEMMA JoinInv ==
  ASSUME GroupInv, NEW p \in Pk, NEW i \in invites, JoinGroup(p, i)
  PROVE  GroupInv' /\ CopiesFollow
<1> USE DEF GroupInv
<1>1. PICK g \in Gid, c \in Room : g = i.group /\ c = i.secret BY DEF GroupTypeOK, Invite
<1>2. Exists(g) BY <1>1 DEF InvitesLive
<1>3. /\ UNCHANGED <<room, version, invites, direct, alerted>>
      /\ role' = [role EXCEPT ![g][p] = "member"]
      /\ sealed' = [sealed EXCEPT ![g][p] = c]
      /\ older' = [older EXCEPT ![g] = @ \cup (Members(g) \X {p})]
      /\ p \notin Members(g)
  BY <1>1 DEF JoinGroup
<1>4. GroupTypeOK'
  <2>1. Members(g) \X {p} \in SUBSET (Pk \X Pk) BY DEF Members
  <2>2. older' \in [Gid -> SUBSET (Pk \X Pk)] BY <1>1, <1>3, <2>1 DEF GroupTypeOK
  <2>3. role' \in [Gid -> [Pk -> Role]] BY <1>1, <1>3 DEF GroupTypeOK, Role
  <2>4. sealed' \in [Gid -> [Pk -> Room \cup {NoRoom}]] BY <1>1, <1>3 DEF GroupTypeOK
  <2> QED BY <1>3, <2>2, <2>3, <2>4 DEF GroupTypeOK
<1>5. /\ \A h \in Gid \ {g} : role'[h] = role[h] /\ sealed'[h] = sealed[h]
      /\ \A q \in Pk : /\ role'[g][q] = IF q = p THEN "member" ELSE role[g][q]
                       /\ sealed'[g][q] = IF q = p THEN c ELSE sealed[g][q]
  BY <1>1, <1>3 DEF GroupTypeOK
<1>6. /\ Members(g)' = Members(g) \cup {p} /\ Admins(g)' = Admins(g)
      /\ \A h \in Gid \ {g} : Members(h)' = Members(h) /\ Admins(h)' = Admins(h)
      /\ \A h \in Gid : Exists(h)' <=> Exists(h)
  BY <1>3, <1>5 DEF Members, Admins, Exists
<1>7. EveryGroupIsRun' BY <1>1, <1>2, <1>6 DEF EveryGroupIsRun
<1>8. InvitesLive' BY <1>3, <1>6 DEF InvitesLive, GroupTypeOK, Invite
<1>9. RoomsApart' BY <1>3 DEF RoomsApart, Exists
<1>10. Unborn' BY <1>3, <1>6 DEF Unborn
<1>11. CopiesHeld' BY <1>1, <1>5, <1>6 DEF CopiesHeld
<1>12. CopiesFollow BY <1>1, <1>3, <1>5, <1>6 DEF CopiesFollow
<1> QED BY <1>4, <1>7, <1>8, <1>9, <1>10, <1>11, <1>12

LEMMA MakeAdminInv ==
  ASSUME GroupInv, NEW p \in Pk, NEW g \in Gid, NEW target \in Pk, MakeAdmin(p, g, target)
  PROVE  GroupInv' /\ CopiesFollow
<1> USE DEF GroupInv, MakeAdmin
<1>1. GroupTypeOK' BY DEF GroupTypeOK, Role
<1>2. /\ \A h \in Gid \ {g} : role'[h] = role[h]
      /\ \A q \in Pk : role'[g][q] = IF q = target THEN "admin" ELSE role[g][q]
  BY DEF GroupTypeOK
<1>3. \A h \in Gid : /\ Members(h)' = Members(h) /\ Admins(h) \subseteq Admins(h)'
                     /\ Exists(h)' <=> Exists(h)
  BY <1>2 DEF Members, Admins, Exists
<1>4. EveryGroupIsRun' BY <1>3 DEF EveryGroupIsRun
<1>5. InvitesLive' BY <1>3 DEF InvitesLive, GroupTypeOK, Invite
<1>6. RoomsApart' BY DEF RoomsApart, Exists
<1>7. Unborn' /\ CopiesHeld' /\ CopiesFollow BY <1>3 DEF Unborn, CopiesHeld, CopiesFollow
<1> QED BY <1>1, <1>4, <1>5, <1>6, <1>7

(* Everybody who remains gets the new copy, the admin who rotates is one.  *)
LEMMA RotateInv ==
  ASSUME GroupInv, NEW p \in Pk, NEW g \in Gid, NEW r \in Room, NEW copies \in SUBSET Pk,
         NEW out \in SUBSET Pk, RotateGroup(p, g, r, copies, out)
  PROVE  GroupInv' /\ CopiesFollow
<1> USE DEF GroupInv, RotateGroup
<1>1. copies = Members(g) \ out /\ p \in Admins(g) /\ p \notin out BY DEF CopiesFit
<1>2. version[g] + 1 \in 0..MaxVersion /\ version[g] + 1 # 0
  BY GroupsAssumption DEF GroupTypeOK
<1>3. GroupTypeOK'
  <2>1. role' \in [Gid -> [Pk -> Role]] BY DEF GroupTypeOK, Role
  <2>2. sealed' \in [Gid -> [Pk -> Room \cup {NoRoom}]] BY DEF GroupTypeOK
  <2>3. older' \in [Gid -> SUBSET (Pk \X Pk)] BY DEF GroupTypeOK
  <2>4. room' \in [Gid -> Room \cup {NoRoom}] BY DEF GroupTypeOK
  <2>5. version' \in [Gid -> 0..MaxVersion] BY <1>2 DEF GroupTypeOK
  <2> QED BY <2>1, <2>2, <2>3, <2>4, <2>5 DEF GroupTypeOK
<1>4. /\ \A h \in Gid \ {g} : role'[h] = role[h] /\ sealed'[h] = sealed[h]
                              /\ room'[h] = room[h] /\ version'[h] = version[h]
      /\ room'[g] = r /\ version'[g] = version[g] + 1
  BY DEF GroupTypeOK
<1>5. \A q \in Pk : /\ role'[g][q] = IF q \in out THEN "none" ELSE role[g][q]
                    /\ sealed'[g][q] = IF q \in copies THEN r ELSE IF q \in out THEN NoRoom ELSE sealed[g][q]
  BY DEF GroupTypeOK
<1>6. /\ Members(g)' = Members(g) \ out /\ p \in Admins(g)'
      /\ \A h \in Gid \ {g} : Members(h)' = Members(h) /\ Admins(h)' = Admins(h)
  BY <1>1, <1>4, <1>5 DEF Members, Admins
<1>7. Exists(g)' /\ \A h \in Gid \ {g} : Exists(h)' <=> Exists(h)
  BY <1>4, NoRoomIsNone DEF Exists
<1>8. EveryGroupIsRun' BY <1>6, <1>7 DEF EveryGroupIsRun
<1>9. InvitesLive' BY <1>7 DEF InvitesLive, GroupTypeOK, Invite
<1>10. RoomsApart' BY <1>4, <1>7, NoRoomIsNone DEF RoomsApart, RoomTaken, Exists
<1>11. Unborn' BY <1>2, <1>4, <1>7 DEF Unborn
<1>12. CopiesHeld'
  <2>1. \A q \in Pk : IF q \in Members(g)' THEN sealed'[g][q] \in Room ELSE sealed'[g][q] = NoRoom
    BY <1>1, <1>5, <1>6 DEF CopiesHeld
  <2> QED BY <1>4, <1>6, <2>1 DEF CopiesHeld
<1>13. CopiesFollow BY <1>1, <1>4, <1>5, <1>6 DEF CopiesFollow
<1> QED BY <1>3, <1>8, <1>9, <1>10, <1>11, <1>12, <1>13

LEMMA LeaveEmptyInv ==
  ASSUME GroupInv, NEW p \in Pk, NEW g \in Gid, LeaveEmpty(p, g)
  PROVE  GroupInv' /\ CopiesFollow
<1> USE DEF GroupInv, LeaveEmpty, Depart
<1>1. GroupTypeOK' BY DEF GroupTypeOK, Role
<1>2. /\ \A h \in Gid \ {g} : role'[h] = role[h] /\ sealed'[h] = sealed[h] /\ room'[h] = room[h]
      /\ room'[g] = NoRoom
      /\ \A q \in Pk : /\ role'[g][q] = IF q = p THEN "none" ELSE role[g][q]
                       /\ sealed'[g][q] = IF q = p THEN NoRoom ELSE sealed[g][q]
  BY DEF GroupTypeOK
<1>3. /\ Members(g)' = {}
      /\ \A h \in Gid \ {g} : Members(h)' = Members(h) /\ Admins(h)' = Admins(h)
  BY <1>2 DEF Members, Admins
<1>4. ~Exists(g)' /\ \A h \in Gid \ {g} : Exists(h)' <=> Exists(h) BY <1>2 DEF Exists
<1>5. EveryGroupIsRun' BY <1>3, <1>4 DEF EveryGroupIsRun
<1>6. InvitesLive' BY <1>4 DEF InvitesLive, GroupTypeOK, Invite
<1>7. RoomsApart' BY <1>2, <1>4 DEF RoomsApart, Exists
<1>8. Unborn' BY <1>4 DEF Unborn
<1>9. CopiesHeld' BY <1>2, <1>3 DEF CopiesHeld
<1>10. CopiesFollow BY <1>2, <1>3 DEF CopiesFollow
<1> QED BY <1>1, <1>5, <1>6, <1>7, <1>8, <1>9, <1>10

LEMMA LeaveOthersInv ==
  ASSUME GroupInv, NEW p \in Pk, NEW g \in Gid, LeaveOthers(p, g)
  PROVE  GroupInv' /\ CopiesFollow
<1> USE DEF GroupInv
<1>1. /\ p \in Members(g) /\ Members(g) \ {p} # {}
      /\ Depart(p, g) /\ UNCHANGED <<room, invites>>
  BY DEF LeaveOthers
<1>2. /\ role' \in [Gid -> [Pk -> Role]]
      /\ \A h \in Gid \ {g} : role'[h] = role[h]
      /\ \A q \in Pk : role'[g][q] = "none" <=> q = p \/ role[g][q] = "none"
      /\ \E q \in Pk : role'[g][q] = "admin"
  <2>1. CASE Admins(g) = {p}
    <3>1. PICK oldest \in Members(g) \ {p} : role' = [role EXCEPT ![g][p] = "none", ![g][oldest] = "admin"]
      BY <2>1 DEF LeaveOthers
    <3>2. oldest \in Pk /\ oldest # p BY DEF Members
    <3>3. \A q \in Pk : role'[g][q] = IF q = oldest THEN "admin" ELSE IF q = p THEN "none" ELSE role[g][q]
      BY <3>1, <3>2 DEF GroupTypeOK
    <3>4. role' \in [Gid -> [Pk -> Role]] /\ \A h \in Gid \ {g} : role'[h] = role[h]
      BY <3>1, <3>2 DEF GroupTypeOK, Role
    <3> QED BY <3>1, <3>2, <3>3, <3>4 DEF Members
  <2>2. CASE Admins(g) # {p}
    <3>1. role' = [role EXCEPT ![g][p] = "none"] BY <2>2 DEF LeaveOthers
    <3>2. \A q \in Pk : role'[g][q] = IF q = p THEN "none" ELSE role[g][q] BY <3>1 DEF GroupTypeOK
    <3>3. role' \in [Gid -> [Pk -> Role]] /\ \A h \in Gid \ {g} : role'[h] = role[h]
      BY <3>1 DEF GroupTypeOK, Role
    <3>4. PICK a \in Admins(g) : a # p
      <4>1. Exists(g) BY <1>1 DEF EveryGroupIsRun
      <4> QED BY <4>1, <2>2 DEF EveryGroupIsRun
    <3> QED BY <3>2, <3>3, <3>4 DEF Admins
  <2> QED BY <2>1, <2>2
<1>3. /\ UNCHANGED <<version, direct, alerted>>
      /\ \A h \in Gid \ {g} : sealed'[h] = sealed[h]
      /\ \A q \in Pk : sealed'[g][q] = IF q = p THEN NoRoom ELSE sealed[g][q]
  BY <1>1 DEF Depart, GroupTypeOK
<1>4. GroupTypeOK'
  <2>1. sealed' \in [Gid -> [Pk -> Room \cup {NoRoom}]] /\ older' \in [Gid -> SUBSET (Pk \X Pk)]
    BY <1>1 DEF Depart, GroupTypeOK
  <2> QED BY <1>1, <1>2, <1>3, <2>1 DEF GroupTypeOK
<1>5. /\ Members(g)' = Members(g) \ {p} /\ Admins(g)' # {}
      /\ \A h \in Gid \ {g} : Members(h)' = Members(h) /\ Admins(h)' = Admins(h)
      /\ \A h \in Gid : Exists(h)' <=> Exists(h)
  BY <1>1, <1>2 DEF Members, Admins, Exists
<1>6. EveryGroupIsRun' BY <1>1, <1>5 DEF EveryGroupIsRun
<1>7. InvitesLive' BY <1>1, <1>5 DEF InvitesLive, GroupTypeOK, Invite
<1>8. RoomsApart' BY <1>1, <1>3 DEF RoomsApart, Exists
<1>9. Unborn' BY <1>3, <1>5 DEF Unborn
<1>10. CopiesHeld' BY <1>3, <1>5 DEF CopiesHeld
<1>11. CopiesFollow BY <1>1, <1>3, <1>5 DEF CopiesFollow
<1> QED BY <1>4, <1>6, <1>7, <1>8, <1>9, <1>10, <1>11

LEMMA AlertInv ==
  ASSUME GroupInv, NEW p \in Pk, NEW target \in Pk, SendAlert(p, target)
  PROVE  GroupInv' /\ CopiesFollow
<1> USE DEF SendAlert
<1>1. AlertWindow \in 0..AlertWindow BY GroupsAssumption
<1>2. GroupTypeOK' BY <1>1 DEF GroupInv, GroupTypeOK
<1>3. InvitesLive' BY DEF GroupInv, InvitesLive, Exists
<1> QED BY <1>2, <1>3, SameGroups

LEMMA DirectInv ==
  ASSUME GroupInv, NEW p \in Pk, NEW peer \in Pk, NEW r \in Room, EnsureDirectRoom(p, peer, r)
  PROVE  GroupInv' /\ CopiesFollow
<1> USE DEF GroupInv, EnsureDirectRoom
<1>1. {p, peer} \in Pair BY DEF Pair
<1>2. GroupTypeOK' BY <1>1 DEF GroupTypeOK
<1>3. \A a \in Pair : direct'[a] = IF a = {p, peer} THEN r ELSE direct[a] BY <1>1 DEF GroupTypeOK
<1>4. RoomsApart'
  <2> DEFINE new == {p, peer}
  <2>1. new \in Pair /\ \A a \in Pair : direct'[a] = IF a = new THEN r ELSE direct[a] BY <1>1, <1>3
  <2>2. /\ \A h \in Gid : room[h] # r
        /\ \A a \in Pair : direct[a] # r
        /\ UNCHANGED room
    OBVIOUS
  <2> HIDE DEF new, EnsureDirectRoom
  <2>3. \A a, b \in Pair : a # b /\ direct'[a] # NoRoom => direct'[a] # direct'[b]
    BY <2>1, <2>2 DEF RoomsApart
  <2>4. \A h \in Gid, a \in Pair : Exists(h)' => room'[h] # direct'[a]
    BY <2>1, <2>2 DEF RoomsApart, Exists
  <2>5. \A g, h \in Gid : g # h /\ Exists(g)' => room'[g] # room'[h]
    BY <2>2 DEF RoomsApart, Exists
  <2> QED BY <2>3, <2>4, <2>5 DEF RoomsApart
<1>5. /\ \A h \in Gid : Members(h)' = Members(h) /\ Admins(h)' = Admins(h) /\ (Exists(h)' <=> Exists(h))
      /\ EveryGroupIsRun' /\ Unborn' /\ CopiesHeld' /\ CopiesFollow
  BY DEF Members, Admins, Exists, EveryGroupIsRun, Unborn, CopiesHeld, CopiesFollow
<1>6. InvitesLive' BY DEF InvitesLive, Exists
<1> QED BY <1>2, <1>4, <1>5, <1>6

LEMMA AgeInvites ==
  ASSUME GroupInv, GroupAge
  PROVE  GroupInv' /\ CopiesFollow
<1> USE DEF GroupAge
<1>1. ASSUME NEW i \in invites'
      PROVE  i \in Invite /\ Exists(i.group)
  <2>1. PICK j \in invites : i = [j EXCEPT !.left = IF @ > 0 THEN @ - 1 ELSE @] BY <1>1
  <2>2. j \in Invite /\ Exists(j.group) BY DEF GroupInv, GroupTypeOK, InvitesLive
  <2>3. i.group = j.group /\ i.secret = j.secret /\ i.left = (IF j.left > 0 THEN j.left - 1 ELSE j.left)
        /\ i = [group |-> i.group, secret |-> i.secret, left |-> i.left]
    BY <2>1, <2>2 DEF Invite
  <2>4. i.left \in {Never} \cup 0..InviteTtl BY <2>2, <2>3, GroupsAssumption DEF Invite, Never
  <2> QED BY <2>2, <2>3, <2>4 DEF Invite
<1>2. alerted' \in [Pk \X Pk -> 0..AlertWindow] BY GroupsAssumption DEF GroupInv, GroupTypeOK
<1>3. GroupTypeOK' BY <1>1, <1>2 DEF GroupInv, GroupTypeOK
<1>4. InvitesLive' BY <1>1 DEF InvitesLive, Exists
<1> QED BY <1>3, <1>4, SameGroups

-----------------------------------------------------------------------------
LEMMA GroupNextInv == GroupInv /\ GroupNext => GroupInv' /\ CopiesFollow
<1> SUFFICES ASSUME GroupInv, GroupNext PROVE GroupInv' /\ CopiesFollow OBVIOUS
<1>1. CASE PostGroup BY <1>1, CreateInv DEF PostGroup
<1>2. CASE PostInvite BY <1>2, MintInv DEF PostInvite
<1>3. CASE PostJoin BY <1>3, JoinInv DEF PostJoin
<1>4. CASE PostMakeAdmin BY <1>4, MakeAdminInv DEF PostMakeAdmin
<1>5. CASE PostRotate
  <2>1. {} \in SUBSET Pk OBVIOUS
  <2> QED BY <1>5, <2>1, RotateInv DEF PostRotate
<1>6. CASE DeleteMember
  <2>1. PICK p \in Pk, out \in Pk, g \in Gid, r \in Room, copies \in SUBSET Pk : RotateGroup(p, g, r, copies, {out})
    BY <1>6 DEF DeleteMember
  <2>2. {out} \in SUBSET Pk OBVIOUS
  <2> QED BY <2>1, <2>2, RotateInv
<1>7. CASE DeleteMe BY <1>7, LeaveEmptyInv, LeaveOthersInv DEF DeleteMe, LeaveGroup
<1>8. CASE PostAlert BY <1>8, AlertInv DEF PostAlert
<1>9. CASE MintToken BY <1>9, DirectInv DEF MintToken
<1> QED BY <1>1, <1>2, <1>3, <1>4, <1>5, <1>6, <1>7, <1>8, <1>9 DEF GroupNext

LEMMA StepInv == GroupInv /\ [Next]_vars => GroupInv' /\ CopiesFollow /\ [DirNext]_dirVars
<1> SUFFICES ASSUME GroupInv, [Next]_vars PROVE GroupInv' /\ CopiesFollow /\ [DirNext]_dirVars OBVIOUS
<1>1. CASE GroupNext /\ UNCHANGED dirVars BY <1>1, GroupNextInv
<1>2. ASSUME UNCHANGED groupVars PROVE GroupInv' /\ CopiesFollow
  <2>1. GroupTypeOK' /\ InvitesLive' BY <1>2 DEF groupVars, GroupInv, GroupTypeOK, InvitesLive, Exists
  <2> QED BY <1>2, <2>1, SameGroups DEF groupVars
<1>3. CASE (Identities \/ Requests \/ Partings) /\ UNCHANGED groupVars BY <1>2, <1>3 DEF DirNext
<1>4. CASE Age /\ GroupAge BY <1>4, AgeInvites DEF DirNext
<1>5. CASE UNCHANGED vars BY <1>2, <1>5 DEF vars
<1> QED BY <1>1, <1>3, <1>4, <1>5 DEF Next

(* The groups stay sound and the directory beneath them is still one.      *)
THEOREM GroupInvariant == Spec => [](DirInv /\ GroupInv)
<1>1. Init => DirInv /\ GroupInv BY InitInv, InitGroupInv DEF Init
<1>2. (DirInv /\ GroupInv) /\ [Next]_vars => (DirInv /\ GroupInv)'
  BY StepInv, NextInv
<1> QED BY <1>1, <1>2, PTL DEF Spec

(* All tables keep their types.                                            *)
THEOREM GroupTypes == Spec => []TypeOK
<1>1. DirInv /\ GroupInv => TypeOK BY DEF DirInv, GroupInv, TypeOK
<1> QED BY <1>1, GroupInvariant, PTL

(* A group that exists has an admin and one that does not has no member,   *)
(* for any number of groups and members (leave_group's succession).        *)
THEOREM GroupsAreRun == Spec => []EveryGroupIsRun
  BY GroupInvariant, PTL DEF GroupInv

(* No invite outlives its group, so nobody joins a group without a row.    *)
THEOREM InvitesFollowGroups == Spec => []InvitesLive
  BY GroupInvariant, PTL DEF GroupInv

(* A room belongs to one group or to one pair (_room_taken, which no       *)
(* constraint of the database backs).                                      *)
THEOREM RoomsStayApart == Spec => []RoomsApart
  BY GroupInvariant, PTL DEF GroupInv

(* Whoever is a member after a rotation holds a copy that opens the new    *)
(* room and is let into it, and keeps that until they leave or the next    *)
(* rotation; who is not a member has no copy and is kept out: for any      *)
(* number of members, rooms and invites, links of any age (rotate_group,   *)
(* _parse_secrets_map, join_group, assert_room_member).                    *)
THEOREM MembersFollowRotation == Spec => RotationReachesAll
<1>1. ASSUME GroupInv, GroupInv', CopiesFollow, NEW g \in Gid, NEW p \in Pk
      PROVE  IF p \in Members(g)'
               THEN Reaches(p, g) \/ version'[g] # version[g] => Reaches(p, g)'
               ELSE LockedOut(p, g)'
  <2>1. ASSUME p \in Members(g)', Reaches(p, g) \/ version'[g] # version[g]
        PROVE  Reaches(p, g)'
    <3>1. sealed'[g][p] = room'[g] BY <1>1, <2>1 DEF CopiesFollow, Reaches
    <3> QED BY <2>1, <3>1 DEF Reaches, MayTalk
  <2>2. ASSUME p \notin Members(g)'
        PROVE  LockedOut(p, g)'
    <3>1. sealed'[g][p] = NoRoom BY <1>1, <2>2 DEF GroupInv, CopiesHeld
    <3>2. ASSUME Exists(g)' PROVE ~MayTalk(p, room[g])'
      <4>1. \A h \in Gid : room'[h] = room'[g] => h = g BY <1>1, <3>2 DEF GroupInv, RoomsApart
      <4> QED BY <2>2, <4>1 DEF MayTalk
    <3> QED BY <3>1, <3>2 DEF LockedOut
  <2> QED BY <2>1, <2>2
<1>2. GroupInv /\ GroupInv' /\ [Next]_vars =>
        [\A g \in Gid, p \in Pk :
           IF p \in Members(g)'
             THEN Reaches(p, g) \/ version'[g] # version[g] => Reaches(p, g)'
             ELSE LockedOut(p, g)']_vars
  BY <1>1, StepInv
<1>3. Spec => []GroupInv BY GroupInvariant, PTL
<1> QED BY <1>2, <1>3, PTL DEF Spec, RotationReachesAll
=============================================================================
