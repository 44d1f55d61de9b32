------------------------------- MODULE Groups -------------------------------
(***************************************************************************)
(* Groups, invites, rotation, 1:1 rooms, alerts and the room check of      *)
(* /token (token-svc/app/groups.py), over the contacts of Directory.       *)
(*                                                                         *)
(* A phone derives the room from the group's secret and the server keeps   *)
(* only sealed copies of it, so a secret is represented by the room it     *)
(* derives: a member reaches its group while sealed[g][p] = room[g].       *)
(***************************************************************************)
EXTENDS Directory

CONSTANTS
  Gid, Room,
  MaxMembers,    \* MAX_MEMBERS
  InviteTtl,     \* the preset expiry of an invite in ticks
  AlertWindow,   \* ALERT_WINDOW_S in ticks
  MaxVersion,    \* bound: rotations of one group, plus one
  MaxInvites     \* bound: invites at a time

ASSUME GroupsAssumption ==
  /\ MaxMembers \in Nat \ {0} /\ InviteTtl \in Nat \ {0} /\ AlertWindow \in Nat
  /\ MaxVersion \in Nat \ {0} /\ MaxInvites \in Nat

NoRoom == "no room"
Never == -1          \* an invite without expiry

ASSUME RoomAssumption == NoRoom \notin Room

VARIABLES
  room,       \* groups: the room of a group, NoRoom without a row
  version,    \* and its key_version, 0 before it is created (ids are not reused)
  role,       \* group_members: "none" without a row
  older,      \* who joined a group before whom (joined_at)
  sealed,     \* secret_enc of each member
  invites,    \* invites, each with the secret its link carries
  direct,     \* direct_rooms
  alerted     \* alert_sends: what is left of the window

groupVars == <<room, version, role, older, sealed, invites, direct, alerted>>
vars == <<dirVars, groupVars>>

Role == {"none", "member", "admin"}
Invite == [group: Gid, secret: Room, left: {Never} \cup 0..InviteTtl]

GroupTypeOK ==
  /\ room \in [Gid -> Room \cup {NoRoom}]
  /\ version \in [Gid -> 0..MaxVersion]
  /\ role \in [Gid -> [Pk -> Role]]
  /\ older \in [Gid -> SUBSET (Pk \X Pk)]
  /\ sealed \in [Gid -> [Pk -> Room \cup {NoRoom}]]
  /\ invites \subseteq Invite
  /\ direct \in [Pair -> Room \cup {NoRoom}]
  /\ alerted \in [Pk \X Pk -> 0..AlertWindow]
TypeOK == DirTypeOK /\ GroupTypeOK

GroupInit ==
  /\ room = [g \in Gid |-> NoRoom]
  /\ version = [g \in Gid |-> 0]
  /\ role = [g \in Gid |-> [p \in Pk |-> "none"]]
  /\ older = [g \in Gid |-> {}]
  /\ sealed = [g \in Gid |-> [p \in Pk |-> NoRoom]]
  /\ invites = {}
  /\ direct = [pair \in Pair |-> NoRoom]
  /\ alerted = [r \in Pk \X Pk |-> 0]

-----------------------------------------------------------------------------
Exists(g) == room[g] # NoRoom
Members(g) == {p \in Pk : role[g][p] # "none"}
Admins(g) == {p \in Pk : role[g][p] = "admin"}

(* _room_taken: by a group other than g, or by a pair.                     *)
(* (Mutant: by a group only.)                                              *)
RoomTakenByGroup(r, g) == \E h \in Gid \ {g} : room[h] = r
RoomTaken(r, g) ==
  \/ \E h \in Gid \ {g} : room[h] = r
  \/ \E pair \in Pair : direct[pair] = r

(* assert_room_member: the group of the room decides, then the pair.       *)
MayTalk(p, r) ==
  IF \E g \in Gid : room[g] = r
    THEN \E g \in Gid : room[g] = r /\ p \in Members(g)
    ELSE \E pair \in Pair : direct[pair] = r /\ p \in pair

Usable(i) == i.left # 0
Dead(g, out) == {pair \in older[g] : out \in {pair[1], pair[2]}}

-----------------------------------------------------------------------------
CreateGroup(p, g, r) ==
  /\ Known(p) /\ version[g] = 0
  /\ ~RoomTaken(r, g)
  /\ room' = [room EXCEPT ![g] = r]
  /\ version' = [version EXCEPT ![g] = 1]
  /\ role' = [role EXCEPT ![g][p] = "admin"]
  /\ sealed' = [sealed EXCEPT ![g][p] = r]
  /\ UNCHANGED <<older, invites, direct, alerted>>

(* The link carries the secret the member holds.                           *)
MintInvite(p, g, ttl) ==
  /\ p \in Members(g)
  /\ Cardinality(invites) < MaxInvites
  /\ invites' = invites \cup {[group |-> g, secret |-> sealed[g][p], left |-> ttl]}
  /\ UNCHANGED <<room, version, role, older, sealed, direct, alerted>>

(* The server never sees the secret the link carries: the new member posts *)
(* a sealed copy of it, current or not.                                    *)
JoinGroup(p, i) ==
  /\ Known(p) /\ Usable(i)
  /\ p \notin Members(i.group)
  /\ Cardinality(Members(i.group)) < MaxMembers
  /\ role' = [role EXCEPT ![i.group][p] = "member"]
  /\ sealed' = [sealed EXCEPT ![i.group][p] = i.secret]
  /\ older' = [older EXCEPT ![i.group] = @ \cup (Members(i.group) \X {p})]
  /\ UNCHANGED <<room, version, invites, direct, alerted>>

MakeAdmin(p, g, target) ==
  /\ p \in Admins(g) /\ target \in Members(g)
  /\ role' = [role EXCEPT ![g][target] = "admin"]
  /\ UNCHANGED <<room, version, older, sealed, invites, direct, alerted>>

(* _parse_secrets_map: the copies posted must be those of the remaining    *)
(* members, of all of them and of nobody else.  (Mutant: some are missing.) *)
CopiesWithin(g, copies, out) == copies \subseteq Members(g) \ out
CopiesFit(g, copies, out) == copies = Members(g) \ out

(* out is who is removed, if anybody.                                      *)
RotateGroup(p, g, r, copies, out) ==
  /\ p \in Admins(g)
  /\ out \subseteq Members(g) \ {p} /\ Cardinality(out) <= 1
  /\ CopiesFit(g, copies, out)
  /\ ~RoomTaken(r, g)
  /\ version[g] < MaxVersion
  /\ room' = [room EXCEPT ![g] = r]
  /\ version' = [version EXCEPT ![g] = @ + 1]
  /\ role' = [role EXCEPT ![g] = [q \in Pk |-> IF q \in out THEN "none" ELSE @[q]]]
  /\ sealed' = [sealed EXCEPT ![g] = [q \in Pk |->
                  IF q \in copies THEN r ELSE IF q \in out THEN NoRoom ELSE @[q]]]
  /\ older' = [older EXCEPT ![g] = @ \ UNION {Dead(g, q) : q \in out}]
  /\ UNCHANGED <<invites, direct, alerted>>

(* The member row goes.                                                    *)
Depart(p, g) ==
  /\ sealed' = [sealed EXCEPT ![g][p] = NoRoom]
  /\ older' = [older EXCEPT ![g] = @ \ Dead(g, p)]
  /\ UNCHANGED <<version, direct, alerted>>

(* The last to leave takes the invites and the group along.                *)
(* (Mutant: the invites stay.)                                             *)
LeaveInvites(p, g) ==
  /\ Members(g) = {p}
  /\ Depart(p, g)
  /\ role' = [role EXCEPT ![g][p] = "none"]
  /\ room' = [room EXCEPT ![g] = NoRoom]
  /\ UNCHANGED invites
LeaveEmpty(p, g) ==
  /\ Members(g) = {p}
  /\ Depart(p, g)
  /\ role' = [role EXCEPT ![g][p] = "none"]
  /\ room' = [room EXCEPT ![g] = NoRoom]
  /\ invites' = {i \in invites : i.group # g}

(* When the last admin leaves the member of longest standing follows.      *)
(* (Mutant: nobody does.)                                                  *)
LeaveUnled(p, g) ==
  /\ p \in Members(g) /\ Members(g) # {p}
  /\ Depart(p, g)
  /\ role' = [role EXCEPT ![g][p] = "none"]
  /\ UNCHANGED <<room, invites>>
LeaveOthers(p, g) ==
  LET others == Members(g) \ {p}
  IN  /\ p \in Members(g) /\ others # {}
      /\ Depart(p, g)
      /\ IF Admins(g) = {p}
           THEN \E oldest \in others :
                  /\ ~\E q \in others : <<q, oldest>> \in older[g]
                  /\ role' = [role EXCEPT ![g][p] = "none", ![g][oldest] = "admin"]
           ELSE role' = [role EXCEPT ![g][p] = "none"]
      /\ UNCHANGED <<room, invites>>

LeaveGroup(p, g) == LeaveEmpty(p, g) \/ LeaveOthers(p, g)

SendAlert(p, target) ==
  /\ Known(p) /\ Known(target)
  /\ p # target /\ Contact(p, target)
  /\ alerted[<<p, target>>] = 0
  /\ alerted' = [alerted EXCEPT ![<<p, target>>] = AlertWindow]
  /\ UNCHANGED <<room, version, role, older, sealed, invites, direct>>

(* The row is written once, at the first /token of the pair, and stays     *)
(* whatever becomes of the contact.                                        *)
EnsureDirectRoom(p, peer, r) ==
  /\ Known(p) /\ p # peer /\ Contact(p, peer)
  /\ direct[{p, peer}] = NoRoom
  /\ \A g \in Gid : room[g] # r
  /\ \A pair \in Pair : direct[pair] # r
  /\ direct' = [direct EXCEPT ![{p, peer}] = r]
  /\ UNCHANGED <<room, version, role, older, sealed, invites, alerted>>

GroupAge ==
  /\ invites' = {[i EXCEPT !.left = IF @ > 0 THEN @ - 1 ELSE @] : i \in invites}
  /\ alerted' = [r \in Pk \X Pk |-> IF alerted[r] > 0 THEN alerted[r] - 1 ELSE 0]
  /\ UNCHANGED <<room, version, role, older, sealed, direct>>

-----------------------------------------------------------------------------
(* The routes.                                                             *)
PostGroup == \E p \in Pk, g \in Gid, r \in Room : CreateGroup(p, g, r)
PostInvite == \E p \in Pk, g \in Gid, ttl \in {InviteTtl, Never} : MintInvite(p, g, ttl)
PostJoin == \E p \in Pk : \E i \in invites : JoinGroup(p, i)
PostMakeAdmin == \E p, q \in Pk, g \in Gid : MakeAdmin(p, g, q)
PostRotate == \E p \in Pk, g \in Gid, r \in Room, copies \in SUBSET Pk : RotateGroup(p, g, r, copies, {})
DeleteMember ==
  \E p, out \in Pk, g \in Gid, r \in Room, copies \in SUBSET Pk : RotateGroup(p, g, r, copies, {out})
DeleteMe == \E p \in Pk, g \in Gid : LeaveGroup(p, g)
PostAlert == \E p, q \in Pk : SendAlert(p, q)
MintToken == \E p, q \in Pk, r \in Room : EnsureDirectRoom(p, q, r)

GroupNext ==
  \/ PostGroup \/ PostInvite \/ PostJoin \/ PostMakeAdmin \/ PostRotate
  \/ DeleteMember \/ DeleteMe \/ PostAlert \/ MintToken

Next ==
  \/ GroupNext /\ UNCHANGED dirVars
  \/ (Identities \/ Requests \/ Partings) /\ UNCHANGED groupVars
  \/ Age /\ GroupAge

Init == DirInit /\ GroupInit
Spec == Init /\ [][Next]_vars

-----------------------------------------------------------------------------
(* However members leave, are removed and name each other admin, a group   *)
(* that has a row has somebody to run it, and one that has none has no     *)
(* member left (V2-VT-011, last-admin succession).                         *)
EveryGroupIsRun ==
  \A g \in Gid : IF Exists(g) THEN Admins(g) # {} ELSE Members(g) = {}

(* join_group does not look whether the group of an invite still exists:   *)
(* an invite may not survive the last member, or somebody joins nothing.   *)
InvitesLive == \A i \in invites : Exists(i.group)

(* No table constraint spans groups and pairs, and _room_taken sees only   *)
(* what is committed: still a room belongs to one group or to one pair, so *)
(* that the room check asks the right one.                                 *)
RoomsApart ==
  /\ \A g, h \in Gid : g # h /\ Exists(g) => room[g] # room[h]
  /\ \A a, b \in Pair : a # b /\ direct[a] # NoRoom => direct[a] # direct[b]
  /\ \A g \in Gid, a \in Pair : Exists(g) => room[g] # direct[a]

(* Rotation reaches every member: whoever remains holds a copy that opens  *)
(* the new room and is let into it, whatever copy they held before, and    *)
(* nothing but another rotation takes that away from a member; who is not  *)
(* one has no copy and is kept out (Technical 5.2, 5.3).  Between two      *)
(* rotations somebody who joined by an old link may hold an old copy.      *)
Reaches(p, g) == p \in Members(g) /\ sealed[g][p] = room[g] /\ MayTalk(p, room[g])
LockedOut(p, g) == sealed[g][p] = NoRoom /\ (Exists(g) => ~MayTalk(p, room[g]))

RotationReachesAll ==
  [][\A g \in Gid, p \in Pk :
       IF p \in Members(g)'
         THEN Reaches(p, g) \/ version'[g] # version[g] => Reaches(p, g)'
         ELSE LockedOut(p, g)']_vars
=============================================================================
