---------------------------- MODULE FloorEngine ----------------------------
(***************************************************************************)
(* One station's floor-control engine, src/lib/core/floor/                 *)
(* floor_engine.dart, with the two listeners of its synchronous effects    *)
(* stream: the RadioState bridge (radio) and the mesh or relay controller  *)
(* that enables the pre-published microphone track (mic).                  *)
(*                                                                         *)
(* A station is a record.  Every handler of the code is an operator from   *)
(* the station before it to the station after it; what the handler sends   *)
(* is appended to out, in order, for the network to fan out.  Times are    *)
(* relative: a deadline is the ticks left until it, an instant the ticks   *)
(* elapsed since.                                                          *)
(***************************************************************************)
EXTENDS RadioState, Sequences

CONSTANT Lockout   \* peers whose busyLockout setting is on

ASSUME LockoutAssumption == Lockout \subseteq Peer

Kind == {"TxReq", "TxGrant", "TxDeny", "TxStart", "TxEnd", "Emg", "EmgClr",
         "Presence"}

(* peer is the subject of a message, not its sender: TX_GRANT and TX_DENY  *)
(* name the grantee and the denied requester.  A grant is never empty.     *)
Message ==
  {m \in [kind : Kind, peer : Peer, urgent : BOOLEAN,
          holder : Peer \cup {NoPeer}, lease : 0..GrantLease] :
     m.kind = "TxGrant" => m.lease # 0}

Msg(kind, peer) == [kind |-> kind, peer |-> peer, urgent |-> FALSE,
                    holder |-> NoPeer, lease |-> 0]

Phase == {"idle", "awaiting", "tx", "rx"}

Station ==
  [ id : Peer,
    phase : Phase,
    holder : Peer \cup {NoPeer},       \* _holder
    lease : 0..GrantLease,             \* ticks to _leaseExpiresAt
    urgent : BOOLEAN,                  \* _emergencyRequest
    attempts : 0..Attempts,            \* _txReqAttempts
    roster : SUBSET Peer,              \* _peers
    declared : BOOLEAN,                \* _rosterDeclared
    othersSeen : BOOLEAN,              \* _othersSeen
    firstOccupant : BOOLEAN,           \* _firstOccupant
    expired : SUBSET Peer,             \* _expiredHolders
    witnesses : SUBSET Peer,           \* _idleWitnesses
    joined : 0..Heartbeat,             \* ticks since _joinedAt
    observing : Timer(Heartbeat),      \* ticks since _observingSince
    inbound : Timer(Heartbeat + 1),    \* ticks since _lastInboundAt
    retry : Timer(Retry),              \* _retryTimer
    totCut : Timer(Tot),               \* _totCutTimer
    beat : 0..Heartbeat,               \* _presenceTimer
    pin : Peer \cup {NoPeer},          \* EmergencyPin._peer
    mic : BOOLEAN,                     \* the local track's enabled flag
    radio : Radio,
    out : Seq(Message) ]

NewStation(p, radio) ==
  [ id |-> p, phase |-> "idle", holder |-> NoPeer, lease |-> 0,
    urgent |-> FALSE, attempts |-> 0, roster |-> {p}, declared |-> FALSE,
    othersSeen |-> FALSE, firstOccupant |-> FALSE, expired |-> {},
    witnesses |-> {}, joined |-> 0, observing |-> Off, inbound |-> Off,
    retry |-> Off, totCut |-> Off, beat |-> Heartbeat, pin |-> NoPeer,
    mic |-> FALSE, radio |-> radio, out |-> << >> ]

-----------------------------------------------------------------------------
(* What the getters of the engine compute.                                 *)

LiveHolder(s) == Live(s.holder, s.lease)

IsLocalArbiter(s) == Elect(s.roster) = s.id

RemoteHold(s) == LiveHolder(s) \notin {NoPeer, s.id}

(* No inbound message for more than a heartbeat: the only partition signal *)
(* the engine has.                                                         *)
LinkPaused(s) == s.inbound = Off \/ s.inbound > Heartbeat

Watched(s) == IF s.observing = Off THEN s.joined ELSE s.observing

InJoinGuardWindow(s) ==
  ~s.firstOccupant /\ (LinkPaused(s) \/ Watched(s) < Heartbeat)

RosterConverged(s) == s.declared \/ s.joined = 0

HasDirectIdleProof(s) ==
  /\ LiveHolder(s) = NoPeer
  /\ RosterConverged(s)
  /\ \/ s.roster \subseteq {s.id}
     \/ s.firstOccupant
     \/ ~LinkPaused(s) /\ s.roster \ {s.id} \subseteq s.witnesses

SelfGrantAllowed(s) ==
  MaySelfGrant(s.roster \subseteq {s.id}, s.firstOccupant, Watched(s),
               RosterConverged(s), ~LinkPaused(s))

-----------------------------------------------------------------------------
(* Effects: what a station sends and what its listeners do at once.        *)

Send(s, m) == [s EXCEPT !.out = Append(@, m)]

(* TransmitGranted un-mutes the local track and EndTransmit mutes it.      *)
Track(mic, event) ==
  event = "TransmitGranted" \/ (mic /\ event # "EndTransmit")

Dispatch(s, event) ==
  [s EXCEPT !.radio = Reduce(@, event, LiveHolder(s), s.id),
            !.mic   = Track(@, event)]

EmitPresence(s) ==
  Send(s, [Msg("Presence", s.id) EXCEPT
             !.holder = LiveHolder(s),
             !.lease  = IF LiveHolder(s) = NoPeer THEN 0 ELSE s.lease])

PinEmergency(s, peer) ==
  [s EXCEPT !.pin = peer, !.radio = LampOn(@)]

(* TX ends and the others are told, whatever ended it.                     *)
StopTx(s) ==
  Dispatch(Send([s EXCEPT !.phase = "idle", !.totCut = Off],
                Msg("TxEnd", s.id)),
           "EndTransmit")

Denied(s) == Dispatch([s EXCEPT !.phase = "idle", !.urgent = FALSE],
                      "TransmitDenied")

StartRx(s) == Dispatch([s EXCEPT !.phase = "rx"], "RemoteFloorStarted")

EndRx(s) == Dispatch([s EXCEPT !.phase = "idle"], "RemoteFloorEnded")

-----------------------------------------------------------------------------
(* The lease.                                                              *)

DropLease(s) == [s EXCEPT !.holder = NoPeer, !.lease = 0]

ClearLease(s) == EmitPresence(DropLease(s))

(* _onLeaseExpired: the lease timer's callback.                            *)
ExpireLease(s) ==
  LET t == ClearLease([s EXCEPT !.expired = @ \cup {s.holder}])
  IN  CASE s.phase = "tx" /\ s.holder = s.id -> StopTx(t)
        [] s.phase = "rx"                    -> EndRx(t)
        [] OTHER                             -> t

(* _installLease; announce is its named argument.                          *)
InstallLease(s, peer, remaining, announce) ==
  LET t == [s EXCEPT !.expired = @ \ {peer}, !.holder = peer,
                     !.lease = remaining]
  IN  CASE remaining = 0 -> ExpireLease(t)
        [] remaining # 0 /\ announce  -> EmitPresence(t)
        [] OTHER                      -> t

-----------------------------------------------------------------------------
(* Transmitting and arbitrating.                                           *)

(* Mutant: a transmission that is not bounded by the TOT.                  *)
EnterTxNoTot(s) ==
  Send(Dispatch([s EXCEPT !.phase = "tx", !.urgent = FALSE, !.retry = Off],
                "TransmitGranted"),
       Msg("TxStart", s.id))

EnterTx(s) ==
  Send(Dispatch([s EXCEPT !.phase = "tx", !.urgent = FALSE, !.retry = Off,
                          !.totCut = Tot],
                "TransmitGranted"),
       Msg("TxStart", s.id))

(* _endLocalTx clears our lease, announcing it, before TX_END goes out.    *)
EndLocalTx(s) == StopTx(IF s.holder = s.id THEN ClearLease(s) ELSE s)

DenyBusy(s, requester) ==
  LET t == Send(s, Msg("TxDeny", requester))
  IN  IF requester = s.id /\ s.phase = "awaiting" THEN Denied(t) ELSE t

(* The join guard: a newcomer grants nobody until it can know the floor.   *)
GuardBars(s, requester) ==
  /\ ~HasDirectIdleProof(s)
  /\ \/ InJoinGuardWindow(s) /\ LiveHolder(s) = NoPeer
     \/ requester = s.id /\ ~SelfGrantAllowed(s)

Grant(s, requester, remaining) ==
  LET t == Send(InstallLease(s, requester, remaining, TRUE),
                [Msg("TxGrant", requester) EXCEPT !.lease = remaining])
  IN  IF requester = s.id /\ t.phase # "tx" THEN EnterTx(t) ELSE t

(* Mutant: an arbiter that never holds back.                               *)
ArbitrateUnguarded(s, requester, urgent) ==
  LET verdict == Decide(requester, urgent, s.holder, s.lease)
  IN  IF verdict.grant THEN Grant(s, requester, verdict.remaining)
      ELSE DenyBusy(s, requester)

Arbitrate(s, requester, urgent) ==
  LET verdict == Decide(requester, urgent, s.holder, s.lease)
  IN  IF verdict.grant /\ ~GuardBars(s, requester)
      THEN Grant(s, requester, verdict.remaining)
      ELSE DenyBusy(s, requester)

SendTxReq(s) ==
  Send([s EXCEPT !.attempts = @ + 1, !.retry = Retry],
       [Msg("TxReq", s.id) EXCEPT !.urgent = s.urgent])

(* Mutant: the attempts are not limited.                                   *)
RetryTxReqForever(s) ==
  IF s.phase # "awaiting" THEN [s EXCEPT !.retry = Off] ELSE SendTxReq(s)

(* The retry timer's callback; a stale timer finds another phase.          *)
RetryTxReq(s) ==
  CASE s.phase # "awaiting"    -> [s EXCEPT !.retry = Off]
    [] s.phase = "awaiting" /\ s.attempts >= Attempts ->
         Denied([s EXCEPT !.retry = Off])
    [] OTHER                   -> SendTxReq(s)

-----------------------------------------------------------------------------
(* The calls of the host.                                                  *)

(* Busy lockout answers a press locally, except that a join-guarded        *)
(* arbiter goes on to deny itself BUSY.                                    *)
LockedOut(s) ==
  /\ s.id \in Lockout
  /\ RemoteHold(s)
  /\ SelfGrantAllowed(s) \/ ~IsLocalArbiter(s)

(* Mutant: the request goes out but the phase is not set.                  *)
BeginRequestSilent(s, urgent) ==
  LET t == Dispatch([s EXCEPT !.attempts = 0, !.urgent = urgent,
                              !.phase = "awaiting"], "RequestTransmit")
  IN  IF IsLocalArbiter(t) THEN Arbitrate(t, t.id, urgent)
      ELSE [SendTxReq(t) EXCEPT !.retry = Off]

(* Mutant: the screen is not told of the request.                          *)
BeginRequestUnseen(s, urgent) ==
  LET t == [s EXCEPT !.attempts = 0, !.urgent = urgent, !.phase = "awaiting"]
  IN  IF IsLocalArbiter(t) THEN Arbitrate(t, t.id, urgent) ELSE SendTxReq(t)

BeginRequest(s, urgent) ==
  LET t == Dispatch([s EXCEPT !.attempts = 0, !.urgent = urgent,
                              !.phase = "awaiting"], "RequestTransmit")
  IN  IF IsLocalArbiter(t) THEN Arbitrate(t, t.id, urgent) ELSE SendTxReq(t)

PinAndTell(s) == Send(PinEmergency(s, s.id), Msg("Emg", s.id))

RequestTransmit(s, urgent) ==
  IF s.phase \in {"tx", "awaiting"}
  THEN IF urgent /\ s.pin = NoPeer THEN PinAndTell(s) ELSE s
  ELSE LET t == IF urgent THEN PinAndTell(s) ELSE s
       IN  IF ~urgent /\ LockedOut(s)
           THEN Dispatch(Dispatch(t, "RequestTransmit"), "TransmitDenied")
           ELSE BeginRequest(t, urgent)

(* A release while awaiting only forgets the request: nothing is sent.     *)
ReleaseTransmit(s) ==
  CASE s.phase = "awaiting" ->
         [s EXCEPT !.phase = "idle", !.urgent = FALSE, !.retry = Off]
    [] s.phase = "tx" -> EndLocalTx(s)
    [] OTHER          -> s

ClearEmergency(s) ==
  Send([s EXCEPT !.pin = NoPeer, !.radio = LampOff(@)], Msg("EmgClr", s.id))

UpdateRoster(s, peers) ==
  LET first == s.othersSeen \/ peers \subseteq {s.id}
  IN  EmitPresence(
        [s EXCEPT !.othersSeen = @ \/ ~(peers \subseteq {s.id}),
                  !.firstOccupant = IF first THEN @ ELSE s.joined >= Heartbeat,
                  !.declared = TRUE,
                  !.roster = peers,
                  !.witnesses = @ \cap peers])

-----------------------------------------------------------------------------
(* Inbound messages.                                                       *)

(* A message after a silence longer than a heartbeat restarts the          *)
(* observation window and voids what was witnessed before it.              *)
NoteLinkActivity(s) ==
  LET gap == s.inbound > Heartbeat
  IN  [s EXCEPT !.observing = IF gap \/ @ = Off THEN 0 ELSE @,
                !.witnesses = IF gap THEN {} ELSE @,
                !.inbound = 0]

(* A grant of the floor to us that must not start a transmission: someone  *)
(* else is known to hold it, or we joined too recently to know.            *)
IgnoreGrant(s) ==
  \/ RemoteHold(s) /\ ~s.urgent
  \/ InJoinGuardWindow(s) /\ ~HasDirectIdleProof(s) /\ LiveHolder(s) # s.id

OnOwnGrant(s, lease) ==
  LET t == InstallLease(s, s.id, lease, TRUE)
  IN  CASE IgnoreGrant(s)                       -> s
        [] ~IgnoreGrant(s) /\ t.phase # "tx"    -> EnterTx(t)
        [] OTHER                                -> t

(* Another station is granted the floor: we yield it if we have it and     *)
(* give up if we asked for it.                                             *)
OnOtherGrant(s, peer, lease) ==
  LET t == InstallLease(s, peer, lease, TRUE)
  IN  CASE t.phase = "tx"       -> StopTx(t)
        [] t.phase = "awaiting" ->
             StartRx(Dispatch([t EXCEPT !.phase = "rx", !.urgent = FALSE,
                                        !.retry = Off], "TransmitDenied"))
        [] OTHER                -> t

OnDeny(s, peer) ==
  IF peer = s.id /\ s.phase = "awaiting"
  THEN Denied([s EXCEPT !.retry = Off]) ELSE s

(* Mutant: a talker does not yield to another.                             *)
OnRemoteStartStubborn(s, peer) ==
  LET t == [s EXCEPT !.urgent = FALSE, !.retry = Off,
                     !.witnesses = @ \ {peer}]
  IN  IF s.phase = "tx" THEN s
      ELSE StartRx(InstallLease(t, peer, GrantLease, FALSE))

(* Mutant: the start of a speaker who has a lease already is old news.     *)
OnRemoteStartOnce(s, peer) ==
  IF LiveHolder(s) # NoPeer THEN s
  ELSE StartRx(InstallLease(s, peer, GrantLease, FALSE))

(* A speaker announces itself.  Without a live lease it gets a whole one.  *)
OnRemoteStart(s, peer) ==
  LET t == CASE s.phase = "tx"       -> StopTx(s)
             [] s.phase = "awaiting" ->
                  Dispatch([s EXCEPT !.urgent = FALSE, !.retry = Off],
                           "TransmitDenied")
             [] OTHER                -> s
      u == IF LiveHolder(t) = NoPeer
           THEN InstallLease(t, peer, GrantLease, FALSE) ELSE t
      v == [u EXCEPT !.witnesses = @ \ {peer}]
  IN  IF v.phase # "rx" THEN StartRx(v) ELSE v

(* The end of a pre-empted speaker must not tear down the new lease.       *)
OnRemoteEnd(s, peer) ==
  LET t == IF s.holder = peer THEN ClearLease(s) ELSE s
  IN  CASE s.holder \notin {NoPeer, peer}                       -> s
        [] s.holder \in {NoPeer, peer} /\ s.phase = "rx"        -> EndRx(t)
        [] OTHER                                                -> t

(* Mutant: only the lease is cleared when the speaker falls silent.        *)
OnIdlePresenceQuietly(s, peer) ==
  IF LiveHolder(s) = peer
  THEN [DropLease(s) EXCEPT !.phase = IF @ = "rx" THEN "idle" ELSE @] ELSE s

(* An idle snapshot counts as the end of the lease only when it comes from *)
(* the peer we believe is the holder.                                      *)
OnIdlePresence(s, peer) ==
  LET t == [s EXCEPT !.witnesses = @ \cup {peer}]
      u == DropLease(t)
  IN  CASE LiveHolder(s) # peer                       -> t
        [] LiveHolder(s) = peer /\ s.phase = "rx"     -> EndRx(u)
        [] OTHER                                      -> u

(* Mutant: every snapshot renews the lease it names.                       *)
OnHeldPresenceRenews(s, m) ==
  IF s.phase = "tx" \/ m.lease = 0 THEN s
  ELSE InstallLease(s, m.holder, GrantLease, FALSE)

(* A snapshot that names a holder: adopted when we know of none, and by a  *)
(* newcomer that is transmitting on its own grant.                         *)
OnHeldPresence(s, m) ==
  LET t == [s EXCEPT !.witnesses = @ \ {m.peer, m.holder}]
      stale == m.holder \in s.expired /\ LiveHolder(s) # m.holder
      remote == m.holder # s.id
      yielded == StopTx(IF t.holder = t.id THEN DropLease(t) ELSE t)
      adopted == InstallLease(t, m.holder, m.lease, FALSE)
  IN  CASE m.lease = 0 \/ stale -> t
        [] m.lease # 0 /\ ~stale /\ s.phase = "tx" ->
             IF remote /\ InJoinGuardWindow(s)
             THEN StartRx(InstallLease(yielded, m.holder, m.lease, FALSE))
             ELSE t
        [] m.lease # 0 /\ ~stale /\ s.phase # "tx" /\ LiveHolder(s) = NoPeer ->
             IF remote /\ s.phase # "rx" THEN StartRx(adopted) ELSE adopted
        [] OTHER -> t

OnEmg(s, peer) == PinEmergency(s, peer)

OnEmgClr(s, peer) ==
  IF s.pin = peer
  THEN [s EXCEPT !.pin = NoPeer, !.radio = LampOff(@)] ELSE s

(* An echo of our own announcement is dropped; TX_GRANT and TX_DENY that   *)
(* name us are the answers to our request.                                 *)
OnMessage(station, m) ==
  LET s == NoteLinkActivity(station)
      own == m.peer = s.id
  IN  CASE m.kind = "TxGrant" /\ own -> OnOwnGrant(s, m.lease)
        [] m.kind = "TxGrant" /\ ~own -> OnOtherGrant(s, m.peer, m.lease)
        [] m.kind = "TxDeny" -> OnDeny(s, m.peer)
        [] m.kind = "TxReq" /\ ~own /\ IsLocalArbiter(s) ->
             Arbitrate(s, m.peer, m.urgent)
        [] m.kind = "TxStart" /\ ~own -> OnRemoteStart(s, m.peer)
        [] m.kind = "TxEnd" /\ ~own -> OnRemoteEnd(s, m.peer)
        [] m.kind = "Emg" /\ ~own -> OnEmg(s, m.peer)
        [] m.kind = "EmgClr" /\ ~own -> OnEmgClr(s, m.peer)
        [] m.kind = "Presence" /\ ~own ->
             IF m.holder = NoPeer THEN OnIdlePresence(s, m.peer)
             ELSE OnHeldPresence(s, m)
        [] OTHER -> s

-----------------------------------------------------------------------------
(* Timers.                                                                 *)

(* The TOT's callback; the timer is gone once it has fired.                *)
CutTx(s) == IF s.phase = "tx" THEN EndLocalTx(s) ELSE [s EXCEPT !.totCut = Off]

PresenceBeat(s) == [EmitPresence(s) EXCEPT !.beat = Heartbeat]

Due(s) ==
  \/ s.retry = 0
  \/ s.totCut = 0
  \/ s.beat = 0
  \/ s.holder # NoPeer /\ s.lease = 0

(* One tick of the clock.                                                  *)
Elapse(s) ==
  [s EXCEPT !.retry = Down(@), !.totCut = Down(@), !.beat = Down(@),
            !.lease = Down(@), !.joined = Up(@, Heartbeat),
            !.observing = Up(@, Heartbeat), !.inbound = Up(@, Heartbeat + 1)]
=============================================================================
