----------------------------- MODULE FloorProofs -----------------------------
(***************************************************************************)
(* Proofs about FloorChannel, for every set of stations and every choice   *)
(* of the timing constants: the types, and what a station keeps together   *)
(* whatever crosses, leaves, fails or is switched off.                     *)
(*                                                                         *)
(* The first part says of each operator of FloorEngine which of the fields *)
(* that matter it changes; the second that each handler keeps a station    *)
(* sound; the third that every action of the channel does.                 *)
(* A fourth part follows two voices: who starts to transmit has called     *)
(* every station it is linked to, and who hears that call yields.          *)
(*                                                                         *)
(* The last part is about the synchronous hub, with any number of settled  *)
(* stations: one talker and a lock, whichever of them have busy lockout    *)
(* on, and with it everywhere a talker heard by all and shown as it is.    *)
(* It follows the floor through three stages (free, asked for, taken) and  *)
(* says of each handler what it adds to what is under way.                 *)
(***************************************************************************)
EXTENDS FloorRefinement, TLAPS, SequenceTheorems, FiniteSetTheorems,
        WellFoundedInduction

(* What an operator leaves alone when it only sends or shows something.    *)
Same(s, t) ==
  /\ t \in Station
  /\ t.id = s.id /\ t.phase = s.phase /\ t.mic = s.mic
  /\ t.holder = s.holder /\ t.lease = s.lease
  /\ t.retry = s.retry /\ t.totCut = s.totCut /\ t.attempts = s.attempts

(* The microphone and the time-out timer follow the phase, and neither     *)
(* awaiting nor rx is left without what ends it.                           *)
Sound(s) ==
  /\ s \in Station
  /\ s.mic <=> s.phase = "tx"
  /\ s.totCut # Off <=> s.phase = "tx"
  /\ s.phase = "awaiting" => s.retry # Off
  /\ s.phase = "rx" => s.holder # NoPeer

(* The result of a handler.                                                *)
Keeps(s, t) == Sound(t) /\ t.id = s.id

LEMMA NoPeerIsNobody == NoPeer \notin Peer
  BY PeerAssumption DEF NoPeer

LEMMA TimingTypes ==
  /\ Tot \in Nat /\ Tot # 0 /\ Retry \in Nat /\ Heartbeat \in Nat /\ Attempts \in Nat
  /\ GrantLease \in Nat /\ GrantLease # 0
  BY TimingAssumption DEF GrantLease

LEMMA TimerTypes ==
  ASSUME NEW n \in Nat
  PROVE  Off \in Timer(n) /\ n \in Timer(n) /\ n # Off /\ 0 \in 0..n
  BY DEF Timer, Off

LEMMA LiveHolderType ==
  ASSUME NEW s \in Station
  PROVE  LiveHolder(s) \in Peer \cup {NoPeer}
  BY DEF LiveHolder, Live, Station

LEMMA MsgType ==
  ASSUME NEW kind \in Kind, kind # "TxGrant", NEW peer \in Peer
  PROVE  Msg(kind, peer) \in Message
<1>1. 0 \in 0..GrantLease BY TimingTypes
<1> QED BY <1>1 DEF Msg, Message

-----------------------------------------------------------------------------
(* What the operators change.                                              *)

LEMMA SendKeeps ==
  ASSUME NEW s \in Station, NEW m \in Message
  PROVE  Same(s, Send(s, m))
<1>1. s.out \in Seq(Message) BY DEF Station
<1>2. Append(s.out, m) \in Seq(Message) BY <1>1, AppendProperties
<1> QED BY <1>2 DEF Station, Send, Same

LEMMA DispatchEffect ==
  ASSUME NEW s \in Station, NEW event
  PROVE  Same([s EXCEPT !.mic = Track(s.mic, event)], Dispatch(s, event))
<1>1. s.radio \in Radio /\ s.id \in Peer /\ s.mic \in BOOLEAN BY DEF Station
<1>2. NextPhase(s.radio.phase, event) \in RadioPhase
  BY <1>1 DEF NextPhase, RadioPhase, Radio
<1>3. Speaker(s.radio.speaker, event, LiveHolder(s), s.id) \in Peer \cup {NoPeer}
  BY <1>1, LiveHolderType DEF Speaker, Radio
<1>4. Reduce(s.radio, event, LiveHolder(s), s.id) \in Radio
  BY <1>1, <1>2, <1>3 DEF Reduce, Radio
<1>5. Track(s.mic, event) \in BOOLEAN BY DEF Track
<1> QED BY <1>4, <1>5 DEF Dispatch, Same, Station

LEMMA EmitPresenceKeeps ==
  ASSUME NEW s \in Station
  PROVE  Same(s, EmitPresence(s))
<1> DEFINE m == [Msg("Presence", s.id) EXCEPT
             !.holder = LiveHolder(s),
             !.lease  = IF LiveHolder(s) = NoPeer THEN 0 ELSE s.lease]
<1>1. s.id \in Peer /\ s.lease \in 0..GrantLease /\ 0 \in 0..GrantLease
  BY TimingTypes DEF Station
<1>2. Msg("Presence", s.id) \in Message
  BY <1>1, MsgType DEF Kind
<1>3. m \in Message
  BY <1>1, <1>2, LiveHolderType DEF Message, Msg
<1> QED BY <1>3, SendKeeps DEF EmitPresence

LEMMA PinEmergencyKeeps ==
  ASSUME NEW s \in Station, NEW peer \in Peer
  PROVE  Same(s, PinEmergency(s, peer))
<1>1. LampOn(s.radio) \in Radio BY DEF Station, Radio, LampOn
<1> QED BY <1>1 DEF PinEmergency, Same, Station

LEMMA StopTxEffect ==
  ASSUME NEW s \in Station
  PROVE  Same([s EXCEPT !.phase = "idle", !.totCut = Off, !.mic = FALSE],
              StopTx(s))
<1> DEFINE a == [s EXCEPT !.phase = "idle", !.totCut = Off]
           b == Send(a, Msg("TxEnd", s.id))
<1>1. a \in Station BY DEF Station, Phase, Timer
<1>2. Msg("TxEnd", s.id) \in Message BY MsgType DEF Kind, Station
<1>3. Same(a, b) BY <1>1, <1>2, SendKeeps
<1>4. Same([b EXCEPT !.mic = Track(b.mic, "EndTransmit")], Dispatch(b, "EndTransmit"))
  BY <1>3, DispatchEffect DEF Same
<1>5. Track(b.mic, "EndTransmit") = FALSE BY DEF Track
<1> HIDE DEF a, b
<1>6. StopTx(s) = Dispatch(b, "EndTransmit") BY DEF StopTx, a, b
<1> QED BY <1>1, <1>3, <1>4, <1>5, <1>6, ZenonT(30) DEF Same, Station, a

LEMMA ShowEffect ==
  ASSUME NEW s \in Station
  PROVE  /\ Same([s EXCEPT !.phase = "idle"], Denied(s))
         /\ Same([s EXCEPT !.phase = "rx"], StartRx(s))
         /\ Same([s EXCEPT !.phase = "idle"], EndRx(s))
<1>1. /\ [s EXCEPT !.phase = "idle", !.urgent = FALSE] \in Station
      /\ [s EXCEPT !.phase = "idle"] \in Station
      /\ [s EXCEPT !.phase = "rx"] \in Station
  BY DEF Station, Phase
<1>2. ASSUME NEW t \in Station, NEW event \in {"TransmitDenied", "RemoteFloorStarted", "RemoteFloorEnded"}
      PROVE  Same(t, Dispatch(t, event))
  <2>1. Track(t.mic, event) = t.mic BY DEF Track, Station
  <2> QED BY <2>1, DispatchEffect DEF Same, Station
<1>3. Same([s EXCEPT !.phase = "idle", !.urgent = FALSE], Denied(s))
  BY <1>1, <1>2 DEF Denied
<1>4. Same([s EXCEPT !.phase = "rx"], StartRx(s)) BY <1>1, <1>2 DEF StartRx
<1>5. Same([s EXCEPT !.phase = "idle"], EndRx(s)) BY <1>1, <1>2 DEF EndRx
<1> QED BY <1>3, <1>4, <1>5 DEF Same, Station

LEMMA LeaseEffect ==
  ASSUME NEW s \in Station
  PROVE  /\ Same([s EXCEPT !.holder = NoPeer, !.lease = 0], DropLease(s))
         /\ Same([s EXCEPT !.holder = NoPeer, !.lease = 0], ClearLease(s))
<1>1. 0 \in 0..GrantLease BY TimingTypes
<1>2. [s EXCEPT !.holder = NoPeer, !.lease = 0] \in Station
  BY <1>1 DEF Station
<1>3. Same(DropLease(s), ClearLease(s))
  BY <1>2, EmitPresenceKeeps DEF ClearLease, DropLease
<1> QED BY <1>2, <1>3 DEF Same, DropLease

LEMMA InstallLeaseEffect ==
  ASSUME NEW s \in Station, NEW peer \in Peer, NEW remaining \in 1..GrantLease,
         NEW announce \in BOOLEAN
  PROVE  Same([s EXCEPT !.holder = peer, !.lease = remaining],
              InstallLease(s, peer, remaining, announce))
<1> DEFINE t == [s EXCEPT !.expired = @ \ {peer}, !.holder = peer,
                          !.lease = remaining]
<1>1. remaining # 0 /\ remaining \in 0..GrantLease BY TimingTypes
<1>2. t \in Station BY <1>1 DEF Station
<1>3. Same(t, EmitPresence(t)) BY <1>2, EmitPresenceKeeps
<1>4. Same(t, InstallLease(s, peer, remaining, announce))
  <2>1. CASE announce BY <2>1, <1>1, <1>3 DEF InstallLease
  <2>2. CASE ~announce BY <2>2, <1>1, <1>2 DEF InstallLease, Same
  <2> QED BY <2>1, <2>2
<1> QED BY <1>4 DEF Same, Station

LEMMA EnterTxEffect ==
  ASSUME NEW s \in Station
  PROVE  Same([s EXCEPT !.phase = "tx", !.retry = Off, !.totCut = Tot,
                        !.mic = TRUE], EnterTx(s))
<1> DEFINE a == [s EXCEPT !.phase = "tx", !.urgent = FALSE, !.retry = Off,
                          !.totCut = Tot]
           b == Dispatch(a, "TransmitGranted")
<1>1. Off \in Timer(Retry) /\ Tot \in Timer(Tot) BY TimingTypes, TimerTypes
<1>2. a \in Station BY <1>1 DEF Station, Phase
<1>3. Same([a EXCEPT !.mic = Track(a.mic, "TransmitGranted")], b)
  BY <1>2, DispatchEffect
<1>4. Track(a.mic, "TransmitGranted") = TRUE BY DEF Track
<1>5. b \in Station /\ Msg("TxStart", s.id) \in Message
  BY <1>3, MsgType DEF Same, Kind, Station
<1>6. Same(b, Send(b, Msg("TxStart", s.id))) BY <1>5, SendKeeps
<1> HIDE DEF b
<1>7. EnterTx(s) = Send(b, Msg("TxStart", s.id)) BY DEF EnterTx, b
<1> QED BY <1>2, <1>3, <1>4, <1>6, <1>7, ZenonT(30) DEF Same, Station

LEMMA NoteLinkActivityKeeps ==
  ASSUME NEW s \in Station
  PROVE  Same(s, NoteLinkActivity(s))
<1>1. 0 \in Timer(Heartbeat) /\ 0 \in Timer(Heartbeat + 1)
  BY TimingTypes DEF Timer
<1> QED BY <1>1 DEF NoteLinkActivity, Same, Station

-----------------------------------------------------------------------------
(* What every handler keeps.                                               *)

LEMMA SameIsSound ==
  ASSUME NEW s, Sound(s), NEW t, Same(s, t)
  PROVE  Keeps(s, t)
  BY DEF Sound, Same, Keeps

LEMMA StopTxSound ==
  ASSUME NEW s \in Station
  PROVE  Keeps(s, StopTx(s))
  BY StopTxEffect DEF Keeps, Sound, Same, Station

LEMMA EnterTxSound ==
  ASSUME NEW s \in Station
  PROVE  Keeps(s, EnterTx(s))
<1>1. Tot # Off BY TimingTypes, TimerTypes
<1> QED BY <1>1, EnterTxEffect DEF Keeps, Sound, Same, Station

LEMMA QuietSound ==
  ASSUME NEW s \in Station, ~s.mic, s.totCut = Off
  PROVE  /\ Keeps(s, Denied(s)) /\ Keeps(s, EndRx(s))
         /\ s.holder # NoPeer => Keeps(s, StartRx(s))
  BY ShowEffect DEF Keeps, Sound, Same, Station

LEMMA ExpireLeaseSound ==
  ASSUME NEW s, Sound(s), s.holder # NoPeer
  PROVE  Keeps(s, ExpireLease(s))
<1> DEFINE a == [s EXCEPT !.expired = @ \cup {s.holder}]
           t == ClearLease(a)
<1>1. a \in Station BY DEF Sound, Station
<1>2. Same([a EXCEPT !.holder = NoPeer, !.lease = 0], t) BY <1>1, LeaseEffect
<1> HIDE DEF t
<1>3. /\ t \in Station /\ t.id = s.id /\ t.phase = s.phase /\ t.mic = s.mic
      /\ t.totCut = s.totCut /\ t.retry = s.retry
  BY <1>1, <1>2 DEF Same, Sound, Station
<1>4. CASE s.phase = "tx" /\ s.holder = s.id
  BY <1>3, <1>4, StopTxSound DEF ExpireLease, Keeps, t
<1>5. CASE s.phase = "rx"
  BY <1>3, <1>5, QuietSound DEF ExpireLease, Keeps, Sound, t
<1>6. CASE s.phase # "rx" /\ ~(s.phase = "tx" /\ s.holder = s.id)
  <2>1. ExpireLease(s) = t BY <1>6 DEF ExpireLease, t
  <2> QED BY <2>1, <1>3, <1>6 DEF Keeps, Sound
<1> QED BY <1>4, <1>5, <1>6

LEMMA DenySelfSound ==
  ASSUME NEW s \in Station, ~s.mic, s.totCut = Off, s.phase = "awaiting"
  PROVE  Keeps(s, DenyBusy(s, s.id))
<1> DEFINE t == Send(s, Msg("TxDeny", s.id))
<1>1. Same(s, t) BY MsgType, SendKeeps DEF Kind, Station
<1> HIDE DEF t
<1>2. DenyBusy(s, s.id) = Denied(t) BY DEF DenyBusy, t
<1> QED BY <1>1, <1>2, QuietSound DEF Same, Keeps

LEMMA DenyOtherSound ==
  ASSUME NEW s, Sound(s), NEW requester \in Peer, requester # s.id
  PROVE  Keeps(s, DenyBusy(s, requester))
<1>1. Same(s, Send(s, Msg("TxDeny", requester)))
  BY MsgType, SendKeeps DEF Kind, Sound
<1>2. DenyBusy(s, requester) = Send(s, Msg("TxDeny", requester))
  BY DEF DenyBusy
<1> QED BY <1>1, <1>2, SameIsSound

LEMMA GrantEffect ==
  ASSUME NEW s \in Station, NEW requester \in Peer,
         NEW remaining \in 1..GrantLease
  PROVE  /\ requester = s.id /\ s.phase # "tx" => Keeps(s, Grant(s, requester, remaining))
         /\ Sound(s) => Keeps(s, Grant(s, requester, remaining))
<1> DEFINE a == InstallLease(s, requester, remaining, TRUE)
           m == [Msg("TxGrant", requester) EXCEPT !.lease = remaining]
           t == Send(a, m)
<1>1. Same([s EXCEPT !.holder = requester, !.lease = remaining], a)
  BY InstallLeaseEffect
<1>2. m \in Message
  <2>1. remaining # 0 /\ remaining \in 0..GrantLease /\ 0 \in 0..GrantLease
    BY TimingTypes
  <2> QED BY <2>1 DEF Msg, Message, Kind
<1>3. Same(a, t) BY <1>1, <1>2, SendKeeps DEF Same
<1>4. Grant(s, requester, remaining)
        = IF requester = s.id /\ t.phase # "tx" THEN EnterTx(t) ELSE t
  BY DEF Grant
<1> HIDE DEF a, t
<1>5. /\ t \in Station /\ t.id = s.id /\ t.phase = s.phase /\ t.mic = s.mic
      /\ t.totCut = s.totCut /\ t.retry = s.retry /\ t.holder = requester
  BY <1>1, <1>3 DEF Same, Station
<1>6. CASE requester = s.id /\ s.phase # "tx"
  BY <1>4, <1>5, <1>6, EnterTxSound DEF Keeps
<1>7. CASE ~(requester = s.id /\ s.phase # "tx")
  <2>1. Grant(s, requester, remaining) = t BY <1>4, <1>5, <1>7
  <2>2. ASSUME Sound(s) PROVE Keeps(s, t)
    BY <1>5, <2>2, NoPeerIsNobody DEF Keeps, Sound
  <2> QED BY <1>7, <2>1, <2>2
<1> QED BY <1>6, <1>7

LEMMA DecideRemains ==
  ASSUME NEW s \in Station, NEW requester \in Peer, NEW urgent \in BOOLEAN
  PROVE  Decide(requester, urgent, s.holder, s.lease).remaining \in 1..GrantLease
<1>1. GrantLease \in 1..GrantLease /\ s.lease \in 0..GrantLease
  BY TimingTypes DEF Station
<1>2. CASE Live(s.holder, s.lease) = requester
  <2>1. s.lease > 0 BY <1>2, NoPeerIsNobody DEF Live
  <2> QED BY <1>1, <1>2, <2>1, TimingTypes DEF Decide
<1>3. CASE Live(s.holder, s.lease) # requester BY <1>1, <1>3 DEF Decide
<1> QED BY <1>2, <1>3

LEMMA ArbitrateOtherSound ==
  ASSUME NEW s, Sound(s), NEW requester \in Peer, requester # s.id,
         NEW urgent \in BOOLEAN
  PROVE  Keeps(s, Arbitrate(s, requester, urgent))
<1> DEFINE r == Decide(requester, urgent, s.holder, s.lease).remaining
<1>1. s \in Station BY DEF Sound
<1>2. r \in 1..GrantLease BY <1>1, DecideRemains
<1>3. Keeps(s, Grant(s, requester, r)) BY <1>1, <1>2, GrantEffect
<1>4. Keeps(s, DenyBusy(s, requester)) BY DenyOtherSound
<1> QED BY <1>3, <1>4 DEF Arbitrate

(* Our own request as the arbiter never stays unanswered.                  *)
LEMMA ArbitrateSelfSound ==
  ASSUME NEW s \in Station, ~s.mic, s.totCut = Off, s.phase = "awaiting",
         NEW urgent \in BOOLEAN
  PROVE  Keeps(s, Arbitrate(s, s.id, urgent))
<1> DEFINE r == Decide(s.id, urgent, s.holder, s.lease).remaining
<1>1. s.id \in Peer BY DEF Station
<1>2. r \in 1..GrantLease BY <1>1, DecideRemains
<1>3. Keeps(s, Grant(s, s.id, r)) BY <1>1, <1>2, GrantEffect
<1>4. Keeps(s, DenyBusy(s, s.id)) BY DenySelfSound
<1> QED BY <1>3, <1>4 DEF Arbitrate

LEMMA SendTxReqSound ==
  ASSUME NEW s \in Station, ~s.mic, s.totCut = Off, s.phase = "awaiting",
         s.attempts < Attempts
  PROVE  Keeps(s, SendTxReq(s))
<1> DEFINE a == [s EXCEPT !.attempts = @ + 1, !.retry = Retry]
           m == [Msg("TxReq", s.id) EXCEPT !.urgent = s.urgent]
<1>1. Retry \in Timer(Retry) /\ Retry # Off BY TimingTypes, TimerTypes
<1>2. s.attempts + 1 \in 0..Attempts
  <2>1. s.attempts \in 0..Attempts BY DEF Station
  <2> QED BY <2>1, TimingTypes
<1>3. a \in Station BY <1>1, <1>2 DEF Station
<1>4. m \in Message
  <2>1. Msg("TxReq", s.id) \in Message BY MsgType DEF Kind, Station
  <2> QED BY <2>1 DEF Msg, Message, Station
<1>5. Same(a, Send(a, m)) BY <1>3, <1>4, SendKeeps
<1>6. SendTxReq(s) = Send(a, m) BY DEF SendTxReq
<1> HIDE DEF m
<1> QED BY <1>1, <1>5, <1>6 DEF Same, Keeps, Sound, Station

LEMMA RetryTxReqSound ==
  ASSUME NEW s, Sound(s)
  PROVE  Keeps(s, RetryTxReq(s))
<1> DEFINE a == [s EXCEPT !.retry = Off]
<1>1. s \in Station /\ Off \in Timer(Retry) BY TimingTypes, TimerTypes DEF Sound
<1>2. a \in Station BY <1>1 DEF Station
<1>3. CASE s.phase # "awaiting"
  <2>1. RetryTxReq(s) = a BY <1>3 DEF RetryTxReq
  <2> QED BY <1>2, <1>3, <2>1 DEF Keeps, Sound, Station
<1>4. CASE s.phase = "awaiting" /\ s.attempts >= Attempts
  <2>1. RetryTxReq(s) = Denied(a) BY <1>4 DEF RetryTxReq
  <2>2. ~a.mic /\ a.totCut = Off /\ a.id = s.id BY <1>1, <1>4 DEF Sound, Station
  <2> QED BY <1>2, <2>1, <2>2, QuietSound DEF Keeps
<1>5. CASE s.phase = "awaiting" /\ ~(s.attempts >= Attempts)
  <2>1. RetryTxReq(s) = SendTxReq(s) BY <1>5 DEF RetryTxReq
  <2>2. s.attempts \in 0..Attempts BY <1>1 DEF Station
  <2>3. s.attempts < Attempts BY <1>5, <2>2, TimingTypes
  <2> QED BY <1>1, <1>5, <2>1, <2>3, SendTxReqSound DEF Sound
<1> QED BY <1>3, <1>4, <1>5

LEMMA PinAndTellKeeps ==
  ASSUME NEW s \in Station
  PROVE  Same(s, PinAndTell(s))
<1>1. s.id \in Peer BY DEF Station
<1>2. Same(s, PinEmergency(s, s.id)) BY <1>1, PinEmergencyKeeps
<1>3. Msg("Emg", s.id) \in Message BY <1>1, MsgType DEF Kind
<1> QED BY <1>2, <1>3, SendKeeps DEF PinAndTell, Same

LEMMA ShownKeeps ==
  ASSUME NEW s \in Station, NEW event \in {"RequestTransmit", "TransmitDenied"}
  PROVE  Same(s, Dispatch(s, event))
<1>1. Track(s.mic, event) = s.mic BY DEF Track, Station
<1> QED BY <1>1, DispatchEffect DEF Same, Station

LEMMA BeginRequestSound ==
  ASSUME NEW s, Sound(s), s.phase # "tx", NEW urgent \in BOOLEAN
  PROVE  Keeps(s, BeginRequest(s, urgent))
<1> DEFINE a == [s EXCEPT !.attempts = 0, !.urgent = urgent, !.phase = "awaiting"]
           t == Dispatch(a, "RequestTransmit")
<1>1. s \in Station /\ 0 \in 0..Attempts BY TimingTypes DEF Sound
<1>2. a \in Station BY <1>1 DEF Station, Phase
<1>3. Same(a, t) BY <1>2, ShownKeeps
<1>4. BeginRequest(s, urgent)
        = IF IsLocalArbiter(t) THEN Arbitrate(t, t.id, urgent) ELSE SendTxReq(t)
  BY DEF BeginRequest
<1> HIDE DEF t
<1>5. /\ t \in Station /\ ~t.mic /\ t.totCut = Off /\ t.phase = "awaiting"
      /\ t.attempts < Attempts /\ t.id = s.id
  <2>1. 0 < Attempts BY TimingAssumption
  <2> QED BY <1>1, <1>3, <2>1 DEF Same, Sound, Station
<1>6. Keeps(t, Arbitrate(t, t.id, urgent)) BY <1>5, ArbitrateSelfSound
<1>7. Keeps(t, SendTxReq(t)) BY <1>5, SendTxReqSound
<1> QED BY <1>4, <1>5, <1>6, <1>7 DEF Keeps

LEMMA RequestTransmitSound ==
  ASSUME NEW s, Sound(s), NEW urgent \in BOOLEAN
  PROVE  Keeps(s, RequestTransmit(s, urgent))
<1> DEFINE t == IF urgent THEN PinAndTell(s) ELSE s
           d == Dispatch(t, "RequestTransmit")
<1>1. s \in Station BY DEF Sound
<1>2. Keeps(s, PinAndTell(s)) BY <1>1, PinAndTellKeeps, SameIsSound
<1>3. Keeps(s, s) BY DEF Keeps
<1>4. CASE s.phase \in {"tx", "awaiting"}
  BY <1>2, <1>3, <1>4 DEF RequestTransmit
<1>5. CASE s.phase \notin {"tx", "awaiting"}
  <2>1. Keeps(s, t) /\ t.phase = s.phase
    BY <1>1, <1>2, <1>3, PinAndTellKeeps DEF Same
  <2>2. Keeps(t, Dispatch(d, "TransmitDenied"))
    <3>1. Same(t, d) BY <2>1, ShownKeeps DEF Keeps, Sound
    <3>2. Keeps(t, d) BY <2>1, <3>1, SameIsSound DEF Keeps
    <3>3. Same(d, Dispatch(d, "TransmitDenied")) BY <3>2, ShownKeeps DEF Keeps, Sound
    <3> HIDE DEF t, d
    <3>4. Keeps(d, Dispatch(d, "TransmitDenied")) BY <3>2, <3>3, SameIsSound DEF Keeps
    <3> QED BY <3>2, <3>4 DEF Keeps
  <2>3. Keeps(t, BeginRequest(t, urgent))
    BY <1>5, <2>1, BeginRequestSound DEF Keeps
  <2>4. RequestTransmit(s, urgent)
          \in {Dispatch(d, "TransmitDenied"), BeginRequest(t, urgent)}
    BY <1>5 DEF RequestTransmit
  <2> HIDE DEF t, d
  <2> QED BY <2>1, <2>2, <2>3, <2>4 DEF Keeps
<1> QED BY <1>4, <1>5

LEMMA EndLocalTxSound ==
  ASSUME NEW s \in Station
  PROVE  Keeps(s, EndLocalTx(s))
<1> DEFINE t == IF s.holder = s.id THEN ClearLease(s) ELSE s
<1>1. t \in Station /\ t.id = s.id BY LeaseEffect DEF Same, Station
<1> HIDE DEF t
<1>2. EndLocalTx(s) = StopTx(t) BY DEF EndLocalTx, t
<1> QED BY <1>1, <1>2, StopTxSound DEF Keeps

LEMMA ReleaseTransmitSound ==
  ASSUME NEW s, Sound(s)
  PROVE  Keeps(s, ReleaseTransmit(s))
<1> DEFINE a == [s EXCEPT !.phase = "idle", !.urgent = FALSE, !.retry = Off]
<1>1. s \in Station /\ Off \in Timer(Retry) BY TimingTypes, TimerTypes DEF Sound
<1>2. CASE s.phase = "awaiting"
  <2>1. ReleaseTransmit(s) = a BY <1>2 DEF ReleaseTransmit
  <2>2. a \in Station BY <1>1 DEF Station, Phase
  <2> QED BY <1>2, <2>1, <2>2 DEF Keeps, Sound, Station
<1>3. CASE s.phase = "tx" BY <1>1, <1>3, EndLocalTxSound DEF ReleaseTransmit
<1>4. CASE s.phase \notin {"awaiting", "tx"}
  BY <1>4 DEF ReleaseTransmit, Keeps
<1> QED BY <1>2, <1>3, <1>4

LEMMA CutTxSound ==
  ASSUME NEW s, Sound(s)
  PROVE  Keeps(s, CutTx(s))
<1>1. s \in Station /\ Off \in Timer(Tot) BY TimingTypes, TimerTypes DEF Sound
<1>2. CASE s.phase = "tx" BY <1>1, <1>2, EndLocalTxSound DEF CutTx
<1>3. CASE s.phase # "tx"
  <2>1. [s EXCEPT !.totCut = Off] \in Station BY <1>1 DEF Station
  <2> QED BY <1>3, <2>1 DEF CutTx, Keeps, Sound, Station
<1> QED BY <1>2, <1>3

LEMMA ClearEmergencySound ==
  ASSUME NEW s, Sound(s)
  PROVE  Keeps(s, ClearEmergency(s))
<1> DEFINE a == [s EXCEPT !.pin = NoPeer, !.radio = LampOff(@)]
<1>1. s \in Station /\ LampOff(s.radio) \in Radio
  BY DEF Sound, Station, Radio, LampOff
<1>2. Same(s, a) BY <1>1 DEF Same, Station
<1>3. Msg("EmgClr", s.id) \in Message BY <1>1, MsgType DEF Kind, Station
<1>4. Same(a, ClearEmergency(s)) BY <1>2, <1>3, SendKeeps DEF ClearEmergency, Same
<1> QED BY <1>2, <1>4, SameIsSound DEF Same

LEMMA UpdateRosterSound ==
  ASSUME NEW s, Sound(s), NEW peers \in SUBSET Peer
  PROVE  Keeps(s, UpdateRoster(s, peers))
<1> DEFINE first == s.othersSeen \/ peers \subseteq {s.id}
           a == [s EXCEPT !.othersSeen = @ \/ ~(peers \subseteq {s.id}),
                  !.firstOccupant = IF first THEN @ ELSE s.joined >= Heartbeat,
                  !.declared = TRUE,
                  !.roster = peers,
                  !.witnesses = @ \cap peers]
<1>1. s \in Station BY DEF Sound
<1>2. /\ (s.othersSeen \/ ~(peers \subseteq {s.id})) \in BOOLEAN
      /\ (IF first THEN s.firstOccupant ELSE s.joined >= Heartbeat) \in BOOLEAN
  <2>1. (s.joined >= Heartbeat) \in BOOLEAN OBVIOUS
  <2>2. s.firstOccupant \in BOOLEAN BY <1>1 DEF Station
  <2>3. (s.othersSeen \/ ~(peers \subseteq {s.id})) \in BOOLEAN OBVIOUS
  <2> HIDE DEF first
  <2> QED BY <2>1, <2>2, <2>3
<1>3. a \in Station BY <1>1, <1>2, ZenonT(30) DEF Station
<1>4. Same(s, a) BY <1>1, <1>3, ZenonT(30) DEF Same, Station
<1>5. UpdateRoster(s, peers) = EmitPresence(a) BY DEF UpdateRoster
<1>6. Same(a, EmitPresence(a)) BY <1>3, EmitPresenceKeeps
<1> HIDE DEF a
<1> QED BY <1>4, <1>5, <1>6, SameIsSound DEF Same

LEMMA PresenceBeatSound ==
  ASSUME NEW s, Sound(s)
  PROVE  Keeps(s, PresenceBeat(s))
<1>1. Same(s, EmitPresence(s)) BY EmitPresenceKeeps DEF Sound
<1>2. Heartbeat \in 0..Heartbeat BY TimingTypes
<1>3. Same(s, PresenceBeat(s))
  BY <1>1, <1>2 DEF PresenceBeat, Same, Station
<1> QED BY <1>3, SameIsSound

-----------------------------------------------------------------------------
(* Inbound messages.                                                       *)

LEMMA OnOwnGrantSound ==
  ASSUME NEW s, Sound(s), NEW lease \in 1..GrantLease
  PROVE  Keeps(s, OnOwnGrant(s, lease))
<1> DEFINE t == InstallLease(s, s.id, lease, TRUE)
<1>1. s \in Station /\ s.id \in Peer BY DEF Sound, Station
<1>2. Same([s EXCEPT !.holder = s.id, !.lease = lease], t)
  BY <1>1, InstallLeaseEffect
<1> HIDE DEF t
<1>3. Keeps(s, t) BY <1>1, <1>2, NoPeerIsNobody DEF Keeps, Sound, Same, Station
<1>4. Keeps(s, EnterTx(t)) BY <1>3, EnterTxSound DEF Keeps, Sound
<1>5. OnOwnGrant(s, lease) \in {s, EnterTx(t), t} BY DEF OnOwnGrant, t
<1> QED BY <1>3, <1>4, <1>5 DEF Keeps

LEMMA OnOtherGrantSound ==
  ASSUME NEW s, Sound(s), NEW peer \in Peer, NEW lease \in 1..GrantLease
  PROVE  Keeps(s, OnOtherGrant(s, peer, lease))
<1> DEFINE t == InstallLease(s, peer, lease, TRUE)
           a == [t EXCEPT !.phase = "rx", !.urgent = FALSE, !.retry = Off]
           b == Dispatch(a, "TransmitDenied")
<1>1. s \in Station BY DEF Sound
<1>2. Same([s EXCEPT !.holder = peer, !.lease = lease], t)
  BY <1>1, InstallLeaseEffect
<1>3. OnOtherGrant(s, peer, lease)
        = CASE t.phase = "tx"       -> StopTx(t)
            [] t.phase = "awaiting" -> StartRx(b)
            [] OTHER                -> t
  BY DEF OnOtherGrant
<1> HIDE DEF t
<1>4. t \in Station /\ t.id = s.id /\ t.holder = peer /\ Sound(t)
  BY <1>1, <1>2, NoPeerIsNobody DEF Sound, Same, Station
<1>5. Keeps(s, StopTx(t)) BY <1>4, StopTxSound DEF Keeps
<1>6. ASSUME t.phase = "awaiting" PROVE Keeps(s, StartRx(b))
  <2>1. a \in Station
    BY <1>4, TimingTypes, TimerTypes DEF Station, Phase
  <2>2. Same(a, b) BY <2>1, ShownKeeps
  <2> HIDE DEF b
  <2>3. b \in Station /\ ~b.mic /\ b.totCut = Off /\ b.holder # NoPeer /\ b.id = s.id
    BY <1>4, <1>6, <2>1, <2>2, NoPeerIsNobody DEF Same, Sound, Station
  <2> QED BY <2>3, QuietSound DEF Keeps
<1> HIDE DEF b
<1> QED BY <1>3, <1>4, <1>5, <1>6 DEF Keeps

LEMMA OnDenySound ==
  ASSUME NEW s, Sound(s), NEW peer
  PROVE  Keeps(s, OnDeny(s, peer))
<1> DEFINE a == [s EXCEPT !.retry = Off]
<1>1. a \in Station BY TimingTypes, TimerTypes DEF Sound, Station
<1>2. CASE peer = s.id /\ s.phase = "awaiting"
  <2>1. OnDeny(s, peer) = Denied(a) BY <1>2 DEF OnDeny
  <2>2. ~a.mic /\ a.totCut = Off /\ a.id = s.id BY <1>2 DEF Sound, Station
  <2> QED BY <1>1, <2>1, <2>2, QuietSound DEF Keeps
<1>3. CASE ~(peer = s.id /\ s.phase = "awaiting")
  BY <1>3 DEF OnDeny, Keeps
<1> QED BY <1>2, <1>3

(* A speaker installs its lease unless we hold one already: either way the *)
(* reception that begins has a lease to run out.                           *)
LEMMA OnRemoteStartSound ==
  ASSUME NEW s, Sound(s), NEW peer \in Peer
  PROVE  Keeps(s, OnRemoteStart(s, peer))
<1> DEFINE a == [s EXCEPT !.urgent = FALSE, !.retry = Off]
           t == CASE s.phase = "tx"       -> StopTx(s)
                  [] s.phase = "awaiting" -> Dispatch(a, "TransmitDenied")
                  [] OTHER                -> s
           u == IF LiveHolder(t) = NoPeer
                THEN InstallLease(t, peer, GrantLease, FALSE) ELSE t
           v == [u EXCEPT !.witnesses = @ \ {peer}]
<1>1. s \in Station BY DEF Sound
<1>2. /\ t \in Station /\ t.id = s.id /\ ~t.mic /\ t.totCut = Off
      /\ t.phase = "rx" => t.holder # NoPeer
  <2>1. CASE s.phase = "tx" BY <1>1, <2>1, StopTxEffect DEF Same, Station
  <2>2. CASE s.phase = "awaiting"
    <3>1. a \in Station BY <1>1, TimingTypes, TimerTypes DEF Station
    <3>2. Same(a, Dispatch(a, "TransmitDenied")) BY <3>1, ShownKeeps
    <3> QED BY <1>1, <2>2, <3>1, <3>2 DEF Same, Sound, Station
  <2>3. CASE s.phase \notin {"tx", "awaiting"}
    BY <1>1, <2>3 DEF Sound
  <2> QED BY <2>1, <2>2, <2>3
<1>3. OnRemoteStart(s, peer) = IF v.phase # "rx" THEN StartRx(v) ELSE v
  BY DEF OnRemoteStart
<1> HIDE DEF t
<1>4. /\ u \in Station /\ u.id = s.id /\ ~u.mic /\ u.totCut = Off
      /\ u.holder # NoPeer /\ u.phase = t.phase
  <2>1. CASE LiveHolder(t) = NoPeer
    <3>1. GrantLease \in 1..GrantLease BY TimingTypes
    <3>2. Same([t EXCEPT !.holder = peer, !.lease = GrantLease],
               InstallLease(t, peer, GrantLease, FALSE))
      BY <1>2, <3>1, InstallLeaseEffect
    <3> QED BY <1>2, <2>1, <3>2, NoPeerIsNobody, ZenonT(30) DEF Same, Station
  <2>2. CASE LiveHolder(t) # NoPeer
    BY <1>2, <2>2 DEF LiveHolder, Live
  <2> QED BY <2>1, <2>2
<1> HIDE DEF u
<1>5. /\ v \in Station /\ v.id = s.id /\ ~v.mic /\ v.totCut = Off
      /\ v.holder # NoPeer
  BY <1>4 DEF Station
<1> HIDE DEF v
<1>6. Keeps(v, StartRx(v)) BY <1>5, QuietSound
<1>7. v.phase = "rx" => Keeps(v, v) BY <1>5 DEF Keeps, Sound
<1> QED BY <1>3, <1>5, <1>6, <1>7 DEF Keeps

LEMMA OnRemoteEndSound ==
  ASSUME NEW s, Sound(s), NEW peer
  PROVE  Keeps(s, OnRemoteEnd(s, peer))
<1> DEFINE t == IF s.holder = peer THEN ClearLease(s) ELSE s
<1>1. s \in Station BY DEF Sound
<1>2. /\ t \in Station /\ t.id = s.id /\ t.phase = s.phase /\ t.mic = s.mic
      /\ t.totCut = s.totCut /\ t.retry = s.retry
  BY <1>1, LeaseEffect DEF Same, Station
<1>3. OnRemoteEnd(s, peer)
        = CASE s.holder \notin {NoPeer, peer}                     -> s
            [] s.holder \in {NoPeer, peer} /\ s.phase = "rx"      -> EndRx(t)
            [] OTHER                                              -> t
  BY DEF OnRemoteEnd
<1> HIDE DEF t
<1>4. s.phase = "rx" => Keeps(s, EndRx(t))
  BY <1>2, QuietSound DEF Keeps, Sound
<1>5. s.phase # "rx" => Keeps(s, t) BY <1>2 DEF Keeps, Sound
<1> QED BY <1>3, <1>4, <1>5 DEF Keeps

LEMMA OnIdlePresenceSound ==
  ASSUME NEW s, Sound(s), NEW peer \in Peer
  PROVE  Keeps(s, OnIdlePresence(s, peer))
<1> DEFINE t == [s EXCEPT !.witnesses = @ \cup {peer}]
           u == DropLease(t)
<1>1. s \in Station BY DEF Sound
<1>2. Same(s, t) BY <1>1 DEF Same, Station
<1>3. Keeps(s, t) BY <1>2, SameIsSound
<1>4. Same([t EXCEPT !.holder = NoPeer, !.lease = 0], u)
  BY <1>2, LeaseEffect DEF Same
<1>5. OnIdlePresence(s, peer)
        = CASE LiveHolder(s) # peer                       -> t
            [] LiveHolder(s) = peer /\ s.phase = "rx"     -> EndRx(u)
            [] OTHER                                      -> u
  BY DEF OnIdlePresence
<1> HIDE DEF u
<1>6. /\ u \in Station /\ u.id = s.id /\ u.phase = s.phase /\ u.mic = s.mic
      /\ u.totCut = s.totCut /\ u.retry = s.retry
  BY <1>1, <1>4 DEF Same, Station
<1> HIDE DEF t
<1>7. s.phase = "rx" => Keeps(s, EndRx(u))
  BY <1>6, QuietSound DEF Keeps, Sound
<1>8. s.phase # "rx" => Keeps(s, u) BY <1>6 DEF Keeps, Sound
<1> QED BY <1>3, <1>5, <1>7, <1>8

LEMMA OnHeldPresenceSound ==
  ASSUME NEW s, Sound(s), NEW m \in Message, m.holder # NoPeer
  PROVE  Keeps(s, OnHeldPresence(s, m))
<1> DEFINE t == [s EXCEPT !.witnesses = @ \ {m.peer, m.holder}]
           y == IF t.holder = t.id THEN DropLease(t) ELSE t
           yielded == StopTx(y)
           swapped == InstallLease(yielded, m.holder, m.lease, FALSE)
           adopted == InstallLease(t, m.holder, m.lease, FALSE)
           stale == m.holder \in s.expired /\ LiveHolder(s) # m.holder
           remote == m.holder # s.id
<1>1. s \in Station /\ m.holder \in Peer /\ m.lease \in 0..GrantLease
  BY DEF Sound, Message
<1>2. Same(s, t) BY <1>1 DEF Same, Station
<1>3. Keeps(s, t) BY <1>2, SameIsSound
<1>4. OnHeldPresence(s, m) =
        CASE m.lease = 0 \/ stale -> t
          [] m.lease # 0 /\ ~stale /\ s.phase = "tx" ->
               IF remote /\ InJoinGuardWindow(s) THEN StartRx(swapped) ELSE t
          [] m.lease # 0 /\ ~stale /\ s.phase # "tx" /\ LiveHolder(s) = NoPeer ->
               IF remote /\ s.phase # "rx" THEN StartRx(adopted) ELSE adopted
          [] OTHER -> t
  BY DEF OnHeldPresence
<1>5. ASSUME m.lease # 0 PROVE Keeps(s, StartRx(swapped))
  <2>1. y \in Station /\ y.id = s.id
    <3>1. t \in Station /\ t.id = s.id BY <1>2 DEF Same
    <3> HIDE DEF t
    <3>2. DropLease(t) \in Station /\ DropLease(t).id = t.id
      BY <3>1, LeaseEffect DEF Same, Station
    <3> QED BY <3>1, <3>2
  <2> HIDE DEF y
  <2>2. /\ yielded \in Station /\ yielded.id = s.id /\ ~yielded.mic
        /\ yielded.totCut = Off
    BY <2>1, StopTxEffect DEF Same, Station
  <2>3. m.lease \in 1..GrantLease BY <1>1, <1>5, TimingTypes
  <2> HIDE DEF yielded
  <2>4. Same([yielded EXCEPT !.holder = m.holder, !.lease = m.lease], swapped)
    BY <1>1, <2>2, <2>3, InstallLeaseEffect
  <2> HIDE DEF swapped
  <2>5. /\ swapped \in Station /\ swapped.id = s.id /\ ~swapped.mic
        /\ swapped.totCut = Off /\ swapped.holder # NoPeer
    BY <1>1, <2>2, <2>4, NoPeerIsNobody DEF Same, Station
  <2> QED BY <2>5, QuietSound DEF Keeps
<1>6. ASSUME m.lease # 0
      PROVE  /\ Keeps(s, adopted)
             /\ s.phase # "tx" => Keeps(s, StartRx(adopted))
  <2>1. m.lease \in 1..GrantLease BY <1>1, <1>6, TimingTypes
  <2>2. Same([t EXCEPT !.holder = m.holder, !.lease = m.lease], adopted)
    BY <1>1, <1>2, <2>1, InstallLeaseEffect, ZenonT(30) DEF Same
  <2> HIDE DEF adopted
  <2>3. /\ adopted \in Station /\ adopted.id = s.id /\ adopted.phase = s.phase
        /\ adopted.mic = s.mic /\ adopted.totCut = s.totCut
        /\ adopted.retry = s.retry /\ adopted.holder # NoPeer
    BY <1>1, <1>2, <2>2, NoPeerIsNobody DEF Same, Station
  <2>4. Keeps(s, adopted) BY <2>3 DEF Keeps, Sound
  <2> QED BY <2>3, <2>4, QuietSound DEF Keeps, Sound
<1> HIDE DEF t, swapped, adopted, stale, remote
<1> QED BY <1>3, <1>4, <1>5, <1>6

LEMMA OnEmgSound ==
  ASSUME NEW s, Sound(s), NEW peer \in Peer
  PROVE  Keeps(s, OnEmg(s, peer)) /\ Keeps(s, OnEmgClr(s, peer))
<1>1. s \in Station BY DEF Sound
<1>2. Keeps(s, OnEmg(s, peer))
  BY <1>1, PinEmergencyKeeps, SameIsSound DEF OnEmg
<1>3. LampOff(s.radio) \in Radio BY <1>1 DEF Station, Radio, LampOff
<1>4. Same(s, [s EXCEPT !.pin = NoPeer, !.radio = LampOff(@)])
  BY <1>1, <1>3 DEF Same, Station
<1>5. Keeps(s, [s EXCEPT !.pin = NoPeer, !.radio = LampOff(@)])
  BY <1>4, SameIsSound
<1>6. Keeps(s, s) BY DEF Keeps
<1> QED BY <1>2, <1>5, <1>6 DEF OnEmgClr

LEMMA OnMessageSound ==
  ASSUME NEW s0, Sound(s0), NEW m \in Message
  PROVE  Keeps(s0, OnMessage(s0, m))
<1> DEFINE s == NoteLinkActivity(s0)
           own == m.peer = s.id
<1>1. Keeps(s0, s) BY NoteLinkActivityKeeps, SameIsSound DEF Sound
<1>2. OnMessage(s0, m) =
        CASE m.kind = "TxGrant" /\ own -> OnOwnGrant(s, m.lease)
        [] m.kind = "TxGrant" /\ ~own -> OnOtherGrant(s, m.peer, m.lease)
        [] m.kind = "TxDeny" -> OnDeny(s, m.peer)
        [] m.kind = "TxReq" /\ ~own /\ IsLocalArbiter(s) ->
             Arbitrate(s, m.peer, m.urgent)
        [] m.kind = "TxStart" /\ ~own -> OnRemoteStart(s, m.peer)
        [] m.kind = "TxEnd" /\ ~own -> OnRemoteEnd(s, m.peer)
        [] m.kind = "Emg" /\ ~own -> OnEmg(s, m.peer)
        [] m.kind = "EmgClr" /\ ~own -> OnEmgClr(s, m.peer)
        [] m.kind = "Presence" /\ ~own ->
             IF m.holder = NoPeer THEN OnIdlePresence(s, m.peer)
             ELSE OnHeldPresence(s, m)
        [] OTHER -> s
  BY DEF OnMessage
<1> HIDE DEF s
<1>3. Sound(s) /\ s.id = s0.id BY <1>1 DEF Keeps
<1>4. m.peer \in Peer /\ m.urgent \in BOOLEAN BY DEF Message
<1> SUFFICES Keeps(s, OnMessage(s0, m)) BY <1>3 DEF Keeps
<1>5. CASE m.kind = "TxGrant"
  <2>1. m.lease \in 1..GrantLease BY <1>5, TimingTypes DEF Message
  <2>2. Keeps(s, OnOwnGrant(s, m.lease)) BY <1>3, <2>1, OnOwnGrantSound
  <2>3. Keeps(s, OnOtherGrant(s, m.peer, m.lease))
    BY <1>3, <1>4, <2>1, OnOtherGrantSound
  <2> QED BY <1>2, <1>5, <2>2, <2>3
<1>6. CASE m.kind = "TxDeny" BY <1>2, <1>3, <1>6, OnDenySound
<1>7. CASE m.kind = "TxReq"
  <2>1. ~own => Keeps(s, Arbitrate(s, m.peer, m.urgent))
    BY <1>3, <1>4, ArbitrateOtherSound
  <2> QED BY <1>2, <1>3, <1>7, <2>1 DEF Keeps
<1>8. CASE m.kind = "TxStart"
  <2>1. Keeps(s, OnRemoteStart(s, m.peer)) BY <1>3, <1>4, OnRemoteStartSound
  <2> QED BY <1>2, <1>3, <1>8, <2>1 DEF Keeps
<1>9. CASE m.kind = "TxEnd"
  <2>1. Keeps(s, OnRemoteEnd(s, m.peer)) BY <1>3, OnRemoteEndSound
  <2> QED BY <1>2, <1>3, <1>9, <2>1 DEF Keeps
<1>10. CASE m.kind \in {"Emg", "EmgClr"}
  <2>1. Keeps(s, OnEmg(s, m.peer)) /\ Keeps(s, OnEmgClr(s, m.peer))
    BY <1>3, <1>4, OnEmgSound
  <2> QED BY <1>2, <1>3, <1>10, <2>1 DEF Keeps
<1>11. CASE m.kind = "Presence"
  <2>1. Keeps(s, OnIdlePresence(s, m.peer)) BY <1>3, <1>4, OnIdlePresenceSound
  <2>2. m.holder # NoPeer => Keeps(s, OnHeldPresence(s, m))
    BY <1>3, OnHeldPresenceSound
  <2> QED BY <1>2, <1>3, <1>11, <2>1, <2>2 DEF Keeps
<1> QED BY <1>5, <1>6, <1>7, <1>8, <1>9, <1>10, <1>11 DEF Message, Kind

LEMMA DownType ==
  ASSUME NEW n \in Nat, NEW t
  PROVE  /\ t \in 0..n => Down(t) \in 0..n
         /\ t \in Timer(n) => Down(t) \in Timer(n) /\ (Down(t) = Off <=> t = Off)
  BY DEF Down, Timer, Off

LEMMA UpType ==
  ASSUME NEW n \in Nat, NEW t
  PROVE  /\ t \in 0..n => Up(t, n) \in 0..n
         /\ t \in Timer(n) => Up(t, n) \in Timer(n)
  BY DEF Up, Timer, Off

LEMMA ElapseSound ==
  ASSUME NEW s, Sound(s)
  PROVE  Keeps(s, Elapse(s))
<1>1. s \in Station BY DEF Sound
<1>2. /\ Down(s.retry) \in Timer(Retry) /\ (Down(s.retry) = Off <=> s.retry = Off)
      /\ Down(s.totCut) \in Timer(Tot) /\ (Down(s.totCut) = Off <=> s.totCut = Off)
      /\ Down(s.beat) \in 0..Heartbeat /\ Down(s.lease) \in 0..GrantLease
  BY <1>1, DownType, TimingTypes DEF Station
<1>3. /\ Up(s.joined, Heartbeat) \in 0..Heartbeat
      /\ Up(s.observing, Heartbeat) \in Timer(Heartbeat)
      /\ Up(s.inbound, Heartbeat + 1) \in Timer(Heartbeat + 1)
  <2>1. Heartbeat + 1 \in Nat BY TimingTypes
  <2> QED BY <1>1, <2>1, UpType, TimingTypes DEF Station
<1> QED BY <1>1, <1>2, <1>3 DEF Elapse, Keeps, Sound, Station

LEMMA NewStationSound ==
  ASSUME NEW p \in Peer, NEW radio \in Radio
  PROVE  Sound(NewStation(p, radio)) /\ NewStation(p, radio).id = p
<1>1. << >> \in Seq(Message) OBVIOUS
<1>2. /\ 0 \in 0..GrantLease /\ 0 \in 0..Attempts /\ 0 \in 0..Heartbeat
      /\ Heartbeat \in 0..Heartbeat
      /\ Off \in Timer(Heartbeat) /\ Off \in Timer(Heartbeat + 1)
      /\ Off \in Timer(Retry) /\ Off \in Timer(Tot)
  BY TimingTypes, TimerTypes
<1> QED BY <1>1, <1>2 DEF NewStation, Sound, Station, Phase

-----------------------------------------------------------------------------
(* The network.                                                            *)

LEMMA SeqFromFunction ==
  ASSUME NEW S, NEW T, NEW seq \in Seq(S), NEW f \in [DOMAIN seq -> T]
  PROVE  f \in Seq(T)
<1>1. Len(seq) \in Nat /\ DOMAIN seq = 1..Len(seq) BY LenProperties
<1>2. f \in [1..Len(seq) -> T] BY <1>1
<1> QED BY <1>1, <1>2, SeqDef

Network == [Peer -> [Peer -> Seq(Packet)]]

LEMMA FanType ==
  ASSUME NEW n \in Network, NEW open, NEW p \in Peer, NEW out \in Seq(Message)
  PROVE  Fan(n, open, p, out) \in Network
<1>1. Fresh(out) \in Seq(Packet)
  <2>1. 0 \in 0..MaxDelay BY ChannelAssumption
  <2>2. \A i \in DOMAIN out : out[i] \in Message
    BY LenProperties, ElementOfSeq
  <2>3. Fresh(out) \in [DOMAIN out -> Packet] BY <2>1, <2>2 DEF Fresh, Packet
  <2> QED BY <2>3, SeqFromFunction
<1>2. \A q \in Peer : n[p][q] \in Seq(Packet) BY DEF Network
<1>3. \A q \in Peer : n[p][q] \o Fresh(out) \in Seq(Packet)
  BY <1>1, <1>2, ConcatProperties
<1> QED BY <1>2, <1>3 DEF Fan, Network

-----------------------------------------------------------------------------
(* The channel.                                                            *)

(* The inductive invariant is the types and the two station invariants;    *)
(* station by station it is this.                                          *)
SoundStations(st) ==
  /\ st \in [Peer -> Station]
  /\ \A p \in Peer : Sound(st[p]) /\ st[p].id = p /\ st[p].out = << >>

Rest ==
  /\ up \subseteq Peer /\ ptt \subseteq Peer
  /\ sessions \in [Peer -> SUBSET Peer]
  /\ links \subseteq SUBSET Peer
  /\ presses \in 0..MaxPress /\ churn \in 0..MaxChurn
  /\ cuts \in 0..MaxCut /\ offs \in 0..MaxOff

Inv == SoundStations(station) /\ net \in Network /\ Rest

LEMMA InvIsEnough == Inv <=> TypeOK /\ MicFollowsFloor /\ NothingHangs
<1>1. \A p \in Peer : station[p] \in Station => station[p].mic \in BOOLEAN
  BY DEF Station
<1> QED BY <1>1 DEF Inv, SoundStations, Rest, Network, Sound, TypeOK, MicFollowsFloor,
           NothingHangs

LEMMA InstallSound ==
  ASSUME SoundStations(station), NEW p \in Peer, NEW s, Keeps(station[p], s)
  PROVE  SoundStations(Install(p, s)) /\ s.out \in Seq(Message)
<1> DEFINE t == [s EXCEPT !.out = << >>]
<1>0. << >> \in Seq(Message) OBVIOUS
<1>1. s \in Station /\ s.id = p /\ Sound(s) BY DEF SoundStations, Keeps, Sound
<1>2. t \in Station BY <1>0, <1>1 DEF Station
<1>3. Sound(t) /\ t.id = p /\ t.out = << >> BY <1>1, <1>2 DEF Sound, Station
<1>4. Install(p, s) = [station EXCEPT ![p] = t] BY DEF Install
<1>5. s.out \in Seq(Message) BY <1>1 DEF Station
<1> HIDE DEF t
<1> QED BY <1>2, <1>3, <1>4, <1>5 DEF SoundStations

LEMMA BecomeSound ==
  ASSUME SoundStations(station), NEW p \in Peer, NEW s, Keeps(station[p], s),
         NEW n \in Network, Become(p, s, n)
  PROVE  SoundStations(station)' /\ net' \in Network
<1>1. SoundStations(Install(p, s)) /\ s.out \in Seq(Message) BY InstallSound
<1>2. Fan(n, links, p, s.out) \in Network BY <1>1, FanType
<1> QED BY <1>1, <1>2 DEF Become, SoundStations

(* Long-settled stations and newcomers start sound, with nothing under way. *)
LEMMA InitInv == Init => Inv
<1> SUFFICES ASSUME Init PROVE Inv OBVIOUS
<1>1. RadioAt("idle") \in Radio BY DEF RadioAt, Radio, RadioPhase
<1>2. ASSUME NEW p \in Peer
      PROVE  Sound(SettledStation(p)) /\ SettledStation(p).id = p /\ SettledStation(p).out = << >>
  <2> DEFINE n == NewStation(p, RadioAt("idle"))
             r == IF Relay THEN Peer ELSE Settled
  <2>1. Sound(n) /\ n.id = p BY <1>1, <1>2, NewStationSound
  <2>2. n.out = << >> BY DEF NewStation
  <2>3. r \subseteq Peer /\ Settled \ {p} \subseteq Peer BY ChannelAssumption
  <2>4. /\ Heartbeat \in 0..Heartbeat /\ Heartbeat \in Timer(Heartbeat)
        /\ 0 \in Timer(Heartbeat + 1)
    BY TimingTypes DEF Timer
  <2>5. SettledStation(p) =
          [n EXCEPT !.roster = r, !.declared = TRUE, !.othersSeen = Settled # {p},
                    !.witnesses = Settled \ {p}, !.joined = Heartbeat,
                    !.observing = Heartbeat, !.inbound = 0]
    BY DEF SettledStation
  <2> HIDE DEF n, r
  <2>6. n \in Station BY <2>1 DEF Sound
  <2>7. SettledStation(p) \in Station
    <3> DEFINE w == Settled # {p}
               o == Settled \ {p}
    <3>1. r \in SUBSET Peer /\ o \in SUBSET Peer /\ w \in BOOLEAN BY <2>3
    <3> HIDE DEF w, o
    <3>2. [n EXCEPT !.roster = r, !.declared = TRUE, !.othersSeen = w,
                    !.witnesses = o, !.joined = Heartbeat,
                    !.observing = Heartbeat, !.inbound = 0] \in Station
      BY <2>4, <2>6, <3>1 DEF Station
    <3> QED BY <2>5, <3>2 DEF w, o
  <2>8. /\ SettledStation(p).id = n.id /\ SettledStation(p).out = n.out
        /\ SettledStation(p).phase = n.phase /\ SettledStation(p).mic = n.mic
        /\ SettledStation(p).totCut = n.totCut
        /\ SettledStation(p).retry = n.retry
        /\ SettledStation(p).holder = n.holder
    BY <2>5, <2>6 DEF Station
  <2> QED BY <2>1, <2>2, <2>7, <2>8 DEF Sound
<1>3. ASSUME NEW p \in Peer
      PROVE  LET n == NewStation(p, RadioAt("idle"))
             IN  Sound(n) /\ n.id = p /\ n.out = << >>
  BY <1>1, <1>3, NewStationSound DEF NewStation
<1>4. SoundStations(station)
  <2> DEFINE st(p) == IF p \in Settled THEN SettledStation(p)
                      ELSE NewStation(p, RadioAt("idle"))
  <2>1. \A p \in Peer : Sound(st(p)) /\ st(p).id = p /\ st(p).out = << >>
    BY <1>2, <1>3
  <2>2. \A p \in Peer : st(p) \in Station BY <2>1 DEF Sound
  <2>3. station = [p \in Peer |-> st(p)] BY DEF Init
  <2> HIDE DEF st
  <2> QED BY <2>1, <2>2, <2>3 DEF SoundStations
<1>5. net \in Network
  <2>1. << >> \in Seq(Packet) OBVIOUS
  <2> QED BY <2>1 DEF Network, Init
<1>6. Rest
  <2>1. Settled \subseteq Peer BY ChannelAssumption
  <2>2. /\ 0 \in 0..MaxPress /\ 0 \in 0..MaxChurn /\ 0 \in 0..MaxCut
        /\ 0 \in 0..MaxOff
    BY ChannelAssumption
  <2> QED BY <2>1, <2>2 DEF Rest, Pairs, Init
<1> QED BY <1>4, <1>5, <1>6 DEF Inv

(* Counting a bounded event.                                               *)
LEMMA CountType ==
  ASSUME NEW max \in Nat, NEW n \in 0..max, n < max
  PROVE  n + 1 \in 0..max
  OBVIOUS

LEMMA BoundTypes ==
  /\ MaxPress \in Nat /\ MaxChurn \in Nat /\ MaxCut \in Nat /\ MaxOff \in Nat
  BY ChannelAssumption

-----------------------------------------------------------------------------
(* One lemma per action.                                                   *)

LEMMA SwitchOffSound ==
  ASSUME NEW s, Sound(s)
  PROVE  Keeps(s, SwitchOff(s))
<1> DEFINE t == ReleaseTransmit(s)
           r == Reduce(t.radio, "PowerOff", LiveHolder(t), t.id)
<1>1. Keeps(s, t) BY ReleaseTransmitSound
<1>2. SwitchOff(s) = [t EXCEPT !.radio = r] BY DEF SwitchOff
<1> HIDE DEF t
<1>3. t \in Station BY <1>1 DEF Keeps, Sound
<1>4. r \in Radio BY <1>3 DEF Station, Radio, RadioPhase, Reduce, NextPhase, Speaker
<1> HIDE DEF r
<1>5. Same(t, SwitchOff(s)) BY <1>2, <1>3, <1>4 DEF Same, Station
<1>6. Keeps(t, SwitchOff(s)) BY <1>1, <1>5, SameIsSound DEF Keeps
<1> QED BY <1>1, <1>6 DEF Keeps

LEMMA UsersInv ==
  ASSUME Inv, NEW p \in Peer,
         Press(p) \/ CallEmergency(p) \/ Release(p) \/ StandDown(p) \/ PowerOff(p)
  PROVE  Inv'
<1> DEFINE s == station[p]
<1>1. SoundStations(station) /\ net \in Network /\ Rest BY DEF Inv
<1>2. Sound(s) /\ s.id = p BY <1>1 DEF SoundStations
<1>3. CASE Press(p)
  <2>1. Keeps(s, RequestTransmit(s, FALSE)) BY <1>2, RequestTransmitSound
  <2>2. SoundStations(station)' /\ net' \in Network
    BY <1>1, <1>3, <2>1, BecomeSound DEF Press
  <2>3. Rest' BY <1>1, <1>3, BoundTypes, CountType DEF Rest, Press
  <2> QED BY <2>2, <2>3 DEF Inv
<1>4. CASE CallEmergency(p)
  <2>1. Keeps(s, RequestTransmit(s, TRUE)) BY <1>2, RequestTransmitSound
  <2>2. SoundStations(station)' /\ net' \in Network
    BY <1>1, <1>4, <2>1, BecomeSound DEF CallEmergency
  <2>3. Rest' BY <1>1, <1>4, BoundTypes, CountType DEF Rest, CallEmergency
  <2> QED BY <2>2, <2>3 DEF Inv
<1>5. CASE Release(p)
  <2>1. Keeps(s, ReleaseTransmit(s)) BY <1>2, ReleaseTransmitSound
  <2>2. SoundStations(station)' /\ net' \in Network
    BY <1>1, <1>5, <2>1, BecomeSound DEF Release
  <2>3. Rest' BY <1>1, <1>5 DEF Rest, Release
  <2> QED BY <2>2, <2>3 DEF Inv
<1>6. CASE StandDown(p)
  <2>1. Keeps(s, ClearEmergency(s)) BY <1>2, ClearEmergencySound
  <2>2. SoundStations(station)' /\ net' \in Network
    BY <1>1, <1>6, <2>1, BecomeSound DEF StandDown
  <2>3. Rest' BY <1>1, <1>6 DEF Rest, StandDown
  <2> QED BY <2>2, <2>3 DEF Inv
<1>7. CASE PowerOff(p)
  <2>1. Keeps(s, SwitchOff(s)) BY <1>2, SwitchOffSound
  <2>2. SoundStations(station)' /\ net' \in Network
    BY <1>1, <1>7, <2>1, BecomeSound DEF PowerOff
  <2>3. Rest' BY <1>1, <1>7, BoundTypes, CountType DEF Rest, PowerOff
  <2> QED BY <2>2, <2>3 DEF Inv
<1> QED BY <1>3, <1>4, <1>5, <1>6, <1>7

LEMMA JoinInv ==
  ASSUME Inv, NEW p \in Peer, NEW b \in BOOLEAN, Join(p, b)
  PROVE  Inv'
<1> DEFINE new == NewStation(p, station[p].radio)
           s == IF b \/ Relay THEN UpdateRoster(new, Peer) ELSE new
           room == IF Relay THEN {{p, q} : q \in up} ELSE {}
<1>1. SoundStations(station) /\ net \in Network /\ Rest BY DEF Inv
<1>2. station[p].radio \in Radio BY <1>1 DEF SoundStations, Station
<1>3. Sound(new) /\ new.id = p BY <1>2, NewStationSound
<1> HIDE DEF new
<1>4. Keeps(new, UpdateRoster(new, Peer)) BY <1>3, UpdateRosterSound
<1>5. Keeps(station[p], s)
  <2>1. station[p].id = p BY <1>1 DEF SoundStations
  <2> QED BY <1>3, <1>4, <2>1 DEF Keeps
<1>6. /\ churn < MaxChurn /\ churn' = churn + 1 /\ up' = up \cup {p}
      /\ links' = links \cup room
      /\ station' = Install(p, s)
      /\ net' = Fan(net, links \cup room, p, s.out)
      /\ UNCHANGED <<sessions, ptt, presses, cuts, offs>>
  BY DEF Join, new
<1> HIDE DEF s
<1>7. SoundStations(Install(p, s)) /\ s.out \in Seq(Message)
  BY <1>1, <1>5, InstallSound
<1>8. SoundStations(station)' BY <1>6, <1>7 DEF SoundStations
<1>9. net' \in Network BY <1>1, <1>6, <1>7, FanType
<1>10. Rest'
  <2>1. room \subseteq SUBSET Peer BY <1>1 DEF Rest
  <2> HIDE DEF room
  <2> QED BY <1>1, <1>6, <2>1, BoundTypes, CountType DEF Rest
<1> QED BY <1>8, <1>9, <1>10 DEF Inv

LEMMA LeaveInv ==
  ASSUME Inv, NEW p \in Peer, NEW b \in BOOLEAN, Leave(p, b)
  PROVE  Inv'
<1> DEFINE s == IF b THEN station[p] ELSE ReleaseTransmit(station[p])
           gone == {{p, q} : q \in Peer}
           told == Fan(net, links, p, s.out)
           n == NewStation(p, IF b THEN RadioAt("idle") ELSE s.radio)
<1>1. SoundStations(station) /\ net \in Network /\ Rest BY DEF Inv
<1>2. Sound(s)
  <2>1. Sound(station[p]) BY <1>1 DEF SoundStations
  <2> QED BY <2>1, ReleaseTransmitSound DEF Keeps
<1>3. s.radio \in Radio /\ s.out \in Seq(Message) BY <1>2 DEF Sound, Station
<1>4. /\ churn < MaxChurn /\ churn' = churn + 1 /\ up' = up \ {p}
      /\ links' = links \ gone
      /\ sessions' = [sessions EXCEPT ![p] = {}]
      /\ station' = [station EXCEPT ![p] = n]
      /\ net' = [q \in Peer |-> [r \in Peer |->
                   IF r = p THEN << >> ELSE told[q][r]]]
      /\ ptt' = ptt \ {p}
      /\ UNCHANGED <<presses, cuts, offs>>
  BY DEF Leave
<1> HIDE DEF s
<1>5. RadioAt("idle") \in Radio BY DEF RadioAt, Radio, RadioPhase
<1>6. Sound(n) /\ n.id = p /\ n.out = << >>
  <2>1. (IF b THEN RadioAt("idle") ELSE s.radio) \in Radio BY <1>3, <1>5
  <2> QED BY <2>1, NewStationSound DEF NewStation
<1> HIDE DEF n
<1>7. SoundStations(station)'
  <2>1. n \in Station BY <1>6 DEF Sound
  <2> QED BY <1>1, <1>4, <1>6, <2>1 DEF SoundStations
<1>8. net' \in Network
  <2>1. told \in Network BY <1>1, <1>3, FanType
  <2> HIDE DEF told
  <2>2. << >> \in Seq(Packet) OBVIOUS
  <2> QED BY <1>4, <2>1, <2>2 DEF Network
<1>9. Rest'
  <2> HIDE DEF gone
  <2> QED BY <1>1, <1>4, BoundTypes, CountType DEF Rest
<1> QED BY <1>7, <1>8, <1>9 DEF Inv

LEMMA LinksInv ==
  ASSUME Inv, NEW p \in Peer, NEW q \in Peer,
         SessionChange(p, q) \/ OpenLink(p, q) \/ CutLink(p, q)
  PROVE  Inv'
<1>1. SoundStations(station) /\ net \in Network /\ Rest BY DEF Inv
<1>2. CASE SessionChange(p, q)
  <2> DEFINE known == IF q \in up THEN sessions[p] \cup {q} ELSE sessions[p] \ {q}
  <2>1. known \in SUBSET Peer BY <1>1 DEF Rest
  <2>2. /\ sessions' = [sessions EXCEPT ![p] = known]
        /\ Become(p, UpdateRoster(station[p], known \cup {p}), net)
        /\ UNCHANGED <<up, links, ptt, presses, churn, cuts, offs>>
    BY <1>2 DEF SessionChange
  <2> HIDE DEF known
  <2>3. Sound(station[p]) BY <1>1 DEF SoundStations
  <2>4. Keeps(station[p], UpdateRoster(station[p], known \cup {p}))
    BY <2>1, <2>3, UpdateRosterSound
  <2>5. SoundStations(station)' /\ net' \in Network
    BY <1>1, <2>2, <2>4, BecomeSound
  <2>6. Rest' BY <1>1, <2>1, <2>2 DEF Rest
  <2> QED BY <2>5, <2>6 DEF Inv
<1>3. CASE OpenLink(p, q)
  <2>1. UNCHANGED <<station, up, sessions, net, ptt, presses, churn, cuts, offs>>
        /\ links' = links \cup {{p, q}}
    BY <1>3 DEF OpenLink
  <2> QED BY <1>1, <2>1 DEF Inv, SoundStations, Rest
<1>4. CASE CutLink(p, q)
  <2>1. /\ cuts < MaxCut /\ cuts' = cuts + 1 /\ links' = links \ {{p, q}}
        /\ net' = [net EXCEPT ![p][q] = << >>, ![q][p] = << >>]
        /\ UNCHANGED <<station, up, sessions, ptt, presses, churn, offs>>
    BY <1>4 DEF CutLink
  <2>2. net' \in Network
    <3>1. << >> \in Seq(Packet) OBVIOUS
    <3> QED BY <1>1, <2>1, <3>1 DEF Network
  <2>3. Rest' BY <1>1, <2>1, BoundTypes, CountType DEF Rest
  <2>4. SoundStations(station)' BY <1>1, <2>1 DEF SoundStations
  <2> QED BY <2>2, <2>3, <2>4 DEF Inv
<1> QED BY <1>2, <1>3, <1>4

LEMMA DeliverInv ==
  ASSUME Inv, NEW p \in Peer, NEW q \in Peer, Deliver(p, q)
  PROVE  Inv'
<1> DEFINE c == net[p][q]
           n == [net EXCEPT ![p][q] = Tail(@)]
           s == OnMessage(station[q], Head(c).msg)
<1>1. SoundStations(station) /\ net \in Network /\ Rest BY DEF Inv
<1>2. c \in Seq(Packet) /\ c # << >> BY <1>1 DEF Network, Deliver
<1>3. Head(c) \in Packet /\ Tail(c) \in Seq(Packet) BY <1>2, HeadTailProperties
<1>4. Keeps(station[q], s)
  <2>1. Head(c).msg \in Message BY <1>3 DEF Packet
  <2>2. Sound(station[q]) BY <1>1 DEF SoundStations
  <2> QED BY <2>1, <2>2, OnMessageSound
<1>5. n \in Network BY <1>1, <1>3 DEF Network
<1>6. /\ Become(q, s, n)
      /\ UNCHANGED <<up, sessions, links, ptt, presses, churn, cuts, offs>>
  BY DEF Deliver
<1> HIDE DEF c, n, s
<1>7. SoundStations(station)' /\ net' \in Network
  BY <1>1, <1>4, <1>5, <1>6, BecomeSound
<1>8. Rest' BY <1>1, <1>6 DEF Rest
<1> QED BY <1>7, <1>8 DEF Inv

LEMMA TimersInv ==
  ASSUME Inv, NEW p \in Peer, TimerFires(p)
  PROVE  Inv'
<1>1. SoundStations(station) /\ net \in Network /\ Rest BY DEF Inv
<1>2. Sound(station[p]) BY <1>1 DEF SoundStations
<1>3. ASSUME NEW due, NEW s, Fire(p, due, s), due => Keeps(station[p], s)
      PROVE  Inv'
  <2>1. /\ Become(p, s, net) /\ Keeps(station[p], s)
        /\ UNCHANGED <<up, sessions, links, ptt, presses, churn, cuts, offs>>
    BY <1>3 DEF Fire
  <2>2. SoundStations(station)' /\ net' \in Network BY <1>1, <2>1, BecomeSound
  <2>3. Rest' BY <1>1, <2>1 DEF Rest
  <2> QED BY <2>2, <2>3 DEF Inv
<1>4. CASE RetryFires(p)
  <2>1. Keeps(station[p], RetryTxReq(station[p])) BY <1>2, RetryTxReqSound
  <2> QED BY <1>3, <1>4, <2>1 DEF RetryFires
<1>5. CASE TotCuts(p)
  <2>1. Keeps(station[p], CutTx(station[p])) BY <1>2, CutTxSound
  <2> QED BY <1>3, <1>5, <2>1 DEF TotCuts
<1>6. CASE Beats(p)
  <2>1. Keeps(station[p], PresenceBeat(station[p])) BY <1>2, PresenceBeatSound
  <2> QED BY <1>3, <1>6, <2>1 DEF Beats
<1>7. CASE LeaseExpires(p)
  <2>1. station[p].holder # NoPeer => Keeps(station[p], ExpireLease(station[p]))
    BY <1>2, ExpireLeaseSound
  <2> QED BY <1>3, <1>7, <2>1 DEF LeaseExpires
<1> QED BY <1>4, <1>5, <1>6, <1>7 DEF TimerFires

LEMMA TickInv ==
  ASSUME Inv, Tick
  PROVE  Inv'
<1>1. SoundStations(station) /\ net \in Network /\ Rest BY DEF Inv
<1>2. SoundStations(station)'
  <2> DEFINE st(p) == IF p \in up THEN Elapse(station[p]) ELSE station[p]
  <2>1. ASSUME NEW p \in Peer
        PROVE  Sound(st(p)) /\ st(p).id = p /\ st(p).out = << >>
    <3>1. Sound(station[p]) /\ station[p].id = p /\ station[p].out = << >>
      BY <1>1 DEF SoundStations
    <3>2. Keeps(station[p], Elapse(station[p])) BY <3>1, ElapseSound
    <3>3. Elapse(station[p]).out = station[p].out
      BY <3>1 DEF Elapse, Sound, Station
    <3> QED BY <3>1, <3>2, <3>3 DEF Keeps
  <2>2. \A p \in Peer : st(p) \in Station BY <2>1 DEF Sound
  <2>3. station' = [p \in Peer |-> st(p)] BY DEF Tick
  <2> HIDE DEF st
  <2> QED BY <2>1, <2>2, <2>3 DEF SoundStations
<1>3. net' \in Network
  <2> DEFINE older(c) == [i \in DOMAIN c |-> [c[i] EXCEPT !.age = @ + 1]]
  <2>1. ASSUME NEW p \in Peer, NEW q \in Peer
        PROVE  older(net[p][q]) \in Seq(Packet)
    <3> DEFINE c == net[p][q]
    <3>1. c \in Seq(Packet) BY <1>1 DEF Network
    <3>2. \A i \in DOMAIN c : c[i].age < MaxDelay BY DEF Tick
    <3> HIDE DEF c
    <3>3. \A i \in DOMAIN c : c[i] \in Packet
      BY <3>1, LenProperties, ElementOfSeq
    <3>4. ASSUME NEW i \in DOMAIN c
          PROVE  [c[i] EXCEPT !.age = @ + 1] \in Packet
      <4>1. c[i].age \in 0..MaxDelay /\ c[i].age < MaxDelay /\ MaxDelay \in Nat
        BY <3>2, <3>3, ChannelAssumption DEF Packet
      <4>2. c[i].age + 1 \in 0..MaxDelay BY <4>1
      <4> QED BY <3>3, <4>2 DEF Packet
    <3>5. older(c) \in [DOMAIN c -> Packet] BY <3>4
    <3>6. older(c) \in Seq(Packet) BY <3>1, <3>5, SeqFromFunction
    <3> QED BY <3>6 DEF c
  <2>2. net' = [p \in Peer |-> [q \in Peer |-> older(net[p][q])]] BY DEF Tick
  <2> HIDE DEF older
  <2> QED BY <2>1, <2>2 DEF Network
<1>4. Rest' BY <1>1 DEF Rest, Tick
<1> QED BY <1>2, <1>3, <1>4 DEF Inv

LEMMA NextInv == Inv /\ [Next]_vars => Inv'
<1> SUFFICES ASSUME Inv, [Next]_vars PROVE Inv' OBVIOUS
<1>1. CASE UNCHANGED vars
  BY <1>1 DEF vars, Inv, SoundStations, Rest
<1>2. ASSUME NEW p \in Peer,
             Press(p) \/ CallEmergency(p) \/ Release(p) \/ StandDown(p) \/ PowerOff(p)
      PROVE  Inv'
  BY <1>2, UsersInv
<1>3. ASSUME NEW p \in Peer, TimerFires(p) PROVE Inv'
  BY <1>3, TimersInv
<1>4. ASSUME NEW p \in Peer, NEW b \in BOOLEAN, Join(p, b) \/ Leave(p, b)
      PROVE  Inv'
  BY <1>4, JoinInv, LeaveInv
<1>5. ASSUME NEW p \in Peer, NEW q \in Peer,
             SessionChange(p, q) \/ OpenLink(p, q) \/ CutLink(p, q) \/ Deliver(p, q)
      PROVE  Inv'
  BY <1>5, LinksInv, DeliverInv
<1>6. CASE Tick BY <1>6, TickInv
<1> QED BY <1>1, <1>2, <1>3, <1>4, <1>5, <1>6 DEF Next

(* The invariant the three theorems share.                                 *)
LEMMA Invariance == Spec => []Inv
  BY InitInv, NextInv, PTL DEF Spec

-----------------------------------------------------------------------------
(* No handler leaves a field of a station outside its type, whatever the   *)
(* number of stations, the delays, the crossings and the failures.         *)
THEOREM Types == Spec => []TypeOK
<1>1. Inv => TypeOK BY InvIsEnough
<1> QED BY <1>1, Invariance, PTL

(* FR-023: at every station the microphone is open and the time-out timer  *)
(* armed exactly while the engine transmits, through pre-emption, yielding *)
(* to another talker, lease expiry, teardown and powerOff alike.           *)
THEOREM MicIsBounded == Spec => []MicFollowsFloor
<1>1. Inv => MicFollowsFloor BY InvIsEnough
<1> QED BY <1>1, Invariance, PTL

(* A station never awaits an answer without a retry armed nor receives     *)
(* without a lease to run out: no lost message can leave it there for      *)
(* ever.                                                                   *)
THEOREM EveryWaitIsTimed == Spec => []NothingHangs
<1>1. Inv => NothingHangs BY InvIsEnough
<1> QED BY <1>1, Invariance, PTL

-----------------------------------------------------------------------------
(* Messages that cross.  What each operator tells the others.              *)

(* A handler that turns a station into a talker sends its TX_START: what   *)
(* is last done in EnterTx.                                                *)
Told(s, t) ==
  t.phase = "tx" =>
    s.phase = "tx" \/ \E i \in DOMAIN t.out : t.out[i] = Msg("TxStart", s.id)

LEMMA SameIsTold ==
  ASSUME NEW s, NEW t, Same(s, t)
  PROVE  Told(s, t)
  BY DEF Same, Told

LEMMA EnterTxTells ==
  ASSUME NEW s \in Station
  PROVE  Told(s, EnterTx(s))
<1> DEFINE a == [s EXCEPT !.phase = "tx", !.urgent = FALSE, !.retry = Off,
                          !.totCut = Tot]
           b == Dispatch(a, "TransmitGranted")
           m == Msg("TxStart", s.id)
<1>1. Off \in Timer(Retry) /\ Tot \in Timer(Tot) BY TimingTypes, TimerTypes
<1>2. a \in Station BY <1>1 DEF Station, Phase
<1>3. b \in Station BY <1>2, DispatchEffect DEF Same
<1>4. m \in Message BY MsgType DEF Kind, Station
<1> HIDE DEF b, m
<1>5. b.out \in Seq(Message) BY <1>3 DEF Station
<1>6. EnterTx(s) = [b EXCEPT !.out = Append(@, m)] BY DEF EnterTx, Send, b, m
<1>7. EnterTx(s).out = Append(b.out, m) BY <1>3, <1>6 DEF Station
<1>8. Len(b.out) + 1 \in DOMAIN Append(b.out, m) /\ Append(b.out, m)[Len(b.out) + 1] = m
  BY <1>4, <1>5, AppendProperties
<1> QED BY <1>7, <1>8 DEF Told, m

LEMMA DenyTells ==
  ASSUME NEW s \in Station, NEW requester \in Peer
  PROVE  Told(s, DenyBusy(s, requester))
<1> DEFINE t == Send(s, Msg("TxDeny", requester))
<1>1. Same(s, t) BY MsgType, SendKeeps DEF Kind
<1> HIDE DEF t
<1>2. DenyBusy(s, requester) \in {Denied(t), t} BY DEF DenyBusy, t
<1>3. Denied(t).phase = "idle" BY <1>1, ShowEffect DEF Same, Station
<1> QED BY <1>1, <1>2, <1>3, SameIsTold DEF Told

LEMMA GrantTells ==
  ASSUME NEW s \in Station, NEW requester \in Peer,
         NEW remaining \in 1..GrantLease
  PROVE  Told(s, Grant(s, requester, remaining))
<1> DEFINE a == InstallLease(s, requester, remaining, TRUE)
           m == [Msg("TxGrant", requester) EXCEPT !.lease = remaining]
           t == Send(a, m)
<1>1. Same([s EXCEPT !.holder = requester, !.lease = remaining], a)
  BY InstallLeaseEffect
<1>2. m \in Message
  <2>1. remaining # 0 /\ remaining \in 0..GrantLease /\ 0 \in 0..GrantLease
    BY TimingTypes
  <2> QED BY <2>1 DEF Msg, Message, Kind
<1>3. Same(a, t) BY <1>1, <1>2, SendKeeps DEF Same
<1>4. Grant(s, requester, remaining) \in {EnterTx(t), t} BY DEF Grant
<1> HIDE DEF a, t
<1>5. t \in Station /\ t.id = s.id /\ t.phase = s.phase
  BY <1>1, <1>3 DEF Same, Station
<1>6. Told(t, EnterTx(t)) BY <1>5, EnterTxTells
<1> QED BY <1>4, <1>5, <1>6 DEF Told

LEMMA ArbitrateTells ==
  ASSUME NEW s \in Station, NEW requester \in Peer, NEW urgent \in BOOLEAN
  PROVE  Told(s, Arbitrate(s, requester, urgent))
<1> DEFINE r == Decide(requester, urgent, s.holder, s.lease).remaining
<1>1. r \in 1..GrantLease BY DecideRemains
<1>2. Told(s, Grant(s, requester, r)) BY <1>1, GrantTells
<1>3. Told(s, DenyBusy(s, requester)) BY DenyTells
<1> QED BY <1>2, <1>3 DEF Arbitrate

LEMMA SendTxReqTells ==
  ASSUME NEW s \in Station, s.attempts < Attempts
  PROVE  Told(s, SendTxReq(s))
<1> DEFINE a == [s EXCEPT !.attempts = @ + 1, !.retry = Retry]
           m == [Msg("TxReq", s.id) EXCEPT !.urgent = s.urgent]
<1>1. Retry \in Timer(Retry) BY TimingTypes, TimerTypes
<1>2. s.attempts + 1 \in 0..Attempts
  <2>1. s.attempts \in 0..Attempts BY DEF Station
  <2> QED BY <2>1, TimingTypes
<1>3. a \in Station /\ a.phase = s.phase BY <1>1, <1>2 DEF Station
<1>4. SendTxReq(s) = [a EXCEPT !.out = Append(@, m)] BY DEF SendTxReq, Send
<1> HIDE DEF a, m
<1>5. SendTxReq(s).phase = a.phase BY <1>3, <1>4 DEF Station
<1> QED BY <1>3, <1>5 DEF Told

LEMMA RetryTells ==
  ASSUME NEW s, Sound(s)
  PROVE  Told(s, RetryTxReq(s))
<1> DEFINE a == [s EXCEPT !.retry = Off]
<1>1. s \in Station BY DEF Sound
<1>2. a \in Station /\ a.phase = s.phase
  BY <1>1, TimingTypes, TimerTypes DEF Station
<1>3. CASE s.phase = "awaiting" /\ ~(s.attempts >= Attempts)
  <2>1. RetryTxReq(s) = SendTxReq(s) BY <1>3 DEF RetryTxReq
  <2>2. s.attempts \in 0..Attempts BY <1>1 DEF Station
  <2>3. s.attempts < Attempts BY <1>3, <2>2, TimingTypes
  <2> QED BY <1>1, <2>1, <2>3, SendTxReqTells
<1>4. CASE ~(s.phase = "awaiting" /\ ~(s.attempts >= Attempts))
  <2>1. RetryTxReq(s) \in {Denied(a), a} BY <1>4 DEF RetryTxReq
  <2> HIDE DEF a
  <2>2. Denied(a).phase = "idle" BY <1>2, ShowEffect DEF Same, Station
  <2> QED BY <1>2, <2>1, <2>2 DEF Told
<1> QED BY <1>3, <1>4

LEMMA BeginRequestTells ==
  ASSUME NEW s \in Station, NEW urgent \in BOOLEAN
  PROVE  Told(s, BeginRequest(s, urgent))
<1> DEFINE a == [s EXCEPT !.attempts = 0, !.urgent = urgent, !.phase = "awaiting"]
           t == Dispatch(a, "RequestTransmit")
<1>1. 0 \in 0..Attempts /\ 0 < Attempts BY TimingTypes, TimingAssumption
<1>2. a \in Station BY <1>1 DEF Station, Phase
<1>3. Same(a, t) BY <1>2, ShownKeeps
<1>4. BeginRequest(s, urgent) \in {Arbitrate(t, t.id, urgent), SendTxReq(t)}
  BY DEF BeginRequest
<1> HIDE DEF t
<1>5. t \in Station /\ t.phase = "awaiting" /\ t.id = s.id /\ t.attempts < Attempts
  BY <1>1, <1>3 DEF Same, Station
<1>6. t.id \in Peer BY <1>5 DEF Station
<1>7. Told(t, Arbitrate(t, t.id, urgent)) BY <1>5, <1>6, ArbitrateTells
<1>8. Told(t, SendTxReq(t)) BY <1>5, SendTxReqTells
<1> QED BY <1>4, <1>5, <1>7, <1>8 DEF Told

LEMMA RequestTransmitTells ==
  ASSUME NEW s \in Station, NEW urgent \in BOOLEAN
  PROVE  Told(s, RequestTransmit(s, urgent))
<1> DEFINE t == IF urgent THEN PinAndTell(s) ELSE s
           d == Dispatch(t, "RequestTransmit")
           e == Dispatch(d, "TransmitDenied")
<1>1. Same(s, PinAndTell(s)) BY PinAndTellKeeps
<1>2. Told(s, PinAndTell(s)) BY <1>1, SameIsTold
<1>3. t \in Station /\ t.id = s.id /\ t.phase = s.phase BY <1>1 DEF Same
<1>4. RequestTransmit(s, urgent) \in {PinAndTell(s), s, e, BeginRequest(t, urgent)}
  BY DEF RequestTransmit
<1> HIDE DEF t
<1>5. Same(t, d) BY <1>3, ShownKeeps
<1>6. Same(d, e) BY <1>5, ShownKeeps DEF Same
<1>7. Told(t, BeginRequest(t, urgent)) BY <1>3, BeginRequestTells
<1> HIDE DEF d, e
<1>8. e.phase = s.phase BY <1>3, <1>5, <1>6 DEF Same
<1> QED BY <1>2, <1>3, <1>4, <1>7, <1>8 DEF Told

(* What ends a transmission, and what has nothing to do with one.          *)
LEMMA EndLocalTxEnds ==
  ASSUME NEW s \in Station
  PROVE  EndLocalTx(s).phase = "idle"
<1> DEFINE t == IF s.holder = s.id THEN ClearLease(s) ELSE s
<1>1. t \in Station BY LeaseEffect DEF Same
<1>2. EndLocalTx(s) = StopTx(t) BY DEF EndLocalTx
<1> HIDE DEF t
<1>3. StopTx(t).phase = "idle" BY <1>1, StopTxEffect DEF Same, Station
<1> QED BY <1>2, <1>3 DEF t

LEMMA ReleaseEnds ==
  ASSUME NEW s, Sound(s)
  PROVE  ReleaseTransmit(s).phase # "tx" /\ SwitchOff(s).phase # "tx"
<1> DEFINE t == ReleaseTransmit(s)
           r == Reduce(t.radio, "PowerOff", LiveHolder(t), t.id)
<1>1. s \in Station BY DEF Sound
<1>2. t.phase # "tx"
  <2>1. CASE s.phase = "tx" BY <1>1, <2>1, EndLocalTxEnds DEF ReleaseTransmit
  <2>2. CASE s.phase = "awaiting" BY <1>1, <2>2 DEF ReleaseTransmit, Station
  <2>3. CASE s.phase \notin {"tx", "awaiting"} BY <2>3 DEF ReleaseTransmit
  <2> QED BY <2>1, <2>2, <2>3
<1>3. SwitchOff(s) = [t EXCEPT !.radio = r] BY DEF SwitchOff
<1>4. t \in Station BY ReleaseTransmitSound DEF Keeps, Sound
<1> HIDE DEF t, r
<1>5. SwitchOff(s).phase = t.phase BY <1>3, <1>4 DEF Station
<1>6. ReleaseTransmit(s) = t BY DEF t
<1> QED BY <1>2, <1>5, <1>6

LEMMA CutTxEnds ==
  ASSUME NEW s \in Station
  PROVE  CutTx(s).phase # "tx"
  BY EndLocalTxEnds DEF CutTx, Station

LEMMA CallsTell ==
  ASSUME NEW s \in Station, NEW peers \in SUBSET Peer
  PROVE  /\ Told(s, ClearEmergency(s)) /\ Told(s, PresenceBeat(s))
         /\ Told(s, UpdateRoster(s, peers))
<1>1. Told(s, ClearEmergency(s)) BY DEF ClearEmergency, Send, Told, Station
<1>2. Told(s, PresenceBeat(s)) BY DEF PresenceBeat, EmitPresence, Send, Told, Station
<1>3. Told(s, UpdateRoster(s, peers))
  BY DEF UpdateRoster, EmitPresence, Send, Told, Station
<1> QED BY <1>1, <1>2, <1>3

LEMMA ExpireTells ==
  ASSUME NEW s \in Station, s.holder # NoPeer
  PROVE  Told(s, ExpireLease(s))
<1> DEFINE a == [s EXCEPT !.expired = @ \cup {s.holder}]
           t == ClearLease(a)
<1>1. a \in Station BY DEF Station
<1>2. Same([a EXCEPT !.holder = NoPeer, !.lease = 0], t) BY <1>1, LeaseEffect
<1>3. ExpireLease(s) \in {t, StopTx(t), EndRx(t)} BY DEF ExpireLease
<1> HIDE DEF t
<1>4. t \in Station /\ t.phase = s.phase BY <1>1, <1>2 DEF Same, Station
<1>5. StopTx(t).phase = "idle" /\ EndRx(t).phase = "idle"
  BY <1>4, StopTxEffect, ShowEffect DEF Same, Station
<1> QED BY <1>3, <1>4, <1>5 DEF Told

-----------------------------------------------------------------------------
(* Inbound.                                                                *)

LEMMA OnGrantTells ==
  ASSUME NEW s \in Station, NEW peer \in Peer, NEW lease \in 1..GrantLease
  PROVE  Told(s, OnOwnGrant(s, lease)) /\ Told(s, OnOtherGrant(s, peer, lease))
<1>1. Told(s, OnOwnGrant(s, lease))
  <2> DEFINE t == InstallLease(s, s.id, lease, TRUE)
  <2>1. s.id \in Peer BY DEF Station
  <2>2. Same([s EXCEPT !.holder = s.id, !.lease = lease], t)
    BY <2>1, InstallLeaseEffect
  <2>3. OnOwnGrant(s, lease) \in {s, EnterTx(t), t} BY DEF OnOwnGrant
  <2> HIDE DEF t
  <2>4. t \in Station /\ t.id = s.id /\ t.phase = s.phase
    BY <2>2 DEF Same, Station
  <2>5. Told(t, EnterTx(t)) BY <2>4, EnterTxTells
  <2> QED BY <2>3, <2>4, <2>5 DEF Told
<1>2. Told(s, OnOtherGrant(s, peer, lease))
  <2> DEFINE t == InstallLease(s, peer, lease, TRUE)
             a == [t EXCEPT !.phase = "rx", !.urgent = FALSE, !.retry = Off]
             b == Dispatch(a, "TransmitDenied")
  <2>1. Same([s EXCEPT !.holder = peer, !.lease = lease], t)
    BY InstallLeaseEffect
  <2>2. OnOtherGrant(s, peer, lease) \in {StopTx(t), StartRx(b), t}
    BY DEF OnOtherGrant
  <2> HIDE DEF t
  <2>3. t \in Station /\ t.phase = s.phase BY <2>1 DEF Same, Station
  <2>4. a \in Station BY <2>3, TimingTypes, TimerTypes DEF Station, Phase
  <2>5. Same(a, b) BY <2>4, ShownKeeps
  <2> HIDE DEF a, b
  <2>6. StopTx(t).phase = "idle"
    <3>1. Same([t EXCEPT !.phase = "idle", !.totCut = Off, !.mic = FALSE], StopTx(t))
      BY <2>3, StopTxEffect
    <3> QED BY <2>3, <3>1 DEF Same, Station
  <2>7. StartRx(b).phase = "rx"
    <3>1. b \in Station BY <2>5 DEF Same
    <3>2. Same([b EXCEPT !.phase = "rx"], StartRx(b)) BY <3>1, ShowEffect
    <3> QED BY <3>1, <3>2 DEF Same, Station
  <2> QED BY <2>2, <2>3, <2>6, <2>7 DEF Told
<1> QED BY <1>1, <1>2

LEMMA OnDenyTells ==
  ASSUME NEW s \in Station, NEW peer
  PROVE  Told(s, OnDeny(s, peer))
<1> DEFINE a == [s EXCEPT !.retry = Off]
<1>1. a \in Station BY TimingTypes, TimerTypes DEF Station
<1>2. OnDeny(s, peer) \in {Denied(a), s} BY DEF OnDeny
<1> HIDE DEF a
<1>3. Denied(a).phase = "idle" BY <1>1, ShowEffect DEF Same, Station
<1> QED BY <1>2, <1>3 DEF Told

(* Who hears another start to speak does not transmit, or no longer.       *)
LEMMA OnRemoteStartYields ==
  ASSUME NEW s, Sound(s), NEW peer \in Peer
  PROVE  OnRemoteStart(s, peer).phase = "rx"
<1> DEFINE a == [s EXCEPT !.urgent = FALSE, !.retry = Off]
           t == CASE s.phase = "tx"       -> StopTx(s)
                  [] s.phase = "awaiting" -> Dispatch(a, "TransmitDenied")
                  [] OTHER                -> s
           u == IF LiveHolder(t) = NoPeer
                THEN InstallLease(t, peer, GrantLease, FALSE) ELSE t
           v == [u EXCEPT !.witnesses = @ \ {peer}]
<1>1. s \in Station BY DEF Sound
<1>2. a \in Station BY <1>1, TimingTypes, TimerTypes DEF Station
<1>3. t \in Station
  <2>1. StopTx(s) \in Station BY <1>1, StopTxEffect DEF Same
  <2>2. Dispatch(a, "TransmitDenied") \in Station BY <1>2, ShownKeeps DEF Same
  <2> QED BY <1>1, <2>1, <2>2
<1>4. OnRemoteStart(s, peer) = IF v.phase # "rx" THEN StartRx(v) ELSE v
  BY DEF OnRemoteStart
<1> HIDE DEF a, t
<1>5. u \in Station
  <2>1. GrantLease \in 1..GrantLease BY TimingTypes
  <2>2. InstallLease(t, peer, GrantLease, FALSE) \in Station
    BY <1>3, <2>1, InstallLeaseEffect DEF Same
  <2> QED BY <1>3, <2>2
<1> HIDE DEF u
<1>6. v \in Station BY <1>5 DEF Station
<1> HIDE DEF v
<1>7. StartRx(v).phase = "rx" BY <1>6, ShowEffect DEF Same, Station
<1> QED BY <1>4, <1>7

LEMMA OnRemoteEndTells ==
  ASSUME NEW s \in Station, NEW peer
  PROVE  Told(s, OnRemoteEnd(s, peer))
<1> DEFINE t == IF s.holder = peer THEN ClearLease(s) ELSE s
<1>1. t \in Station /\ t.phase = s.phase BY LeaseEffect DEF Same, Station
<1>2. OnRemoteEnd(s, peer) \in {s, EndRx(t), t} BY DEF OnRemoteEnd
<1> HIDE DEF t
<1>3. EndRx(t).phase = "idle" BY <1>1, ShowEffect DEF Same, Station
<1> QED BY <1>1, <1>2, <1>3 DEF Told

LEMMA OnPresenceTells ==
  ASSUME NEW s \in Station, NEW peer \in Peer, NEW m \in Message
  PROVE  /\ Told(s, OnIdlePresence(s, peer))
         /\ m.holder # NoPeer => Told(s, OnHeldPresence(s, m))
<1>1. Told(s, OnIdlePresence(s, peer))
  <2> DEFINE t == [s EXCEPT !.witnesses = @ \cup {peer}]
             u == DropLease(t)
  <2>1. t \in Station /\ t.phase = s.phase BY DEF Station
  <2>2. OnIdlePresence(s, peer) \in {t, EndRx(u), u} BY DEF OnIdlePresence
  <2> HIDE DEF t
  <2>3. u \in Station /\ u.phase = s.phase
    BY <2>1, LeaseEffect, SMTT(30) DEF Same, Station
  <2> HIDE DEF u
  <2>4. EndRx(u).phase = "idle" BY <2>3, ShowEffect DEF Same, Station
  <2> QED BY <2>1, <2>2, <2>3, <2>4 DEF Told
<1>2. ASSUME m.holder # NoPeer PROVE Told(s, OnHeldPresence(s, m))
  <2> DEFINE t == [s EXCEPT !.witnesses = @ \ {m.peer, m.holder}]
             y == IF t.holder = t.id THEN DropLease(t) ELSE t
             z == StopTx(y)
             swapped == InstallLease(z, m.holder, m.lease, FALSE)
             adopted == InstallLease(t, m.holder, m.lease, FALSE)
             held == OnHeldPresence(s, m)
  <2>1. m.holder \in Peer /\ m.lease \in 0..GrantLease BY <1>2 DEF Message
  <2>2. t \in Station /\ t.phase = s.phase BY DEF Station
  <2>3. /\ held \in {t, StartRx(swapped), StartRx(adopted), adopted}
        /\ m.lease = 0 => held = t
    BY DEF OnHeldPresence
  <2> HIDE DEF t, held
  <2>4. CASE m.lease = 0 BY <2>2, <2>3, <2>4 DEF Told, held
  <2>5. CASE m.lease # 0
    <3>1. m.lease \in 1..GrantLease BY <2>1, <2>5, TimingTypes
    <3>2. y \in Station BY <2>2, LeaseEffect DEF Same
    <3> HIDE DEF y
    <3>3. z \in Station BY <3>2, StopTxEffect DEF Same
    <3> HIDE DEF z
    <3>4. swapped \in Station BY <2>1, <3>1, <3>3, InstallLeaseEffect DEF Same
    <3>5. Same([t EXCEPT !.holder = m.holder, !.lease = m.lease], adopted)
      BY <2>1, <2>2, <3>1, InstallLeaseEffect
    <3> HIDE DEF swapped, adopted
    <3>6. adopted \in Station /\ adopted.phase = t.phase
      BY <2>2, <3>5 DEF Same, Station
    <3>7. StartRx(swapped).phase = "rx" /\ StartRx(adopted).phase = "rx"
      BY <3>4, <3>6, ShowEffect DEF Same, Station
    <3> QED BY <2>2, <2>3, <3>6, <3>7 DEF Told, held
  <2> QED BY <2>4, <2>5
<1> QED BY <1>1, <1>2

LEMMA OnMessageTells ==
  ASSUME NEW s0, Sound(s0), NEW m \in Message
  PROVE  /\ Told(s0, OnMessage(s0, m))
         /\ m.kind = "TxStart" /\ m.peer # s0.id => OnMessage(s0, m).phase # "tx"
<1> DEFINE s == NoteLinkActivity(s0)
           own == m.peer = s.id
           t == OnMessage(s0, m)
<1>1. Same(s0, s) BY NoteLinkActivityKeeps DEF Sound
<1>2. t =
        CASE m.kind = "TxGrant" /\ own -> OnOwnGrant(s, m.lease)
        [] m.kind = "TxGrant" /\ ~own -> OnOtherGrant(s, m.peer, m.lease)
        [] m.kind = "TxDeny" -> OnDeny(s, m.peer)
        [] m.kind = "TxReq" /\ ~own /\ IsLocalArbiter(s) ->
             Arbitrate(s, m.peer, m.urgent)
        [] m.kind = "TxStart" /\ ~own -> OnRemoteStart(s, m.peer)
        [] m.kind = "TxEnd" /\ ~own -> OnRemoteEnd(s, m.peer)
        [] m.kind = "Emg" /\ ~own -> OnEmg(s, m.peer)
        [] m.kind = "EmgClr" /\ ~own -> OnEmgClr(s, m.peer)
        [] m.kind = "Presence" /\ ~own ->
             IF m.holder = NoPeer THEN OnIdlePresence(s, m.peer)
             ELSE OnHeldPresence(s, m)
        [] OTHER -> s
  BY DEF OnMessage
<1>3. Keeps(s0, s) BY <1>1, SameIsSound
<1> HIDE DEF s, t
<1>4. Sound(s) /\ s.id = s0.id /\ s.phase = s0.phase /\ s \in Station
  BY <1>1, <1>3 DEF Keeps, Same
<1>5. m.peer \in Peer /\ m.urgent \in BOOLEAN BY DEF Message
<1>6. Told(s, s) BY DEF Told
<1> SUFFICES /\ Told(s, t)
             /\ m.kind = "TxStart" /\ ~own => t.phase # "tx"
  BY <1>4 DEF Told, t
<1>7. CASE m.kind = "TxGrant"
  <2>1. m.lease \in 1..GrantLease BY <1>7, TimingTypes DEF Message
  <2>2. Told(s, OnOwnGrant(s, m.lease)) /\ Told(s, OnOtherGrant(s, m.peer, m.lease))
    BY <1>4, <1>5, <2>1, OnGrantTells
  <2> QED BY <1>2, <1>7, <2>2
<1>8. CASE m.kind = "TxDeny" BY <1>2, <1>4, <1>8, OnDenyTells
<1>9. CASE m.kind = "TxReq"
  <2>1. Told(s, Arbitrate(s, m.peer, m.urgent)) BY <1>4, <1>5, ArbitrateTells
  <2> QED BY <1>2, <1>6, <1>9, <2>1
<1>10. CASE m.kind = "TxStart"
  <2>1. OnRemoteStart(s, m.peer).phase = "rx" BY <1>4, <1>5, OnRemoteStartYields
  <2>2. CASE own
    <3>1. t = s BY <1>2, <1>10, <2>2
    <3> QED BY <1>6, <2>2, <3>1
  <2>3. CASE ~own
    <3>1. t = OnRemoteStart(s, m.peer) BY <1>2, <1>10, <2>3
    <3> QED BY <2>1, <3>1 DEF Told
  <2> QED BY <2>2, <2>3
<1>11. CASE m.kind = "TxEnd"
  <2>1. Told(s, OnRemoteEnd(s, m.peer)) BY <1>4, OnRemoteEndTells
  <2> QED BY <1>2, <1>6, <1>11, <2>1
<1>12. CASE m.kind \in {"Emg", "EmgClr"}
  <2>1. Told(s, OnEmg(s, m.peer))
    BY <1>4, <1>5, PinEmergencyKeeps, SameIsTold DEF OnEmg
  <2>2. Told(s, OnEmgClr(s, m.peer)) BY <1>4 DEF OnEmgClr, Told, Station
  <2> QED BY <1>2, <1>6, <1>12, <2>1, <2>2
<1>13. CASE m.kind = "Presence"
  <2>1. /\ Told(s, OnIdlePresence(s, m.peer))
        /\ m.holder # NoPeer => Told(s, OnHeldPresence(s, m))
    BY <1>4, <1>5, OnPresenceTells
  <2>2. t = IF own THEN s ELSE IF m.holder = NoPeer THEN OnIdlePresence(s, m.peer)
            ELSE OnHeldPresence(s, m)
    BY <1>2, <1>13
  <2>3. Told(s, t) BY <1>6, <2>1, <2>2
  <2> QED BY <1>13, <2>3
<1> QED BY <1>7, <1>8, <1>9, <1>10, <1>11, <1>12, <1>13 DEF Message, Kind
-----------------------------------------------------------------------------
(* The channel.                                                            *)

(* What fans out comes after what is under way.                            *)
LEMMA FanCalls ==
  ASSUME NEW n \in Network, NEW open, NEW p \in Peer, NEW out \in Seq(Message),
         NEW x, NEW q \in Peer, NEW r \in Peer
  PROVE  /\ Calls(n[q][r], x) => Calls(Fan(n, open, p, out)[q][r], x)
         /\ q = p /\ {p, r} \in open /\ (\E i \in DOMAIN out : out[i] = Msg("TxStart", x))
              => Calls(Fan(n, open, p, out)[q][r], x)
<1> DEFINE c == n[q][r]
           f == Fresh(out)
<1>1. c \in Seq(Packet) BY DEF Network
<1>2. /\ Len(out) \in Nat /\ DOMAIN out = 1..Len(out) /\ DOMAIN f = DOMAIN out
      /\ \A i \in DOMAIN out : f[i].msg = out[i] /\ f[i] \in Packet
  <2>1. 0 \in 0..MaxDelay BY ChannelAssumption
  <2>2. \A i \in DOMAIN out : out[i] \in Message BY LenProperties, ElementOfSeq
  <2> QED BY <2>1, <2>2, LenProperties DEF Fresh, Packet
<1>3. f \in Seq(Packet)
  <2>1. f \in [DOMAIN out -> Packet] BY <1>2 DEF Fresh
  <2> QED BY <2>1, SeqFromFunction
<1>4. Fan(n, open, p, out)[q][r] = IF q = p /\ {p, r} \in open THEN c \o f ELSE c
  BY DEF Fan, Network
<1> HIDE DEF c, f
<1>5. ASSUME Calls(c, x) PROVE Calls(c \o f, x)
  <2>1. PICK i \in DOMAIN c : c[i].msg = Msg("TxStart", x) BY <1>5 DEF Calls
  <2>2. i \in DOMAIN (c \o f) /\ (c \o f)[i] = c[i]
    BY <1>1, <1>3, <2>1, ConcatProperties, LenProperties
  <2> QED BY <2>1, <2>2 DEF Calls
<1>6. ASSUME NEW i \in DOMAIN out, out[i] = Msg("TxStart", x)
      PROVE  Calls(c \o f, x)
  <2>1. Len(c) \in Nat /\ Len(f) = Len(out) BY <1>1, <1>2, <1>3, LenProperties
  <2>2. /\ Len(c) + i \in DOMAIN (c \o f)
        /\ (c \o f)[Len(c) + i] = f[i]
    BY <1>1, <1>2, <1>3, <2>1, ConcatProperties, LenProperties
  <2> QED BY <1>2, <1>6, <2>2 DEF Calls
<1> QED BY <1>4, <1>5, <1>6 DEF c

(* What a step of p must respect: nobody else becomes a talker, and p only *)
(* with its call under way to all it is linked to; no link is new between  *)
(* two who talk, and no call is lost between two who go on talking.        *)
LEMMA PartingKept ==
  ASSUME Parting, NEW p \in Peer, Talkers' \subseteq Peer,
         \A r \in Talkers' : r # p => r \in Talkers,
         p \in Talkers' => \/ p \in Talkers
                          \/ \A r \in Peer : {p, r} \in links' => Calls(net'[p][r], p),
         \A q, r \in Talkers' : {q, r} \in links' => {q, r} \in links,
         \A q, r \in Talkers' :
           q # r /\ {q, r} \in links' /\ Calls(net[q][r], q) => Calls(net'[q][r], q)
  PROVE  Parting'
<1> SUFFICES ASSUME NEW q \in Talkers', NEW r \in Talkers', q # r, {q, r} \in links'
             PROVE  Calls(net'[q][r], q) \/ Calls(net'[r][q], r)
  BY DEF Parting
<1>1. {r, q} = {q, r} OBVIOUS
<1>2. CASE q \in Talkers /\ r \in Talkers BY <1>1, <1>2 DEF Parting
<1>3. CASE q \notin Talkers
  <2>1. q = p BY <1>3
  <2> QED BY <1>3, <2>1
<1>4. CASE r \notin Talkers
  <2>1. r = p BY <1>4
  <2> QED BY <1>1, <1>4, <2>1
<1> QED BY <1>2, <1>3, <1>4

(* A station that becomes s without losing a message that calls a talker.  *)
LEMMA BecomeParting ==
  ASSUME Inv, Parting, NEW p \in Peer, NEW s,
         Keeps(station[p], s), Told(station[p], s),
         NEW n \in Network, Become(p, s, n), UNCHANGED <<up, links>>,
         \A q, r \in Peer : \/ Calls(net[q][r], q) => Calls(n[q][r], q)
                            \/ r = p /\ s.phase # "tx"
                            \/ q = r
  PROVE  Parting'
<1>1. SoundStations(station) /\ up \subseteq Peer BY DEF Inv, Rest
<1>2. s \in Station /\ s.out \in Seq(Message) /\ s.id = p
  <2>1. s \in Station /\ s.id = p BY <1>1 DEF SoundStations, Keeps, Sound
  <2> QED BY <2>1 DEF Station
<1>3. /\ station'[p].phase = s.phase
      /\ \A r \in Peer : r # p => station'[r] = station[r]
  BY <1>1, <1>2 DEF SoundStations, Become, Install, Station
<1>4. Talkers' = {r \in up : station'[r].phase = "tx"} /\ links' = links
  BY DEF Talkers
<1>5. \A r \in Talkers' : r # p => r \in Talkers BY <1>1, <1>3, <1>4 DEF Talkers
<1>6. net' = Fan(n, links, p, s.out) BY DEF Become
<1>7. ASSUME p \in Talkers', p \notin Talkers
      PROVE  \A r \in Peer : {p, r} \in links' => Calls(net'[p][r], p)
  <2>1. station[p].phase # "tx" /\ s.phase = "tx"
    BY <1>3, <1>4, <1>7 DEF Talkers
  <2>2. station[p].id = p BY <1>1 DEF SoundStations
  <2>3. \E i \in DOMAIN s.out : s.out[i] = Msg("TxStart", p)
    BY <2>1, <2>2 DEF Told
  <2> QED BY <1>2, <1>4, <1>6, <2>3, FanCalls
<1>8. ASSUME NEW q \in Talkers', NEW r \in Talkers', q # r, Calls(net[q][r], q)
      PROVE  Calls(net'[q][r], q)
  <2>1. q \in Peer /\ r \in Peer BY <1>1, <1>4
  <2>2. ~(r = p /\ s.phase # "tx") BY <1>3, <1>4
  <2>3. Calls(n[q][r], q) BY <1>8, <2>1, <2>2
  <2> QED BY <1>2, <1>6, <2>1, <2>3, FanCalls
<1>9. Talkers' \subseteq Peer BY <1>1, <1>4
<1> QED BY <1>4, <1>5, <1>7, <1>8, <1>9, PartingKept

(* What only adds to the network loses no call.                            *)
LEMMA SpeaksUp ==
  ASSUME Inv, Parting, NEW p \in Peer, NEW s,
         Keeps(station[p], s), Told(station[p], s),
         Become(p, s, net), UNCHANGED <<up, links>>
  PROVE  Parting'
<1>1. net \in Network BY DEF Inv
<1>2. \A q, r \in Peer : Calls(net[q][r], q) => Calls(net[q][r], q) OBVIOUS
<1> QED BY <1>1, <1>2, BecomeParting

LEMMA UsersParting ==
  ASSUME Inv, Parting, NEW p \in Peer,
         Press(p) \/ CallEmergency(p) \/ Release(p) \/ StandDown(p) \/ PowerOff(p)
  PROVE  Parting'
<1> DEFINE s == station[p]
<1>1. Sound(s) /\ s \in Station BY DEF Inv, SoundStations, Sound
<1>2. CASE Press(p)
  <2>1. Keeps(s, RequestTransmit(s, FALSE)) /\ Told(s, RequestTransmit(s, FALSE))
    BY <1>1, RequestTransmitSound, RequestTransmitTells
  <2>2. Become(p, RequestTransmit(s, FALSE), net) /\ UNCHANGED <<up, links>>
    BY <1>2 DEF Press
  <2> QED BY <2>1, <2>2, SpeaksUp
<1>3. CASE CallEmergency(p)
  <2>1. Keeps(s, RequestTransmit(s, TRUE)) /\ Told(s, RequestTransmit(s, TRUE))
    BY <1>1, RequestTransmitSound, RequestTransmitTells
  <2>2. Become(p, RequestTransmit(s, TRUE), net) /\ UNCHANGED <<up, links>>
    BY <1>3 DEF CallEmergency
  <2> QED BY <2>1, <2>2, SpeaksUp
<1>4. CASE Release(p)
  <2>1. Keeps(s, ReleaseTransmit(s)) /\ Told(s, ReleaseTransmit(s))
    BY <1>1, ReleaseTransmitSound, ReleaseEnds DEF Told
  <2>2. Become(p, ReleaseTransmit(s), net) /\ UNCHANGED <<up, links>>
    BY <1>4 DEF Release
  <2> QED BY <2>1, <2>2, SpeaksUp
<1>5. CASE StandDown(p)
  <2>1. Keeps(s, ClearEmergency(s)) /\ Told(s, ClearEmergency(s))
    BY <1>1, ClearEmergencySound, CallsTell
  <2>2. Become(p, ClearEmergency(s), net) /\ UNCHANGED <<up, links>>
    BY <1>5 DEF StandDown
  <2> QED BY <2>1, <2>2, SpeaksUp
<1>6. CASE PowerOff(p)
  <2>1. Keeps(s, SwitchOff(s)) /\ Told(s, SwitchOff(s))
    BY <1>1, SwitchOffSound, ReleaseEnds DEF Told
  <2>2. Become(p, SwitchOff(s), net) /\ UNCHANGED <<up, links>>
    BY <1>6 DEF PowerOff
  <2> QED BY <2>1, <2>2, SpeaksUp
<1> QED BY <1>2, <1>3, <1>4, <1>5, <1>6

LEMMA TimersParting ==
  ASSUME Inv, Parting, NEW p \in Peer, TimerFires(p)
  PROVE  Parting'
<1> DEFINE s == station[p]
<1>1. Sound(s) /\ s \in Station BY DEF Inv, SoundStations, Sound
<1>2. ASSUME NEW due, NEW t, Fire(p, due, t), due => Keeps(s, t) /\ Told(s, t)
      PROVE  Parting'
  <2>1. Become(p, t, net) /\ Keeps(s, t) /\ Told(s, t) /\ UNCHANGED <<up, links>>
    BY <1>2 DEF Fire
  <2> QED BY <2>1, SpeaksUp
<1>3. CASE RetryFires(p)
  <2>1. Keeps(s, RetryTxReq(s)) /\ Told(s, RetryTxReq(s))
    BY <1>1, RetryTxReqSound, RetryTells
  <2> QED BY <1>2, <1>3, <2>1 DEF RetryFires
<1>4. CASE TotCuts(p)
  <2>1. Keeps(s, CutTx(s)) /\ Told(s, CutTx(s))
    BY <1>1, CutTxSound, CutTxEnds DEF Told
  <2> QED BY <1>2, <1>4, <2>1 DEF TotCuts
<1>5. CASE Beats(p)
  <2>1. Keeps(s, PresenceBeat(s)) /\ Told(s, PresenceBeat(s))
    BY <1>1, PresenceBeatSound, CallsTell
  <2> QED BY <1>2, <1>5, <2>1 DEF Beats
<1>6. CASE LeaseExpires(p)
  <2>1. s.holder # NoPeer => Keeps(s, ExpireLease(s)) /\ Told(s, ExpireLease(s))
    BY <1>1, ExpireLeaseSound, ExpireTells
  <2> QED BY <1>2, <1>6, <2>1 DEF LeaseExpires
<1> QED BY <1>3, <1>4, <1>5, <1>6 DEF TimerFires

(* A newcomer is silent, and its links are the only new ones.              *)
LEMMA JoinParting ==
  ASSUME Inv, Parting, NEW p \in Peer, NEW b \in BOOLEAN, Join(p, b)
  PROVE  Parting'
<1> DEFINE new == NewStation(p, station[p].radio)
           s == IF b \/ Relay THEN UpdateRoster(new, Peer) ELSE new
           room == IF Relay THEN {{p, q} : q \in up} ELSE {}
<1>1. SoundStations(station) /\ net \in Network /\ up \subseteq Peer
  BY DEF Inv, Rest
<1>2. station[p].radio \in Radio BY <1>1 DEF SoundStations, Station
<1>3. Sound(new) /\ new.phase = "idle" BY <1>2, NewStationSound DEF NewStation
<1> HIDE DEF new
<1>4. s \in Station /\ s.phase # "tx"
  <2>1. UpdateRoster(new, Peer) \in Station
    BY <1>3, UpdateRosterSound DEF Keeps, Sound
  <2>2. Told(new, UpdateRoster(new, Peer)) BY <1>3, CallsTell DEF Sound
  <2>3. UpdateRoster(new, Peer).phase # "tx"
    BY <1>3 DEF UpdateRoster, EmitPresence, Send, Sound, Station
  <2> QED BY <1>3, <2>1, <2>3 DEF Sound
<1>5. /\ up' = up \cup {p} /\ links' = links \cup room
      /\ station' = Install(p, s) /\ net' = Fan(net, links \cup room, p, s.out)
  BY DEF Join, new
<1> HIDE DEF s
<1>6. s.out \in Seq(Message) BY <1>4 DEF Station
<1>7. /\ station'[p].phase # "tx"
      /\ \A r \in Peer : r # p => station'[r] = station[r]
  BY <1>1, <1>4, <1>5 DEF SoundStations, Install, Station
<1>8. Talkers' = {r \in up \cup {p} : station'[r].phase = "tx"} BY <1>5 DEF Talkers
<1>9. p \notin Talkers' /\ Talkers' \subseteq Peer /\ Talkers' \subseteq Talkers
  BY <1>1, <1>7, <1>8 DEF Talkers
<1>10. \A q, r \in Talkers' : {q, r} \in links' => {q, r} \in links
  BY <1>5, <1>9
<1>11. \A q, r \in Talkers' : Calls(net[q][r], q) => Calls(net'[q][r], q)
  BY <1>1, <1>5, <1>6, <1>9, FanCalls
<1> QED BY <1>9, <1>10, <1>11, PartingKept

(* Who leaves is silent, and its links are gone with what they carried.    *)
LEMMA LeaveParting ==
  ASSUME Inv, Parting, NEW p \in Peer, NEW b \in BOOLEAN, Leave(p, b)
  PROVE  Parting'
<1> DEFINE s == IF b THEN station[p] ELSE ReleaseTransmit(station[p])
           gone == {{p, q} : q \in Peer}
           told == Fan(net, links, p, s.out)
           n == NewStation(p, IF b THEN RadioAt("idle") ELSE s.radio)
<1>1. SoundStations(station) /\ net \in Network /\ up \subseteq Peer
  BY DEF Inv, Rest
<1>2. s.out \in Seq(Message)
  <2>1. Sound(station[p]) BY <1>1 DEF SoundStations
  <2>2. Sound(s) BY <2>1, ReleaseTransmitSound DEF Keeps
  <2> QED BY <2>2 DEF Sound, Station
<1>3. /\ up' = up \ {p} /\ links' = links \ gone
      /\ station' = [station EXCEPT ![p] = n]
      /\ net' = [q \in Peer |-> [r \in Peer |->
                   IF r = p THEN << >> ELSE told[q][r]]]
  BY DEF Leave
<1> HIDE DEF s, n, gone
<1>4. \A r \in Peer : r # p => station'[r] = station[r]
  BY <1>1, <1>3 DEF SoundStations
<1>5. Talkers' = {r \in up \ {p} : station'[r].phase = "tx"} BY <1>3 DEF Talkers
<1>6. p \notin Talkers' /\ Talkers' \subseteq Peer /\ Talkers' \subseteq Talkers
  BY <1>1, <1>4, <1>5 DEF Talkers
<1>7. \A q, r \in Talkers' : Calls(net[q][r], q) => Calls(net'[q][r], q)
  <2> SUFFICES ASSUME NEW q \in Talkers', NEW r \in Talkers', Calls(net[q][r], q)
               PROVE  Calls(net'[q][r], q)
    OBVIOUS
  <2>1. q \in Peer /\ r \in Peer /\ r # p BY <1>6
  <2>2. Calls(told[q][r], q) BY <1>1, <1>2, <2>1, FanCalls
  <2> HIDE DEF told
  <2>3. net'[q][r] = told[q][r] BY <1>3, <2>1
  <2> QED BY <2>2, <2>3
<1>8. \A q, r \in Talkers' : {q, r} \in links' => {q, r} \in links BY <1>3
<1> QED BY <1>6, <1>7, <1>8, PartingKept

LEMMA LinksParting ==
  ASSUME Inv, Parting, NEW p \in Peer, NEW q \in Peer,
         SessionChange(p, q) \/ OpenLink(p, q) \/ CutLink(p, q)
  PROVE  Parting' \/ \E x, y \in Talkers : OpenLink(x, y)
<1>1. SoundStations(station) /\ net \in Network /\ Rest BY DEF Inv
<1>2. CASE SessionChange(p, q)
  <2> DEFINE known == IF q \in up THEN sessions[p] \cup {q} ELSE sessions[p] \ {q}
             s == UpdateRoster(station[p], known \cup {p})
  <2>1. known \cup {p} \in SUBSET Peer BY <1>1 DEF Rest
  <2>2. Become(p, s, net) /\ UNCHANGED <<up, links>> BY <1>2 DEF SessionChange
  <2> HIDE DEF known
  <2>3. Sound(station[p]) /\ station[p] \in Station BY <1>1 DEF SoundStations
  <2>4. Keeps(station[p], s) /\ Told(station[p], s)
    BY <2>1, <2>3, UpdateRosterSound, CallsTell
  <2> QED BY <2>2, <2>4, SpeaksUp
<1>3. CASE OpenLink(p, q)
  <2>1. /\ {p, q} \subseteq up /\ links' = links \cup {{p, q}}
        /\ UNCHANGED <<station, up, net>>
    BY <1>3 DEF OpenLink
  <2>2. Talkers' = Talkers BY <2>1 DEF Talkers
  <2>3. CASE p \in Talkers /\ q \in Talkers BY <1>3, <2>3
  <2>4. CASE ~(p \in Talkers /\ q \in Talkers)
    <3>1. \A x, y \in Talkers : {x, y} \in links' => {x, y} \in links
      BY <2>1, <2>4
    <3> QED BY <2>1, <2>2, <3>1 DEF Parting
  <2> QED BY <2>3, <2>4
<1>4. CASE CutLink(p, q)
  <2>1. /\ links' = links \ {{p, q}} /\ UNCHANGED <<station, up>>
        /\ net' = [net EXCEPT ![p][q] = << >>, ![q][p] = << >>]
    BY <1>4 DEF CutLink
  <2>2. Talkers' = Talkers /\ Talkers \subseteq Peer BY <1>1, <2>1 DEF Talkers, Rest
  <2>3. ASSUME NEW x \in Peer, NEW y \in Peer, {x, y} # {p, q}
        PROVE  net'[x][y] = net[x][y]
    BY <1>1, <2>1, <2>3 DEF Network
  <2>4. \A x, y \in Talkers : {x, y} \in links' =>
          {x, y} \in links /\ net'[x][y] = net[x][y] /\ net'[y][x] = net[y][x]
    <3> SUFFICES ASSUME NEW x \in Talkers, NEW y \in Talkers, {x, y} \in links'
                 PROVE  /\ {x, y} \in links
                        /\ net'[x][y] = net[x][y] /\ net'[y][x] = net[y][x]
      OBVIOUS
    <3>1. {x, y} \in links /\ {x, y} # {p, q} BY <2>1
    <3>2. {y, x} = {x, y} OBVIOUS
    <3> QED BY <2>2, <2>3, <3>1, <3>2
  <2> QED BY <2>2, <2>4 DEF Parting
<1> QED BY <1>2, <1>3, <1>4

(* Only the receiver takes a call in, and then it does not transmit.       *)
LEMMA DeliverParting ==
  ASSUME Inv, Parting, NEW p \in Peer, NEW q \in Peer, Deliver(p, q)
  PROVE  Parting'
<1> DEFINE c == net[p][q]
           n == [net EXCEPT ![p][q] = Tail(@)]
           m == Head(c).msg
           s == OnMessage(station[q], m)
<1>1. SoundStations(station) /\ net \in Network BY DEF Inv
<1>2. c \in Seq(Packet) /\ c # << >> BY <1>1 DEF Network, Deliver
<1>3. /\ Head(c) \in Packet /\ Head(c) = c[1] /\ Tail(c) \in Seq(Packet)
      /\ Len(c) \in Nat /\ Len(Tail(c)) = Len(c) - 1
      /\ \A i \in 1..Len(Tail(c)) : Tail(c)[i] = c[i + 1]
  BY <1>2, HeadTailProperties, LenProperties
<1>4. m \in Message BY <1>3 DEF Packet
<1>5. Sound(station[q]) /\ station[q].id = q BY <1>1 DEF SoundStations
<1>6. /\ Keeps(station[q], s) /\ Told(station[q], s)
      /\ m.kind = "TxStart" /\ m.peer # q => s.phase # "tx"
  BY <1>4, <1>5, OnMessageSound, OnMessageTells
<1>7. Become(q, s, n) /\ UNCHANGED <<up, links>> BY DEF Deliver
<1>8. /\ n \in Network /\ n[p][q] = Tail(c)
      /\ \A a, b \in Peer : <<a, b>> # <<p, q>> => n[a][b] = net[a][b]
  BY <1>1, <1>3 DEF Network
<1> HIDE DEF c, n, m, s
<1>9. ASSUME NEW a \in Peer, NEW b \in Peer, Calls(net[a][b], a)
      PROVE  Calls(n[a][b], a) \/ (b = q /\ s.phase # "tx") \/ a = b
  <2>1. CASE <<a, b>> # <<p, q>> BY <1>8, <1>9, <2>1
  <2>2. CASE a = p /\ b = q
    <3>1. PICK i \in DOMAIN c : c[i].msg = Msg("TxStart", p)
      BY <1>9, <2>2 DEF Calls, c
    <3>2. i \in 1..Len(c) BY <1>2, <3>1, LenProperties
    <3>3. CASE i = 1
      <4>1. m = Msg("TxStart", p) BY <1>3, <3>1, <3>3 DEF m
      <4> QED BY <1>6, <2>2, <4>1 DEF Msg
    <3>4. CASE i # 1
      <4>1. i - 1 \in 1..Len(Tail(c)) /\ (i - 1) + 1 = i BY <1>3, <3>2, <3>4
      <4>2. Tail(c)[i - 1] = c[i] BY <1>3, <4>1
      <4>3. i - 1 \in DOMAIN Tail(c) BY <1>3, <4>1, LenProperties
      <4> QED BY <1>8, <2>2, <3>1, <4>2, <4>3 DEF Calls
    <3> QED BY <3>3, <3>4
  <2> QED BY <2>1, <2>2
<1> QED BY <1>6, <1>7, <1>8, <1>9, BecomeParting, ZenonT(60)

(* Time changes what is under way only in age.                             *)
LEMMA TickParting ==
  ASSUME Inv, Parting, Tick
  PROVE  Parting'
<1>1. SoundStations(station) /\ net \in Network /\ up \subseteq Peer
  BY DEF Inv, Rest
<1>2. /\ station' = [p \in Peer |-> IF p \in up THEN Elapse(station[p]) ELSE station[p]]
      /\ net' = [p \in Peer |-> [q \in Peer |->
               [i \in DOMAIN net[p][q] |-> [net[p][q][i] EXCEPT !.age = @ + 1]]]]
      /\ UNCHANGED <<up, links>>
  BY DEF Tick
<1>3. ASSUME NEW p \in Peer PROVE station'[p].phase = station[p].phase
  <2>1. station[p] \in Station BY <1>1 DEF SoundStations
  <2>2. Elapse(station[p]).phase = station[p].phase BY <2>1 DEF Elapse, Station
  <2> QED BY <1>2, <2>2
<1>4. Talkers' = Talkers BY <1>1, <1>2, <1>3 DEF Talkers
<1>5. ASSUME NEW p \in Peer, NEW q \in Peer, NEW x, Calls(net[p][q], x)
      PROVE  Calls(net'[p][q], x)
  <2> DEFINE c == net[p][q]
  <2>1. PICK i \in DOMAIN c : c[i].msg = Msg("TxStart", x) BY <1>5 DEF Calls
  <2>2. c[i] \in Packet
    <3>1. c \in Seq(Packet) BY <1>1 DEF Network
    <3> QED BY <2>1, <3>1, LenProperties, ElementOfSeq
  <2>3. net'[p][q] = [j \in DOMAIN c |-> [c[j] EXCEPT !.age = @ + 1]] BY <1>2
  <2> HIDE DEF c
  <2>4. [c[i] EXCEPT !.age = @ + 1].msg = c[i].msg BY <2>2 DEF Packet
  <2> QED BY <2>1, <2>3, <2>4 DEF Calls
<1>6. Talkers \subseteq Peer BY <1>1 DEF Talkers
<1> SUFFICES ASSUME NEW p \in Talkers, NEW q \in Talkers, p # q, {p, q} \in links
             PROVE  Calls(net'[p][q], p) \/ Calls(net'[q][p], q)
  BY <1>2, <1>4 DEF Parting
<1>7. Calls(net[p][q], p) \/ Calls(net[q][p], q) BY DEF Parting
<1> QED BY <1>5, <1>6, <1>7

LEMMA NextParting ==
  ASSUME Inv, Parting, [Next]_vars
  PROVE  Parting' \/ \E p, q \in Talkers : OpenLink(p, q)
<1>1. CASE UNCHANGED vars BY <1>1 DEF vars, Parting, Talkers
<1>2. ASSUME NEW p \in Peer,
             Press(p) \/ CallEmergency(p) \/ Release(p) \/ StandDown(p) \/ PowerOff(p)
      PROVE  Parting'
  BY <1>2, UsersParting
<1>3. ASSUME NEW p \in Peer, TimerFires(p) PROVE Parting'
  BY <1>3, TimersParting
<1>4. ASSUME NEW p \in Peer, NEW b \in BOOLEAN, Join(p, b) \/ Leave(p, b)
      PROVE  Parting'
  BY <1>4, JoinParting, LeaveParting
<1>5. ASSUME NEW p \in Peer, NEW q \in Peer,
             SessionChange(p, q) \/ OpenLink(p, q) \/ CutLink(p, q)
      PROVE  Parting' \/ \E x, y \in Talkers : OpenLink(x, y)
  BY <1>5, LinksParting
<1>6. ASSUME NEW p \in Peer, NEW q \in Peer, Deliver(p, q) PROVE Parting'
  BY <1>6, DeliverParting
<1>7. CASE Tick BY <1>7, TickParting
<1> QED BY <1>1, <1>2, <1>3, <1>4, <1>5, <1>6, <1>7 DEF Next

(* Whatever the stations, the delays, the crossings and the failures: two  *)
(* linked stations that both transmit have the TX_START of one under way   *)
(* to the other, and this is lost only when a link opens between two that  *)
(* already talk.                                                           *)
THEOREM OnlyAnOpeningJoinsVoices == Spec => VoicesPart
<1>1. Inv /\ [Next]_vars
        => [Parting => Parting' \/ \E p, q \in Talkers : OpenLink(p, q)]_vars
  BY NextParting
<1> QED BY <1>1, Invariance, PTL DEF Spec, VoicesPart

-----------------------------------------------------------------------------
(* A steady channel: nobody comes or goes and no link fails.  Messages     *)
(* cross as they like.                                                     *)
Unbroken ==
  up = Settled /\ \A p, q \in Peer : {p, q} \in links <=> p # q /\ {p, q} \subseteq Settled

LEMMA TwoStations ==
  ASSUME NEW p, NEW q
  PROVE  Cardinality({p, q}) = 2 <=> p # q
<1>1. IsFiniteSet({q}) /\ Cardinality({q}) = 1 BY FS_Singleton
<1>2. CASE p = q
  <2>1. {p, q} = {q} BY <1>2
  <2> QED BY <1>1, <1>2, <2>1
<1>3. CASE p # q
  <2>1. {p, q} = {q} \cup {p} /\ p \notin {q} BY <1>3
  <2>2. Cardinality({q} \cup {p}) = Cardinality({q}) + 1 BY <1>1, <2>1, FS_AddElement
  <2> QED BY <1>1, <1>3, <2>1, <2>2
<1> QED BY <1>2, <1>3

LEMMA StartsParting == Init => Parting /\ Unbroken
<1> SUFFICES ASSUME Init PROVE Parting /\ Unbroken OBVIOUS
<1>1. Settled \subseteq Peer BY ChannelAssumption
<1>2. up = Settled /\ links = {pair \in Pairs : pair \subseteq Settled} BY DEF Init
<1>3. Unbroken
  <2> SUFFICES ASSUME NEW p \in Peer, NEW q \in Peer
               PROVE  {p, q} \in links <=> p # q /\ {p, q} \subseteq Settled
    BY <1>2 DEF Unbroken
  <2>1. {p, q} \in Pairs <=> p # q BY TwoStations DEF Pairs
  <2> QED BY <1>2, <2>1
<1>4. Talkers = {}
  <2>1. \A p \in up : station[p].phase = "idle"
    BY <1>1, <1>2 DEF Init, SettledStation, NewStation
  <2> QED BY <2>1 DEF Talkers
<1> QED BY <1>3, <1>4 DEF Parting

LEMMA StaysUnbroken ==
  ASSUME MaxChurn = 0, MaxCut = 0, Inv, Unbroken, [Next]_vars
  PROVE  Unbroken' /\ \A p, q \in Peer : ~OpenLink(p, q)
<1>1. churn = 0 /\ cuts = 0 BY DEF Inv, Rest
<1>2. \A p, q \in Peer : ~OpenLink(p, q) BY DEF OpenLink, Unbroken
<1>3. \A p, q \in Peer : ~CutLink(p, q) BY <1>1 DEF CutLink
<1>4. \A p \in Peer, b \in BOOLEAN : ~Join(p, b) /\ ~Leave(p, b)
  BY <1>1 DEF Join, Leave
<1>5. UNCHANGED <<up, links>>
  <2>1. ASSUME NEW p \in Peer,
               Press(p) \/ CallEmergency(p) \/ Release(p) \/ StandDown(p) \/ PowerOff(p)
        PROVE  UNCHANGED <<up, links>>
    BY <2>1 DEF Press, CallEmergency, Release, StandDown, PowerOff
  <2>2. ASSUME NEW p \in Peer, TimerFires(p) PROVE UNCHANGED <<up, links>>
    BY <2>2 DEF TimerFires, RetryFires, TotCuts, Beats, LeaseExpires, Fire
  <2>3. ASSUME NEW p \in Peer, NEW q \in Peer, SessionChange(p, q) \/ Deliver(p, q)
        PROVE  UNCHANGED <<up, links>>
    BY <2>3 DEF SessionChange, Deliver
  <2>4. Tick => UNCHANGED <<up, links>> BY DEF Tick
  <2>5. UNCHANGED vars => UNCHANGED <<up, links>> BY DEF vars
  <2> QED BY <1>2, <1>3, <1>4, <2>1, <2>2, <2>3, <2>4, <2>5 DEF Next
<1> QED BY <1>2, <1>5 DEF Unbroken

(* While nobody comes or goes and no link fails, two stations transmit at  *)
(* once only while messages are under way: pre-emption, early releases,    *)
(* lockout, retries and expiry may cross in any order and take any time,   *)
(* with any number of stations.                                            *)
THEOREM DoubleTalkEnds ==
  ASSUME MaxChurn = 0, MaxCut = 0
  PROVE  Spec => []VoicesSettle
<1>1. Inv /\ Parting /\ Unbroken /\ [Next]_vars => (Parting /\ Unbroken)'
  <2> SUFFICES ASSUME Inv, Parting, Unbroken, [Next]_vars
               PROVE  Parting' /\ Unbroken'
    OBVIOUS
  <2>1. Talkers \subseteq Peer BY DEF Talkers, Inv, Rest
  <2> QED BY <2>1, NextParting, StaysUnbroken
<1>2. Inv /\ Parting /\ Unbroken => VoicesSettle
  <2> SUFFICES ASSUME Inv, Parting, Unbroken, Quiet, NEW p \in Talkers, NEW q \in Talkers,
                      {p, q} \in links
               PROVE  FALSE
    BY DEF VoicesSettle, SingleVoice
  <2>1. p \in Peer /\ q \in Peer BY DEF Talkers, Inv, Rest
  <2>2. p # q BY <2>1 DEF Unbroken
  <2>3. net[p][q] = << >> /\ net[q][p] = << >> BY <2>1 DEF Quiet
  <2>4. Calls(net[p][q], p) \/ Calls(net[q][p], q) BY <2>2 DEF Parting
  <2> QED BY <2>3, <2>4 DEF Calls
<1> QED BY <1>1, <1>2, StartsParting, Invariance, PTL DEF Spec

-----------------------------------------------------------------------------
(* The synchronous hub: settled stations, nobody acts while a message is   *)
(* under way, nobody comes, goes, loses a link or calls an emergency.  How *)
(* many stations, presses and power-offs there are, who asks, which of     *)
(* them have busy lockout on, and in which order the messages of different *)
(* links arrive, is open.                                                  *)
Hub ==
  /\ Loopback /\ MaxDelay = 0 /\ MaxChurn = 0 /\ MaxCut = 0
  /\ Emergencies = {} /\ (Relay => Settled = Peer)

(* Busy lockout everywhere: only then does a screen follow its engine.     *)
LockoutOn == Settled \subseteq Lockout

(* What is under way from one station to another.                          *)
Air(c) == {c[i].msg : i \in DOMAIN c}
OnAir(p, q) == Air(net[p][q])

(* The snapshots and the grant the hub's stations send.                    *)
IdleNews(p) == Msg("Presence", p)
HeldNews(p, o, n) == [Msg("Presence", p) EXCEPT !.holder = o, !.lease = n]
Granted(o, n) == [Msg("TxGrant", o) EXCEPT !.lease = n]

(* Everybody is linked to everybody.                                       *)
Mesh ==
  /\ up = Settled
  /\ \A p, q \in Peer : {p, q} \in links <=> p # q /\ p \in Settled /\ q \in Settled
  /\ ~Relay => \A p \in Settled : sessions[p] = Settled \ {p}
  /\ \A p, q \in Peer : net[p][q] # << >> => {p, q} \in links

(* The silence a station has heard from another is no longer than the      *)
(* other's heart has been beating: no gap of a whole heartbeat opens.      *)
Heard ==
  \A p, q \in Settled : p # q =>
    net[p][q] # << >> \/ station[q].inbound <= Heartbeat - station[p].beat

(* A station that is past its guard window and knows the roster.           *)
Informed(s) ==
  /\ s.roster = Settled /\ s.declared /\ s.observing = Heartbeat
  /\ s.inbound # Off /\ (Settled # {s.id} => s.inbound <= Heartbeat)
  /\ s.expired = {} /\ s.pin = NoPeer /\ ~s.urgent

(* No retry is left over, and with lockout the screen shows the phase.     *)
Shown(s) ==
  /\ s.phase # "awaiting" => s.retry = Off
  /\ LockoutOn => s.radio.phase \in {"off", ScreenOf(s.phase)}
  /\ LockoutOn /\ MaxOff = 0 => s.radio.phase # "off"

Aware(s) == Informed(s) /\ Shown(s)

(* The parts a station can have: it rests, knows of a lease without having *)
(* heard the voice, hears the holder, talks, or waits for an answer: for   *)
(* the first, or, with lockout off, in vain.                               *)
Rests(s) == s.phase = "idle" /\ s.holder = NoPeer /\ s.lease = 0
Warned(s, o, n) == s.phase = "idle" /\ s.holder = o /\ s.lease = n
Hears(s, o, n) ==
  /\ s.phase = "rx" /\ s.holder = o /\ s.lease = n
  /\ LockoutOn /\ s.radio.phase # "off" => s.radio.speaker = o
Talks(s, n) ==
  /\ s.phase = "tx" /\ s.holder = s.id /\ s.lease = n /\ s.totCut = n - LeasePad
  /\ LockoutOn => s.radio.phase = "tx"
Asks(s, n) ==
  /\ s.phase = "awaiting" /\ (LockoutOn => s.radio.phase = "txRequest")
  /\ \/ s.holder = NoPeer /\ s.lease = 0
     \/ s.holder = s.id /\ s.lease = n
Begs(s, o, n) == s.phase = "awaiting" /\ s.holder = o /\ s.lease = n

(* A station that was refused stops listening: it knows the holder only.   *)
Heeds(s, o, n) == Hears(s, o, n) \/ (~LockoutOn /\ Warned(s, o, n))

(* What a station says of a floor it knows to be free.                     *)
Ends(p) == {IdleNews(p), Msg("TxEnd", p)}

(* The floor is free; the end of the last transmission may be under way.   *)
FreeAt(q, o, n) ==
  \/ Rests(station[q])
  \/ /\ o # q /\ o \in Settled /\ Heeds(station[q], o, n)
     /\ \E m \in Ends(o) : m \in OnAir(o, q)

Free(o, n) ==
  /\ \A q \in Settled : FreeAt(q, o, n)
  /\ \A p, q \in Settled : OnAir(p, q) \subseteq Ends(p)

(* A request is on its way to the arbiter.                                 *)
Asked(o) ==
  /\ o \in Settled /\ o # Elect(Settled) /\ o \in ptt
  /\ Asks(station[o], 0) /\ station[o].holder = NoPeer
  /\ \A q \in Settled \ {o} : Rests(station[q])
  /\ \A p, q \in Settled : OnAir(p, q) \subseteq {m \in {Msg("TxReq", o)} : p = o}
  /\ Msg("TxReq", o) \in OnAir(o, Elect(Settled))

(* The floor is taken: what its news may say, who holds it (the answer may *)
(* be under way), and what the others know of it (the start may be).  With *)
(* lockout off they may ask for it, and the arbiter, which knows, refuses. *)
TakenNews(p, o, n) ==
  {HeldNews(p, o, n), Granted(o, n), Msg("TxReq", p)}
    \cup {m \in {Msg("TxStart", o)} : p = o}
    \cup {Msg("TxDeny", r) : r \in Settled \ {o}}

Holds(o, n) ==
  \/ Talks(station[o], n)
  \/ /\ Asks(station[o], n) /\ n = GrantLease /\ o # Elect(Settled)
     /\ \E p \in Settled : Granted(o, n) \in OnAir(p, o)

Refused(q) ==
  \/ Msg("TxReq", q) \in OnAir(q, Elect(Settled))
  \/ Msg("TxDeny", q) \in OnAir(Elect(Settled), q)

TakenAt(q, o, n) ==
  \/ Heeds(station[q], o, n)
  \/ /\ \/ Rests(station[q]) /\ n = GrantLease /\ q # Elect(Settled)
        \/ Warned(station[q], o, n)
     /\ station[o].phase = "awaiting" \/ Msg("TxStart", o) \in OnAir(o, q)
  \/ /\ ~LockoutOn /\ q # Elect(Settled) /\ station[o].phase = "tx"
     /\ Begs(station[q], o, n) /\ Refused(q)

Taken(o, n) ==
  /\ o \in Settled /\ o \in ptt /\ Holds(o, n)
  /\ \A q \in Settled \ {o} : TakenAt(q, o, n)
  /\ \A p, q \in Settled : OnAir(p, q) \subseteq TakenNews(p, o, n)

(* The stages of the floor.                                                *)
Stage ==
  \/ \E o \in Peer \cup {NoPeer}, n \in 1..GrantLease : Free(o, n)
  \/ \E o \in Settled : Asked(o)
  \/ \E o \in Settled, n \in LeasePad..GrantLease : Taken(o, n)

(* The inductive invariant of the hub.                                     *)
AllAware == \A p \in Settled : Aware(station[p])

HubInv == Mesh /\ Heard /\ AllAware /\ ptt \subseteq Settled /\ Stage

(* What a station has said in the step under way.                          *)
Says(s) == {s.out[i] : i \in DOMAIN s.out}

(* What an operator leaves alone of the station's knowledge.               *)
Knows(s, t) ==
  /\ t \in Station /\ t.id = s.id
  /\ t.roster = s.roster /\ t.declared = s.declared
  /\ t.observing = s.observing /\ t.inbound = s.inbound /\ t.beat = s.beat
  /\ t.expired \subseteq s.expired /\ t.pin = s.pin /\ (t.urgent => s.urgent)

(* What the operators of the engine say and leave alone.                   *)
LEMMA KnowsOn ==
  ASSUME NEW s, NEW t, NEW u, Knows(s, t), Knows(t, u)
  PROVE  Knows(s, u)
BY DEF Knows

LEMMA AppendRange ==
  ASSUME NEW T, NEW c \in Seq(T), NEW m \in T
  PROVE  {Append(c, m)[i] : i \in DOMAIN Append(c, m)} = {c[i] : i \in DOMAIN c} \cup {m}
<1> DEFINE o == Append(c, m)
<1>1. /\ DOMAIN c = 1..Len(c) /\ DOMAIN o = 1..Len(c) + 1
      /\ o[Len(c) + 1] = m /\ (\A i \in 1..Len(c) : o[i] = c[i]) /\ Len(c) \in Nat
  BY AppendProperties, LenProperties
<1> HIDE DEF o
<1>2. ASSUME NEW i \in DOMAIN o PROVE o[i] \in {c[j] : j \in DOMAIN c} \cup {m}
  <2>1. i \in DOMAIN c \/ i = Len(c) + 1 BY <1>1
  <2> QED BY <1>1, <2>1
<1>3. ASSUME NEW j \in DOMAIN c PROVE j \in DOMAIN o /\ o[j] = c[j] BY <1>1
<1>4. Len(c) + 1 \in DOMAIN o BY <1>1
<1>5. {c[j] : j \in DOMAIN c} \cup {m} \subseteq {o[i] : i \in DOMAIN o} BY <1>1, <1>3, <1>4, Zenon
<1>6. {o[i] : i \in DOMAIN o} \subseteq {c[j] : j \in DOMAIN c} \cup {m} BY <1>2
<1> QED BY <1>5, <1>6 DEF o

LEMMA SendSays ==
  ASSUME NEW s \in Station, NEW m \in Message
  PROVE  /\ Knows(s, Send(s, m)) /\ Same(s, Send(s, m))
         /\ Send(s, m).radio = s.radio /\ Says(Send(s, m)) = Says(s) \cup {m}
<1>1. s.out \in Seq(Message) BY DEF Station
<1>2. Same(s, Send(s, m)) BY SendKeeps
<1>3. Send(s, m).out = Append(s.out, m) /\ Knows(s, Send(s, m)) /\ Send(s, m).radio = s.radio
  BY <1>2 DEF Send, Station, Knows, Same
<1> QED BY <1>1, <1>2, <1>3, AppendRange DEF Says

LEMMA DispatchSays ==
  ASSUME NEW s \in Station, NEW event
  PROVE  /\ Knows(s, Dispatch(s, event)) /\ Says(Dispatch(s, event)) = Says(s)
         /\ Dispatch(s, event).radio = Reduce(s.radio, event, LiveHolder(s), s.id)
<1>1. Dispatch(s, event) \in Station BY DispatchEffect DEF Same
<1> QED BY <1>1 DEF Knows, Says, Dispatch, Station

LEMMA PresenceSays ==
  ASSUME NEW s \in Station
  PROVE  /\ Knows(s, EmitPresence(s)) /\ Same(s, EmitPresence(s))
         /\ EmitPresence(s).radio = s.radio
         /\ Says(EmitPresence(s)) = Says(s) \cup
              {[Msg("Presence", s.id) EXCEPT
                 !.holder = LiveHolder(s), !.lease = IF LiveHolder(s) = NoPeer THEN 0 ELSE s.lease]}
<1> DEFINE m == [Msg("Presence", s.id) EXCEPT
             !.holder = LiveHolder(s),
             !.lease  = IF LiveHolder(s) = NoPeer THEN 0 ELSE s.lease]
<1>1. s.id \in Peer /\ s.lease \in 0..GrantLease /\ 0 \in 0..GrantLease
  BY TimingTypes DEF Station
<1>2. Msg("Presence", s.id) \in Message BY <1>1, MsgType DEF Kind
<1>3. m \in Message BY <1>1, <1>2, LiveHolderType DEF Message, Msg
<1> QED BY <1>3, SendSays DEF EmitPresence

LEMMA StopTxSays ==
  ASSUME NEW s \in Station
  PROVE  /\ Knows(s, StopTx(s)) /\ Says(StopTx(s)) = Says(s) \cup {Msg("TxEnd", s.id)}
         /\ StopTx(s).radio = Reduce(s.radio, "EndTransmit", LiveHolder(s), s.id)
<1> DEFINE a == [s EXCEPT !.phase = "idle", !.totCut = Off]
           b == Send(a, Msg("TxEnd", s.id))
<1>1. a \in Station BY DEF Station, Phase, Timer
<1>2. Knows(s, a) /\ Says(a) = Says(s) /\ a.radio = s.radio /\ LiveHolder(a) = LiveHolder(s)
  BY <1>1 DEF Knows, Says, Station, LiveHolder
<1>3. Msg("TxEnd", s.id) \in Message BY MsgType DEF Kind, Station
<1> HIDE DEF a
<1>4. /\ Knows(a, b) /\ Same(a, b) /\ b.radio = a.radio
      /\ Says(b) = Says(a) \cup {Msg("TxEnd", s.id)}
  BY <1>1, <1>3, SendSays
<1>5. StopTx(s) = Dispatch(b, "EndTransmit") BY DEF StopTx, b, a
<1> HIDE DEF b
<1>6. b \in Station /\ b.id = s.id /\ LiveHolder(b) = LiveHolder(s) BY <1>2, <1>4 DEF Same, LiveHolder, Knows
<1>7. /\ Knows(b, StopTx(s)) /\ Says(StopTx(s)) = Says(b)
      /\ StopTx(s).radio = Reduce(b.radio, "EndTransmit", LiveHolder(b), b.id)
  BY <1>5, <1>6, DispatchSays
<1>8. Knows(s, StopTx(s)) BY <1>2, <1>4, <1>7, KnowsOn
<1> QED BY <1>2, <1>4, <1>6, <1>7, <1>8

LEMMA RxSays ==
  ASSUME NEW s \in Station
  PROVE  /\ Knows(s, StartRx(s)) /\ Says(StartRx(s)) = Says(s)
         /\ StartRx(s).radio = Reduce(s.radio, "RemoteFloorStarted", LiveHolder(s), s.id)
         /\ Knows(s, EndRx(s)) /\ Says(EndRx(s)) = Says(s)
         /\ EndRx(s).radio = Reduce(s.radio, "RemoteFloorEnded", LiveHolder(s), s.id)
<1>1. ASSUME NEW ph \in Phase, NEW e
      PROVE  LET a == [s EXCEPT !.phase = ph]
                 t == Dispatch(a, e)
             IN  Knows(s, t) /\ Says(t) = Says(s) /\ t.radio = Reduce(s.radio, e, LiveHolder(s), s.id)
  <2> DEFINE a == [s EXCEPT !.phase = ph]
             t == Dispatch(a, e)
  <2>1. a \in Station BY DEF Station
  <2>2. Knows(s, a) /\ Says(a) = Says(s) /\ a.radio = s.radio /\ LiveHolder(a) = LiveHolder(s) /\ a.id = s.id
    BY <2>1 DEF Knows, Says, Station, LiveHolder
  <2> HIDE DEF a
  <2>3. Knows(a, t) /\ Says(t) = Says(a) /\ t.radio = Reduce(a.radio, e, LiveHolder(a), a.id)
    BY <2>1, DispatchSays
  <2>4. Knows(s, t) BY <2>2, <2>3, KnowsOn
  <2> QED BY <2>2, <2>3, <2>4 DEF a
<1>2. "rx" \in Phase /\ "idle" \in Phase BY DEF Phase
<1>3. /\ StartRx(s) = Dispatch([s EXCEPT !.phase = "rx"], "RemoteFloorStarted")
      /\ EndRx(s) = Dispatch([s EXCEPT !.phase = "idle"], "RemoteFloorEnded")
  BY DEF StartRx, EndRx
<1> QED BY <1>1, <1>2, <1>3

LEMMA SameFunction ==
  ASSUME NEW D, NEW f, NEW g, f = [i \in D |-> f[i]], g = [i \in D |-> g[i]],
         \A i \in D : f[i] = g[i]
  PROVE  f = g
<1>1. [i \in D |-> f[i]] = [i \in D |-> g[i]] BY SMT
<1> QED BY <1>1, Zenon

(* A snapshot of a free floor names nobody.                                *)
LEMMA NobodyNamed ==
  ASSUME NEW p
  PROVE  [Msg("Presence", p) EXCEPT !.holder = NoPeer, !.lease = 0] = IdleNews(p)
<1> DEFINE r == Msg("Presence", p)
           x == [r EXCEPT !.holder = NoPeer, !.lease = 0]
           D == {"kind", "peer", "urgent", "holder", "lease"}
<1>1. DOMAIN r = D /\ r.holder = NoPeer /\ r.lease = 0 BY DEF Msg
<1>2. r = [i \in D |-> r[i]] BY <1>1, SMT DEF Msg
<1>3. x = [i \in D |-> x[i]] BY <1>1
<1>4. \A i \in D : x[i] = r[i] BY <1>1
<1> HIDE DEF r, x, D
<1>5. x = r BY <1>2, <1>3, <1>4, SameFunction
<1> QED BY <1>5 DEF x, r, IdleNews

LEMMA PlainRequest ==
  ASSUME NEW p
  PROVE  [Msg("TxReq", p) EXCEPT !.urgent = FALSE] = Msg("TxReq", p)
<1> DEFINE r == Msg("TxReq", p)
           x == [r EXCEPT !.urgent = FALSE]
           D == {"kind", "peer", "urgent", "holder", "lease"}
<1>1. DOMAIN r = D /\ r.urgent = FALSE BY DEF Msg
<1>2. r = [i \in D |-> r[i]] BY <1>1, SMT DEF Msg
<1>3. x = [i \in D |-> x[i]] BY <1>1
<1>4. \A i \in D : x[i] = r[i] BY <1>1
<1> HIDE DEF r, x, D
<1>5. x = r BY <1>2, <1>3, <1>4, SameFunction
<1> QED BY <1>5 DEF x, r

(* What the messages of a hub say.                                         *)
LEMMA MessageFields ==
  ASSUME NEW p, NEW o, NEW n, NEW k
  PROVE  /\ Msg(k, p).kind = k /\ Msg(k, p).peer = p /\ Msg(k, p).urgent = FALSE
         /\ IdleNews(p).kind = "Presence" /\ IdleNews(p).peer = p
         /\ IdleNews(p).holder = NoPeer
         /\ HeldNews(p, o, n).kind = "Presence" /\ HeldNews(p, o, n).peer = p
         /\ HeldNews(p, o, n).holder = o /\ HeldNews(p, o, n).lease = n
         /\ Granted(o, n).kind = "TxGrant" /\ Granted(o, n).peer = o
         /\ Granted(o, n).lease = n
BY DEF Msg, IdleNews, HeldNews, Granted

LEMMA LeaseSays ==
  ASSUME NEW s \in Station
  PROVE  /\ Knows(s, DropLease(s)) /\ Says(DropLease(s)) = Says(s) /\ DropLease(s).radio = s.radio
         /\ Knows(s, ClearLease(s)) /\ Says(ClearLease(s)) = Says(s) \cup {IdleNews(s.id)}
         /\ ClearLease(s).radio = s.radio
<1> DEFINE d == DropLease(s)
<1>1. d \in Station /\ d.holder = NoPeer /\ d.id = s.id
  <2>1. 0 \in 0..GrantLease BY TimingTypes
  <2> QED BY <2>1 DEF DropLease, Station
<1>2. Knows(s, d) /\ Says(d) = Says(s) /\ d.radio = s.radio BY <1>1 DEF Knows, Says, Station, DropLease
<1> HIDE DEF d
<1>3. LiveHolder(d) = NoPeer BY <1>1 DEF LiveHolder, Live
<1>4. [Msg("Presence", d.id) EXCEPT !.holder = LiveHolder(d),
         !.lease = IF LiveHolder(d) = NoPeer THEN 0 ELSE d.lease] = IdleNews(s.id)
  BY <1>1, <1>3, NobodyNamed
<1>5. /\ Knows(d, EmitPresence(d)) /\ EmitPresence(d).radio = d.radio
      /\ Says(EmitPresence(d)) = Says(d) \cup {IdleNews(s.id)}
  BY <1>1, <1>4, PresenceSays
<1>6. ClearLease(s) = EmitPresence(d) BY DEF ClearLease, d
<1>7. Knows(s, ClearLease(s)) BY <1>2, <1>5, <1>6, KnowsOn
<1> QED BY <1>2, <1>5, <1>6, <1>7 DEF d

LEMMA InstallSays ==
  ASSUME NEW s \in Station, NEW peer \in Peer, NEW remaining \in 1..GrantLease,
         NEW announce \in BOOLEAN
  PROVE  LET t == InstallLease(s, peer, remaining, announce)
         IN  /\ Knows(s, t) /\ t.radio = s.radio /\ LiveHolder(t) = peer
             /\ Says(t) = Says(s) \cup IF announce THEN {HeldNews(s.id, peer, remaining)} ELSE {}
<1> DEFINE a == [s EXCEPT !.expired = @ \ {peer}, !.holder = peer, !.lease = remaining]
           t == InstallLease(s, peer, remaining, announce)
<1>1. remaining # 0 /\ remaining \in 0..GrantLease /\ remaining > 0 BY TimingTypes
<1>2. a \in Station BY <1>1 DEF Station
<1>3. /\ Knows(s, a) /\ Says(a) = Says(s) /\ a.radio = s.radio
      /\ a.holder = peer /\ a.lease = remaining /\ a.id = s.id
  BY <1>2 DEF Knows, Says, Station
<1> HIDE DEF a
<1>4. LiveHolder(a) = peer /\ peer # NoPeer BY <1>1, <1>3, NoPeerIsNobody DEF LiveHolder, Live
<1>5. [Msg("Presence", a.id) EXCEPT !.holder = LiveHolder(a),
         !.lease = IF LiveHolder(a) = NoPeer THEN 0 ELSE a.lease] = HeldNews(s.id, peer, remaining)
  BY <1>3, <1>4 DEF HeldNews
<1>6. /\ Knows(a, EmitPresence(a)) /\ EmitPresence(a).radio = a.radio /\ Same(a, EmitPresence(a))
      /\ Says(EmitPresence(a)) = Says(a) \cup {HeldNews(s.id, peer, remaining)}
  BY <1>2, <1>5, PresenceSays
<1>7. t = IF announce THEN EmitPresence(a) ELSE a BY <1>1 DEF InstallLease, a
<1>8. Knows(s, EmitPresence(a)) BY <1>3, <1>6, KnowsOn
<1>9. LiveHolder(EmitPresence(a)) = LiveHolder(a) BY <1>6 DEF Same, LiveHolder
<1> HIDE DEF t
<1>10. CASE announce BY <1>3, <1>4, <1>6, <1>7, <1>8, <1>9, <1>10 DEF t
<1>11. CASE ~announce BY <1>3, <1>4, <1>7, <1>11 DEF t
<1> QED BY <1>10, <1>11

LEMMA EnterTxSays ==
  ASSUME NEW s \in Station
  PROVE  /\ Knows(s, EnterTx(s)) /\ Says(EnterTx(s)) = Says(s) \cup {Msg("TxStart", s.id)}
         /\ EnterTx(s).radio = Reduce(s.radio, "TransmitGranted", LiveHolder(s), s.id)
<1> DEFINE a == [s EXCEPT !.phase = "tx", !.urgent = FALSE, !.retry = Off, !.totCut = Tot]
           b == Dispatch(a, "TransmitGranted")
<1>1. Off \in Timer(Retry) /\ Tot \in Timer(Tot) BY TimingTypes, TimerTypes
<1>2. a \in Station BY <1>1 DEF Station, Phase
<1>3. Knows(s, a) /\ Says(a) = Says(s) /\ a.radio = s.radio /\ LiveHolder(a) = LiveHolder(s) /\ a.id = s.id
  BY <1>2 DEF Knows, Says, Station, LiveHolder
<1>4. Msg("TxStart", s.id) \in Message BY MsgType DEF Kind, Station
<1>5. EnterTx(s) = Send(b, Msg("TxStart", s.id)) BY DEF EnterTx, b, a
<1> HIDE DEF a
<1>6. Knows(a, b) /\ Says(b) = Says(a) /\ b.radio = Reduce(a.radio, "TransmitGranted", LiveHolder(a), a.id)
  BY <1>2, DispatchSays
<1> HIDE DEF b
<1>7. b \in Station BY <1>6 DEF Knows
<1>8. /\ Knows(b, EnterTx(s)) /\ EnterTx(s).radio = b.radio
      /\ Says(EnterTx(s)) = Says(b) \cup {Msg("TxStart", s.id)}
  BY <1>4, <1>5, <1>7, SendSays
<1>9. Knows(s, EnterTx(s)) BY <1>3, <1>6, <1>8, KnowsOn
<1> QED BY <1>3, <1>6, <1>8, <1>9

-----------------------------------------------------------------------------

LEMMA KnowsInforms ==
  ASSUME NEW s, NEW t, Knows(s, t), Informed(s)
  PROVE  /\ Informed(t) /\ t \in Station /\ t.id = s.id
         /\ t.beat = s.beat /\ t.inbound = s.inbound
BY DEF Knows, Informed

(* A station in contact neither doubts what it knows nor guards the floor. *)
LEMMA NoDoubt ==
  ASSUME NEW s \in Station, Informed(s), Settled = {s.id} => LiveHolder(s) = NoPeer
  PROVE  /\ SelfGrantAllowed(s)
         /\ Settled # {s.id} => ~InJoinGuardWindow(s)
         /\ \A p : ~GuardBars(s, p)
<1>1. Heartbeat \in Nat /\ Heartbeat # Off /\ s.inbound \in Timer(Heartbeat + 1)
  BY TimingTypes, TimerTypes DEF Station
<1>2. Watched(s) = Heartbeat BY <1>1 DEF Informed, Watched
<1>3. CASE Settled = {s.id}
  <2>1. s.roster \subseteq {s.id} /\ s.declared BY <1>3 DEF Informed
  <2>2. HasDirectIdleProof(s) /\ SelfGrantAllowed(s)
    BY <1>3, <2>1 DEF HasDirectIdleProof, RosterConverged, SelfGrantAllowed, MaySelfGrant
  <2> QED BY <1>3, <2>2 DEF GuardBars
<1>4. CASE Settled # {s.id}
  <2>1. ~LinkPaused(s) BY <1>1, <1>4 DEF Informed, LinkPaused, Timer
  <2>2. ~InJoinGuardWindow(s) /\ SelfGrantAllowed(s)
    BY <1>1, <1>2, <2>1 DEF InJoinGuardWindow, SelfGrantAllowed, MaySelfGrant
  <2> QED BY <1>4, <2>2 DEF GuardBars
<1> QED BY <1>3, <1>4

LEMMA NoteSays ==
  ASSUME NEW s \in Station, Informed(s), Settled # {s.id}
  PROVE  LET u == NoteLinkActivity(s)
         IN  /\ Same(s, u) /\ Informed(u) /\ u.inbound = 0 /\ u.beat = s.beat
             /\ u.radio = s.radio /\ Says(u) = Says(s)
<1> DEFINE u == NoteLinkActivity(s)
<1>1. Same(s, u) BY NoteLinkActivityKeeps
<1>2. Heartbeat \in Nat /\ Heartbeat # Off /\ s.inbound \in Timer(Heartbeat + 1) /\ 0 # Off
  BY TimingTypes, TimerTypes DEF Station, Off
<1>3. s.inbound <= Heartbeat /\ s.observing = Heartbeat BY DEF Informed
<1>4. ~(s.inbound > Heartbeat) BY <1>2, <1>3 DEF Timer, Off
<1>5. u = [s EXCEPT !.observing = IF @ = Off THEN 0 ELSE @, !.witnesses = s.witnesses, !.inbound = 0]
  BY <1>4 DEF NoteLinkActivity
<1>6. /\ u.observing = Heartbeat /\ u.inbound = 0 /\ u.roster = s.roster
      /\ u.declared = s.declared /\ u.expired = s.expired /\ u.pin = s.pin
      /\ u.urgent = s.urgent /\ u.beat = s.beat /\ u.radio = s.radio /\ u.out = s.out
  BY <1>2, <1>3, <1>5 DEF Station
<1> HIDE DEF u
<1>7. Informed(u) BY <1>1, <1>2, <1>6 DEF Informed, Same
<1> QED BY <1>1, <1>6, <1>7 DEF u, Says

LEMMA ReduceMoves ==
  ASSUME NEW r \in Radio, NEW e, NEW h, NEW i
  PROVE  /\ Reduce(r, e, h, i).phase = NextPhase(r.phase, e)
         /\ Reduce(r, e, h, i).speaker = Speaker(r.speaker, e, h, i)
BY DEF Reduce, Radio

LEMMA StartRxHears ==
  ASSUME NEW s \in Station, s.phase = "idle", Shown(s), NEW o, s.holder = o, s.lease > 0
  PROVE  LET t == StartRx(s) IN Hears(t, o, s.lease) /\ Shown(t)
<1> DEFINE t == StartRx(s)
<1>1. Same([s EXCEPT !.phase = "rx"], t) BY ShowEffect
<1>2. t.radio = Reduce(s.radio, "RemoteFloorStarted", LiveHolder(s), s.id) BY RxSays
<1>3. LiveHolder(s) = o BY DEF LiveHolder, Live
<1>4. s.radio \in Radio BY DEF Station
<1> HIDE DEF t
<1>5. t.radio.phase = NextPhase(s.radio.phase, "RemoteFloorStarted") /\ t.radio.speaker = o
  BY <1>2, <1>3, <1>4, ReduceMoves DEF Speaker
<1>6. t.phase = "rx" /\ t.holder = o /\ t.lease = s.lease /\ t.retry = s.retry
  BY <1>1 DEF Same, Station
<1>7. Shown(t) BY <1>5, <1>6 DEF Shown, ScreenOf, NextPhase
<1> QED BY <1>5, <1>6, <1>7 DEF Hears, t

LEMMA EndRxRests ==
  ASSUME NEW s \in Station, s.phase = "rx", Shown(s), s.holder = NoPeer, s.lease = 0
  PROVE  LET t == EndRx(s) IN Rests(t) /\ Shown(t)
<1> DEFINE t == EndRx(s)
<1>1. Same([s EXCEPT !.phase = "idle"], t) BY ShowEffect
<1>2. t.radio = Reduce(s.radio, "RemoteFloorEnded", LiveHolder(s), s.id) BY RxSays
<1>3. s.radio \in Radio BY DEF Station
<1> HIDE DEF t
<1>4. t.radio.phase = NextPhase(s.radio.phase, "RemoteFloorEnded")
  BY <1>2, <1>3, ReduceMoves
<1>5. t.phase = "idle" /\ t.holder = NoPeer /\ t.lease = 0 /\ t.retry = s.retry
  BY <1>1 DEF Same, Station
<1>6. Shown(t) BY <1>4, <1>5 DEF Shown, ScreenOf, NextPhase
<1> QED BY <1>5, <1>6 DEF Rests, t

LEMMA StopTxRests ==
  ASSUME NEW s \in Station, s.phase = "tx", Shown(s), s.holder = NoPeer, s.lease = 0
  PROVE  LET t == StopTx(s) IN Rests(t) /\ Shown(t)
<1> DEFINE t == StopTx(s)
<1>1. Same([s EXCEPT !.phase = "idle", !.totCut = Off, !.mic = FALSE], t) BY StopTxEffect
<1>2. t.radio = Reduce(s.radio, "EndTransmit", LiveHolder(s), s.id) BY StopTxSays
<1>3. s.radio \in Radio BY DEF Station
<1> HIDE DEF t
<1>4. t.radio.phase = NextPhase(s.radio.phase, "EndTransmit")
  BY <1>2, <1>3, ReduceMoves
<1>5. t.phase = "idle" /\ t.holder = NoPeer /\ t.lease = 0 /\ t.retry = s.retry
  BY <1>1 DEF Same, Station
<1>6. Shown(t) BY <1>4, <1>5 DEF Shown, ScreenOf, NextPhase
<1> QED BY <1>5, <1>6 DEF Rests, t

LEMMA EnterTxTalks ==
  ASSUME NEW s \in Station, LockoutOn => s.radio.phase = "txRequest",
         s.holder = s.id, s.lease = GrantLease
  PROVE  LET t == EnterTx(s) IN Talks(t, GrantLease) /\ Shown(t)
<1> DEFINE t == EnterTx(s)
<1>1. Same([s EXCEPT !.phase = "tx", !.retry = Off, !.totCut = Tot, !.mic = TRUE], t)
  BY EnterTxEffect
<1>2. t.radio = Reduce(s.radio, "TransmitGranted", LiveHolder(s), s.id) BY EnterTxSays
<1>3. s.radio \in Radio BY DEF Station
<1> HIDE DEF t
<1>4. LockoutOn => t.radio.phase = "tx"
  BY <1>2, <1>3, ReduceMoves DEF NextPhase
<1>5. /\ t.phase = "tx" /\ t.holder = t.id /\ t.lease = GrantLease /\ t.retry = Off
      /\ t.totCut = Tot
  BY <1>1 DEF Same, Station
<1>6. Shown(t) BY <1>4, <1>5 DEF Shown, ScreenOf
<1>7. Tot = GrantLease - LeasePad BY TimingAssumption DEF GrantLease
<1> QED BY <1>4, <1>5, <1>6, <1>7 DEF Talks, t

-----------------------------------------------------------------------------
(* Inbound messages on the hub.  A station that has noted the message is   *)
(* Reached.                                                                *)
Reached(s, t) ==
  /\ t \in Station /\ t.id = s.id /\ t.beat = s.beat /\ t.inbound = 0 /\ Informed(t)

LEMMA KnowsReaches ==
  ASSUME NEW s, NEW u, NEW t, Reached(s, u), Knows(u, t)
  PROVE  Reached(s, t)
BY KnowsInforms DEF Reached

(* What does not show: the station plays the same part afterwards.         *)
LEMMA SamePart ==
  ASSUME NEW s, NEW t, Same(s, t), t.radio = s.radio, Shown(s), NEW o, NEW n
  PROVE  /\ Shown(t)
         /\ Rests(s) => Rests(t)
         /\ Warned(s, o, n) => Warned(t, o, n)
         /\ Hears(s, o, n) => Hears(t, o, n)
         /\ Talks(s, n) => Talks(t, n)
         /\ Asks(s, n) => Asks(t, n)
         /\ Begs(s, o, n) => Begs(t, o, n)
         /\ Heeds(s, o, n) => Heeds(t, o, n)
BY DEF Same, Shown, Rests, Warned, Hears, Talks, Asks, Begs, Heeds

LEMMA WitnessSays ==
  ASSUME NEW s \in Station, NEW W \in SUBSET Peer
  PROVE  LET t == [s EXCEPT !.witnesses = W]
         IN  Same(s, t) /\ Knows(s, t) /\ t.radio = s.radio /\ Says(t) = Says(s)
<1> DEFINE t == [s EXCEPT !.witnesses = W]
<1>1. t \in Station BY DEF Station
<1> QED BY <1>1 DEF Same, Knows, Station, Says

(* The idle snapshot of a station that is not the holder changes nothing;  *)
(* that of the holder ends the reception.                                  *)
LEMMA HearsIdle ==
  ASSUME NEW s \in Station, Shown(s), NEW p \in Peer, p # s.id,
         NEW o \in Peer \cup {NoPeer}, NEW n \in 1..GrantLease
  PROVE  LET t == OnIdlePresence(s, p)
         IN  /\ Knows(s, t)
             /\ Rests(s) => Rests(t) /\ Shown(t) /\ Says(t) = Says(s)
             /\ Hears(s, o, n) /\ p # o => Hears(t, o, n) /\ Shown(t) /\ Says(t) = Says(s)
             /\ Warned(s, o, n) /\ p # o => Warned(t, o, n) /\ Shown(t) /\ Says(t) = Says(s)
             /\ Hears(s, p, n) \/ Warned(s, p, n) => Rests(t) /\ Shown(t) /\ Says(t) = Says(s)
<1> DEFINE a == [s EXCEPT !.witnesses = @ \cup {p}]
           u == DropLease(a)
           t == OnIdlePresence(s, p)
<1>1. s.witnesses \cup {p} \in SUBSET Peer /\ n > 0 /\ p # NoPeer
  BY NoPeerIsNobody, TimingTypes DEF Station
<1>2. Same(s, a) /\ Knows(s, a) /\ a.radio = s.radio /\ Says(a) = Says(s)
  BY <1>1, WitnessSays
<1>3. t = CASE LiveHolder(s) # p                   -> a
            [] LiveHolder(s) = p /\ s.phase = "rx" -> EndRx(u)
            [] OTHER                               -> u
  BY DEF OnIdlePresence
<1> HIDE DEF a, t
<1>4. a \in Station BY <1>2 DEF Same
<1>5. Same([a EXCEPT !.holder = NoPeer, !.lease = 0], u) BY <1>4, LeaseEffect
<1>6. Knows(a, u) /\ Says(u) = Says(a) /\ u.radio = a.radio BY <1>4, LeaseSays
<1> HIDE DEF u
<1>7. /\ u \in Station /\ u.holder = NoPeer /\ u.lease = 0 /\ u.phase = s.phase
      /\ u.retry = s.retry /\ u.radio = s.radio
  BY <1>2, <1>4, <1>5, <1>6 DEF Same, Station
<1>8. Shown(u) BY <1>7 DEF Shown
<1>9. s.phase = "rx" => Rests(EndRx(u)) /\ Shown(EndRx(u)) BY <1>7, <1>8, EndRxRests
<1>10. Knows(u, EndRx(u)) /\ Says(EndRx(u)) = Says(u) BY <1>7, RxSays
<1>11. Knows(s, u) BY <1>2, <1>6, KnowsOn
<1>12. Knows(s, EndRx(u)) BY <1>10, <1>11, KnowsOn
<1>13. Knows(s, t) BY <1>2, <1>3, <1>11, <1>12
<1>14. ASSUME Rests(s) PROVE Rests(t) /\ Shown(t) /\ Says(t) = Says(s)
  <2>1. LiveHolder(s) # p BY <1>1, <1>14 DEF Rests, LiveHolder, Live
  <2>2. t = a BY <1>3, <2>1
  <2> QED BY <1>2, <1>14, <2>2, SamePart
<1>15. ASSUME Hears(s, o, n), p # o PROVE Hears(t, o, n) /\ Shown(t) /\ Says(t) = Says(s)
  <2>1. LiveHolder(s) # p BY <1>1, <1>15 DEF Hears, LiveHolder, Live
  <2>2. t = a BY <1>3, <2>1
  <2> QED BY <1>2, <1>15, <2>2, SamePart
<1>16. ASSUME Hears(s, p, n) PROVE Rests(t) /\ Shown(t) /\ Says(t) = Says(s)
  <2>1. LiveHolder(s) = p /\ s.phase = "rx" BY <1>1, <1>16 DEF Hears, LiveHolder, Live
  <2>2. t = EndRx(u) BY <1>3, <2>1
  <2> QED BY <1>2, <1>6, <1>9, <1>10, <2>1, <2>2
<1>17. ASSUME Warned(s, o, n), p # o PROVE Warned(t, o, n) /\ Shown(t) /\ Says(t) = Says(s)
  <2>1. LiveHolder(s) # p BY <1>1, <1>17 DEF Warned, LiveHolder, Live
  <2>2. t = a BY <1>3, <2>1
  <2> QED BY <1>2, <1>17, <2>2, SamePart
<1>18. ASSUME Warned(s, p, n) PROVE Rests(t) /\ Shown(t) /\ Says(t) = Says(s)
  <2>1. LiveHolder(s) = p /\ s.phase = "idle" BY <1>1, <1>18 DEF Warned, LiveHolder, Live
  <2>2. t = u BY <1>3, <2>1
  <2> QED BY <1>2, <1>6, <1>7, <1>8, <2>1, <2>2 DEF Rests
<1> QED BY <1>13, <1>14, <1>15, <1>16, <1>17, <1>18 DEF t

LEMMA HearsEnd ==
  ASSUME NEW s \in Station, Shown(s), NEW p \in Peer, p # s.id,
         NEW o \in Peer \cup {NoPeer}, NEW n \in 1..GrantLease
  PROVE  LET t == OnRemoteEnd(s, p)
         IN  /\ Knows(s, t)
             /\ Rests(s) => Rests(t) /\ Shown(t) /\ Says(t) = Says(s)
             /\ Hears(s, o, n) /\ o # NoPeer /\ p # o => Hears(t, o, n) /\ Shown(t) /\ Says(t) = Says(s)
             /\ Warned(s, o, n) /\ o # NoPeer /\ p # o => Warned(t, o, n) /\ Shown(t) /\ Says(t) = Says(s)
             /\ Hears(s, p, n) \/ Warned(s, p, n) =>
                  Rests(t) /\ Shown(t) /\ Says(t) = Says(s) \cup {IdleNews(s.id)}
<1> DEFINE u == IF s.holder = p THEN ClearLease(s) ELSE s
           t == OnRemoteEnd(s, p)
<1>1. p # NoPeer BY NoPeerIsNobody
<1>2. t = CASE s.holder \notin {NoPeer, p}                   -> s
            [] s.holder \in {NoPeer, p} /\ s.phase = "rx"    -> EndRx(u)
            [] OTHER                                          -> u
  BY DEF OnRemoteEnd
<1>3. /\ Same([s EXCEPT !.holder = NoPeer, !.lease = 0], ClearLease(s))
      /\ Knows(s, ClearLease(s)) /\ Says(ClearLease(s)) = Says(s) \cup {IdleNews(s.id)}
      /\ ClearLease(s).radio = s.radio
  BY LeaseEffect, LeaseSays
<1>4. Knows(s, s) BY DEF Knows
<1>5. Knows(s, u) /\ u \in Station BY <1>3, <1>4 DEF Knows
<1>6. ASSUME s.holder = p
      PROVE  /\ u.holder = NoPeer /\ u.lease = 0 /\ u.phase = s.phase
             /\ u.retry = s.retry /\ u.radio = s.radio /\ Says(u) = Says(s) \cup {IdleNews(s.id)}
  BY <1>3, <1>6 DEF Same, Station
<1>7. s.holder # p => u = s OBVIOUS
<1> HIDE DEF u, t
<1>8. Knows(u, EndRx(u)) /\ Says(EndRx(u)) = Says(u) BY <1>5, RxSays
<1>9. Knows(s, EndRx(u)) BY <1>5, <1>8, KnowsOn
<1>10. Knows(s, t) BY <1>2, <1>4, <1>5, <1>9
<1>11. ASSUME Rests(s) PROVE Rests(t) /\ Shown(t) /\ Says(t) = Says(s)
  <2>1. t = s BY <1>1, <1>2, <1>7, <1>11 DEF Rests
  <2> QED BY <1>11, <2>1
<1>12. ASSUME Hears(s, o, n), o # NoPeer, p # o
       PROVE  Hears(t, o, n) /\ Shown(t) /\ Says(t) = Says(s)
  <2>1. t = s BY <1>1, <1>2, <1>12 DEF Hears
  <2> QED BY <1>12, <2>1
<1>13. ASSUME Hears(s, p, n)
       PROVE  Rests(t) /\ Shown(t) /\ Says(t) = Says(s) \cup {IdleNews(s.id)}
  <2>1. s.holder = p /\ s.phase = "rx" BY <1>13 DEF Hears
  <2>2. t = EndRx(u) BY <1>2, <2>1
  <2>3. Shown(u) BY <1>6, <2>1 DEF Shown
  <2>4. Rests(t) /\ Shown(t) BY <1>5, <1>6, <2>1, <2>2, <2>3, EndRxRests
  <2> QED BY <1>6, <1>8, <2>1, <2>2, <2>4
<1>14. ASSUME Warned(s, o, n), o # NoPeer, p # o
       PROVE  Warned(t, o, n) /\ Shown(t) /\ Says(t) = Says(s)
  <2>1. t = s BY <1>1, <1>2, <1>14 DEF Warned
  <2> QED BY <1>14, <2>1
<1>15. ASSUME Warned(s, p, n)
       PROVE  Rests(t) /\ Shown(t) /\ Says(t) = Says(s) \cup {IdleNews(s.id)}
  <2>1. s.holder = p /\ s.phase = "idle" BY <1>15 DEF Warned
  <2>2. t = u BY <1>2, <2>1
  <2>3. Rests(u) /\ Shown(u) BY <1>6, <2>1 DEF Rests, Shown
  <2> QED BY <1>6, <2>1, <2>2, <2>3
<1> QED BY <1>10, <1>11, <1>12, <1>13, <1>14, <1>15 DEF t

LEMMA NoteReaches ==
  ASSUME NEW s \in Station, Aware(s), Settled # {s.id}, NEW o, NEW n
  PROVE  LET u == NoteLinkActivity(s)
         IN  /\ Reached(s, u) /\ Same(s, u) /\ Shown(u)
             /\ u.radio = s.radio /\ Says(u) = Says(s)
             /\ Rests(s) => Rests(u)
             /\ Warned(s, o, n) => Warned(u, o, n)
             /\ Hears(s, o, n) => Hears(u, o, n)
             /\ Talks(s, n) => Talks(u, n)
             /\ Asks(s, n) => Asks(u, n)
             /\ Begs(s, o, n) => Begs(u, o, n)
             /\ Heeds(s, o, n) => Heeds(u, o, n)
<1> DEFINE u == NoteLinkActivity(s)
<1>1. /\ Same(s, u) /\ Informed(u) /\ u.inbound = 0 /\ u.beat = s.beat
      /\ u.radio = s.radio /\ Says(u) = Says(s)
  BY NoteSays DEF Aware
<1> HIDE DEF u
<1>2. Reached(s, u) BY <1>1 DEF Same, Reached
<1> QED BY <1>1, <1>2, SamePart DEF Aware, u

LEMMA FreeMessage ==
  ASSUME NEW s \in Station, Aware(s), Settled # {s.id},
         NEW p \in Peer, p # s.id, NEW m \in Ends(p),
         NEW o \in Peer \cup {NoPeer}, NEW n \in 1..GrantLease
  PROVE  LET t == OnMessage(s, m)
         IN  /\ Reached(s, t)
             /\ Rests(s) => Rests(t) /\ Shown(t) /\ Says(t) = Says(s)
             /\ Heeds(s, o, n) /\ o # NoPeer =>
                  /\ Shown(t) /\ Says(t) \subseteq Says(s) \cup {IdleNews(s.id)}
                  /\ p = o => Rests(t)
                  /\ p # o => Heeds(t, o, n)
<1> DEFINE u == NoteLinkActivity(s)
           t == OnMessage(s, m)
<1>1. /\ Reached(s, u) /\ Same(s, u) /\ Shown(u) /\ Says(u) = Says(s)
      /\ Rests(s) => Rests(u)
      /\ Heeds(s, o, n) => Heeds(u, o, n)
  BY NoteReaches
<1>2. u \in Station /\ u.id = s.id /\ p # u.id BY <1>1 DEF Reached
<1>3. m.peer = p /\ (m = IdleNews(p) => m.kind = "Presence" /\ m.holder = NoPeer)
      /\ (m # IdleNews(p) => m.kind = "TxEnd")
  <2>1. Msg("TxEnd", p).kind = "TxEnd" /\ Msg("TxEnd", p).peer = p BY DEF Msg
  <2>2. /\ IdleNews(p).kind = "Presence" /\ IdleNews(p).peer = p /\ IdleNews(p).holder = NoPeer
    BY DEF IdleNews, Msg
  <2> QED BY <2>1, <2>2 DEF Ends
<1>4. CASE m = IdleNews(p)
  <2>1. t = OnIdlePresence(u, p) BY <1>2, <1>3, <1>4 DEF OnMessage
  <2> HIDE DEF t, u
  <2>2. /\ Knows(u, t)
        /\ Rests(u) => Rests(t) /\ Shown(t) /\ Says(t) = Says(u)
        /\ Heeds(u, o, n) /\ p # o => Heeds(t, o, n) /\ Shown(t) /\ Says(t) = Says(u)
        /\ Heeds(u, p, n) => Rests(t) /\ Shown(t) /\ Says(t) = Says(u)
    BY <1>1, <1>2, <2>1, HearsIdle DEF Heeds
  <2>3. Reached(s, t) BY <1>1, <2>2, KnowsReaches
  <2> QED BY <1>1, <2>2, <2>3 DEF t
<1>5. CASE m # IdleNews(p)
  <2>1. t = OnRemoteEnd(u, p) BY <1>2, <1>3, <1>5 DEF OnMessage
  <2> HIDE DEF t, u
  <2>2. /\ Knows(u, t)
        /\ Rests(u) => Rests(t) /\ Shown(t) /\ Says(t) = Says(u)
        /\ Heeds(u, o, n) /\ o # NoPeer /\ p # o => Heeds(t, o, n) /\ Shown(t) /\ Says(t) = Says(u)
        /\ Heeds(u, p, n) => Rests(t) /\ Shown(t) /\ Says(t) = Says(u) \cup {IdleNews(u.id)}
    BY <1>1, <1>2, <2>1, HearsEnd DEF Heeds
  <2>3. Reached(s, t) BY <1>1, <2>2, KnowsReaches
  <2> QED BY <1>1, <1>2, <2>2, <2>3 DEF t
<1> QED BY <1>4, <1>5

LEMMA GrantedIsMessage ==
  ASSUME NEW o \in Peer, NEW n \in 1..GrantLease
  PROVE  Granted(o, n) \in Message
<1>1. n # 0 /\ n \in 0..GrantLease /\ 0 \in 0..GrantLease BY TimingTypes
<1> QED BY <1>1 DEF Granted, Msg, Message, Kind

LEMMA FreeDecides ==
  ASSUME NEW o \in Peer
  PROVE  LET v == Decide(o, FALSE, NoPeer, 0) IN v.grant /\ v.remaining = GrantLease
BY NoPeerIsNobody DEF Decide, Live

(* The lease and the answer an arbiter sends.                              *)
LEMMA GrantSends ==
  ASSUME NEW s \in Station, NEW o \in Peer, NEW n \in 1..GrantLease
  PROVE  LET a == InstallLease(s, o, n, TRUE)
             t == Send(a, Granted(o, n))
         IN  /\ Same([s EXCEPT !.holder = o, !.lease = n], t)
             /\ Knows(s, t) /\ t.radio = s.radio
             /\ Says(t) = Says(s) \cup {HeldNews(s.id, o, n), Granted(o, n)}
<1> DEFINE a == InstallLease(s, o, n, TRUE)
           t == Send(a, Granted(o, n))
<1>2. Same([s EXCEPT !.holder = o, !.lease = n], a) BY InstallLeaseEffect
<1>3. Knows(s, a) /\ a.radio = s.radio /\ Says(a) = Says(s) \cup {HeldNews(s.id, o, n)}
  BY InstallSays
<1> HIDE DEF a
<1>4. Granted(o, n) \in Message BY GrantedIsMessage
<1>5. a \in Station BY <1>2 DEF Same
<1>6. /\ Knows(a, t) /\ Same(a, t) /\ t.radio = a.radio
      /\ Says(t) = Says(a) \cup {Granted(o, n)}
  BY <1>4, <1>5, SendSays
<1> HIDE DEF t
<1>7. Knows(s, t) BY <1>3, <1>6, KnowsOn
<1>8. Same([s EXCEPT !.holder = o, !.lease = n], t) BY <1>2, <1>6 DEF Same
<1> QED BY <1>3, <1>6, <1>7, <1>8 DEF t, a

(* What another station knows of the floor once it is granted to o.        *)
Follows(s, o, n) == Hears(s, o, n) \/ Warned(s, o, n) \/ (Rests(s) /\ n = GrantLease)

(* An arbiter that is asked again grants again what is left.               *)
LEMMA GrantsOther ==
  ASSUME NEW s \in Station, Informed(s), Settled # {s.id}, Shown(s),
         NEW o \in Peer, o # s.id, NEW n \in 1..GrantLease, Follows(s, o, n)
  PROVE  LET t == Arbitrate(s, o, FALSE)
         IN  /\ Knows(s, t) /\ Shown(t)
             /\ Hears(s, o, n) => Hears(t, o, n)
             /\ ~Hears(s, o, n) => Warned(t, o, n)
             /\ Says(t) = Says(s) \cup {HeldNews(s.id, o, n), Granted(o, n)}
<1> DEFINE t == Send(InstallLease(s, o, n, TRUE), Granted(o, n))
<1>1. LET v == Decide(o, FALSE, s.holder, s.lease) IN v.grant /\ v.remaining = n
  <2>1. CASE Rests(s) /\ n = GrantLease BY <2>1, FreeDecides DEF Rests
  <2>2. CASE s.holder = o /\ s.lease = n
    <3>1. n > 0 BY TimingTypes
    <3>2. Live(s.holder, s.lease) = o BY <2>2, <3>1 DEF Live
    <3> QED BY <2>2, <3>2 DEF Decide
  <2> QED BY <2>1, <2>2 DEF Follows, Hears, Warned
<1>2. ~GuardBars(s, o) BY NoDoubt
<1>3. Arbitrate(s, o, FALSE) = Grant(s, o, n) BY <1>1, <1>2 DEF Arbitrate
<1>4. Grant(s, o, n) = t BY DEF Grant, Granted
<1>5. /\ Same([s EXCEPT !.holder = o, !.lease = n], t)
      /\ Knows(s, t) /\ t.radio = s.radio
      /\ Says(t) = Says(s) \cup {HeldNews(s.id, o, n), Granted(o, n)}
  BY GrantSends
<1> HIDE DEF t
<1>6. t.phase = s.phase /\ t.holder = o /\ t.lease = n /\ t.retry = s.retry
  BY <1>5 DEF Same, Station
<1>7. Shown(t) BY <1>5, <1>6 DEF Shown
<1>8. Hears(s, o, n) => Hears(t, o, n) BY <1>5, <1>6 DEF Hears
<1>9. ~Hears(s, o, n) => Warned(t, o, n) BY <1>6 DEF Follows, Warned, Rests
<1> QED BY <1>3, <1>4, <1>5, <1>7, <1>8, <1>9

(* An arbiter that knows of another's lease refuses.                       *)
LEMMA Refuses ==
  ASSUME NEW s \in Station, NEW o \in Peer, NEW n \in 1..GrantLease,
         s.holder = o, s.lease = n, NEW r \in Peer, r # o
  PROVE  /\ Arbitrate(s, r, FALSE) = DenyBusy(s, r)
         /\ LET t == Send(s, Msg("TxDeny", r))
            IN  /\ Knows(s, t) /\ Same(s, t) /\ t.radio = s.radio
                /\ Says(t) = Says(s) \cup {Msg("TxDeny", r)}
<1>1. n > 0 /\ o # NoPeer BY TimingTypes, NoPeerIsNobody
<1>2. ~Decide(r, FALSE, s.holder, s.lease).grant BY <1>1 DEF Decide, Live
<1>3. Arbitrate(s, r, FALSE) = DenyBusy(s, r) BY <1>2 DEF Arbitrate
<1>4. Msg("TxDeny", r) \in Message BY MsgType DEF Kind
<1> QED BY <1>3, <1>4, SendSays

LEMMA GrantsSelf ==
  ASSUME NEW s \in Station, Informed(s), s.phase = "awaiting",
         LockoutOn => s.radio.phase = "txRequest", s.holder = NoPeer, s.lease = 0
  PROVE  LET t == Arbitrate(s, s.id, FALSE)
         IN  /\ Knows(s, t) /\ Shown(t) /\ Talks(t, GrantLease)
             /\ Says(t) = Says(s) \cup {HeldNews(s.id, s.id, GrantLease),
                                        Granted(s.id, GrantLease), Msg("TxStart", s.id)}
<1> DEFINE u == Send(InstallLease(s, s.id, GrantLease, TRUE), Granted(s.id, GrantLease))
           t == EnterTx(u)
<1>0. s.id \in Peer /\ GrantLease \in 1..GrantLease BY TimingTypes DEF Station
<1>1. LET v == Decide(s.id, FALSE, s.holder, s.lease) IN v.grant /\ v.remaining = GrantLease
  BY <1>0, FreeDecides
<1>2. LiveHolder(s) = NoPeer BY DEF LiveHolder, Live
<1>3. ~GuardBars(s, s.id) BY <1>2, NoDoubt
<1>4. Arbitrate(s, s.id, FALSE) = Grant(s, s.id, GrantLease) BY <1>1, <1>3 DEF Arbitrate
<1>5. /\ Same([s EXCEPT !.holder = s.id, !.lease = GrantLease], u)
      /\ Knows(s, u) /\ u.radio = s.radio
      /\ Says(u) = Says(s) \cup {HeldNews(s.id, s.id, GrantLease), Granted(s.id, GrantLease)}
  BY <1>0, GrantSends
<1>6. Grant(s, s.id, GrantLease) = IF u.phase # "tx" THEN EnterTx(u) ELSE u BY DEF Grant, Granted
<1> HIDE DEF u
<1>7. /\ u \in Station /\ u.id = s.id /\ u.phase = "awaiting" /\ u.holder = u.id
      /\ u.lease = GrantLease
  BY <1>5 DEF Same, Station
<1>8. Talks(t, GrantLease) /\ Shown(t) BY <1>5, <1>7, EnterTxTalks
<1>9. Knows(u, t) /\ Says(t) = Says(u) \cup {Msg("TxStart", u.id)} BY <1>7, EnterTxSays
<1> HIDE DEF t
<1>10. Knows(s, t) BY <1>5, <1>9, KnowsOn
<1>11. Arbitrate(s, s.id, FALSE) = t BY <1>4, <1>6, <1>7 DEF t
<1> QED BY <1>5, <1>7, <1>8, <1>9, <1>10, <1>11

LEMMA InstallPart ==
  ASSUME NEW s \in Station, NEW o \in Peer, NEW n \in 1..GrantLease, NEW b \in BOOLEAN
  PROVE  LET t == InstallLease(s, o, n, b)
         IN  /\ Knows(s, t) /\ t \in Station
             /\ t.radio = s.radio /\ t.phase = s.phase /\ t.retry = s.retry
             /\ t.holder = o /\ t.lease = n /\ t.totCut = s.totCut /\ t.id = s.id
             /\ Shown(s) => Shown(t)
<1> DEFINE t == InstallLease(s, o, n, b)
<1>1. Same([s EXCEPT !.holder = o, !.lease = n], t) BY InstallLeaseEffect
<1>2. /\ Knows(s, t) /\ t.radio = s.radio
  BY InstallSays
<1> HIDE DEF t
<1>3. /\ t.phase = s.phase /\ t.retry = s.retry /\ t.holder = o /\ t.lease = n
      /\ t.totCut = s.totCut /\ t.id = s.id /\ t \in Station
  BY <1>1 DEF Same, Station
<1>4. Shown(s) => Shown(t) BY <1>2, <1>3 DEF Shown
<1> QED BY <1>1, <1>2, <1>3, <1>4 DEF t

LEMMA InstallTells ==
  ASSUME NEW s \in Station, NEW o \in Peer, NEW n \in 1..GrantLease
  PROVE  /\ Says(InstallLease(s, o, n, TRUE)) = Says(s) \cup {HeldNews(s.id, o, n)}
         /\ Says(InstallLease(s, o, n, FALSE)) = Says(s)
<1>1. n # 0 BY TimingTypes
<1>2. Says(InstallLease(s, o, n, FALSE)) = Says(s)
  BY <1>1 DEF InstallLease, Says, Station
<1>3. Says(InstallLease(s, o, n, TRUE)) = Says(s) \cup {HeldNews(s.id, o, n)}
  BY InstallSays
<1> QED BY <1>2, <1>3

(* A snapshot that names the holder: it is adopted by a station that knows *)
(* of none, and changes nothing for the others.                            *)
LEMMA HearsHeld ==
  ASSUME NEW s \in Station, Shown(s), Informed(s), NEW p \in Peer,
         NEW o \in Peer, NEW n \in 1..GrantLease, s.phase = "tx" => s.id = o
  PROVE  LET t == OnHeldPresence(s, HeldNews(p, o, n))
         IN  /\ Knows(s, t) /\ Says(t) = Says(s)
             /\ s.id # o /\ Rests(s) => Hears(t, o, n) /\ Shown(t)
             /\ s.id # o /\ Warned(s, o, n) => Warned(t, o, n) /\ Shown(t)
             /\ s.id # o /\ Hears(s, o, n) => Hears(t, o, n) /\ Shown(t)
             /\ s.id # o /\ Begs(s, o, n) => Begs(t, o, n) /\ Shown(t)
             /\ s.id = o /\ Asks(s, n) => Asks(t, n) /\ Shown(t)
             /\ s.id = o /\ Talks(s, n) => Talks(t, n) /\ Shown(t)
<1> DEFINE m == HeldNews(p, o, n)
           a == [s EXCEPT !.witnesses = @ \ {m.peer, m.holder}]
           remote == m.holder # s.id
           yielded == StopTx(IF a.holder = a.id THEN DropLease(a) ELSE a)
           w == InstallLease(a, o, n, FALSE)
           t == OnHeldPresence(s, m)
           stale == m.holder \in s.expired /\ LiveHolder(s) # m.holder
<1>1. m.peer = p /\ m.holder = o /\ m.lease = n BY DEF HeldNews, Msg
<1>2. n # 0 /\ n > 0 /\ o # NoPeer BY TimingTypes, NoPeerIsNobody
<1>3. ~stale BY DEF Informed
<1> HIDE DEF m
<1>4. t = CASE m.lease = 0 \/ stale -> a
            [] m.lease # 0 /\ ~stale /\ s.phase = "tx" ->
                 IF remote /\ InJoinGuardWindow(s)
                 THEN StartRx(InstallLease(yielded, m.holder, m.lease, FALSE)) ELSE a
            [] m.lease # 0 /\ ~stale /\ s.phase # "tx" /\ LiveHolder(s) = NoPeer ->
                 IF remote /\ s.phase # "rx" THEN StartRx(w) ELSE w
            [] OTHER -> a
  BY <1>1 DEF OnHeldPresence
<1>5. s.witnesses \ {m.peer, m.holder} \in SUBSET Peer BY DEF Station
<1>6. Same(s, a) /\ Knows(s, a) /\ a.radio = s.radio /\ Says(a) = Says(s)
  BY <1>5, WitnessSays
<1>7. a \in Station BY <1>6 DEF Same
<1> HIDE DEF a
<1>8. /\ Knows(a, w) /\ w \in Station /\ w.radio = a.radio /\ w.phase = a.phase
      /\ w.holder = o /\ w.lease = n /\ w.id = a.id
      /\ Shown(a) => Shown(w)
      /\ Says(w) = Says(a)
  <2>1. Knows(a, w) /\ Says(w) = Says(a) BY <1>7, InstallPart, InstallTells
  <2>2. w \in Station /\ w.radio = a.radio /\ w.phase = a.phase BY <1>7, InstallPart
  <2>3. w.holder = o /\ w.lease = n /\ w.id = a.id BY <1>7, InstallPart
  <2>4. Shown(a) => Shown(w) BY <1>7, InstallPart
  <2> QED BY <2>1, <2>2, <2>3, <2>4
<1> HIDE DEF w
<1>9. Knows(w, StartRx(w)) /\ Says(StartRx(w)) = Says(w) BY <1>8, RxSays
<1>10. Shown(a) BY <1>6, SamePart
<1> HIDE DEF t, yielded
<1>11. Knows(s, w) BY <1>6, <1>8, KnowsOn
<1>12. Knows(s, StartRx(w)) BY <1>9, <1>11, KnowsOn
<1>13. t \in {a, w, StartRx(w)} BY <1>1, <1>2, <1>3, <1>4
<1>14. Knows(s, t) /\ Says(t) = Says(s)
  BY <1>6, <1>8, <1>9, <1>11, <1>12, <1>13
<1>15. ASSUME s.id # o, Rests(s) PROVE Hears(t, o, n) /\ Shown(t)
  <2>1. LiveHolder(s) = NoPeer /\ s.phase = "idle" BY <1>15 DEF Rests, LiveHolder, Live
  <2>2. t = StartRx(w) BY <1>1, <1>2, <1>3, <1>4, <1>15, <2>1
  <2>3. w.phase = "idle" BY <1>6, <1>8, <2>1 DEF Same
  <2> QED BY <1>2, <1>8, <1>10, <2>2, <2>3, StartRxHears
<1>16. ASSUME s.lease = n, s.holder = o PROVE LiveHolder(s) = o
  BY <1>2, <1>16 DEF LiveHolder, Live
<1>17. ASSUME s.id # o, Warned(s, o, n) PROVE Warned(t, o, n) /\ Shown(t)
  <2>1. LiveHolder(s) = o /\ s.phase = "idle" BY <1>16, <1>17 DEF Warned
  <2>2. t = a BY <1>1, <1>2, <1>3, <1>4, <2>1
  <2> QED BY <1>6, <1>17, <2>2, SamePart
<1>18. ASSUME s.id # o, Hears(s, o, n) PROVE Hears(t, o, n) /\ Shown(t)
  <2>1. LiveHolder(s) = o /\ s.phase = "rx" BY <1>16, <1>18 DEF Hears
  <2>2. t = a BY <1>1, <1>2, <1>3, <1>4, <2>1
  <2> QED BY <1>6, <1>18, <2>2, SamePart
<1>19. ASSUME s.id = o, Talks(s, n) PROVE Talks(t, n) /\ Shown(t)
  <2>1. s.phase = "tx" /\ ~remote BY <1>1, <1>19 DEF Talks
  <2>2. t = a BY <1>1, <1>2, <1>3, <1>4, <2>1
  <2> QED BY <1>6, <1>19, <2>2, SamePart
<1>20. ASSUME s.id = o, Asks(s, n) PROVE Asks(t, n) /\ Shown(t)
  <2>1. s.phase = "awaiting" /\ ~remote BY <1>1, <1>20 DEF Asks
  <2> HIDE DEF remote
  <2>2. t \in {a, w} BY <1>1, <1>2, <1>3, <1>4, <2>1
  <2>3. Asks(a, n) BY <1>6, <1>20, SamePart
  <2>4. Asks(w, n) BY <1>6, <1>8, <1>20, <2>3 DEF Asks, Same
  <2> QED BY <1>8, <1>10, <2>2, <2>3, <2>4
<1>21. ASSUME s.id # o, Begs(s, o, n) PROVE Begs(t, o, n) /\ Shown(t)
  <2>1. LiveHolder(s) = o /\ s.phase = "awaiting" BY <1>16, <1>21 DEF Begs
  <2>2. t = a BY <1>1, <1>2, <1>3, <1>4, <2>1
  <2> QED BY <1>6, <1>21, <2>2, SamePart
<1> QED BY <1>14, <1>15, <1>17, <1>18, <1>19, <1>20, <1>21 DEF t, m

LEMMA HearsGrant ==
  ASSUME NEW s \in Station, Shown(s), NEW o \in Peer, NEW n \in 1..GrantLease,
         s.phase \in {"idle", "rx"}
  PROVE  LET t == OnOtherGrant(s, o, n)
         IN  /\ Knows(s, t) /\ Shown(t) /\ Says(t) = Says(s) \cup {HeldNews(s.id, o, n)}
             /\ Hears(s, o, n) => Hears(t, o, n)
             /\ s.phase = "idle" => Warned(t, o, n)
<1> DEFINE t == InstallLease(s, o, n, TRUE)
<1>1. /\ Knows(s, t) /\ t.phase = s.phase /\ t.holder = o /\ t.lease = n
      /\ t.radio = s.radio
  BY InstallPart
<1>2. Shown(t) /\ Says(t) = Says(s) \cup {HeldNews(s.id, o, n)}
  <2>1. Shown(t) BY InstallPart
  <2>2. Says(t) = Says(s) \cup {HeldNews(s.id, o, n)} BY InstallTells
  <2> QED BY <2>1, <2>2
<1>3. OnOtherGrant(s, o, n) = t
  BY <1>1 DEF OnOtherGrant
<1> HIDE DEF t
<1>4. Hears(s, o, n) => Hears(t, o, n) BY <1>1 DEF Hears
<1>5. s.phase = "idle" => Warned(t, o, n) BY <1>1 DEF Warned
<1> QED BY <1>1, <1>2, <1>3, <1>4, <1>5

(* A request that is given up.                                             *)
LEMMA GivesUp ==
  ASSUME NEW s \in Station, NEW ph \in Phase
  PROVE  LET t == Dispatch([s EXCEPT !.phase = ph, !.urgent = FALSE, !.retry = Off],
                           "TransmitDenied")
         IN  /\ Knows(s, t) /\ Says(t) = Says(s) /\ t.phase = ph /\ t.retry = Off
             /\ t.holder = s.holder /\ t.lease = s.lease
<1> DEFINE d == [s EXCEPT !.phase = ph, !.urgent = FALSE, !.retry = Off]
           t == Dispatch(d, "TransmitDenied")
<1>1. Off \in Timer(Retry) BY TimingTypes, TimerTypes
<1>2. d \in Station BY <1>1 DEF Station
<1>3. /\ Knows(s, d) /\ Says(d) = Says(s) /\ d.phase = ph /\ d.retry = Off
      /\ d.holder = s.holder /\ d.lease = s.lease
  BY <1>2 DEF Knows, Says, Station
<1> HIDE DEF d
<1>4. Knows(d, t) /\ Says(t) = Says(d) BY <1>2, DispatchSays
<1>5. t.phase = d.phase /\ t.retry = d.retry /\ t.holder = d.holder /\ t.lease = d.lease
  BY <1>2 DEF Dispatch, Station
<1> HIDE DEF t
<1>6. Knows(s, t) BY <1>3, <1>4, KnowsOn
<1> QED BY <1>3, <1>4, <1>5, <1>6 DEF t, d

(* A station that asked in vain hears of the other's grant, hears the      *)
(* other start, or is refused: it does not wait any longer.                *)
LEMMA BeggarGrant ==
  ASSUME ~LockoutOn, NEW s \in Station, NEW o \in Peer, NEW n \in 1..GrantLease,
         Begs(s, o, n)
  PROVE  LET t == OnOtherGrant(s, o, n)
         IN  /\ Knows(s, t) /\ Shown(t) /\ Hears(t, o, n)
             /\ Says(t) = Says(s) \cup {HeldNews(s.id, o, n)}
<1> DEFINE a == InstallLease(s, o, n, TRUE)
           b == Dispatch([a EXCEPT !.phase = "rx", !.urgent = FALSE, !.retry = Off],
                         "TransmitDenied")
           t == StartRx(b)
<1>1. Knows(s, a) /\ a \in Station /\ a.phase = "awaiting" /\ a.holder = o /\ a.lease = n
  BY InstallPart DEF Begs
<1>2. Says(a) = Says(s) \cup {HeldNews(s.id, o, n)} BY InstallTells
<1>3. OnOtherGrant(s, o, n) = t
  <2>1. a.phase = "awaiting" BY <1>1
  <2>2. OnOtherGrant(s, o, n)
          = CASE a.phase = "tx" -> StopTx(a) [] a.phase = "awaiting" -> t [] OTHER -> a
    BY DEF OnOtherGrant
  <2> HIDE DEF a, t
  <2> QED BY <2>1, <2>2
<1> HIDE DEF a
<1>4. /\ Knows(a, b) /\ Says(b) = Says(a) /\ b.phase = "rx" /\ b.retry = Off
      /\ b.holder = o /\ b.lease = n
  BY <1>1, GivesUp DEF Phase
<1> HIDE DEF b
<1>5. b \in Station BY <1>4 DEF Knows
<1>6. Knows(b, t) /\ Says(t) = Says(b) /\ Same([b EXCEPT !.phase = "rx"], t)
  BY <1>5, RxSays, ShowEffect
<1>7. t.phase = "rx" /\ t.holder = o /\ t.lease = n /\ t.retry = Off
  BY <1>4, <1>5, <1>6 DEF Same, Station
<1> HIDE DEF t
<1>8. Knows(s, t)
  <2>1. Knows(s, b) BY <1>1, <1>4, KnowsOn
  <2> QED BY <1>6, <2>1, KnowsOn
<1> QED BY <1>2, <1>3, <1>4, <1>6, <1>7, <1>8 DEF Hears, Shown

LEMMA BeggarStart ==
  ASSUME ~LockoutOn, NEW s \in Station, NEW o \in Peer, NEW n \in 1..GrantLease,
         Begs(s, o, n)
  PROVE  LET t == OnRemoteStart(s, o)
         IN  Knows(s, t) /\ Shown(t) /\ Hears(t, o, n) /\ Says(t) = Says(s)
<1> DEFINE b == Dispatch([s EXCEPT !.urgent = FALSE, !.retry = Off], "TransmitDenied")
           v == [b EXCEPT !.witnesses = @ \ {o}]
           t == StartRx(v)
<1>1. n > 0 /\ o # NoPeer BY TimingTypes, NoPeerIsNobody
<1>2. [s EXCEPT !.urgent = FALSE, !.retry = Off]
        = [s EXCEPT !.phase = "awaiting", !.urgent = FALSE, !.retry = Off]
  BY DEF Begs, Station
<1>3. /\ Knows(s, b) /\ Says(b) = Says(s) /\ b.phase = "awaiting" /\ b.retry = Off
      /\ b.holder = o /\ b.lease = n
  <2> DEFINE e == Dispatch([s EXCEPT !.phase = "awaiting", !.urgent = FALSE, !.retry = Off],
                           "TransmitDenied")
  <2>1. /\ Knows(s, e) /\ Says(e) = Says(s) /\ e.phase = "awaiting" /\ e.retry = Off
        /\ e.holder = s.holder /\ e.lease = s.lease
    BY GivesUp DEF Phase
  <2>2. b = e BY <1>2, ZenonT(30)
  <2> HIDE DEF b, e
  <2> QED BY <2>1, <2>2 DEF Begs
<1>4. OnRemoteStart(s, o) = t
  <2>1. LiveHolder(b) # NoPeer BY <1>1, <1>3 DEF LiveHolder, Live
  <2>2. b \in Station BY <1>3 DEF Knows
  <2> HIDE DEF b
  <2>3. v.phase = "awaiting" BY <1>3, <2>2 DEF Station
  <2> QED BY <2>1, <2>3 DEF OnRemoteStart, b, Begs
<1> HIDE DEF b
<1>5. b \in Station /\ b.witnesses \ {o} \in SUBSET Peer BY <1>3 DEF Knows, Station
<1>6. Same(b, v) /\ Knows(b, v) /\ Says(v) = Says(b) BY <1>5, WitnessSays
<1> HIDE DEF v
<1>7. v \in Station /\ v.retry = Off /\ v.holder = o /\ v.lease = n BY <1>3, <1>6 DEF Same
<1>8. Knows(v, t) /\ Says(t) = Says(v) /\ Same([v EXCEPT !.phase = "rx"], t)
  BY <1>7, RxSays, ShowEffect
<1>9. t.phase = "rx" /\ t.holder = o /\ t.lease = n /\ t.retry = Off
  BY <1>7, <1>8 DEF Same, Station
<1> HIDE DEF t
<1>10. Knows(s, t)
  <2>1. Knows(s, v) BY <1>3, <1>6, KnowsOn
  <2> QED BY <1>8, <2>1, KnowsOn
<1> QED BY <1>3, <1>4, <1>6, <1>8, <1>9, <1>10 DEF Hears, Shown

LEMMA BeggarDeny ==
  ASSUME ~LockoutOn, NEW s \in Station, NEW o \in Peer, NEW n \in 1..GrantLease,
         Begs(s, o, n)
  PROVE  LET t == OnDeny(s, s.id)
         IN  Knows(s, t) /\ Shown(t) /\ Warned(t, o, n) /\ Says(t) = Says(s)
<1> DEFINE t == Dispatch([s EXCEPT !.phase = "idle", !.urgent = FALSE, !.retry = Off],
                         "TransmitDenied")
<1>1. /\ Knows(s, t) /\ Says(t) = Says(s) /\ t.phase = "idle" /\ t.retry = Off
      /\ t.holder = s.holder /\ t.lease = s.lease
  BY GivesUp DEF Phase
<1>2. OnDeny(s, s.id) = t
  <2>1. [[s EXCEPT !.retry = Off] EXCEPT !.phase = "idle", !.urgent = FALSE]
          = [s EXCEPT !.phase = "idle", !.urgent = FALSE, !.retry = Off]
    BY DEF Station
  <2> QED BY <2>1 DEF OnDeny, Denied, Begs
<1> HIDE DEF t
<1> QED BY <1>1, <1>2 DEF Warned, Shown, Begs

(* The answer to a request starts the transmission, and reaches a talker   *)
(* as a renewal of what it holds.                                          *)
LEMMA AnswerHeard ==
  ASSUME NEW s \in Station, Informed(s), Shown(s), Settled # {s.id},
         NEW n \in 1..GrantLease
  PROVE  LET t == OnOwnGrant(s, n)
         IN  /\ Talks(s, n) =>
                  /\ Knows(s, t) /\ Shown(t) /\ Talks(t, n)
                  /\ Says(t) = Says(s) \cup {HeldNews(s.id, s.id, n)}
             /\ Asks(s, n) /\ n = GrantLease =>
                  /\ Knows(s, t) /\ Shown(t) /\ Talks(t, n)
                  /\ Says(t) = Says(s) \cup {HeldNews(s.id, s.id, n), Msg("TxStart", s.id)}
<1> DEFINE u == InstallLease(s, s.id, n, TRUE)
           t == OnOwnGrant(s, n)
<1>1. s.id \in Peer BY DEF Station
<1>2. /\ Knows(s, u) /\ u \in Station /\ u.phase = s.phase /\ u.holder = u.id
      /\ u.lease = n /\ u.id = s.id /\ u.radio = s.radio /\ u.totCut = s.totCut
  <2>1. Knows(s, u) /\ u \in Station /\ u.id = s.id BY <1>1, InstallPart
  <2>2. u.holder = s.id /\ u.lease = n BY <1>1, InstallPart
  <2>3. u.phase = s.phase /\ u.radio = s.radio /\ u.totCut = s.totCut BY <1>1, InstallPart
  <2> QED BY <2>1, <2>2, <2>3
<1>3. Shown(u) /\ Says(u) = Says(s) \cup {HeldNews(s.id, s.id, n)}
  <2>1. Shown(u) BY <1>1, InstallPart
  <2>2. Says(u) = Says(s) \cup {HeldNews(s.id, s.id, n)} BY <1>1, InstallTells
  <2> QED BY <2>1, <2>2
<1>4. ASSUME s.holder \in {NoPeer, s.id} PROVE ~IgnoreGrant(s)
  <2>1. LiveHolder(s) \in {NoPeer, s.id} BY <1>4 DEF LiveHolder, Live
  <2>2. ~InJoinGuardWindow(s) BY NoDoubt
  <2> QED BY <2>1, <2>2 DEF IgnoreGrant, RemoteHold
<1>5. t = CASE IgnoreGrant(s) -> s
            [] ~IgnoreGrant(s) /\ u.phase # "tx" -> EnterTx(u)
            [] OTHER -> u
  BY DEF OnOwnGrant
<1> HIDE DEF u, t
<1>6. ASSUME Talks(s, n)
      PROVE  /\ Knows(s, t) /\ Shown(t) /\ Talks(t, n)
             /\ Says(t) = Says(s) \cup {HeldNews(s.id, s.id, n)}
  <2>1. t = u BY <1>2, <1>4, <1>5, <1>6 DEF Talks
  <2> QED BY <1>2, <1>3, <1>6, <2>1 DEF Talks
<1>7. ASSUME Asks(s, n), n = GrantLease
      PROVE  /\ Knows(s, t) /\ Shown(t) /\ Talks(t, n)
             /\ Says(t) = Says(s) \cup {HeldNews(s.id, s.id, n), Msg("TxStart", s.id)}
  <2>1. t = EnterTx(u) BY <1>2, <1>4, <1>5, <1>7 DEF Asks
  <2>2. Talks(t, n) /\ Shown(t) BY <1>2, <1>7, <2>1, EnterTxTalks DEF Asks
  <2>3. Knows(u, t) /\ Says(t) = Says(u) \cup {Msg("TxStart", u.id)} BY <1>2, <2>1, EnterTxSays
  <2>4. Knows(s, t) BY <1>2, <2>3, KnowsOn
  <2> QED BY <1>2, <1>3, <2>2, <2>3, <2>4
<1> QED BY <1>6, <1>7 DEF t

LEMMA HearsStart ==
  ASSUME NEW s \in Station, Shown(s), NEW o \in Peer, NEW n \in 1..GrantLease
  PROVE  LET t == OnRemoteStart(s, o)
         IN  Hears(s, o, n) \/ Warned(s, o, n) \/ (Rests(s) /\ n = GrantLease) =>
               Knows(s, t) /\ Shown(t) /\ Hears(t, o, n) /\ Says(t) = Says(s)
<1> SUFFICES ASSUME Hears(s, o, n) \/ Warned(s, o, n) \/ (Rests(s) /\ n = GrantLease)
             PROVE  LET t == OnRemoteStart(s, o)
                    IN  Knows(s, t) /\ Shown(t) /\ Hears(t, o, n) /\ Says(t) = Says(s)
  OBVIOUS
<1> DEFINE w == InstallLease(s, o, GrantLease, FALSE)
           u == IF LiveHolder(s) = NoPeer THEN w ELSE s
           v == [u EXCEPT !.witnesses = @ \ {o}]
           t == OnRemoteStart(s, o)
<1>1. GrantLease \in 1..GrantLease /\ n > 0 /\ o # NoPeer BY TimingTypes, NoPeerIsNobody
<1>2. s.phase \in {"idle", "rx"} BY DEF Hears, Warned, Rests
<1>3. t = IF v.phase # "rx" THEN StartRx(v) ELSE v BY <1>2 DEF OnRemoteStart
<1>4. /\ Knows(s, w) /\ w \in Station /\ w.phase = s.phase /\ w.holder = o
      /\ w.lease = GrantLease /\ w.radio = s.radio
  BY <1>1, InstallPart
<1>5. Shown(w) /\ Says(w) = Says(s) BY <1>1, InstallPart, InstallTells
<1> HIDE DEF w
<1>6. Knows(s, s) BY DEF Knows
<1>7. /\ u \in Station /\ Knows(s, u) /\ Shown(u) /\ u.phase = s.phase /\ u.holder = o
      /\ u.lease = n /\ u.radio = s.radio /\ Says(u) = Says(s)
  <2>1. CASE Rests(s) /\ n = GrantLease
    BY <1>1, <1>4, <1>5, <2>1 DEF Rests, LiveHolder, Live
  <2>2. CASE Hears(s, o, n) \/ Warned(s, o, n)
    BY <1>1, <1>6, <2>2 DEF Hears, Warned, LiveHolder, Live
  <2> QED BY <2>1, <2>2
<1> HIDE DEF u
<1>8. u.witnesses \ {o} \in SUBSET Peer BY <1>7 DEF Station
<1>9. Same(u, v) /\ Knows(u, v) /\ v.radio = u.radio /\ Says(v) = Says(u)
  BY <1>7, <1>8, WitnessSays
<1> HIDE DEF v, t
<1>10. /\ v \in Station /\ Knows(s, v) /\ v.phase = s.phase /\ v.holder = o /\ v.lease = n
       /\ v.radio = s.radio /\ Says(v) = Says(s)
  BY <1>7, <1>9, KnowsOn DEF Same
<1>11. Shown(v) BY <1>7, <1>9, SamePart
<1>12. CASE s.phase = "rx"
  <2>1. Hears(s, o, n) BY <1>12 DEF Warned, Rests
  <2>2. t = v BY <1>3, <1>10, <1>12
  <2> QED BY <1>10, <1>11, <2>1, <2>2 DEF Hears, t
<1>13. CASE s.phase = "idle"
  <2>1. t = StartRx(v) BY <1>3, <1>10, <1>13
  <2>2. Hears(t, o, n) /\ Shown(t) BY <1>1, <1>10, <1>11, <1>13, <2>1, StartRxHears
  <2>3. Knows(v, t) /\ Says(t) = Says(v) BY <1>10, <2>1, RxSays
  <2>4. Knows(s, t) BY <1>10, <2>3, KnowsOn
  <2> QED BY <1>10, <2>2, <2>3, <2>4 DEF t
<1> QED BY <1>2, <1>12, <1>13

LEMMA AskedMessage ==
  ASSUME NEW s \in Station, Aware(s), Settled # {s.id}, Rests(s),
         NEW o \in Peer, o # s.id
  PROVE  LET t == OnMessage(s, Msg("TxReq", o))
         IN  /\ Reached(s, t) /\ Shown(t)
             /\ s.id # Elect(Settled) => Rests(t) /\ Says(t) = Says(s)
             /\ s.id = Elect(Settled) =>
                  /\ Warned(t, o, GrantLease)
                  /\ Says(t) = Says(s) \cup {HeldNews(s.id, o, GrantLease), Granted(o, GrantLease)}
<1> DEFINE u == NoteLinkActivity(s)
           m == Msg("TxReq", o)
           t == OnMessage(s, m)
<1>1. Reached(s, u) /\ Shown(u) /\ Says(u) = Says(s) /\ Rests(u)
  BY NoteReaches
<1>2. /\ u \in Station /\ u.id = s.id /\ o # u.id /\ Informed(u)
  BY <1>1 DEF Reached
<1>3. m.kind = "TxReq" /\ m.peer = o /\ m.urgent = FALSE BY DEF Msg
<1>4. t = IF IsLocalArbiter(u) THEN Arbitrate(u, o, FALSE) ELSE u
  BY <1>2, <1>3 DEF OnMessage
<1>5. IsLocalArbiter(u) <=> s.id = Elect(Settled)
  BY <1>2 DEF IsLocalArbiter, Informed
<1> HIDE DEF u, m, t
<1>6. CASE s.id # Elect(Settled) BY <1>1, <1>4, <1>5, <1>6 DEF t, m
<1>7. CASE s.id = Elect(Settled)
  <2>1. Follows(u, o, GrantLease) /\ ~Hears(u, o, GrantLease) /\ GrantLease \in 1..GrantLease
    BY <1>1, TimingTypes DEF Follows, Hears, Rests
  <2>2. /\ Knows(u, t) /\ Shown(t) /\ Warned(t, o, GrantLease)
        /\ Says(t) = Says(u) \cup {HeldNews(u.id, o, GrantLease), Granted(o, GrantLease)}
    BY <1>1, <1>2, <1>4, <1>5, <1>7, <2>1, GrantsOther
  <2>3. Reached(s, t) BY <1>1, <2>2, KnowsReaches
  <2> QED BY <1>1, <1>2, <1>7, <2>2, <2>3 DEF t, m
<1> QED BY <1>6, <1>7

LEMMA TakenMessage ==
  ASSUME NEW s \in Station, Aware(s), Settled # {s.id}, NEW o \in Peer, o # s.id,
         NEW p \in Peer, p # s.id, p \in Settled, NEW n \in 1..GrantLease, Follows(s, o, n),
         Rests(s) => s.id # Elect(Settled), NEW m \in TakenNews(p, o, n)
  PROVE  LET t == OnMessage(s, m)
         IN  /\ Reached(s, t) /\ Shown(t) /\ Follows(t, o, n)
             /\ Rests(t) => Rests(s)
             /\ Says(t) \subseteq Says(s) \cup {HeldNews(s.id, o, n), Granted(o, n)}
                                          \cup {Msg("TxDeny", r) : r \in Settled \ {o}}
             /\ Hears(s, o, n) \/ m = Msg("TxStart", o) => Hears(t, o, n)
             /\ s.id = Elect(Settled) /\ m = Msg("TxReq", p) /\ p # o =>
                  Msg("TxDeny", p) \in Says(t)
<1> DEFINE u == NoteLinkActivity(s)
           t == OnMessage(s, m)
           More == {Msg("TxDeny", r) : r \in Settled \ {o}}
           Done == /\ Reached(s, t) /\ Shown(t) /\ Follows(t, o, n)
                   /\ Rests(t) => Rests(s)
                   /\ Says(t) \subseteq Says(s) \cup {HeldNews(s.id, o, n), Granted(o, n)} \cup More
                   /\ Hears(s, o, n) \/ m = Msg("TxStart", o) => Hears(t, o, n)
                   /\ s.id = Elect(Settled) /\ m = Msg("TxReq", p) /\ p # o =>
                        Msg("TxDeny", p) \in Says(t)
<1>1. /\ Reached(s, u) /\ Shown(u) /\ Says(u) = Says(s)
      /\ Rests(s) => Rests(u)
      /\ Warned(s, o, n) => Warned(u, o, n)
      /\ Hears(s, o, n) => Hears(u, o, n)
  BY NoteReaches
<1>2. u \in Station /\ u.id = s.id /\ Informed(u) BY <1>1 DEF Reached
<1>3. Hears(u, o, n) \/ Warned(u, o, n) \/ (Rests(u) /\ n = GrantLease)
  BY <1>1 DEF Follows
<1>4. u.phase \in {"idle", "rx"} BY <1>3 DEF Hears, Warned, Rests
<1>5. /\ HeldNews(p, o, n).kind = "Presence" /\ HeldNews(p, o, n).peer = p
      /\ HeldNews(p, o, n).holder = o /\ o # NoPeer
  BY NoPeerIsNobody DEF HeldNews, Msg
<1>6. Granted(o, n).kind = "TxGrant" /\ Granted(o, n).peer = o /\ Granted(o, n).lease = n
  BY DEF Granted, Msg
<1>7. Msg("TxStart", o).kind = "TxStart" /\ Msg("TxStart", o).peer = o BY DEF Msg
<1>8. /\ Msg("TxReq", p).kind = "TxReq" /\ Msg("TxReq", p).peer = p
      /\ Msg("TxReq", p).urgent = FALSE
  BY DEF Msg
<1>9. CASE m = HeldNews(p, o, n)
  <2>1. t = OnHeldPresence(u, m) BY <1>2, <1>5, <1>9 DEF OnMessage
  <2> HIDE DEF u, t
  <2>2. /\ Knows(u, t) /\ Says(t) = Says(u)
        /\ Rests(u) => Hears(t, o, n) /\ Shown(t)
        /\ Warned(u, o, n) => Warned(t, o, n) /\ Shown(t)
        /\ Hears(u, o, n) => Hears(t, o, n) /\ Shown(t)
    BY <1>1, <1>2, <1>4, <1>9, <2>1, HearsHeld
  <2>3. Reached(s, t) BY <1>1, <2>2, KnowsReaches
  <2>4. m # Msg("TxStart", o) /\ m # Msg("TxReq", p) BY <1>5, <1>7, <1>8, <1>9
  <2>5. Hears(t, o, n) \/ Warned(t, o, n) BY <1>3, <2>2
  <2>6. ~Rests(t) BY <1>5, <2>5 DEF Hears, Warned, Rests
  <2>7. Done BY <1>1, <1>3, <2>2, <2>3, <2>4, <2>5, <2>6 DEF Follows
  <2> QED BY <2>7 DEF t
<1>10. CASE m = Granted(o, n)
  <2>1. t = OnOtherGrant(u, o, n) BY <1>2, <1>6, <1>10 DEF OnMessage
  <2> HIDE DEF u, t
  <2>2. /\ Knows(u, t) /\ Shown(t) /\ Says(t) = Says(u) \cup {HeldNews(u.id, o, n)}
        /\ Hears(u, o, n) => Hears(t, o, n)
        /\ u.phase = "idle" => Warned(t, o, n)
    BY <1>1, <1>2, <1>4, <2>1, HearsGrant
  <2>3. Reached(s, t) BY <1>1, <2>2, KnowsReaches
  <2>4. m # Msg("TxStart", o) /\ m # Msg("TxReq", p) BY <1>6, <1>7, <1>8, <1>10
  <2>5. Hears(t, o, n) \/ Warned(t, o, n) BY <1>3, <2>2 DEF Warned, Rests
  <2>6. ~Rests(t) BY <1>5, <2>5 DEF Hears, Warned, Rests
  <2>7. Done BY <1>1, <1>2, <2>2, <2>3, <2>4, <2>5, <2>6 DEF Follows
  <2> QED BY <2>7 DEF t
<1>11. CASE m = Msg("TxStart", o)
  <2>1. t = OnRemoteStart(u, o) BY <1>2, <1>7, <1>11 DEF OnMessage
  <2> HIDE DEF u, t
  <2>2. Knows(u, t) /\ Shown(t) /\ Hears(t, o, n) /\ Says(t) = Says(u)
    BY <1>1, <1>2, <1>3, <2>1, HearsStart
  <2>3. Reached(s, t) BY <1>1, <2>2, KnowsReaches
  <2>4. m # Msg("TxReq", p) BY <1>7, <1>8, <1>11
  <2>5. ~Rests(t) BY <2>2 DEF Hears, Rests
  <2>6. Done BY <1>1, <2>2, <2>3, <2>4, <2>5 DEF Follows
  <2> QED BY <2>6 DEF t
<1>12. CASE m = Msg("TxReq", p)
  <2>1. t = IF IsLocalArbiter(u) THEN Arbitrate(u, p, FALSE) ELSE u
    BY <1>2, <1>8, <1>12 DEF OnMessage
  <2>2. IsLocalArbiter(u) <=> s.id = Elect(Settled)
    BY <1>2 DEF IsLocalArbiter, Informed
  <2> HIDE DEF u, t
  <2>3. m # Msg("TxStart", o) BY <1>7, <1>8, <1>12
  <2>4. CASE s.id = Elect(Settled) /\ p = o
    <3>1. t = Arbitrate(u, o, FALSE) BY <2>1, <2>2, <2>4
    <3>2. Follows(u, o, n) BY <1>3 DEF Follows
    <3>3. /\ Knows(u, t) /\ Shown(t)
          /\ Hears(u, o, n) => Hears(t, o, n)
          /\ ~Hears(u, o, n) => Warned(t, o, n)
          /\ Says(t) = Says(u) \cup {HeldNews(u.id, o, n), Granted(o, n)}
      BY <1>1, <1>2, <3>1, <3>2, GrantsOther
    <3>4. Reached(s, t) BY <1>1, <3>3, KnowsReaches
    <3>5. ~Rests(t) BY <1>5, <3>3 DEF Hears, Warned, Rests
    <3>6. Done BY <1>1, <1>2, <2>3, <2>4, <3>3, <3>4, <3>5 DEF Follows
    <3> QED BY <3>6 DEF t
  <2>5. CASE s.id = Elect(Settled) /\ p # o
    <3>1. Hears(u, o, n) \/ Warned(u, o, n) BY <1>1, <2>5 DEF Follows
    <3>2. u.holder = o /\ u.lease = n BY <3>1 DEF Hears, Warned
    <3>3. t = DenyBusy(u, p) BY <1>2, <2>1, <2>2, <2>5, <3>2, Refuses
    <3>4. t = Send(u, Msg("TxDeny", p)) BY <1>2, <3>3 DEF DenyBusy
    <3>5. /\ Knows(u, t) /\ Same(u, t) /\ t.radio = u.radio
          /\ Says(t) = Says(u) \cup {Msg("TxDeny", p)}
      BY <1>2, <2>5, <3>2, <3>4, Refuses
    <3>6. /\ Shown(t) /\ (Hears(u, o, n) => Hears(t, o, n))
          /\ (Warned(u, o, n) => Warned(t, o, n))
      BY <1>1, <3>5, SamePart
    <3>7. Reached(s, t) BY <1>1, <3>5, KnowsReaches
    <3>8. Hears(t, o, n) \/ Warned(t, o, n) BY <3>1, <3>6
    <3>9. ~Rests(t) BY <1>5, <3>8 DEF Hears, Warned, Rests
    <3>10. Msg("TxDeny", p) \in More BY <2>5
    <3> HIDE DEF More
    <3>11. Done BY <1>1, <2>3, <3>5, <3>6, <3>7, <3>8, <3>9, <3>10 DEF Follows
    <3> QED BY <3>11 DEF t, More
  <2>6. CASE s.id # Elect(Settled)
    <3>1. t = u BY <2>1, <2>2, <2>6
    <3>2. Rests(u) => Rests(s) BY <1>1, <1>5 DEF Follows, Hears, Warned, Rests
    <3>3. Done BY <1>1, <1>3, <2>3, <2>6, <3>1, <3>2 DEF Follows
    <3> QED BY <3>3 DEF t
  <2> QED BY <2>4, <2>5, <2>6
<1>13. ASSUME NEW r \in Settled \ {o}, m = Msg("TxDeny", r) PROVE Done
  <2>1. m.kind = "TxDeny" /\ m.peer = r BY <1>13 DEF Msg
  <2>2. t = OnDeny(u, r) BY <2>1 DEF OnMessage
  <2>3. m # Msg("TxStart", o) /\ m # Msg("TxReq", p) BY <1>7, <1>8, <2>1
  <2> HIDE DEF u, t
  <2>4. t = u BY <1>4, <2>2 DEF OnDeny
  <2>5. Rests(u) => Rests(s) BY <1>1, <1>5 DEF Follows, Hears, Warned, Rests
  <2> QED BY <1>1, <1>3, <2>3, <2>4, <2>5 DEF Follows
<1> QED BY <1>9, <1>10, <1>11, <1>12, <1>13 DEF TakenNews

LEMMA HolderMessage ==
  ASSUME NEW s \in Station, Aware(s), Settled # {s.id}, NEW p \in Peer, p # s.id,
         p \in Settled, NEW n \in 1..GrantLease, NEW m \in TakenNews(p, s.id, n)
  PROVE  LET t == OnMessage(s, m)
         IN  /\ Talks(s, n) =>
                  /\ Reached(s, t) /\ Shown(t) /\ Talks(t, n)
                  /\ Says(t) \subseteq Says(s) \cup {HeldNews(s.id, s.id, n)}
                                               \cup {Msg("TxDeny", r) : r \in Settled \ {s.id}}
                  /\ s.id = Elect(Settled) /\ m = Msg("TxReq", p) => Msg("TxDeny", p) \in Says(t)
             /\ Asks(s, n) /\ s.id # Elect(Settled) /\ m # Granted(s.id, n) =>
                  Reached(s, t) /\ Shown(t) /\ Asks(t, n) /\ Says(t) = Says(s)
             /\ Asks(s, n) /\ m = Granted(s.id, n) /\ n = GrantLease =>
                  /\ Reached(s, t) /\ Shown(t) /\ Talks(t, n)
                  /\ Says(t) = Says(s) \cup {HeldNews(s.id, s.id, n), Msg("TxStart", s.id)}
<1> DEFINE u == NoteLinkActivity(s)
           t == OnMessage(s, m)
           o == s.id
           More == {Msg("TxDeny", r) : r \in Settled \ {o}}
<1>1. /\ Reached(s, u) /\ Shown(u) /\ Says(u) = Says(s)
      /\ Talks(s, n) => Talks(u, n)
      /\ Asks(s, n) => Asks(u, n)
  BY NoteReaches
<1>2. u \in Station /\ u.id = o /\ Informed(u) /\ o \in Peer BY <1>1 DEF Reached, Station
<1>3. /\ HeldNews(p, o, n).kind = "Presence" /\ HeldNews(p, o, n).peer = p
      /\ HeldNews(p, o, n).holder = o /\ o # NoPeer
  BY <1>2, NoPeerIsNobody DEF HeldNews, Msg
<1>4. Granted(o, n).kind = "TxGrant" /\ Granted(o, n).peer = o /\ Granted(o, n).lease = n
  BY DEF Granted, Msg
<1>5. /\ Msg("TxReq", p).kind = "TxReq" /\ Msg("TxReq", p).peer = p
      /\ Msg("TxReq", p).urgent = FALSE
  BY DEF Msg
<1>6. CASE m = HeldNews(p, o, n)
  <2>1. t = OnHeldPresence(u, m) BY <1>2, <1>3, <1>6 DEF OnMessage
  <2>2. m # Granted(o, n) /\ m # Msg("TxReq", p) BY <1>3, <1>4, <1>5, <1>6
  <2> HIDE DEF u, t, o
  <2>3. /\ Knows(u, t) /\ Says(t) = Says(u)
        /\ Asks(u, n) => Asks(t, n) /\ Shown(t)
        /\ Talks(u, n) => Talks(t, n) /\ Shown(t)
    BY <1>1, <1>2, <1>6, <2>1, HearsHeld
  <2>4. Reached(s, t) BY <1>1, <2>3, KnowsReaches
  <2> QED BY <1>1, <2>2, <2>3, <2>4 DEF t, o
<1>7. CASE m = Granted(o, n)
  <2>1. t = OnOwnGrant(u, n) BY <1>2, <1>4, <1>7 DEF OnMessage
  <2>2. m # Msg("TxReq", p) BY <1>4, <1>5, <1>7
  <2> HIDE DEF u, t
  <2>3. /\ Talks(u, n) =>
              /\ Knows(u, t) /\ Shown(t) /\ Talks(t, n)
              /\ Says(t) = Says(u) \cup {HeldNews(u.id, u.id, n)}
        /\ Asks(u, n) /\ n = GrantLease =>
              /\ Knows(u, t) /\ Shown(t) /\ Talks(t, n)
              /\ Says(t) = Says(u) \cup {HeldNews(u.id, u.id, n), Msg("TxStart", u.id)}
    BY <1>1, <1>2, <2>1, AnswerHeard
  <2>4. Knows(u, t) => Reached(s, t) BY <1>1, KnowsReaches
  <2> QED BY <1>1, <1>2, <1>7, <2>2, <2>3, <2>4 DEF t
<1>8. CASE m = Msg("TxReq", p)
  <2>1. t = IF IsLocalArbiter(u) THEN Arbitrate(u, p, FALSE) ELSE u
    BY <1>2, <1>5, <1>8 DEF OnMessage
  <2>2. IsLocalArbiter(u) <=> o = Elect(Settled)
    BY <1>2 DEF IsLocalArbiter, Informed
  <2>3. m # Granted(o, n) BY <1>4, <1>5, <1>8
  <2> HIDE DEF u, t
  <2>4. CASE o # Elect(Settled)
    <3>1. t = u BY <2>1, <2>2, <2>4
    <3> QED BY <1>1, <2>3, <2>4, <3>1 DEF t
  <2>5. CASE o = Elect(Settled)
    <3> SUFFICES ASSUME Talks(s, n)
                 PROVE  /\ Reached(s, t) /\ Shown(t) /\ Talks(t, n)
                        /\ Says(t) \subseteq Says(s) \cup {HeldNews(o, o, n)} \cup More
                        /\ Msg("TxDeny", p) \in Says(t)
      BY <2>3, <2>5 DEF t
    <3>1. u.holder = o /\ u.lease = n /\ Talks(u, n) BY <1>1, <1>2 DEF Talks
    <3>2. t = DenyBusy(u, p) BY <1>2, <2>1, <2>2, <2>5, <3>1, Refuses
    <3>3. t = Send(u, Msg("TxDeny", p)) BY <1>2, <3>2 DEF DenyBusy
    <3>4. /\ Knows(u, t) /\ Same(u, t) /\ t.radio = u.radio
          /\ Says(t) = Says(u) \cup {Msg("TxDeny", p)}
      BY <1>2, <3>1, <3>3, Refuses
    <3>5. Shown(t) /\ Talks(t, n) BY <1>1, <3>1, <3>4, SamePart
    <3>6. Reached(s, t) BY <1>1, <3>4, KnowsReaches
    <3>7. Msg("TxDeny", p) \in More OBVIOUS
    <3> HIDE DEF More
    <3> QED BY <1>1, <3>4, <3>5, <3>6, <3>7
  <2> QED BY <2>4, <2>5
<1>9. ASSUME NEW r \in Settled \ {o}, m = Msg("TxDeny", r)
      PROVE  /\ m # Msg("TxReq", p) /\ m # Granted(o, n)
             /\ Reached(s, t) /\ Shown(t) /\ Says(t) = Says(s)
             /\ (Talks(s, n) => Talks(t, n)) /\ (Asks(s, n) => Asks(t, n))
  <2>1. m.kind = "TxDeny" /\ m.peer = r BY <1>9 DEF Msg
  <2>2. t = OnDeny(u, r) BY <2>1 DEF OnMessage
  <2>3. m # Granted(o, n) /\ m # Msg("TxReq", p) BY <1>4, <1>5, <2>1
  <2> HIDE DEF u, t
  <2>4. t = u BY <1>2, <2>2 DEF OnDeny
  <2> QED BY <1>1, <2>3, <2>4
<1>10. \/ m \in {HeldNews(p, o, n), Granted(o, n), Msg("TxReq", p)}
       \/ \E r \in Settled \ {o} : m = Msg("TxDeny", r)
  BY DEF TakenNews
<1>11. CASE \E r \in Settled \ {o} : m = Msg("TxDeny", r) BY <1>9, <1>11
<1> QED BY <1>6, <1>7, <1>8, <1>10, <1>11

(* A station that asked in vain stops waiting when it hears the holder, or *)
(* is refused, and goes on until then.                                     *)
LEMMA BeggarMessage ==
  ASSUME ~LockoutOn, NEW s \in Station, Aware(s), Settled # {s.id}, s.id # Elect(Settled),
         NEW o \in Peer, o # s.id, NEW p \in Peer, p # s.id, NEW n \in 1..GrantLease,
         Begs(s, o, n), NEW m \in TakenNews(p, o, n)
  PROVE  LET t == OnMessage(s, m)
         IN  /\ Reached(s, t) /\ Shown(t)
             /\ Says(t) \subseteq Says(s) \cup {HeldNews(s.id, o, n)}
             /\ Begs(t, o, n) \/ Heeds(t, o, n)
             /\ m = Msg("TxDeny", s.id) => ~Begs(t, o, n)
<1> DEFINE u == NoteLinkActivity(s)
           t == OnMessage(s, m)
           Done == /\ Reached(s, t) /\ Shown(t)
                   /\ Says(t) \subseteq Says(s) \cup {HeldNews(s.id, o, n)}
                   /\ Begs(t, o, n) \/ Heeds(t, o, n)
                   /\ m = Msg("TxDeny", s.id) => ~Begs(t, o, n)
<1>1. Reached(s, u) /\ Shown(u) /\ Says(u) = Says(s) /\ Begs(u, o, n)
  BY NoteReaches
<1>2. u \in Station /\ u.id = s.id /\ Informed(u) BY <1>1 DEF Reached
<1>3. u.phase = "awaiting" BY <1>1 DEF Begs
<1>4. /\ HeldNews(p, o, n).kind = "Presence" /\ HeldNews(p, o, n).peer = p
      /\ HeldNews(p, o, n).holder = o /\ o # NoPeer
  BY NoPeerIsNobody DEF HeldNews, Msg
<1>5. Granted(o, n).kind = "TxGrant" /\ Granted(o, n).peer = o /\ Granted(o, n).lease = n
  BY DEF Granted, Msg
<1>6. /\ Msg("TxStart", o).kind = "TxStart" /\ Msg("TxStart", o).peer = o
      /\ Msg("TxReq", p).kind = "TxReq" /\ Msg("TxReq", p).peer = p
      /\ \A r : Msg("TxDeny", r).kind = "TxDeny" /\ Msg("TxDeny", r).peer = r
  BY DEF Msg
<1>7. CASE m = HeldNews(p, o, n)
  <2>1. t = OnHeldPresence(u, m) BY <1>2, <1>4, <1>7 DEF OnMessage
  <2> HIDE DEF u, t
  <2>2. Knows(u, t) /\ Says(t) = Says(u) /\ Begs(t, o, n) /\ Shown(t)
    BY <1>1, <1>2, <1>3, <1>7, <2>1, HearsHeld
  <2>3. Reached(s, t) BY <1>1, <2>2, KnowsReaches
  <2>4. m # Msg("TxDeny", s.id) BY <1>4, <1>6, <1>7
  <2>5. Done BY <1>1, <2>2, <2>3, <2>4
  <2> QED BY <2>5 DEF t
<1>8. CASE m = Granted(o, n)
  <2>1. t = OnOtherGrant(u, o, n) BY <1>2, <1>5, <1>8 DEF OnMessage
  <2> HIDE DEF u, t
  <2>2. /\ Knows(u, t) /\ Shown(t) /\ Hears(t, o, n)
        /\ Says(t) = Says(u) \cup {HeldNews(u.id, o, n)}
    BY <1>1, <1>2, <2>1, BeggarGrant
  <2>3. Reached(s, t) BY <1>1, <2>2, KnowsReaches
  <2>4. m # Msg("TxDeny", s.id) BY <1>5, <1>6, <1>8
  <2>5. Done BY <1>1, <1>2, <2>2, <2>3, <2>4 DEF Heeds
  <2> QED BY <2>5 DEF t
<1>9. CASE m = Msg("TxStart", o)
  <2>1. t = OnRemoteStart(u, o) BY <1>2, <1>6, <1>9 DEF OnMessage
  <2> HIDE DEF u, t
  <2>2. Knows(u, t) /\ Shown(t) /\ Hears(t, o, n) /\ Says(t) = Says(u)
    BY <1>1, <1>2, <2>1, BeggarStart
  <2>3. Reached(s, t) BY <1>1, <2>2, KnowsReaches
  <2>4. m # Msg("TxDeny", s.id) BY <1>6, <1>9
  <2>5. Done BY <1>1, <2>2, <2>3, <2>4 DEF Heeds
  <2> QED BY <2>5 DEF t
<1>10. CASE m = Msg("TxReq", p)
  <2>1. ~IsLocalArbiter(u) BY <1>2 DEF IsLocalArbiter, Informed
  <2>2. t = u BY <1>6, <1>10, <2>1 DEF OnMessage
  <2> HIDE DEF u, t
  <2>3. m # Msg("TxDeny", s.id) BY <1>6, <1>10
  <2>4. Done BY <1>1, <2>2, <2>3
  <2> QED BY <2>4 DEF t
<1>11. ASSUME NEW r \in Settled \ {o}, m = Msg("TxDeny", r) PROVE Done
  <2>1. t = OnDeny(u, r) BY <1>6, <1>11 DEF OnMessage
  <2> HIDE DEF u, t
  <2>2. CASE r = s.id
    <3>1. Knows(u, t) /\ Shown(t) /\ Warned(t, o, n) /\ Says(t) = Says(u)
      BY <1>1, <1>2, <2>1, <2>2, BeggarDeny
    <3>2. Reached(s, t) BY <1>1, <3>1, KnowsReaches
    <3>3. ~Begs(t, o, n) BY <3>1 DEF Begs, Warned
    <3> QED BY <1>1, <3>1, <3>2, <3>3 DEF Heeds
  <2>3. CASE r # s.id
    <3>1. t = u BY <1>2, <2>1, <2>3 DEF OnDeny
    <3>2. m # Msg("TxDeny", s.id) BY <1>6, <1>11, <2>3
    <3> QED BY <1>1, <3>1, <3>2
  <2> QED BY <2>2, <2>3
<1>12. m \in {HeldNews(p, o, n), Granted(o, n), Msg("TxStart", o), Msg("TxReq", p)}
       \/ \E r \in Settled \ {o} : m = Msg("TxDeny", r)
  BY DEF TakenNews
<1>13. CASE \E r \in Settled \ {o} : m = Msg("TxDeny", r) BY <1>11, <1>13
<1> QED BY <1>7, <1>8, <1>9, <1>10, <1>12, <1>13

-----------------------------------------------------------------------------
(* The users and the timers.                                               *)

LEMMA RequestSays ==
  ASSUME NEW s \in Station, Informed(s), Shown(s), s.phase \in {"idle", "rx"}, ~LockedOut(s)
  PROVE  LET t == Dispatch([s EXCEPT !.attempts = 0, !.urgent = FALSE, !.phase = "awaiting"],
                           "RequestTransmit")
         IN  /\ RequestTransmit(s, FALSE)
                   = IF s.id = Elect(Settled) THEN Arbitrate(t, t.id, FALSE) ELSE SendTxReq(t)
             /\ Knows(s, t) /\ Says(t) = Says(s) /\ t.phase = "awaiting" /\ ~t.urgent
             /\ t.attempts = 0 /\ t.retry = Off /\ t.holder = s.holder /\ t.lease = s.lease
             /\ s.radio.phase = "idle" => t.radio.phase = "txRequest"
<1> DEFINE a == [s EXCEPT !.attempts = 0, !.urgent = FALSE, !.phase = "awaiting"]
           t == Dispatch(a, "RequestTransmit")
<1>1. s.retry = Off BY DEF Shown
<1>2. s.phase \notin {"tx", "awaiting"} OBVIOUS
<1>3. RequestTransmit(s, FALSE) = BeginRequest(s, FALSE) BY <1>2 DEF RequestTransmit
<1>4. BeginRequest(s, FALSE)
        = IF IsLocalArbiter(t) THEN Arbitrate(t, t.id, FALSE) ELSE SendTxReq(t)
  BY DEF BeginRequest
<1>5. 0 \in 0..Attempts /\ "awaiting" \in Phase BY TimingTypes DEF Phase
<1>6. a \in Station BY <1>5 DEF Station
<1>7. /\ Knows(s, a) /\ Says(a) = Says(s) /\ a.phase = "awaiting" /\ ~a.urgent
      /\ a.attempts = 0 /\ a.radio = s.radio /\ a.holder = s.holder /\ a.lease = s.lease
      /\ a.retry = Off
  BY <1>1, <1>6 DEF Knows, Says, Station
<1> HIDE DEF a
<1>8. /\ Knows(a, t) /\ Says(t) = Says(a)
      /\ t.radio = Reduce(a.radio, "RequestTransmit", LiveHolder(a), a.id)
  BY <1>6, DispatchSays
<1>9. t.urgent = a.urgent /\ Same(a, t)
  BY <1>6, ShownKeeps DEF Dispatch, Station
<1> HIDE DEF t
<1>10. a.radio \in Radio BY <1>6 DEF Station
<1>11. s.radio.phase = "idle" => t.radio.phase = "txRequest"
  BY <1>7, <1>8, <1>10, ReduceMoves DEF NextPhase
<1>12. Knows(s, t) BY <1>7, <1>8, KnowsOn
<1>13. IsLocalArbiter(t) <=> s.id = Elect(Settled)
  BY <1>12, KnowsInforms DEF IsLocalArbiter, Informed
<1> QED BY <1>3, <1>4, <1>7, <1>8, <1>9, <1>11, <1>12, <1>13 DEF Same, t, a

(* A press at rest: nobody else holds the floor, and the screen asks.      *)
LEMMA RestRequests ==
  ASSUME NEW s \in Station, Shown(s), Rests(s), s.radio.phase # "off"
  PROVE  ~LockedOut(s) /\ s.phase \in {"idle", "rx"} /\ (LockoutOn => s.radio.phase = "idle")
<1>1. ~LockedOut(s) BY DEF Rests, LockedOut, RemoteHold, LiveHolder, Live
<1> QED BY <1>1 DEF Rests, Shown, ScreenOf

LEMMA ArbiterPresses ==
  ASSUME NEW s \in Station, Informed(s), Shown(s), Rests(s), s.radio.phase # "off",
         s.id = Elect(Settled)
  PROVE  LET t == RequestTransmit(s, FALSE)
         IN  /\ Knows(s, t) /\ Shown(t) /\ Talks(t, GrantLease)
             /\ Says(t) = Says(s) \cup {HeldNews(s.id, s.id, GrantLease),
                                        Granted(s.id, GrantLease), Msg("TxStart", s.id)}
<1> DEFINE r == RequestTransmit(s, FALSE)
<1>0. ~LockedOut(s) /\ s.phase \in {"idle", "rx"} BY RestRequests
<1>1. PICK t : /\ r = IF s.id = Elect(Settled) THEN Arbitrate(t, t.id, FALSE) ELSE SendTxReq(t)
               /\ Knows(s, t) /\ Says(t) = Says(s) /\ t.phase = "awaiting"
               /\ t.holder = s.holder /\ t.lease = s.lease
               /\ s.radio.phase = "idle" => t.radio.phase = "txRequest"
  BY <1>0, RequestSays
<1>2. s.holder = NoPeer /\ s.lease = 0 /\ (LockoutOn => t.radio.phase = "txRequest")
  BY <1>1, RestRequests DEF Rests
<1> HIDE DEF r
<1>3. t \in Station /\ t.id = s.id /\ Informed(t) BY <1>1, KnowsInforms
<1>4. /\ Knows(t, r) /\ Shown(r) /\ Talks(r, GrantLease)
      /\ Says(r) = Says(t) \cup {HeldNews(t.id, t.id, GrantLease),
                                 Granted(t.id, GrantLease), Msg("TxStart", t.id)}
  BY <1>1, <1>2, <1>3, GrantsSelf
<1>5. Knows(s, r) BY <1>1, <1>4, KnowsOn
<1> QED BY <1>1, <1>3, <1>4, <1>5 DEF r

LEMMA RequestGoes ==
  ASSUME NEW s \in Station, s.phase = "awaiting", ~s.urgent, s.attempts = 0
  PROVE  LET r == SendTxReq(s)
         IN  /\ Knows(s, r) /\ Says(r) = Says(s) \cup {Msg("TxReq", s.id)}
             /\ r.phase = "awaiting" /\ r.holder = s.holder /\ r.lease = s.lease
             /\ r.radio = s.radio
<1> DEFINE a == [s EXCEPT !.attempts = @ + 1, !.retry = Retry]
           r == SendTxReq(s)
<1>1. Retry \in Timer(Retry) /\ 0 + 1 \in 0..Attempts
  BY TimingAssumption, TimingTypes, TimerTypes
<1>2. a \in Station BY <1>1, ZenonT(40) DEF Station
<1>3. /\ Knows(s, a) /\ Says(a) = Says(s) /\ a.phase = "awaiting" /\ a.radio = s.radio
      /\ a.holder = s.holder /\ a.lease = s.lease /\ a.id = s.id
  BY <1>2 DEF Knows, Says, Station
<1>4. s.urgent = FALSE BY DEF Station
<1>5. r = Send(a, [Msg("TxReq", s.id) EXCEPT !.urgent = FALSE]) BY <1>4 DEF SendTxReq
<1>6. r = Send(a, Msg("TxReq", s.id)) BY <1>5, PlainRequest
<1> HIDE DEF a, r
<1>7. Msg("TxReq", s.id) \in Message BY MsgType DEF Kind, Station
<1>8. Knows(a, r) /\ Same(a, r) /\ r.radio = a.radio /\ Says(r) = Says(a) \cup {Msg("TxReq", s.id)}
  BY <1>2, <1>6, <1>7, SendSays
<1>9. Knows(s, r) BY <1>3, <1>8, KnowsOn
<1> QED BY <1>3, <1>8, <1>9 DEF r, Same

LEMMA OtherPresses ==
  ASSUME NEW s \in Station, Informed(s), Shown(s), Rests(s), s.radio.phase # "off",
         s.id # Elect(Settled)
  PROVE  LET t == RequestTransmit(s, FALSE)
         IN  /\ Knows(s, t) /\ Shown(t) /\ Asks(t, 0) /\ t.holder = NoPeer
             /\ Says(t) = Says(s) \cup {Msg("TxReq", s.id)}
<1> DEFINE r == RequestTransmit(s, FALSE)
<1>0. ~LockedOut(s) /\ s.phase \in {"idle", "rx"} BY RestRequests
<1>1. PICK t : /\ r = IF s.id = Elect(Settled) THEN Arbitrate(t, t.id, FALSE) ELSE SendTxReq(t)
               /\ Knows(s, t) /\ Says(t) = Says(s) /\ t.phase = "awaiting" /\ ~t.urgent
               /\ t.attempts = 0 /\ t.holder = s.holder /\ t.lease = s.lease
               /\ s.radio.phase = "idle" => t.radio.phase = "txRequest"
  BY <1>0, RequestSays
<1> HIDE DEF r
<1>2. s.holder = NoPeer /\ s.lease = 0 /\ (LockoutOn => t.radio.phase = "txRequest")
  BY <1>1, RestRequests DEF Rests
<1>3. t \in Station /\ t.id = s.id BY <1>1, KnowsInforms
<1>4. /\ Knows(t, r) /\ Says(r) = Says(t) \cup {Msg("TxReq", t.id)}
      /\ r.phase = "awaiting" /\ r.holder = t.holder /\ r.lease = t.lease /\ r.radio = t.radio
  BY <1>1, <1>3, RequestGoes
<1>5. Knows(s, r) BY <1>1, <1>4, KnowsOn
<1>6. Asks(r, 0) BY <1>1, <1>2, <1>4 DEF Asks
<1>7. Shown(r) BY <1>6 DEF Asks, Shown, ScreenOf
<1> QED BY <1>1, <1>2, <1>3, <1>4, <1>5, <1>6, <1>7 DEF r

(* Busy lockout answers a press while another talks.                       *)
LEMMA BusyPresses ==
  ASSUME NEW s \in Station, Informed(s), Shown(s), Settled # {s.id}, s.id \in Settled,
         NEW o \in Peer, o # s.id, NEW n \in 1..GrantLease, Heeds(s, o, n)
  PROVE  LET t == RequestTransmit(s, FALSE)
         IN  /\ Knows(s, t) /\ Shown(t)
             /\ \/ Heeds(t, o, n) /\ Says(t) = Says(s)
                \/ Heeds(t, o, n) /\ Says(t) = Says(s) \cup {Msg("TxDeny", s.id)}
                \/ /\ ~LockoutOn /\ s.id # Elect(Settled)
                   /\ Begs(t, o, n) /\ Says(t) = Says(s) \cup {Msg("TxReq", s.id)}
<1> DEFINE r == RequestTransmit(s, FALSE)
<1>1. n > 0 /\ o # NoPeer /\ s.phase \in {"idle", "rx"} /\ s.holder = o /\ s.lease = n
  BY NoPeerIsNobody, TimingTypes DEF Heeds, Hears, Warned
<1>2. LiveHolder(s) = o BY <1>1 DEF LiveHolder, Live
<1>3. CASE s.id \in Lockout
  <2> DEFINE d == Dispatch(s, "RequestTransmit")
             t == Dispatch(d, "TransmitDenied")
  <2>1. SelfGrantAllowed(s) BY NoDoubt
  <2>2. LockedOut(s) BY <1>1, <1>2, <1>3, <2>1 DEF LockedOut, RemoteHold
  <2>3. r = t BY <1>1, <2>2 DEF RequestTransmit
  <2>4. ASSUME NEW x \in Station, Shown(x), Heeds(x, o, n),
               NEW e \in {"RequestTransmit", "TransmitDenied"}
        PROVE  LET u == Dispatch(x, e)
               IN  Knows(x, u) /\ u \in Station /\ Shown(u) /\ Heeds(u, o, n) /\ Says(u) = Says(x)
    <3> DEFINE u == Dispatch(x, e)
    <3>1. Same(x, u) BY <2>4, ShownKeeps
    <3>2. Knows(x, u) /\ Says(u) = Says(x) /\ u.radio = Reduce(x.radio, e, LiveHolder(x), x.id)
      BY <2>4, DispatchSays
    <3> HIDE DEF u
    <3>3. x.radio \in Radio BY DEF Station
    <3>4. LockoutOn => x.radio.phase \in {"off", "rxActive"}
      BY <2>4 DEF Heeds, Hears, Shown, ScreenOf
    <3>5. LockoutOn => u.radio.phase = x.radio.phase /\ u.radio.speaker = x.radio.speaker
      BY <3>2, <3>3, <3>4, ReduceMoves DEF NextPhase, Speaker
    <3>6. Shown(u) BY <2>4, <3>1, <3>5 DEF Same, Shown
    <3>7. Heeds(u, o, n) BY <2>4, <3>1, <3>5 DEF Same, Heeds, Hears, Warned
    <3> QED BY <3>1, <3>2, <3>6, <3>7 DEF u, Same
  <2>5. Knows(s, d) /\ d \in Station /\ Shown(d) /\ Heeds(d, o, n) /\ Says(d) = Says(s)
    BY <2>4
  <2> HIDE DEF d
  <2>6. Knows(d, t) /\ Shown(t) /\ Heeds(t, o, n) /\ Says(t) = Says(d) BY <2>4, <2>5
  <2>7. Knows(s, t) BY <2>5, <2>6, KnowsOn
  <2> QED BY <2>3, <2>5, <2>6, <2>7
<1>4. CASE s.id \notin Lockout
  <2>1. ~LockoutOn /\ ~LockedOut(s) BY <1>4 DEF LockoutOn, LockedOut
  <2>2. PICK t : /\ r = IF s.id = Elect(Settled) THEN Arbitrate(t, t.id, FALSE) ELSE SendTxReq(t)
                 /\ Knows(s, t) /\ Says(t) = Says(s) /\ t.phase = "awaiting" /\ ~t.urgent
                 /\ t.attempts = 0 /\ t.retry = Off /\ t.holder = o /\ t.lease = n
    BY <1>1, <2>1, RequestSays
  <2> HIDE DEF r
  <2>3. t \in Station /\ t.id = s.id /\ t.id \in Peer BY <2>2, KnowsInforms DEF Station
  <2>4. CASE s.id = Elect(Settled)
    <3> DEFINE a == Send(t, Msg("TxDeny", t.id))
               b == Dispatch([a EXCEPT !.phase = "idle", !.urgent = FALSE], "TransmitDenied")
    <3>1. r = DenyBusy(t, t.id) BY <2>2, <2>3, <2>4, Refuses
    <3>2. r = b BY <2>2, <3>1 DEF DenyBusy, Denied
    <3>3. Knows(t, a) /\ Same(t, a) /\ Says(a) = Says(t) \cup {Msg("TxDeny", t.id)}
      BY <2>2, <2>3, Refuses
    <3> HIDE DEF a
    <3>4. a \in Station /\ a.holder = o /\ a.lease = n /\ a.retry = Off
      BY <2>2, <3>3 DEF Same
    <3>5. [a EXCEPT !.phase = "idle", !.urgent = FALSE]
            = [a EXCEPT !.phase = "idle", !.urgent = FALSE, !.retry = Off]
      BY <3>4 DEF Station
    <3>6. /\ Knows(a, b) /\ Says(b) = Says(a) /\ b.phase = "idle" /\ b.retry = Off
          /\ b.holder = o /\ b.lease = n
      <4> DEFINE e == Dispatch([a EXCEPT !.phase = "idle", !.urgent = FALSE, !.retry = Off],
                               "TransmitDenied")
      <4>1. /\ Knows(a, e) /\ Says(e) = Says(a) /\ e.phase = "idle" /\ e.retry = Off
            /\ e.holder = a.holder /\ e.lease = a.lease
        BY <3>4, GivesUp DEF Phase
      <4>2. b = e BY <3>5, ZenonT(30)
      <4> HIDE DEF b, e
      <4> QED BY <3>4, <4>1, <4>2, SMTT(40)
    <3> HIDE DEF b
    <3>7. Knows(s, b)
      <4>1. Knows(s, a) BY <2>2, <3>3, KnowsOn
      <4> QED BY <3>6, <4>1, KnowsOn
    <3>8. Shown(b) /\ Heeds(b, o, n) BY <2>1, <3>6 DEF Shown, Heeds, Warned
    <3> QED BY <2>2, <2>3, <3>2, <3>3, <3>6, <3>7, <3>8 DEF r
  <2>5. CASE s.id # Elect(Settled)
    <3>1. r = SendTxReq(t) BY <2>2, <2>5
    <3>2. /\ Knows(t, r) /\ Says(r) = Says(t) \cup {Msg("TxReq", t.id)}
          /\ r.phase = "awaiting" /\ r.holder = o /\ r.lease = n
      BY <2>2, <2>3, <3>1, RequestGoes
    <3>3. Knows(s, r) BY <2>2, <3>2, KnowsOn
    <3>4. Shown(r) /\ Begs(r, o, n) BY <2>1, <3>2 DEF Shown, Begs
    <3> QED BY <2>1, <2>2, <2>3, <2>5, <3>2, <3>3, <3>4 DEF r
  <2> QED BY <2>4, <2>5
<1> QED BY <1>3, <1>4

(* A talker that lets go, or whose time is up, is back at rest.            *)
LEMMA TalkerEnds ==
  ASSUME NEW s \in Station, Shown(s), NEW n, Talks(s, n)
  PROVE  LET t == EndLocalTx(s)
         IN  /\ ReleaseTransmit(s) = t /\ CutTx(s) = t
             /\ Knows(s, t) /\ Shown(t) /\ Rests(t)
             /\ Says(t) = Says(s) \cup Ends(s.id)
<1> DEFINE u == ClearLease(s)
           t == StopTx(u)
<1>1. s.phase = "tx" /\ s.holder = s.id BY DEF Talks
<1>2. EndLocalTx(s) = t BY <1>1 DEF EndLocalTx
<1>3. ReleaseTransmit(s) = EndLocalTx(s) /\ CutTx(s) = EndLocalTx(s)
  BY <1>1 DEF ReleaseTransmit, CutTx
<1>4. Same([s EXCEPT !.holder = NoPeer, !.lease = 0], u) BY LeaseEffect
<1>5. Knows(s, u) /\ u.radio = s.radio /\ Says(u) = Says(s) \cup {IdleNews(s.id)} BY LeaseSays
<1> HIDE DEF u
<1>6. /\ u \in Station /\ u.phase = "tx" /\ u.holder = NoPeer /\ u.lease = 0
      /\ u.retry = s.retry /\ u.id = s.id
  BY <1>1, <1>4 DEF Same, Station
<1>7. Shown(u) BY <1>1, <1>5, <1>6 DEF Shown
<1>8. Rests(t) /\ Shown(t) BY <1>6, <1>7, StopTxRests
<1>9. Knows(u, t) /\ Says(t) = Says(u) \cup {Msg("TxEnd", u.id)} BY <1>6, StopTxSays
<1> HIDE DEF t
<1>10. Knows(s, t) BY <1>5, <1>9, KnowsOn
<1>11. Says(t) = Says(s) \cup Ends(s.id) BY <1>5, <1>6, <1>9 DEF Ends
<1> QED BY <1>2, <1>3, <1>8, <1>10, <1>11

LEMMA SwitchedOff ==
  ASSUME NEW s \in Station, MaxOff # 0
  PROVE  LET t == [s EXCEPT !.radio = Reduce(@, "PowerOff", LiveHolder(s), s.id)]
         IN  /\ Knows(s, t) /\ Says(t) = Says(s) /\ (Shown(s) => Shown(t))
             /\ Rests(s) => Rests(t)
             /\ \A o, n : Heeds(s, o, n) => Heeds(t, o, n)
<1> DEFINE x == Reduce(s.radio, "PowerOff", LiveHolder(s), s.id)
           t == [s EXCEPT !.radio = x]
<1>1. s.radio \in Radio BY DEF Station
<1>2. x.phase = "off" BY <1>1, ReduceMoves DEF NextPhase
<1>3. x \in Radio BY <1>1, <1>2 DEF Reduce, Radio, RadioPhase, NextPhase, Speaker
<1> HIDE DEF x
<1>4. t \in Station BY <1>3 DEF Station
<1>5. /\ Same(s, t) /\ Knows(s, t) /\ Says(t) = Says(s) /\ t.radio = x
  BY <1>4 DEF Same, Knows, Says, Station
<1> HIDE DEF t
<1> QED BY <1>2, <1>5 DEF t, x, Same, Shown, Rests, Heeds, Hears, Warned

LEMMA BeatSays ==
  ASSUME NEW s \in Station, Informed(s), Shown(s)
  PROVE  LET t == PresenceBeat(s)
         IN  /\ t \in Station /\ t.id = s.id /\ t.inbound = s.inbound /\ Informed(t)
             /\ Same(s, t) /\ t.radio = s.radio /\ Shown(t)
             /\ s.holder = NoPeer => Says(t) = Says(s) \cup {IdleNews(s.id)}
             /\ s.holder \in Peer /\ s.lease # 0 =>
                  Says(t) = Says(s) \cup {HeldNews(s.id, s.holder, s.lease)}
<1> DEFINE u == EmitPresence(s)
           t == PresenceBeat(s)
           m == [Msg("Presence", s.id) EXCEPT
                   !.holder = LiveHolder(s), !.lease = IF LiveHolder(s) = NoPeer THEN 0 ELSE s.lease]
<1>1. Knows(s, u) /\ Same(s, u) /\ u.radio = s.radio /\ Says(u) = Says(s) \cup {m}
  BY PresenceSays
<1>2. t = [u EXCEPT !.beat = Heartbeat] BY DEF PresenceBeat
<1> HIDE DEF u
<1>3. u \in Station /\ u.id = s.id /\ Informed(u) /\ u.inbound = s.inbound
  BY <1>1, KnowsInforms
<1>4. t \in Station
  <2>1. Heartbeat \in 0..Heartbeat BY TimingTypes
  <2> QED BY <1>2, <1>3, <2>1 DEF Station
<1> HIDE DEF t
<1>5. Informed(t) /\ t.inbound = u.inbound /\ t.id = u.id
  BY <1>2, <1>3, <1>4 DEF Informed, Station
<1>6. Same(u, t) /\ t.radio = u.radio /\ Says(t) = Says(u)
  BY <1>2, <1>3, <1>4 DEF Same, Says, Station
<1>7. Same(s, t) BY <1>1, <1>6 DEF Same
<1>8. Shown(t) BY <1>1, <1>6, <1>7, SamePart
<1>9. ASSUME s.holder = NoPeer PROVE m = IdleNews(s.id)
  <2>1. LiveHolder(s) = NoPeer BY <1>9 DEF LiveHolder, Live
  <2> QED BY <2>1, NobodyNamed
<1>10. ASSUME s.holder \in Peer, s.lease # 0 PROVE m = HeldNews(s.id, s.holder, s.lease)
  <2>1. s.lease > 0 BY <1>10, TimingTypes DEF Station
  <2>2. LiveHolder(s) = s.holder /\ s.holder # NoPeer
    BY <1>10, <2>1, NoPeerIsNobody DEF LiveHolder, Live
  <2> QED BY <2>2 DEF HeldNews
<1> HIDE DEF m
<1> QED BY <1>1, <1>3, <1>4, <1>5, <1>6, <1>7, <1>8, <1>9, <1>10 DEF t

(* A tick for a station that has nothing due and hears the others.         *)
LEMMA ElapseSays ==
  ASSUME NEW s \in Station, Informed(s), Shown(s), s.beat # 0,
         s.phase # "awaiting",
         Settled # {s.id} => s.inbound + 1 <= Heartbeat
  PROVE  LET t == Elapse(s)
         IN  /\ t \in Station /\ t.id = s.id /\ t.beat = s.beat - 1 /\ t.inbound <= s.inbound + 1
             /\ Informed(t) /\ Shown(t)
             /\ Rests(s) => Rests(t)
             /\ \A o \in Peer, n \in LeasePad..GrantLease :
                  Heeds(s, o, n) => Heeds(t, o, n - 1)
             /\ \A n \in LeasePad..GrantLease :
                  Talks(s, n) /\ s.totCut # 0 /\ s.totCut # Off =>
                    Talks(t, n - 1) /\ n - 1 \in LeasePad..GrantLease
<1> DEFINE t == Elapse(s)
<1>1. /\ Heartbeat \in Nat /\ LeasePad \in Nat /\ LeasePad # 0 /\ GrantLease \in Nat
  BY TimingAssumption, TimingTypes
<1>2. /\ s.beat \in 0..Heartbeat /\ s.inbound \in Timer(Heartbeat + 1)
      /\ s.lease \in 0..GrantLease /\ s.totCut \in Timer(Tot)
  BY DEF Station
<1>3. /\ t.id = s.id /\ t.roster = s.roster /\ t.declared = s.declared
      /\ t.expired = s.expired /\ t.pin = s.pin /\ t.urgent = s.urgent
      /\ t.phase = s.phase /\ t.holder = s.holder /\ t.radio = s.radio
      /\ t.beat = Down(s.beat) /\ t.lease = Down(s.lease) /\ t.retry = Down(s.retry)
      /\ t.totCut = Down(s.totCut) /\ t.inbound = Up(s.inbound, Heartbeat + 1)
      /\ t.observing = Up(s.observing, Heartbeat)
  BY DEF Elapse, Station
<1>4. t \in Station
  <2>1. /\ Down(s.retry) \in Timer(Retry) /\ Down(s.totCut) \in Timer(Tot)
        /\ Down(s.beat) \in 0..Heartbeat /\ Down(s.lease) \in 0..GrantLease
    BY DownType, TimingTypes DEF Station
  <2>2. /\ Up(s.joined, Heartbeat) \in 0..Heartbeat
        /\ Up(s.observing, Heartbeat) \in Timer(Heartbeat)
        /\ Up(s.inbound, Heartbeat + 1) \in Timer(Heartbeat + 1)
    BY <1>1, UpType DEF Station
  <2> QED BY <2>1, <2>2 DEF Elapse, Station
<1> HIDE DEF t
<1>5. t.beat = s.beat - 1 BY <1>2, <1>3, <1>1 DEF Down
<1>6. /\ t.inbound <= s.inbound + 1 /\ t.inbound # Off
      /\ Settled # {s.id} => t.inbound <= Heartbeat
  BY <1>1, <1>2, <1>3 DEF Informed, Up, Timer, Off
<1>7. t.observing = Heartbeat BY <1>1, <1>3 DEF Informed, Up
<1>8. Informed(t) BY <1>3, <1>6, <1>7 DEF Informed
<1>9. t.retry = Off BY <1>1, <1>3 DEF Shown, Down, Off
<1>10. Shown(t) BY <1>3, <1>9 DEF Shown
<1>11. Rests(s) => Rests(t) BY <1>3 DEF Rests, Down
<1>12. ASSUME NEW o \in Peer, NEW n \in LeasePad..GrantLease, Heeds(s, o, n)
       PROVE  Heeds(t, o, n - 1)
  <2>1. Down(n) = n - 1 BY <1>1 DEF Down
  <2> QED BY <1>3, <1>12, <2>1 DEF Heeds, Hears, Warned
<1>13. ASSUME NEW n \in LeasePad..GrantLease, Talks(s, n), s.totCut # 0, s.totCut # Off
       PROVE  Talks(t, n - 1) /\ n - 1 \in LeasePad..GrantLease
  <2>1. Down(n) = n - 1 BY <1>1 DEF Down
  <2>2. s.totCut = n - LeasePad BY <1>13 DEF Talks
  <2>3. s.totCut > 0 BY <1>1, <1>2, <1>13, TimingTypes DEF Timer
  <2>4. Down(s.totCut) = (n - 1) - LeasePad BY <1>1, <2>2, <2>3 DEF Down
  <2>5. n - 1 \in LeasePad..GrantLease BY <1>1, <2>2, <2>3
  <2> QED BY <1>3, <1>13, <2>1, <2>4, <2>5 DEF Talks
<1> QED BY <1>3, <1>4, <1>5, <1>6, <1>8, <1>10, <1>11, <1>12, <1>13 DEF t

-----------------------------------------------------------------------------
(* What is under way.                                                      *)

LEMMA AirConcat ==
  ASSUME NEW c \in Seq(Packet), NEW out \in Seq(Message)
  PROVE  /\ Air(c \o Fresh(out)) = Air(c) \cup {out[i] : i \in DOMAIN out}
         /\ c # << >> => c \o Fresh(out) # << >>
         /\ out # << >> => c \o Fresh(out) # << >>
<1> DEFINE f == Fresh(out)
           d == c \o f
<1>1. /\ DOMAIN out = 1..Len(out) /\ Len(out) \in Nat
      /\ DOMAIN c = 1..Len(c) /\ Len(c) \in Nat
  BY LenProperties
<1>2. f = [i \in 1..Len(out) |-> [msg |-> out[i], age |-> 0]] BY <1>1 DEF Fresh
<1>3. \A i \in 1..Len(out) : out[i] \in Message BY ElementOfSeq
<1>4. 0 \in 0..MaxDelay BY ChannelAssumption
<1>5. f \in [1..Len(out) -> Packet] BY <1>2, <1>3, <1>4 DEF Packet
<1>6. f \in Seq(Packet) BY <1>1, <1>5, SeqDef
<1>7. Len(f) = Len(out) BY <1>1, <1>2, <1>6, LenProperties
<1>8. \A i \in 1..Len(out) : f[i].msg = out[i] BY <1>2
<1> HIDE DEF f
<1>9. /\ Len(d) = Len(c) + Len(out)
      /\ \A i \in 1..(Len(c) + Len(out)) :
           d[i] = IF i <= Len(c) THEN c[i] ELSE f[i - Len(c)]
      /\ d \in Seq(Packet)
  <2>1. /\ d \in Seq(Packet) /\ Len(d) = Len(c) + Len(f)
        /\ \A i \in 1..Len(c) + Len(f) : d[i] = IF i <= Len(c) THEN c[i] ELSE f[i - Len(c)]
    BY <1>6, ConcatProperties
  <2> HIDE DEF d
  <2> QED BY <1>7, <2>1
<1>10. DOMAIN d = 1..(Len(c) + Len(out)) BY <1>9, LenProperties
<1> HIDE DEF d
<1>11. ASSUME NEW i \in DOMAIN d PROVE d[i].msg \in Air(c) \cup {out[j] : j \in DOMAIN out}
  <2>1. CASE i <= Len(c) BY <1>1, <1>9, <1>10, <2>1 DEF Air
  <2>2. CASE ~(i <= Len(c))
    <3>1. i - Len(c) \in 1..Len(out) BY <1>1, <1>10, <2>2
    <3>2. d[i] = f[i - Len(c)] BY <1>9, <1>10, <2>2
    <3> QED BY <1>1, <1>8, <3>1, <3>2
  <2> QED BY <2>1, <2>2
<1>12. ASSUME NEW i \in DOMAIN c PROVE c[i].msg \in Air(d)
  <2>1. i \in DOMAIN d /\ d[i] = c[i] BY <1>1, <1>9, <1>10
  <2> QED BY <2>1 DEF Air
<1>13. ASSUME NEW j \in DOMAIN out PROVE out[j] \in Air(d)
  <2>1. j + Len(c) \in DOMAIN d BY <1>1, <1>10
  <2>2. d[j + Len(c)] = f[j] BY <1>1, <1>9, <1>10, <2>1
  <2>3. d[j + Len(c)].msg = out[j] BY <1>1, <1>8, <2>2
  <2> QED BY <2>1, <2>3 DEF Air
<1>14. Air(d) = Air(c) \cup {out[i] : i \in DOMAIN out}
  <2>1. Air(d) \subseteq Air(c) \cup {out[i] : i \in DOMAIN out} BY <1>11 DEF Air
  <2>2. Air(c) \subseteq Air(d) BY <1>12 DEF Air
  <2>3. {out[i] : i \in DOMAIN out} \subseteq Air(d) BY <1>13
  <2> QED BY <2>1, <2>2, <2>3
<1>15. (c # << >> => Len(c) # 0) /\ (out # << >> => Len(out) # 0) BY EmptySeq
<1>16. d = << >> => Len(d) = 0 BY EmptySeq
<1>17. (c # << >> => d # << >>) /\ (out # << >> => d # << >>)
  BY <1>1, <1>9, <1>15, <1>16
<1> QED BY <1>14, <1>17 DEF d, f

LEMMA AirTail ==
  ASSUME NEW c \in Seq(Packet), c # << >>
  PROVE  /\ Air(c) = {Head(c).msg} \cup Air(Tail(c))
         /\ Head(c).msg \in Message /\ Tail(c) \in Seq(Packet)
<1> DEFINE d == Tail(c)
<1>1. /\ Head(c) \in Packet /\ d \in Seq(Packet) /\ Len(d) = Len(c) - 1
      /\ \A i \in 1..Len(d) : d[i] = c[i + 1]
  BY HeadTailProperties
<1>2. /\ DOMAIN c = 1..Len(c) /\ Len(c) \in Nat /\ DOMAIN d = 1..Len(d) /\ Len(d) \in Nat
  BY <1>1, LenProperties
<1>3. Head(c) = c[1] /\ Len(c) # 0 BY EmptySeq
<1> HIDE DEF d
<1>4. ASSUME NEW i \in DOMAIN c PROVE c[i].msg \in {Head(c).msg} \cup Air(d)
  <2>1. CASE i = 1 BY <1>3, <2>1
  <2>2. CASE i # 1
    <3>1. i - 1 \in 1..Len(d) /\ (i - 1) + 1 = i BY <1>1, <1>2, <2>2
    <3>2. d[i - 1] = c[i] BY <1>1, <3>1
    <3> QED BY <1>2, <3>1, <3>2 DEF Air
  <2> QED BY <2>1, <2>2
<1>5. ASSUME NEW i \in DOMAIN d PROVE d[i].msg \in Air(c)
  <2>1. i + 1 \in DOMAIN c /\ d[i] = c[i + 1] BY <1>1, <1>2
  <2> QED BY <2>1 DEF Air
<1>6. Head(c).msg \in Air(c)
  <2>1. 1 \in DOMAIN c BY <1>2, <1>3
  <2> QED BY <1>3, <2>1 DEF Air
<1>7. Air(c) \subseteq {Head(c).msg} \cup Air(d) BY <1>4 DEF Air
<1>8. Air(d) \subseteq Air(c) BY <1>5 DEF Air
<1>9. Head(c).msg \in Message BY <1>1 DEF Packet
<1> QED BY <1>1, <1>6, <1>7, <1>8, <1>9 DEF d

LEMMA Cleared ==
  ASSUME NEW s \in Station
  PROVE  LET t == [s EXCEPT !.out = << >>]
         IN  Same(s, t) /\ Knows(s, t) /\ t.radio = s.radio
<1> DEFINE t == [s EXCEPT !.out = << >>]
<1>1. << >> \in Seq(Message) BY EmptySeq
<1>2. t \in Station BY <1>1 DEF Station
<1> QED BY <1>2 DEF Same, Knows, Station

LEMMA BecomeAir ==
  ASSUME Inv, NEW p \in Peer, NEW s \in Station, NEW n \in Network, Become(p, s, n)
  PROVE  /\ Same(s, station'[p]) /\ Knows(s, station'[p]) /\ station'[p].radio = s.radio
         /\ \A q \in Peer \ {p} : station'[q] = station[q]
         /\ \A a, b \in Peer :
              /\ n[a][b] \in Seq(Packet)
              /\ a = p /\ {a, b} \in links =>
                   OnAir(a, b)' = Air(n[a][b]) \cup Says(s)
              /\ ~(a = p /\ {a, b} \in links) => OnAir(a, b)' = Air(n[a][b])
              /\ n[a][b] # << >> => net'[a][b] # << >>
              /\ net'[a][b] # << >> => n[a][b] # << >> \/ {a, b} \in links
              /\ a = p /\ {a, b} \in links /\ Says(s) # {} => net'[a][b] # << >>
<1> DEFINE t == [s EXCEPT !.out = << >>]
<1>1. station' = [station EXCEPT ![p] = t] /\ net' = Fan(n, links, p, s.out)
  BY DEF Become, Install
<1>2. Same(s, t) /\ Knows(s, t) /\ t.radio = s.radio BY Cleared
<1> HIDE DEF t
<1>3. station'[p] = t /\ \A q \in Peer \ {p} : station'[q] = station[q]
  BY <1>1 DEF Inv, SoundStations
<1>4. s.out \in Seq(Message) BY DEF Station
<1>5. ASSUME NEW a \in Peer, NEW b \in Peer
      PROVE  /\ n[a][b] \in Seq(Packet)
             /\ a = p /\ {a, b} \in links => net'[a][b] = n[a][b] \o Fresh(s.out)
             /\ ~(a = p /\ {a, b} \in links) => net'[a][b] = n[a][b]
  BY <1>1 DEF Fan, Network
<1>6. ASSUME NEW a \in Peer, NEW b \in Peer, a = p /\ {a, b} \in links
      PROVE  /\ OnAir(a, b)' = Air(n[a][b]) \cup Says(s)
             /\ n[a][b] # << >> => net'[a][b] # << >>
             /\ Says(s) # {} => net'[a][b] # << >>
  <2> DEFINE c == n[a][b]
  <2>1. c \in Seq(Packet) /\ net'[a][b] = c \o Fresh(s.out) BY <1>5, <1>6
  <2> HIDE DEF c
  <2>2. /\ Air(c \o Fresh(s.out)) = Air(c) \cup Says(s)
        /\ c # << >> => c \o Fresh(s.out) # << >>
        /\ s.out # << >> => c \o Fresh(s.out) # << >>
    BY <1>4, <2>1, AirConcat DEF Says
  <2>3. Says(s) # {} => s.out # << >> BY DEF Says
  <2> QED BY <2>1, <2>2, <2>3 DEF OnAir, c
<1>7. ASSUME NEW a \in Peer, NEW b \in Peer, ~(a = p /\ {a, b} \in links)
      PROVE  OnAir(a, b)' = Air(n[a][b]) /\ net'[a][b] = n[a][b]
  BY <1>5, <1>7 DEF OnAir
<1>8. ASSUME NEW a \in Peer, NEW b \in Peer
      PROVE  /\ n[a][b] \in Seq(Packet)
             /\ a = p /\ {a, b} \in links => OnAir(a, b)' = Air(n[a][b]) \cup Says(s)
             /\ ~(a = p /\ {a, b} \in links) => OnAir(a, b)' = Air(n[a][b])
             /\ n[a][b] # << >> => net'[a][b] # << >>
             /\ net'[a][b] # << >> => n[a][b] # << >> \/ {a, b} \in links
             /\ a = p /\ {a, b} \in links /\ Says(s) # {} => net'[a][b] # << >>
  <2>1. CASE a = p /\ {a, b} \in links BY <1>5, <1>6, <2>1
  <2>2. CASE ~(a = p /\ {a, b} \in links) BY <1>5, <1>7, <2>2
  <2> QED BY <2>1, <2>2
<1> QED BY <1>2, <1>3, <1>8

LEMMA SettledArePeers == Settled \subseteq Peer BY ChannelAssumption

LEMMA StationFacts ==
  ASSUME Inv, NEW p \in Peer
  PROVE  /\ station[p] \in Station /\ Sound(station[p]) /\ station[p].id = p
         /\ Says(station[p]) = {}
<1>1. station[p].out = << >> BY DEF Inv, SoundStations
<1> QED BY <1>1 DEF Inv, SoundStations, Says

LEMMA MeshStep ==
  ASSUME Mesh, UNCHANGED <<up, sessions, links>>,
         \A a, b \in Peer : net'[a][b] # << >> => net[a][b] # << >> \/ {a, b} \in links
  PROVE  Mesh'
BY DEF Mesh

(* A step of one station while nothing is under way.                       *)
LEMMA QuietAct ==
  ASSUME Inv, Mesh, Heard, AllAware, Quiet, NEW p \in Settled, NEW s \in Station,
         s.id = p, Informed(s), Shown(s), s.inbound = station[p].inbound,
         s.beat = station[p].beat \/ Says(s) # {},
         Become(p, s, net), UNCHANGED <<up, sessions, links>>
  PROVE  /\ Mesh' /\ Heard' /\ AllAware'
         /\ Same(s, station'[p]) /\ station'[p].radio = s.radio
         /\ \A q \in Peer \ {p} : station'[q] = station[q]
         /\ \A a, b \in Settled :
              /\ a = p /\ b # p => OnAir(a, b)' = Says(s)
              /\ ~(a = p /\ b # p) => OnAir(a, b)' = {}
<1>1. p \in Peer /\ Settled \subseteq Peer BY SettledArePeers
<1>2. net \in Network BY DEF Inv
<1>3. /\ Same(s, station'[p]) /\ Knows(s, station'[p]) /\ station'[p].radio = s.radio
      /\ \A q \in Peer \ {p} : station'[q] = station[q]
      /\ \A a, b \in Peer :
           /\ a = p /\ {a, b} \in links => OnAir(a, b)' = Air(net[a][b]) \cup Says(s)
           /\ ~(a = p /\ {a, b} \in links) => OnAir(a, b)' = Air(net[a][b])
           /\ net[a][b] # << >> => net'[a][b] # << >>
           /\ net'[a][b] # << >> => net[a][b] # << >> \/ {a, b} \in links
           /\ a = p /\ {a, b} \in links /\ Says(s) # {} => net'[a][b] # << >>
  BY <1>1, <1>2, BecomeAir
<1>4. \A a, b \in Peer : {a, b} \in links <=> a # b /\ a \in Settled /\ b \in Settled
  BY DEF Mesh
<1>5. Mesh' BY <1>3, MeshStep
<1>6. /\ Informed(station'[p]) /\ station'[p].id = p /\ station'[p].beat = s.beat
      /\ station'[p].inbound = s.inbound
  BY <1>3, KnowsInforms
<1>7. Shown(station'[p]) BY <1>3, SamePart
<1>8. AllAware'
  <2>1. Aware(station'[p]) BY <1>6, <1>7 DEF Aware
  <2>2. \A q \in Settled : q # p => Aware(station'[q]) BY <1>1, <1>3 DEF AllAware
  <2> QED BY <2>1, <2>2 DEF AllAware
<1>9. Heard'
  <2> SUFFICES ASSUME NEW a \in Settled, NEW b \in Settled, a # b
               PROVE  net'[a][b] # << >> \/ station'[b].inbound <= Heartbeat - station'[a].beat
    BY DEF Heard
  <2>1. net[a][b] # << >> \/ station[b].inbound <= Heartbeat - station[a].beat BY DEF Heard
  <2>2. station'[b].inbound = station[b].inbound BY <1>1, <1>3, <1>6
  <2>3. CASE station'[a].beat = station[a].beat BY <1>1, <1>3, <2>1, <2>2, <2>3
  <2>4. CASE station'[a].beat # station[a].beat
    <3>1. a = p /\ Says(s) # {} BY <1>1, <1>3, <1>6, <2>4
    <3> QED BY <1>1, <1>3, <1>4, <3>1
  <2> QED BY <2>3, <2>4
<1>10. \A a, b \in Settled : Air(net[a][b]) = {} BY <1>1 DEF Quiet, Air
<1>11. ASSUME NEW a \in Settled, NEW b \in Settled
       PROVE  /\ a = p /\ b # p => OnAir(a, b)' = Says(s)
              /\ ~(a = p /\ b # p) => OnAir(a, b)' = {}
  <2>1. a \in Peer /\ b \in Peer /\ Air(net[a][b]) = {} BY <1>1, <1>10
  <2>2. {a, b} \in links <=> a # b BY <1>4, <2>1
  <2>3. a = p /\ b # p => OnAir(a, b)' = Air(net[a][b]) \cup Says(s) BY <1>3, <2>1, <2>2
  <2>4. ~(a = p /\ b # p) => OnAir(a, b)' = Air(net[a][b]) BY <1>3, <2>1, <2>2
  <2> QED BY <2>1, <2>3, <2>4
<1> QED BY <1>3, <1>5, <1>8, <1>9, <1>11

(* A message that arrives.                                                 *)
LEMMA DeliverAct ==
  ASSUME Inv, Mesh, Heard, AllAware, NEW p \in Peer, NEW q \in Peer, Deliver(p, q)
  PROVE  LET m == Head(net[p][q]).msg
             t == OnMessage(station[q], m)
         IN  /\ p \in Settled /\ q \in Settled /\ p # q /\ Settled # {q}
             /\ m \in OnAir(p, q)
             /\ Reached(station[q], t) /\ Shown(t) => Mesh' /\ Heard' /\ AllAware'
             /\ Same(t, station'[q]) /\ station'[q].radio = t.radio
             /\ \A r \in Settled : r # q => station'[r] = station[r]
             /\ \A a, b \in Settled :
                  /\ a # q => OnAir(a, b)' \subseteq OnAir(a, b)
                  /\ OnAir(a, b)' \subseteq OnAir(a, b) \cup Says(t)
                  /\ \A k \in OnAir(a, b) : k \in OnAir(a, b)' \/ (a = p /\ b = q /\ k = m)
                  /\ a = q /\ b # q => Says(t) \subseteq OnAir(a, b)'
<1> DEFINE c == net[p][q]
           m == Head(c).msg
           t == OnMessage(station[q], m)
           n == [net EXCEPT ![p][q] = Tail(@)]
<1>1. Settled \subseteq Peer BY SettledArePeers
<1>2. c # << >> /\ net \in Network /\ UNCHANGED <<up, sessions, links>> /\ Become(q, t, n)
  BY DEF Deliver, Inv
<1>3. \A a, b \in Peer : {a, b} \in links <=> a # b /\ a \in Settled /\ b \in Settled
  BY DEF Mesh
<1>4. p \in Settled /\ q \in Settled /\ p # q BY <1>2, <1>3 DEF Mesh
<1>5. c \in Seq(Packet) BY <1>2 DEF Network
<1> HIDE DEF c
<1>6. Air(c) = {m} \cup Air(Tail(c)) /\ m \in Message /\ Tail(c) \in Seq(Packet)
  BY <1>2, <1>5, AirTail
<1> HIDE DEF m
<1>7. t \in Station
  <2>1. Sound(station[q]) BY StationFacts
  <2> QED BY <1>6, <2>1, OnMessageSound DEF Keeps, Sound
<1> HIDE DEF t
<1>8. n \in Network BY <1>2, <1>6 DEF Network, c
<1>9. \A a, b \in Peer : /\ ~(a = p /\ b = q) => n[a][b] = net[a][b]
                         /\ a = p /\ b = q => n[a][b] = Tail(c)
  BY <1>2 DEF Network, c
<1> HIDE DEF n
<1>10. /\ Same(t, station'[q]) /\ Knows(t, station'[q]) /\ station'[q].radio = t.radio
       /\ \A r \in Peer \ {q} : station'[r] = station[r]
       /\ \A a, b \in Peer :
           /\ a = q /\ {a, b} \in links => OnAir(a, b)' = Air(n[a][b]) \cup Says(t)
           /\ ~(a = q /\ {a, b} \in links) => OnAir(a, b)' = Air(n[a][b])
           /\ n[a][b] # << >> => net'[a][b] # << >>
           /\ net'[a][b] # << >> => n[a][b] # << >> \/ {a, b} \in links
  BY <1>2, <1>7, <1>8, BecomeAir
<1>11. \A a, b \in Peer : net'[a][b] # << >> => net[a][b] # << >> \/ {a, b} \in links
  BY <1>2, <1>9, <1>10 DEF c
<1>12. Mesh' BY <1>2, <1>11, MeshStep
<1>13. ASSUME Reached(station[q], t), Shown(t) PROVE Heard' /\ AllAware'
  <2>1. t.id = q /\ Informed(t) /\ t.inbound = 0 /\ t.beat = station[q].beat
    BY <1>13, StationFacts DEF Reached
  <2>2. /\ Informed(station'[q]) /\ station'[q].beat = t.beat /\ station'[q].inbound = 0
    BY <1>10, <2>1, KnowsInforms
  <2>3. Shown(station'[q]) BY <1>10, <1>13, SamePart
  <2>4. AllAware'
    <3>1. Aware(station'[q]) BY <2>2, <2>3 DEF Aware
    <3>2. \A r \in Settled : r # q => Aware(station'[r]) BY <1>1, <1>10 DEF AllAware
    <3> QED BY <3>1, <3>2 DEF AllAware
  <2>5. Heard'
    <3> SUFFICES ASSUME NEW a \in Settled, NEW b \in Settled, a # b
                 PROVE  net'[a][b] # << >> \/ station'[b].inbound <= Heartbeat - station'[a].beat
      BY DEF Heard
    <3>1. net[a][b] # << >> \/ station[b].inbound <= Heartbeat - station[a].beat BY DEF Heard
    <3>2. station'[a].beat = station[a].beat BY <1>1, <1>10, <2>1, <2>2
    <3>3. CASE b = q
      <4>1. station[a].beat \in 0..Heartbeat BY <1>1, StationFacts DEF Station
      <4> QED BY <2>2, <3>2, <3>3, <4>1, TimingTypes
    <3>4. CASE b # q
      <4>1. n[a][b] = net[a][b] /\ station'[b] = station[b] BY <1>1, <1>9, <1>10, <3>4
      <4> QED BY <1>1, <1>10, <3>1, <3>2, <4>1
    <3> QED BY <3>3, <3>4
  <2> QED BY <2>4, <2>5
<1>14. ASSUME NEW a \in Settled, NEW b \in Settled
       PROVE  /\ a # q => OnAir(a, b)' \subseteq OnAir(a, b)
              /\ OnAir(a, b)' \subseteq OnAir(a, b) \cup Says(t)
              /\ \A k \in OnAir(a, b) : k \in OnAir(a, b)' \/ (a = p /\ b = q /\ k = m)
              /\ a = q /\ b # q => Says(t) \subseteq OnAir(a, b)'
  <2>1. a \in Peer /\ b \in Peer BY <1>1
  <2>2. OnAir(a, b)' \in {Air(n[a][b]), Air(n[a][b]) \cup Says(t)} BY <1>10, <2>1
  <2>3. a # q => OnAir(a, b)' = Air(n[a][b]) BY <1>10, <2>1
  <2>4. a = q /\ b # q => OnAir(a, b)' = Air(n[a][b]) \cup Says(t) BY <1>3, <1>10, <2>1
  <2>5. Air(n[a][b]) \subseteq OnAir(a, b)
    BY <1>6, <1>9, <2>1 DEF OnAir, c
  <2>6. \A k \in OnAir(a, b) : k \in Air(n[a][b]) \/ (a = p /\ b = q /\ k = m)
    <3>1. CASE a = p /\ b = q
      <4>1. OnAir(a, b) = {m} \cup Air(n[a][b]) BY <1>6, <1>9, <2>1, <3>1 DEF OnAir, c
      <4> QED BY <3>1, <4>1
    <3>2. CASE ~(a = p /\ b = q) BY <1>9, <2>1, <3>2 DEF OnAir
    <3> QED BY <3>1, <3>2
  <2> QED BY <2>2, <2>3, <2>4, <2>5, <2>6
<1>15. m \in OnAir(p, q) BY <1>6 DEF OnAir, c
<1>16. Settled # {q} BY <1>4
<1> QED BY <1>1, <1>4, <1>10, <1>12, <1>13, <1>14, <1>15, <1>16 DEF t, m, c

LEMMA SomeoneIsElected ==
  ASSUME Settled # {}
  PROVE  Elect(Settled) \in Settled
<1>1. Settled \subseteq Nat BY SettledArePeers, PeerAssumption
<1>2. PICK x \in Settled : \A y \in Settled : ~(<<y, x>> \in OpToRel(<, Nat))
  BY <1>1, NatLessThanWellFounded, WFMin, Zenon
<1>3. \A y \in Settled : x <= y
  <2> TAKE y \in Settled
  <2>1. <<y, x>> \in Nat \X Nat BY <1>1
  <2>2. ~(y < x) BY <1>2, <2>1, Zenon DEF OpToRel
  <2> QED BY <1>1, <2>2
<1> QED BY <1>2, <1>3 DEF Elect

(* A message that arrives on a free floor leaves it free.                  *)
LEMMA FreeStays ==
  ASSUME Inv, Mesh, Heard, AllAware, NEW p \in Peer, NEW q \in Peer, Deliver(p, q),
         NEW o \in Peer \cup {NoPeer}, NEW n \in 1..GrantLease, Free(o, n)
  PROVE  Mesh' /\ Heard' /\ AllAware' /\ Free(o, n)'
<1> DEFINE s == station[q]
           m == Head(net[p][q]).msg
           t == OnMessage(s, m)
<1>1. /\ p \in Settled /\ q \in Settled /\ p # q /\ Settled # {q} /\ m \in OnAir(p, q)
      /\ Reached(s, t) /\ Shown(t) => Mesh' /\ Heard' /\ AllAware'
      /\ Same(t, station'[q]) /\ station'[q].radio = t.radio
      /\ \A r \in Settled : r # q => station'[r] = station[r]
      /\ \A a, b \in Settled :
           /\ a # q => OnAir(a, b)' \subseteq OnAir(a, b)
           /\ OnAir(a, b)' \subseteq OnAir(a, b) \cup Says(t)
           /\ \A k \in OnAir(a, b) : k \in OnAir(a, b)' \/ (a = p /\ b = q /\ k = m)
  BY DeliverAct
<1> HIDE DEF m
<1>2. /\ \A r \in Settled : FreeAt(r, o, n)
      /\ \A a, b \in Settled : OnAir(a, b) \subseteq Ends(a)
  BY DEF Free
<1>3. m \in Ends(p) /\ s \in Station /\ Aware(s) /\ Says(s) = {} /\ s.id = q
  BY <1>1, <1>2, StationFacts DEF AllAware
<1>4. /\ Reached(s, t)
      /\ Rests(s) => Rests(t) /\ Shown(t) /\ Says(t) = {}
      /\ Heeds(s, o, n) /\ o # NoPeer =>
           /\ Shown(t) /\ Says(t) \subseteq {IdleNews(q)}
           /\ p = o => Rests(t)
           /\ p # o => Heeds(t, o, n)
  BY <1>1, <1>3, FreeMessage
<1> HIDE DEF t
<1>5. o \in Settled => o # NoPeer BY SettledArePeers, NoPeerIsNobody
<1>6. Rests(s) \/ (o \in Settled /\ Heeds(s, o, n)) BY <1>1, <1>2 DEF FreeAt
<1>7. Shown(t) /\ Says(t) \subseteq Ends(q) BY <1>4, <1>5, <1>6 DEF Ends
<1>8. \A a, b \in Settled : OnAir(a, b)' \subseteq Ends(a) BY <1>1, <1>2, <1>7
<1>9. ASSUME NEW r \in Settled, r # q PROVE FreeAt(r, o, n)'
  <2>1. FreeAt(r, o, n) /\ station'[r] = station[r] BY <1>1, <1>2, <1>9
  <2>2. o \in Settled => \A k \in OnAir(o, r) : k \in OnAir(o, r)' BY <1>1, <1>9
  <2> QED BY <2>1, <2>2 DEF FreeAt
<1>10. FreeAt(q, o, n)'
  <2>1. (Rests(t) => Rests(station'[q])) /\ (Heeds(t, o, n) => Heeds(station'[q], o, n))
    BY <1>1, <1>7, SamePart
  <2>2. CASE Rests(t) BY <2>1, <2>2 DEF FreeAt
  <2>3. CASE ~Rests(t)
    <3>1. ~Rests(s) BY <1>4, <2>3
    <3>2. o # q /\ o \in Settled /\ Heeds(s, o, n) /\ \E k \in Ends(o) : k \in OnAir(o, q)
      BY <1>1, <1>2, <3>1 DEF FreeAt
    <3>3. p # o /\ Heeds(t, o, n) BY <1>4, <1>5, <2>3, <3>2
    <3>4. \A k \in OnAir(o, q) : k \in OnAir(o, q)' BY <1>1, <3>2, <3>3
    <3> QED BY <2>1, <3>2, <3>3, <3>4 DEF FreeAt
  <2> QED BY <2>2, <2>3
<1>11. \A r \in Settled : FreeAt(r, o, n)' BY <1>9, <1>10
<1> QED BY <1>1, <1>4, <1>7, <1>8, <1>11 DEF Free

(* The request of a free floor goes round, and reaches the arbiter.        *)
LEMMA AskedGoesOn ==
  ASSUME Inv, Mesh, Heard, AllAware, NEW p \in Peer, NEW q \in Peer, Deliver(p, q),
         NEW o \in Settled, Asked(o)
  PROVE  Mesh' /\ Heard' /\ AllAware' /\ (Asked(o)' \/ Taken(o, GrantLease)')
<1> DEFINE s == station[q]
           m == Head(net[p][q]).msg
           t == OnMessage(s, m)
<1>1. /\ p \in Settled /\ q \in Settled /\ p # q /\ Settled # {q} /\ m \in OnAir(p, q)
      /\ Reached(s, t) /\ Shown(t) => Mesh' /\ Heard' /\ AllAware'
      /\ Same(t, station'[q]) /\ station'[q].radio = t.radio
      /\ \A r \in Settled : r # q => station'[r] = station[r]
      /\ \A a, b \in Settled :
           /\ a # q => OnAir(a, b)' \subseteq OnAir(a, b)
           /\ OnAir(a, b)' \subseteq OnAir(a, b) \cup Says(t)
           /\ \A k \in OnAir(a, b) : k \in OnAir(a, b)' \/ (a = p /\ b = q /\ k = m)
           /\ a = q /\ b # q => Says(t) \subseteq OnAir(a, b)'
  BY DeliverAct
<1> HIDE DEF m
<1>2. p = o /\ m = Msg("TxReq", o) BY <1>1 DEF Asked
<1>3. s \in Station /\ Aware(s) /\ Says(s) = {} /\ s.id = q /\ Rests(s) /\ o \in Peer
  BY <1>1, <1>2, StationFacts, SettledArePeers DEF AllAware, Asked
<1>4. /\ Reached(s, t) /\ Shown(t)
      /\ q # Elect(Settled) => Rests(t) /\ Says(t) = {}
      /\ q = Elect(Settled) =>
           /\ Warned(t, o, GrantLease)
           /\ Says(t) = {HeldNews(q, o, GrantLease), Granted(o, GrantLease)}
  BY <1>1, <1>2, <1>3, AskedMessage
<1> HIDE DEF t
<1>5. /\ Rests(t) => Rests(station'[q])
      /\ Warned(t, o, GrantLease) => Warned(station'[q], o, GrantLease)
  BY <1>1, <1>4, SamePart
<1>6. ptt' = ptt /\ station'[o] = station[o] /\ o # q BY <1>1, <1>2 DEF Deliver
<1>7. Elect(Settled) \in Settled BY SomeoneIsElected
<1>8. \A a, b \in Settled : OnAir(a, b) \subseteq {k \in {Msg("TxReq", o)} : a = o} BY DEF Asked
<1>9. \A r \in Settled \ {o} : Rests(station[r]) BY DEF Asked
<1>10. CASE q # Elect(Settled)
  <2>1. \A a, b \in Settled : OnAir(a, b)' \subseteq {k \in {Msg("TxReq", o)} : a = o}
    BY <1>1, <1>4, <1>8, <1>10
  <2>2. \A r \in Settled \ {o} : Rests(station'[r]) BY <1>1, <1>4, <1>5, <1>9, <1>10
  <2>3. Msg("TxReq", o) \in OnAir(o, Elect(Settled))' BY <1>1, <1>7, <1>10 DEF Asked
  <2>4. Asked(o)' BY <1>6, <2>1, <2>2, <2>3 DEF Asked
  <2> QED BY <1>1, <1>4, <2>4
<1>11. CASE q = Elect(Settled)
  <2>1. \A a, b \in Settled : OnAir(a, b)' \subseteq TakenNews(a, o, GrantLease)
    BY <1>1, <1>4, <1>8, <1>11 DEF TakenNews
  <2>2. /\ station[o].phase = "awaiting" /\ Asks(station[o], GrantLease) /\ o # Elect(Settled)
    BY DEF Asked, Asks
  <2>3. Granted(o, GrantLease) \in OnAir(q, o)' BY <1>1, <1>4, <1>6, <1>11
  <2>4. Holds(o, GrantLease)' BY <1>1, <1>6, <2>2, <2>3 DEF Holds
  <2>5. ASSUME NEW r \in Settled \ {o} PROVE TakenAt(r, o, GrantLease)'
    <3>1. \/ Rests(station'[r]) /\ r # Elect(Settled)
          \/ Warned(station'[r], o, GrantLease)
      BY <1>1, <1>4, <1>5, <1>9, <1>11
    <3> QED BY <1>6, <2>2, <3>1 DEF TakenAt
  <2>6. Taken(o, GrantLease)' BY <1>6, <2>1, <2>4, <2>5 DEF Taken, Asked
  <2> QED BY <1>1, <1>4, <2>6
<1> QED BY <1>10, <1>11

(* News of a taken floor that arrives leaves it taken.                     *)
LEMMA TakenStays ==
  ASSUME Inv, Mesh, Heard, AllAware, NEW p \in Peer, NEW q \in Peer, Deliver(p, q),
         NEW o \in Settled, NEW n \in LeasePad..GrantLease, Taken(o, n)
  PROVE  /\ Mesh' /\ Heard' /\ AllAware' /\ Taken(o, n)'
         /\ station[o].phase = "tx" => station'[o].phase = "tx"
<1> DEFINE s == station[q]
           m == Head(net[p][q]).msg
           t == OnMessage(s, m)
           More == {Msg("TxDeny", r) : r \in Settled \ {o}}
<1>1. /\ p \in Settled /\ q \in Settled /\ p # q /\ Settled # {q} /\ m \in OnAir(p, q)
      /\ Reached(s, t) /\ Shown(t) => Mesh' /\ Heard' /\ AllAware'
      /\ Same(t, station'[q]) /\ station'[q].radio = t.radio
      /\ \A r \in Settled : r # q => station'[r] = station[r]
      /\ \A a, b \in Settled :
           /\ a # q => OnAir(a, b)' \subseteq OnAir(a, b)
           /\ OnAir(a, b)' \subseteq OnAir(a, b) \cup Says(t)
           /\ \A k \in OnAir(a, b) : k \in OnAir(a, b)' \/ (a = p /\ b = q /\ k = m)
           /\ a = q /\ b # q => Says(t) \subseteq OnAir(a, b)'
  BY DeliverAct
<1> HIDE DEF m
<1>2. /\ o \in ptt /\ Holds(o, n)
      /\ \A r \in Settled \ {o} : TakenAt(r, o, n)
      /\ \A a, b \in Settled : OnAir(a, b) \subseteq TakenNews(a, o, n)
  BY DEF Taken
<1>3. /\ m \in TakenNews(p, o, n) /\ s \in Station /\ Aware(s) /\ Says(s) = {}
      /\ s.id = q /\ o \in Peer /\ n \in 1..GrantLease
  BY <1>1, <1>2, StationFacts, SettledArePeers, TimingAssumption DEF AllAware
<1>4. ptt' = ptt BY DEF Deliver
<1>5. /\ Shown(t) =>
           /\ Rests(t) => Rests(station'[q])
           /\ Warned(t, o, n) => Warned(station'[q], o, n)
           /\ Hears(t, o, n) => Hears(station'[q], o, n)
           /\ Heeds(t, o, n) => Heeds(station'[q], o, n)
           /\ Begs(t, o, n) => Begs(station'[q], o, n)
           /\ Talks(t, n) => Talks(station'[q], n)
           /\ Asks(t, n) => Asks(station'[q], n)
      /\ station'[q].phase = t.phase
  BY <1>1, SamePart DEF Same
<1>6. Elect(Settled) \in Settled BY SomeoneIsElected
<1>7. ASSUME Says(t) \subseteq {HeldNews(q, o, n), Granted(o, n)} \cup More
                                \cup {k \in {Msg("TxStart", o)} : q = o}
      PROVE  \A a, b \in Settled : OnAir(a, b)' \subseteq TakenNews(a, o, n)
  <2> SUFFICES ASSUME NEW a \in Settled, NEW b \in Settled
               PROVE  OnAir(a, b)' \subseteq TakenNews(a, o, n)
    OBVIOUS
  <2>1. OnAir(a, b) \subseteq TakenNews(a, o, n) BY <1>2
  <2>2. CASE a # q BY <1>1, <2>1, <2>2
  <2>3. CASE a = q
    <3>1. Says(t) \subseteq TakenNews(a, o, n) BY <1>7, <2>3 DEF TakenNews
    <3> HIDE DEF t
    <3> QED BY <1>1, <2>1, <3>1
  <2> QED BY <2>2, <2>3
(* Whoever begs stays refused: the arbiter that takes its request answers. *)
<1>8. ASSUME NEW r \in Settled \ {o}, Refused(r), r = q => m # Msg("TxDeny", q),
             q = Elect(Settled) /\ p = r /\ m = Msg("TxReq", r) => Msg("TxDeny", r) \in Says(t)
      PROVE  Refused(r)'
  <2>1. CASE Msg("TxReq", r) \in OnAir(r, Elect(Settled))
    <3>1. CASE Msg("TxReq", r) \in OnAir(r, Elect(Settled))' BY <3>1 DEF Refused
    <3>2. CASE Msg("TxReq", r) \notin OnAir(r, Elect(Settled))'
      <4>1. r = p /\ Elect(Settled) = q /\ m = Msg("TxReq", r) BY <1>1, <1>6, <2>1, <3>2
      <4>2. Msg("TxDeny", r) \in OnAir(Elect(Settled), r)' BY <1>1, <1>8, <4>1
      <4> QED BY <4>2 DEF Refused
    <3> QED BY <3>1, <3>2
  <2>2. CASE Msg("TxDeny", r) \in OnAir(Elect(Settled), r)
    <3>1. ~(r = q /\ m = Msg("TxDeny", r)) BY <1>8
    <3>2. Msg("TxDeny", r) \in OnAir(Elect(Settled), r)' BY <1>1, <1>6, <2>2, <3>1
    <3> QED BY <3>2 DEF Refused
  <2> QED BY <1>8, <2>1, <2>2 DEF Refused
(* A station the message does not reach keeps its part.                    *)
<1>9. ASSUME NEW r \in Settled \ {o}, r # q,
             station[o].phase = "tx" => station'[o].phase = "tx",
             \/ station'[o].phase = station[o].phase
             \/ q = o /\ Msg("TxStart", o) \in Says(t),
             q = Elect(Settled) /\ p = r /\ m = Msg("TxReq", r) /\ station[o].phase = "tx" =>
               Msg("TxDeny", r) \in Says(t)
      PROVE  TakenAt(r, o, n)'
  <2>1. TakenAt(r, o, n) /\ station'[r] = station[r] /\ \A k \in OnAir(o, r) : k \in OnAir(o, r)'
    BY <1>1, <1>2, <1>9
  <2>2. ASSUME station[o].phase = "awaiting" \/ Msg("TxStart", o) \in OnAir(o, r)
        PROVE  station'[o].phase = "awaiting" \/ Msg("TxStart", o) \in OnAir(o, r)'
    BY <1>1, <1>9, <2>1, <2>2
  <2>3. ASSUME Refused(r), station[o].phase = "tx" PROVE Refused(r)'
    BY <1>8, <1>9, <2>3
  <2> QED BY <1>9, <2>1, <2>2, <2>3 DEF TakenAt
<1>10. CASE q # o
  <2>1. station'[o] = station[o] BY <1>1, <1>10
  <2>2. Holds(o, n)'
    <3>1. \A r \in Settled : \A k \in OnAir(r, o) : k \in OnAir(r, o)' BY <1>1, <1>10
    <3> QED BY <1>2, <2>1, <3>1 DEF Holds
  <2>3. TakenAt(q, o, n) BY <1>1, <1>2, <1>10
  <2>4. CASE ~Begs(s, o, n)
    <3>1. Follows(s, o, n) /\ (Rests(s) => q # Elect(Settled))
      <4>1. n > 0 /\ o # NoPeer BY <1>3, TimingTypes, NoPeerIsNobody
      <4> QED BY <2>3, <2>4, <4>1 DEF TakenAt, Follows, Heeds, Hears, Warned, Rests
    <3>2. /\ Reached(s, t) /\ Shown(t) /\ Follows(t, o, n)
          /\ Rests(t) => Rests(s)
          /\ Says(t) \subseteq {HeldNews(q, o, n), Granted(o, n)} \cup More
          /\ Hears(s, o, n) \/ m = Msg("TxStart", o) => Hears(t, o, n)
          /\ q = Elect(Settled) /\ m = Msg("TxReq", p) /\ p # o => Msg("TxDeny", p) \in Says(t)
      BY <1>1, <1>3, <1>10, <3>1, TakenMessage, SettledArePeers
    <3> HIDE DEF t, More
    <3>3. \A a, b \in Settled : OnAir(a, b)' \subseteq TakenNews(a, o, n) BY <1>7, <3>2
    <3>4. TakenAt(q, o, n)'
      <4>1. CASE Heeds(t, o, n) BY <1>5, <3>2, <4>1 DEF TakenAt
      <4>2. CASE ~Heeds(t, o, n)
        <5>1. ~Hears(t, o, n) /\ (Rests(t) \/ Warned(t, o, n)) BY <3>2, <4>2 DEF Follows, Heeds
        <5>2. ~Hears(s, o, n) /\ m # Msg("TxStart", o) BY <3>2, <5>1
        <5>3. ~Heeds(s, o, n)
          <6>1. CASE Rests(t)
            <7>1. Rests(s) BY <3>2, <6>1
            <7> QED BY <1>3, <7>1, NoPeerIsNobody DEF Rests, Heeds, Hears, Warned
          <6>2. CASE Warned(t, o, n) BY <4>2, <5>2, <6>2 DEF Heeds
          <6> QED BY <5>1, <6>1, <6>2
        <5>4. station[o].phase = "awaiting" \/ Msg("TxStart", o) \in OnAir(o, q)
          BY <2>3, <2>4, <5>3 DEF TakenAt
        <5>5. station'[o].phase = "awaiting" \/ Msg("TxStart", o) \in OnAir(o, q)'
          BY <1>1, <2>1, <5>2, <5>4
        <5>6. (Rests(station'[q]) /\ n = GrantLease /\ q # Elect(Settled))
                \/ Warned(station'[q], o, n)
          <6>1. CASE Rests(t)
            <7>1. Rests(s) /\ ~Warned(s, o, n)
              BY <1>3, <3>2, <6>1, NoPeerIsNobody DEF Rests, Warned
            <7>2. n = GrantLease BY <5>2, <7>1, <3>1 DEF Follows
            <7> QED BY <1>5, <3>1, <3>2, <6>1, <7>1, <7>2
          <6>2. CASE Warned(t, o, n) BY <1>5, <3>2, <6>2
          <6> QED BY <5>1, <6>1, <6>2
        <5> QED BY <5>5, <5>6 DEF TakenAt
      <4> QED BY <4>1, <4>2
    <3>5. ASSUME NEW r \in Settled \ {o} PROVE TakenAt(r, o, n)'
      <4>1. CASE r # q BY <1>9, <2>1, <3>2, <4>1
      <4>2. CASE r = q BY <3>4, <4>2
      <4> QED BY <4>1, <4>2
    <3>6. Taken(o, n)' BY <1>2, <1>4, <2>2, <3>3, <3>5 DEF Taken
    <3> QED BY <1>1, <2>1, <3>2, <3>6
  <2>5. CASE Begs(s, o, n)
    <3>1. /\ ~LockoutOn /\ q # Elect(Settled) /\ station[o].phase = "tx" /\ Refused(q)
      BY <2>3, <2>5, <1>10 DEF TakenAt, Heeds, Hears, Warned, Rests, Begs
    <3>2. /\ Reached(s, t) /\ Shown(t) /\ Says(t) \subseteq {HeldNews(q, o, n)}
          /\ Begs(t, o, n) \/ Heeds(t, o, n)
          /\ m = Msg("TxDeny", q) => ~Begs(t, o, n)
      BY <1>1, <1>3, <1>10, <2>5, <3>1, BeggarMessage, SettledArePeers
    <3> HIDE DEF t, More
    <3>3. \A a, b \in Settled : OnAir(a, b)' \subseteq TakenNews(a, o, n) BY <1>7, <3>2
    <3>4. TakenAt(q, o, n)'
      <4>1. CASE Heeds(t, o, n) BY <1>5, <3>2, <4>1 DEF TakenAt
      <4>2. CASE Begs(t, o, n)
        <5>1. Refused(q)' BY <1>1, <1>8, <1>10, <3>1, <3>2, <4>2
        <5> QED BY <1>5, <2>1, <3>1, <3>2, <4>2, <5>1 DEF TakenAt
      <4> QED BY <3>2, <4>1, <4>2
    <3>5. ASSUME NEW r \in Settled \ {o} PROVE TakenAt(r, o, n)'
      <4>1. CASE r # q BY <1>9, <2>1, <3>1, <4>1
      <4>2. CASE r = q BY <3>4, <4>2
      <4> QED BY <4>1, <4>2
    <3>6. Taken(o, n)' BY <1>2, <1>4, <2>2, <3>3, <3>5 DEF Taken
    <3> QED BY <1>1, <2>1, <3>2, <3>6
  <2> QED BY <2>4, <2>5
<1>11. CASE q = o
  <2>1. m \in TakenNews(p, s.id, n) /\ p # s.id /\ Settled # {s.id} /\ p \in Peer
    BY <1>1, <1>3, <1>11, SettledArePeers
  <2>2. /\ Talks(s, n) =>
             /\ Reached(s, t) /\ Shown(t) /\ Talks(t, n)
             /\ Says(t) \subseteq {HeldNews(o, o, n)} \cup More
             /\ o = Elect(Settled) /\ m = Msg("TxReq", p) => Msg("TxDeny", p) \in Says(t)
        /\ Asks(s, n) /\ o # Elect(Settled) /\ m # Granted(o, n) =>
             Reached(s, t) /\ Shown(t) /\ Asks(t, n) /\ Says(t) = {}
        /\ Asks(s, n) /\ m = Granted(o, n) /\ n = GrantLease =>
             /\ Reached(s, t) /\ Shown(t) /\ Talks(t, n)
             /\ Says(t) = {HeldNews(o, o, n), Msg("TxStart", o)}
    BY <1>1, <1>3, <1>11, <2>1, HolderMessage
  <2> HIDE DEF t, More
  <2>3. Talks(s, n) \/ /\ Asks(s, n) /\ n = GrantLease /\ o # Elect(Settled)
                       /\ \E r \in Settled : Granted(o, n) \in OnAir(r, o)
    BY <1>2, <1>11 DEF Holds
  <2>4. /\ Reached(s, t) /\ Shown(t)
        /\ Says(t) \subseteq {HeldNews(o, o, n), Msg("TxStart", o)} \cup More
    BY <2>2, <2>3
  <2>5. \A a, b \in Settled : OnAir(a, b)' \subseteq TakenNews(a, o, n)
    BY <1>7, <1>11, <2>4
  <2>6. Holds(o, n)'
    <3>1. CASE Talks(t, n) BY <1>5, <1>11, <2>4, <3>1 DEF Holds
    <3>2. CASE ~Talks(t, n)
      <4>1. Asks(t, n) /\ m # Granted(o, n) /\ n = GrantLease /\ o # Elect(Settled)
        BY <2>2, <2>3, <3>2
      <4>2. PICK r \in Settled : Granted(o, n) \in OnAir(r, o) BY <2>2, <2>3, <3>2
      <4>3. Granted(o, n) \in OnAir(r, o)' BY <1>1, <4>1, <4>2
      <4> QED BY <1>5, <1>11, <2>4, <4>1, <4>3 DEF Holds
    <3> QED BY <3>1, <3>2
  <2>7. /\ station[o].phase = "tx" => station'[o].phase = "tx"
        /\ \/ station'[o].phase = station[o].phase
           \/ Msg("TxStart", o) \in Says(t)
    <3>1. CASE Talks(s, n) BY <1>5, <1>11, <2>2, <3>1 DEF Talks
    <3>2. CASE Asks(s, n) BY <1>5, <1>11, <2>2, <2>3, <3>2 DEF Asks, Talks
    <3> QED BY <2>3, <3>1, <3>2
  <2>8. ASSUME NEW r \in Settled \ {o} PROVE TakenAt(r, o, n)'
    <3>1. ASSUME station[o].phase = "tx" PROVE Talks(s, n)
      BY <1>11, <2>3, <3>1 DEF Asks
    <3>2. q = Elect(Settled) /\ p = r /\ m = Msg("TxReq", r) /\ station[o].phase = "tx" =>
             Msg("TxDeny", r) \in Says(t)
      BY <1>11, <2>2, <3>1
    <3> QED BY <1>9, <1>11, <2>7, <3>2
  <2>9. Taken(o, n)' BY <1>2, <1>4, <2>5, <2>6, <2>8 DEF Taken
  <2> QED BY <1>1, <2>4, <2>7, <2>9
<1> QED BY <1>10, <1>11

(* What the hub looks like once every message has arrived.                 *)
AllRest == \A q \in Settled : Rests(station[q])

OneTalks(o, n) ==
  /\ o \in Settled /\ o \in ptt /\ Talks(station[o], n)
  /\ \A q \in Settled \ {o} : Heeds(station[q], o, n)

LEMMA QuietStage ==
  ASSUME Quiet, Stage
  PROVE  AllRest \/ \E o \in Settled, n \in LeasePad..GrantLease : OneTalks(o, n)
<1>1. \A a, b \in Settled : OnAir(a, b) = {}
  BY SettledArePeers DEF Quiet, OnAir, Air
<1>2. ASSUME NEW o, NEW n, Free(o, n) PROVE AllRest
  BY <1>1, <1>2 DEF Free, FreeAt, AllRest
<1>3. ASSUME NEW o \in Settled, Asked(o) PROVE FALSE
  BY <1>1, <1>3, SomeoneIsElected DEF Asked
<1>4. ASSUME NEW o \in Settled, NEW n, Taken(o, n) PROVE OneTalks(o, n)
  <2>1. Talks(station[o], n) BY <1>1, <1>4 DEF Taken, Holds
  <2>2. station[o].phase # "awaiting" BY <2>1 DEF Talks
  <2>3. Elect(Settled) \in Settled BY <1>4, SomeoneIsElected
  <2>4. \A q \in Settled : ~Refused(q) BY <1>1, <2>3 DEF Refused
  <2> QED BY <1>1, <1>4, <2>1, <2>2, <2>4 DEF Taken, TakenAt, OneTalks
<1> QED BY <1>2, <1>3, <1>4 DEF Stage

(* What is said next decides what the hub goes on to.                      *)
LEMMA RestIsFree ==
  ASSUME AllRest', \A a, b \in Settled : OnAir(a, b)' \subseteq Ends(a)
  PROVE  Stage'
<1>1. Free(NoPeer, 1)' BY DEF AllRest, Free, FreeAt
<1>2. 1 \in 1..GrantLease BY TimingTypes
<1> QED BY <1>1, <1>2 DEF Stage

LEMMA TalkIsTaken ==
  ASSUME NEW o \in Settled, NEW n \in LeasePad..GrantLease, OneTalks(o, n)',
         \A a, b \in Settled : OnAir(a, b)' \subseteq TakenNews(a, o, n)
  PROVE  Stage'
<1>1. Taken(o, n)' BY DEF OneTalks, Taken, TakenAt, Holds
<1> QED BY <1>1 DEF Stage

(* A user presses the PTT.                                                 *)
LEMMA PressHub ==
  ASSUME Hub, Inv, HubInv, NEW p \in Peer, Press(p)
  PROVE  HubInv'
<1> DEFINE s == station[p]
           t == RequestTransmit(s, FALSE)
<1>1. /\ Mesh /\ Heard /\ AllAware /\ ptt \subseteq Settled /\ Stage /\ Quiet
      /\ p \in Settled /\ s.radio.phase # "off" /\ p \notin ptt /\ ptt' = ptt \cup {p}
      /\ Become(p, t, net) /\ UNCHANGED <<up, sessions, links>>
  BY DEF HubInv, Press, MayPress, MayAct, Hub, Mesh
<1>2. /\ s \in Station /\ s.id = p /\ Says(s) = {} /\ Informed(s) /\ Shown(s)
  BY <1>1, StationFacts DEF AllAware, Aware
<1>3. ASSUME Knows(s, t), Shown(t)
      PROVE  /\ Mesh' /\ Heard' /\ AllAware'
             /\ Same(t, station'[p]) /\ station'[p].radio = t.radio
             /\ \A q \in Peer \ {p} : station'[q] = station[q]
             /\ \A a, b \in Settled :
                  /\ a = p /\ b # p => OnAir(a, b)' = Says(t)
                  /\ ~(a = p /\ b # p) => OnAir(a, b)' = {}
  <2>1. t \in Station /\ t.id = p /\ Informed(t) /\ t.inbound = s.inbound /\ t.beat = s.beat
    BY <1>2, <1>3, KnowsInforms
  <2> HIDE DEF t
  <2> QED BY <1>1, <1>3, <2>1, QuietAct
<1>4. CASE AllRest /\ p = Elect(Settled)
  <2>1. /\ Knows(s, t) /\ Shown(t) /\ Talks(t, GrantLease)
        /\ Says(t) = {HeldNews(p, p, GrantLease), Granted(p, GrantLease), Msg("TxStart", p)}
    BY <1>1, <1>2, <1>4, ArbiterPresses DEF AllRest
  <2> HIDE DEF t
  <2>2. Talks(station'[p], GrantLease) BY <1>3, <2>1, SamePart
  <2>3. \A a, b \in Settled : OnAir(a, b)' \subseteq TakenNews(a, p, GrantLease)
    BY <1>3, <2>1 DEF TakenNews
  <2>4. ASSUME NEW q \in Settled \ {p} PROVE TakenAt(q, p, GrantLease)'
    <3>1. Rests(station'[q]) /\ q # Elect(Settled)
      BY <1>1, <1>3, <1>4, <2>1, SettledArePeers DEF AllRest
    <3>2. Msg("TxStart", p) \in OnAir(p, q)' BY <1>1, <1>3, <2>1
    <3> QED BY <3>1, <3>2 DEF TakenAt
  <2>5. Taken(p, GrantLease)' BY <1>1, <2>2, <2>3, <2>4 DEF Taken, Holds
  <2>6. GrantLease \in LeasePad..GrantLease BY TimingAssumption DEF GrantLease
  <2>7. Stage' BY <1>1, <2>5, <2>6 DEF Stage
  <2> QED BY <1>1, <1>3, <2>1, <2>7 DEF HubInv
<1>5. CASE AllRest /\ p # Elect(Settled)
  <2>1. Knows(s, t) /\ Shown(t) /\ Asks(t, 0) /\ t.holder = NoPeer /\ Says(t) = {Msg("TxReq", p)}
    BY <1>1, <1>2, <1>5, OtherPresses DEF AllRest
  <2> HIDE DEF t
  <2>2. Asks(station'[p], 0) /\ station'[p].holder = NoPeer BY <1>3, <2>1, SamePart DEF Same
  <2>3. \A a, b \in Settled : OnAir(a, b)' \subseteq {m \in {Msg("TxReq", p)} : a = p}
    BY <1>3, <2>1
  <2>4. \A q \in Settled \ {p} : Rests(station'[q])
    BY <1>3, <1>5, <2>1, SettledArePeers DEF AllRest
  <2>5. Elect(Settled) \in Settled BY <1>1, SomeoneIsElected
  <2>6. Msg("TxReq", p) \in OnAir(p, Elect(Settled))' BY <1>1, <1>3, <1>5, <2>1, <2>5
  <2>7. Asked(p)' BY <1>1, <1>5, <2>2, <2>3, <2>4, <2>6 DEF Asked
  <2>8. Stage' BY <1>1, <2>7 DEF Stage
  <2> QED BY <1>1, <1>3, <2>1, <2>8 DEF HubInv
<1>6. ASSUME NEW o \in Settled, NEW n \in LeasePad..GrantLease, OneTalks(o, n)
      PROVE  HubInv'
  <2>1. o # p /\ Heeds(s, o, n) /\ station[o].phase = "tx" BY <1>1, <1>6 DEF OneTalks, Talks
  <2>2. o \in Peer /\ n \in 1..GrantLease /\ Settled # {p}
    BY <1>1, <2>1, SettledArePeers, TimingAssumption
  <2>3. /\ Knows(s, t) /\ Shown(t)
        /\ \/ Heeds(t, o, n) /\ Says(t) = {}
           \/ Heeds(t, o, n) /\ Says(t) = {Msg("TxDeny", p)}
           \/ /\ ~LockoutOn /\ p # Elect(Settled)
              /\ Begs(t, o, n) /\ Says(t) = {Msg("TxReq", p)}
    BY <1>1, <1>2, <2>1, <2>2, BusyPresses
  <2> HIDE DEF t
  <2>4. \A q \in Settled : q # p => station'[q] = station[q] BY <1>3, <2>3, SettledArePeers
  <2>5. \A a, b \in Settled : OnAir(a, b)' \subseteq TakenNews(a, o, n)
    <3>1. Says(t) \subseteq TakenNews(p, o, n) BY <1>1, <2>1, <2>3 DEF TakenNews
    <3> QED BY <1>3, <2>3, <3>1
  <2>6. CASE Heeds(t, o, n)
    <3>1. Heeds(station'[p], o, n) BY <1>3, <2>3, <2>6, SamePart
    <3>2. OneTalks(o, n)' BY <1>1, <1>6, <2>1, <2>4, <3>1 DEF OneTalks
    <3>3. Stage' BY <2>5, <3>2, TalkIsTaken
    <3> QED BY <1>1, <1>3, <2>3, <3>3 DEF HubInv
  <2>7. CASE /\ ~LockoutOn /\ p # Elect(Settled)
             /\ Begs(t, o, n) /\ Says(t) = {Msg("TxReq", p)}
    <3>1. Begs(station'[p], o, n) BY <1>3, <2>3, <2>7, SamePart
    <3>2. Elect(Settled) \in Settled BY <1>1, SomeoneIsElected
    <3>3. Msg("TxReq", p) \in OnAir(p, Elect(Settled))' BY <1>1, <1>3, <2>3, <2>7, <3>2
    <3>4. TakenAt(p, o, n)' BY <2>1, <2>4, <2>7, <3>1, <3>3 DEF TakenAt, Refused
    <3>5. ASSUME NEW q \in Settled \ {o} PROVE TakenAt(q, o, n)'
      <4>1. CASE q # p BY <1>6, <2>4, <4>1 DEF OneTalks, TakenAt
      <4>2. CASE q = p BY <3>4, <4>2
      <4> QED BY <4>1, <4>2
    <3>6. Holds(o, n)' BY <1>6, <2>1, <2>4 DEF OneTalks, Holds
    <3>7. Taken(o, n)' BY <1>1, <1>6, <2>5, <3>5, <3>6 DEF Taken, OneTalks
    <3>8. Stage' BY <3>7 DEF Stage
    <3> QED BY <1>1, <1>3, <2>3, <3>8 DEF HubInv
  <2> QED BY <2>3, <2>6, <2>7
<1> QED BY <1>1, <1>4, <1>5, <1>6, QuietStage

(* A station acts while nothing is under way.                              *)
LEMMA HubAct ==
  ASSUME Inv, HubInv, Quiet, NEW p \in Settled, NEW s,
         Knows(station[p], s), Shown(s), Become(p, s, net), UNCHANGED <<up, sessions, links>>
  PROVE  /\ Mesh' /\ Heard' /\ AllAware'
         /\ Same(s, station'[p]) /\ station'[p].radio = s.radio
         /\ \A q \in Settled \ {p} : station'[q] = station[q]
         /\ \A a, b \in Settled :
              /\ a = p /\ b # p => OnAir(a, b)' = Says(s)
              /\ ~(a = p /\ b # p) => OnAir(a, b)' = {}
<1>1. Settled \subseteq Peer /\ station[p].id = p /\ Informed(station[p])
  BY StationFacts, SettledArePeers DEF HubInv, AllAware, Aware
<1>2. /\ s \in Station /\ s.id = p /\ Informed(s)
      /\ s.inbound = station[p].inbound /\ s.beat = station[p].beat
  BY <1>1, KnowsInforms
<1>3. Mesh /\ Heard /\ AllAware BY DEF HubInv
<1> QED BY <1>1, <1>2, <1>3, QuietAct

(* A station that is not on the air does something and says nothing.       *)
LEMMA NothingSaid ==
  ASSUME Inv, HubInv, Quiet, NEW p \in Settled, NEW s,
         Knows(station[p], s), Shown(s), Become(p, s, net), UNCHANGED <<up, sessions, links>>,
         Says(s) = {}, station[p].phase # "tx",
         Rests(station[p]) => Rests(s), \A o, n : Heeds(station[p], o, n) => Heeds(s, o, n),
         ptt' \in {ptt, ptt \ {p}}
  PROVE  HubInv'
<1>1. /\ Mesh' /\ Heard' /\ AllAware'
      /\ Same(s, station'[p]) /\ station'[p].radio = s.radio
      /\ \A q \in Settled \ {p} : station'[q] = station[q]
      /\ \A a, b \in Settled : OnAir(a, b)' = {}
  BY HubAct
<1>2. ptt' \subseteq Settled /\ Stage BY DEF HubInv
<1>3. CASE AllRest
  <2>1. Rests(station'[p]) BY <1>1, <1>3, SamePart DEF AllRest
  <2>2. AllRest' BY <1>1, <1>3, <2>1 DEF AllRest
  <2>3. Stage' BY <1>1, <2>2, RestIsFree
  <2> QED BY <1>1, <1>2, <2>3 DEF HubInv
<1>4. ASSUME NEW o \in Settled, NEW n \in LeasePad..GrantLease, OneTalks(o, n) PROVE HubInv'
  <2>1. o # p BY <1>4 DEF OneTalks, Talks
  <2>2. Heeds(station[p], o, n) BY <1>4, <2>1 DEF OneTalks
  <2>3. Heeds(station'[p], o, n) BY <1>1, <2>2, SamePart
  <2>4. OneTalks(o, n)' BY <1>1, <1>4, <2>1, <2>3 DEF OneTalks
  <2>5. Stage' BY <1>1, <2>4, TalkIsTaken
  <2> QED BY <1>1, <1>2, <2>5 DEF HubInv
<1> QED BY <1>2, <1>3, <1>4, QuietStage

(* The talker lets go of the floor, or is cut off.                         *)
LEMMA TalkerLetsGo ==
  ASSUME Inv, HubInv, Quiet, NEW p \in Settled, NEW n \in LeasePad..GrantLease, NEW s,
         OneTalks(p, n), Knows(station[p], s), Shown(s), Rests(s), Says(s) = Ends(p),
         Become(p, s, net), UNCHANGED <<up, sessions, links>>, ptt' \in {ptt, ptt \ {p}}
  PROVE  HubInv'
<1>1. /\ Mesh' /\ Heard' /\ AllAware'
      /\ Same(s, station'[p]) /\ station'[p].radio = s.radio
      /\ \A q \in Settled \ {p} : station'[q] = station[q]
      /\ \A a, b \in Settled :
           /\ a = p /\ b # p => OnAir(a, b)' = Says(s)
           /\ ~(a = p /\ b # p) => OnAir(a, b)' = {}
  BY HubAct
<1>2. ptt' \subseteq Settled /\ p \in Peer BY SettledArePeers DEF HubInv
<1>3. Rests(station'[p]) BY <1>1, SamePart
<1>4. ASSUME NEW q \in Settled PROVE FreeAt(q, p, n)'
  <2>1. CASE q = p BY <1>3, <2>1 DEF FreeAt
  <2>2. CASE q # p
    <3>1. Heeds(station'[q], p, n) BY <1>1, <2>2 DEF OneTalks
    <3>2. \E m \in Ends(p) : m \in OnAir(p, q)' BY <1>1, <2>2 DEF Ends
    <3> QED BY <2>2, <3>1, <3>2 DEF FreeAt
  <2> QED BY <2>1, <2>2
<1>5. \A a, b \in Settled : OnAir(a, b)' \subseteq Ends(a) BY <1>1
<1>6. n \in 1..GrantLease BY TimingAssumption
<1>7. Free(p, n)' BY <1>4, <1>5 DEF Free
<1>8. Stage' BY <1>2, <1>6, <1>7 DEF Stage
<1> QED BY <1>1, <1>2, <1>8 DEF HubInv

(* What the invariants say of one station.                                 *)
LEMMA HubStation ==
  ASSUME Inv, HubInv, NEW p \in Settled
  PROVE  /\ station[p] \in Station /\ station[p].id = p /\ Says(station[p]) = {}
         /\ Informed(station[p]) /\ Shown(station[p]) /\ Sound(station[p])
         /\ Knows(station[p], station[p]) /\ p \in Peer /\ p # NoPeer
BY StationFacts, SettledArePeers, NoPeerIsNobody DEF HubInv, AllAware, Aware, Knows

(* Once every message has arrived nobody waits, and whoever is on the air  *)
(* is heard by the others.                                                 *)
LEMMA QuietPart ==
  ASSUME Inv, HubInv, Quiet, NEW p \in Settled
  PROVE  /\ station[p].phase # "awaiting"
         /\ station[p].phase = "tx" => \E n \in LeasePad..GrantLease : OneTalks(p, n)
<1>1. CASE AllRest BY <1>1 DEF AllRest, Rests
<1>2. ASSUME NEW o \in Settled, NEW n \in LeasePad..GrantLease, OneTalks(o, n)
      PROVE  /\ station[p].phase # "awaiting" /\ (station[p].phase = "tx" => OneTalks(p, n))
  <2>1. CASE p = o BY <1>2, <2>1 DEF OneTalks, Talks
  <2>2. CASE p # o BY <1>2, <2>2 DEF OneTalks, Heeds, Hears, Warned
  <2> QED BY <2>1, <2>2
<1> QED BY <1>1, <1>2, QuietStage DEF HubInv

(* A user lets the PTT go.                                                 *)
LEMMA ReleaseHub ==
  ASSUME Hub, Inv, HubInv, NEW p \in Peer, Release(p)
  PROVE  HubInv'
<1> DEFINE s == station[p]
           t == ReleaseTransmit(s)
<1>1. /\ Quiet /\ p \in Settled /\ ptt' = ptt \ {p}
      /\ Become(p, t, net) /\ UNCHANGED <<up, sessions, links>>
  BY DEF HubInv, Release, MayAct, Hub
<1>2. /\ s \in Station /\ Shown(s) /\ s.id = p /\ Says(s) = {} /\ Knows(s, s)
      /\ s.phase # "awaiting"
  BY <1>1, HubStation, QuietPart
<1>3. CASE s.phase = "tx"
  <2>1. PICK n \in LeasePad..GrantLease : OneTalks(p, n) BY <1>1, <1>3, QuietPart
  <2>2. Talks(s, n) BY <2>1 DEF OneTalks
  <2>3. Knows(s, t) /\ Shown(t) /\ Rests(t) /\ Says(t) = Ends(p)
    BY <1>2, <2>2, TalkerEnds
  <2> HIDE DEF t
  <2> QED BY <1>1, <2>1, <2>3, TalkerLetsGo
<1>4. CASE s.phase # "tx"
  <2>1. t = s BY <1>2, <1>4 DEF ReleaseTransmit
  <2> HIDE DEF t
  <2> QED BY <1>1, <1>2, <1>4, <2>1, NothingSaid
<1> QED BY <1>3, <1>4

(* A radio is switched off, on the air or not.                             *)
LEMMA PowerOffHub ==
  ASSUME Hub, Inv, HubInv, NEW p \in Peer, PowerOff(p)
  PROVE  HubInv'
<1> DEFINE s == station[p]
           t == ReleaseTransmit(s)
           v == SwitchOff(s)
<1>1. /\ Quiet /\ p \in Settled /\ ptt' = ptt \ {p}
      /\ Become(p, v, net) /\ UNCHANGED <<up, sessions, links>>
  BY DEF HubInv, PowerOff, MayPress, MayAct, Hub, Mesh
<1>2. MaxOff # 0 BY BoundTypes DEF PowerOff, Inv, Rest
<1>3. /\ s \in Station /\ Shown(s) /\ s.id = p /\ Says(s) = {} /\ Knows(s, s)
      /\ s.phase # "awaiting"
  BY <1>1, HubStation, QuietPart
<1>4. ASSUME t \in Station
      PROVE  /\ Knows(t, v) /\ Says(v) = Says(t) /\ (Shown(t) => Shown(v))
             /\ Rests(t) => Rests(v)
             /\ \A o, n : Heeds(t, o, n) => Heeds(v, o, n)
  <2>1. v = [t EXCEPT !.radio = Reduce(@, "PowerOff", LiveHolder(t), t.id)]
    BY DEF SwitchOff
  <2> HIDE DEF t, v
  <2> QED BY <1>2, <1>4, <2>1, SwitchedOff
<1> HIDE DEF v
<1>5. CASE s.phase = "tx"
  <2>1. PICK n \in LeasePad..GrantLease : OneTalks(p, n) BY <1>1, <1>5, QuietPart
  <2>2. Talks(s, n) BY <2>1 DEF OneTalks
  <2>3. Knows(s, t) /\ Shown(t) /\ Rests(t) /\ Says(t) = Ends(p)
    BY <1>3, <2>2, TalkerEnds
  <2> HIDE DEF t
  <2>4. t \in Station BY <2>3 DEF Knows
  <2>5. Knows(s, v) /\ Shown(v) /\ Rests(v) /\ Says(v) = Ends(p)
    BY <1>4, <2>3, <2>4, KnowsOn
  <2> QED BY <1>1, <2>1, <2>5, TalkerLetsGo
<1>6. CASE s.phase # "tx"
  <2>1. t = s BY <1>3, <1>6 DEF ReleaseTransmit
  <2> HIDE DEF t
  <2>2. /\ Knows(s, v) /\ Shown(v) /\ Says(v) = {} /\ (Rests(s) => Rests(v))
        /\ \A o, n : Heeds(s, o, n) => Heeds(v, o, n)
    BY <1>3, <1>4, <2>1
  <2> QED BY <1>1, <1>6, <2>2, NothingSaid
<1> QED BY <1>5, <1>6

(* The time-out timer cuts the talker off.                                 *)
LEMMA TotHub ==
  ASSUME Hub, Inv, HubInv, NEW p \in Peer, TotCuts(p)
  PROVE  HubInv'
<1> DEFINE s == station[p]
           t == CutTx(s)
<1>1. /\ Quiet /\ p \in Settled /\ ptt' = ptt /\ s.totCut = 0
      /\ Become(p, t, net) /\ UNCHANGED <<up, sessions, links>>
  BY DEF HubInv, TotCuts, Fire, MayAct, Hub, Mesh
<1>2. /\ s \in Station /\ Shown(s) /\ s.id = p /\ Says(s) = {} /\ s.phase = "tx"
  BY <1>1, HubStation, TimingTypes DEF Sound, Off
<1>3. PICK n \in LeasePad..GrantLease : OneTalks(p, n) BY <1>1, <1>2, QuietPart
<1>4. Talks(s, n) BY <1>3 DEF OneTalks
<1>5. Knows(s, t) /\ Shown(t) /\ Rests(t) /\ Says(t) = Ends(p)
  BY <1>2, <1>4, TalkerEnds
<1> HIDE DEF t
<1> QED BY <1>1, <1>3, <1>5, TalkerLetsGo

(* A heartbeat repeats what the station knows of the floor.                *)
LEMMA BeatHub ==
  ASSUME Hub, Inv, HubInv, NEW p \in Peer, Beats(p)
  PROVE  HubInv'
<1> DEFINE s == station[p]
           t == PresenceBeat(s)
<1>1. /\ Quiet /\ p \in Settled /\ ptt' = ptt
      /\ Become(p, t, net) /\ UNCHANGED <<up, sessions, links>>
      /\ Mesh /\ Heard /\ AllAware /\ ptt \subseteq Settled /\ Stage
  BY DEF HubInv, Beats, Fire, MayAct, Hub, Mesh
<1>2. /\ s \in Station /\ Shown(s) /\ s.id = p /\ Says(s) = {} /\ Informed(s)
  BY <1>1, HubStation
<1>3. /\ t \in Station /\ t.id = p /\ t.inbound = s.inbound /\ Informed(t)
      /\ Same(s, t) /\ t.radio = s.radio /\ Shown(t)
      /\ s.holder = NoPeer => Says(t) = {IdleNews(p)}
      /\ s.holder \in Peer /\ s.lease # 0 => Says(t) = {HeldNews(p, s.holder, s.lease)}
  BY <1>2, BeatSays
<1> HIDE DEF t
<1>4. ASSUME Says(t) # {}
      PROVE  /\ Mesh' /\ Heard' /\ AllAware'
             /\ Same(t, station'[p]) /\ station'[p].radio = t.radio
             /\ \A q \in Settled \ {p} : station'[q] = station[q]
             /\ \A a, b \in Settled :
                  /\ a = p /\ b # p => OnAir(a, b)' = Says(t)
                  /\ ~(a = p /\ b # p) => OnAir(a, b)' = {}
  BY <1>1, <1>3, <1>4, QuietAct, SettledArePeers
<1>5. CASE AllRest
  <2>1. Rests(s) BY <1>1, <1>5 DEF AllRest
  <2>2. Says(t) = {IdleNews(p)} BY <1>3, <2>1 DEF Rests
  <2>3. Rests(station'[p])
    <3>1. Rests(t) BY <1>2, <1>3, <2>1, SamePart
    <3> QED BY <1>3, <1>4, <2>2, <3>1, SamePart
  <2>4. AllRest' BY <1>4, <1>5, <2>2, <2>3 DEF AllRest
  <2>5. \A a, b \in Settled : OnAir(a, b)' \subseteq Ends(a) BY <1>4, <2>2 DEF Ends
  <2>6. Stage' BY <2>4, <2>5, RestIsFree
  <2> QED BY <1>1, <1>4, <2>2, <2>6 DEF HubInv
<1>6. ASSUME NEW o \in Settled, NEW n \in LeasePad..GrantLease, OneTalks(o, n) PROVE HubInv'
  <2>1. s.holder = o /\ s.lease = n
    <3>1. CASE p = o BY <1>2, <1>6, <3>1 DEF OneTalks, Talks
    <3>2. CASE p # o BY <1>1, <1>6, <3>2 DEF OneTalks, Heeds, Hears, Warned
    <3> QED BY <3>1, <3>2
  <2>2. o \in Peer /\ n # 0 BY SettledArePeers, TimingAssumption
  <2>3. Says(t) = {HeldNews(p, o, n)} BY <1>3, <2>1, <2>2
  <2>4. /\ Talks(s, n) => Talks(station'[p], n)
        /\ Heeds(s, o, n) => Heeds(station'[p], o, n)
    <3>1. (Talks(s, n) => Talks(t, n)) /\ (Heeds(s, o, n) => Heeds(t, o, n))
      BY <1>2, <1>3, SamePart
    <3> QED BY <1>3, <1>4, <2>3, <3>1, SamePart
  <2>5. OneTalks(o, n)' BY <1>1, <1>4, <1>6, <2>3, <2>4 DEF OneTalks
  <2>6. \A a, b \in Settled : OnAir(a, b)' \subseteq TakenNews(a, o, n)
    BY <1>4, <2>3 DEF TakenNews
  <2>7. Stage' BY <2>5, <2>6, TalkIsTaken
  <2> QED BY <1>1, <1>4, <2>3, <2>7 DEF HubInv
<1> QED BY <1>1, <1>5, <1>6, QuietStage

(* Nothing waits for an answer, and no lease runs out, when all is quiet.  *)
LEMMA NoTimerHub ==
  ASSUME Hub, Inv, HubInv, NEW p \in Peer
  PROVE  ~RetryFires(p) /\ ~LeaseExpires(p)
<1>1. ASSUME MayAct, p \in up
      PROVE  /\ station[p].retry # 0
             /\ ~(station[p].holder # NoPeer /\ station[p].lease = 0)
  <2>1. Quiet /\ p \in Settled /\ Stage BY <1>1 DEF MayAct, Hub, HubInv, Mesh
  <2>2. station[p].retry # 0 BY <2>1, HubStation, QuietPart DEF Shown, Off
  <2>3. CASE AllRest BY <2>1, <2>2, <2>3 DEF AllRest, Rests
  <2>4. ASSUME NEW o \in Settled, NEW n \in LeasePad..GrantLease, OneTalks(o, n)
        PROVE  station[p].lease # 0
    <3>1. station[p].lease = n
      <4>1. CASE p = o BY <2>4, <4>1 DEF OneTalks, Talks
      <4>2. CASE p # o BY <2>1, <2>4, <4>2 DEF OneTalks, Heeds, Hears, Warned
      <4> QED BY <4>1, <4>2
    <3> QED BY <3>1, TimingAssumption
  <2> QED BY <2>1, <2>2, <2>3, <2>4, QuietStage
<1> QED BY <1>1 DEF RetryFires, LeaseExpires, Fire

(* On the hub nobody calls an emergency, comes, goes or loses a link.      *)
LEMMA NotOnHub ==
  ASSUME Hub, Inv, HubInv, NEW p \in Peer, NEW q \in Peer, NEW b \in BOOLEAN
  PROVE  /\ ~CallEmergency(p) /\ ~StandDown(p) /\ ~Join(p, b) /\ ~Leave(p, b)
         /\ ~SessionChange(p, q) /\ ~OpenLink(p, q) /\ ~CutLink(p, q)
<1>1. Mesh /\ up = Settled BY DEF HubInv, Mesh
<1>2. ~CallEmergency(p) BY DEF CallEmergency, Hub
<1>3. ~StandDown(p)
  <2>1. p \in Settled => station[p].pin = NoPeer /\ p # NoPeer BY HubStation DEF Informed
  <2> QED BY <1>1, <2>1 DEF StandDown
<1>4. ~Join(p, b) /\ ~Leave(p, b)
  <2>1. ~(churn < MaxChurn) BY DEF Hub, Inv, Rest
  <2> QED BY <2>1 DEF Join, Leave
<1>5. ~SessionChange(p, q)
  <2> SUFFICES ASSUME SessionChange(p, q) PROVE FALSE OBVIOUS
  <2>1. sessions[p] = Settled \ {p} /\ p # q BY <1>1 DEF SessionChange, Mesh
  <2>2. CASE q \in Settled
    <3>1. sessions[p] \cup {q} = sessions[p] BY <2>1, <2>2
    <3> QED BY <1>1, <2>2, <3>1 DEF SessionChange
  <2>3. CASE q \notin Settled
    <3>1. sessions[p] \ {q} = sessions[p] BY <2>1, <2>3
    <3> QED BY <1>1, <2>3, <3>1 DEF SessionChange
  <2> QED BY <2>2, <2>3
<1>6. ~OpenLink(p, q) BY <1>1 DEF OpenLink, Mesh
<1>7. ~CutLink(p, q)
  <2>1. ~(cuts < MaxCut) BY DEF Hub, Inv, Rest
  <2> QED BY <2>1 DEF CutLink
<1> QED BY <1>2, <1>3, <1>4, <1>5, <1>6, <1>7

(* Time only passes when nothing is under way.                             *)
LEMMA TickQuiet ==
  ASSUME Hub, Inv, Tick
  PROVE  Quiet /\ \A p, q \in Peer : net'[p][q] = << >>
<1>1. ASSUME NEW p \in Peer, NEW q \in Peer
      PROVE  net[p][q] = << >> /\ net'[p][q] = << >>
  <2> DEFINE c == net[p][q]
             d == [i \in DOMAIN c |-> [c[i] EXCEPT !.age = @ + 1]]
  <2>1. c \in Seq(Packet) BY DEF Inv, Network
  <2>2. \A i \in DOMAIN c : c[i].age < 0 BY DEF Tick, Hub
  <2>3. net'[p][q] = d BY DEF Tick
  <2>4. Inv' BY TickInv
  <2>5. d \in Seq(Packet) BY <2>3, <2>4 DEF Inv, Network
  <2> HIDE DEF c
  <2>6. Len(c) \in Nat /\ DOMAIN c = 1..Len(c) BY <2>1, LenProperties
  <2>7. Len(c) = 0
    <3>1. ASSUME 1 \in DOMAIN c PROVE FALSE
      <4>1. c[1] \in Packet BY <2>1, <2>6, <3>1, ElementOfSeq
      <4>2. c[1].age \in 0..MaxDelay BY <4>1 DEF Packet
      <4> QED BY <2>2, <3>1, <4>2 DEF Hub
    <3> QED BY <2>6, <3>1
  <2>8. c = << >> BY <2>1, <2>7, EmptySeq
  <2>9. Len(d) = 0
    <3>1. DOMAIN d = {} BY <2>6, <2>7
    <3> HIDE DEF d
    <3>2. Len(d) \in Nat /\ DOMAIN d = 1..Len(d) BY <2>5, LenProperties
    <3> QED BY <3>1, <3>2
  <2>10. d = << >>
    <3> HIDE DEF d
    <3> QED BY <2>5, <2>9, EmptySeq
  <2> QED BY <2>3, <2>8, <2>10 DEF c
<1> QED BY <1>1 DEF Quiet

(* A tick shortens the lease of the floor at all stations alike.           *)
LEMMA TickHub ==
  ASSUME Hub, Inv, HubInv, Tick
  PROVE  HubInv'
<1>1. /\ Mesh /\ Heard /\ AllAware /\ ptt \subseteq Settled /\ Stage
      /\ up = Settled /\ Settled \subseteq Peer
      /\ ptt' = ptt /\ UNCHANGED <<up, sessions, links>>
  BY SettledArePeers DEF HubInv, Mesh, Tick
<1>2. Quiet /\ \A p, q \in Peer : net'[p][q] = << >> BY TickQuiet
<1>3. Mesh' BY <1>1, <1>2 DEF Mesh
<1>4. \A a, b \in Settled : OnAir(a, b)' = {} BY <1>1, <1>2 DEF OnAir, Air
<1>5. \A p \in Settled : station'[p] = Elapse(station[p]) /\ ~Due(station[p])
  BY <1>1 DEF Tick
<1>6. ASSUME NEW p \in Settled
      PROVE  station[p].beat \in 1..Heartbeat /\ station[p].inbound \in Int
  <2>1. station[p] \in Station /\ station[p].beat # 0 /\ Informed(station[p])
    BY <1>5, HubStation DEF Due
  <2> QED BY <2>1, TimingAssumption DEF Station, Informed, Timer, Off
<1>7. \A p, q \in Settled : p # q => station[q].inbound <= Heartbeat - station[p].beat
  BY <1>1, <1>2 DEF Heard, Quiet
<1>8. ASSUME NEW p \in Settled
      PROVE  LET s == station[p]
                 t == station'[p]
             IN  /\ t \in Station /\ t.id = p /\ t.beat = s.beat - 1 /\ t.inbound <= s.inbound + 1
                 /\ Informed(t) /\ Shown(t)
                 /\ Rests(s) => Rests(t)
                 /\ \A o \in Peer, n \in LeasePad..GrantLease :
                      Heeds(s, o, n) => Heeds(t, o, n - 1)
                 /\ \A n \in LeasePad..GrantLease :
                      Talks(s, n) => Talks(t, n - 1) /\ n - 1 \in LeasePad..GrantLease
  <2> DEFINE s == station[p]
  <2>1. /\ s \in Station /\ s.id = p /\ Informed(s) /\ Shown(s) /\ Sound(s)
        /\ s.phase # "awaiting" /\ s.beat # 0 /\ s.totCut # 0
    BY <1>2, <1>5, HubStation, QuietPart DEF Due
  <2>2. Settled # {p} => s.inbound + 1 <= Heartbeat
    <3> SUFFICES ASSUME NEW q \in Settled, q # p PROVE s.inbound + 1 <= Heartbeat OBVIOUS
    <3>1. s.inbound <= Heartbeat - station[q].beat BY <1>7
    <3> QED BY <1>6, <3>1, TimingTypes
  <2>3. \A n \in LeasePad..GrantLease : Talks(s, n) => s.totCut # Off
    BY <2>1 DEF Sound, Talks
  <2>4. station'[p] = Elapse(s) BY <1>5
  <2> HIDE DEF s
  <2>5. LET t == Elapse(s)
         IN  /\ t \in Station /\ t.id = s.id /\ t.beat = s.beat - 1 /\ t.inbound <= s.inbound + 1
             /\ Informed(t) /\ Shown(t)
             /\ Rests(s) => Rests(t)
             /\ \A o \in Peer, n \in LeasePad..GrantLease :
                  Heeds(s, o, n) => Heeds(t, o, n - 1)
             /\ \A n \in LeasePad..GrantLease :
                  Talks(s, n) /\ s.totCut # 0 /\ s.totCut # Off =>
                    Talks(t, n - 1) /\ n - 1 \in LeasePad..GrantLease
    BY <2>1, <2>2, ElapseSays
  <2> QED BY <2>1, <2>3, <2>4, <2>5 DEF s
<1>9. AllAware' BY <1>8 DEF AllAware, Aware
<1>10. Heard'
  <2> SUFFICES ASSUME NEW p \in Settled, NEW q \in Settled, p # q
               PROVE  station'[q].inbound <= Heartbeat - station'[p].beat
    BY DEF Heard
  <2>1. station[q].inbound <= Heartbeat - station[p].beat BY <1>7
  <2>2. station'[p].beat = station[p].beat - 1 /\ station'[q].inbound <= station[q].inbound + 1
    BY <1>8
  <2>3. station'[q].inbound \in Int BY <1>8 DEF Station, Timer, Off
  <2> QED BY <1>6, <2>1, <2>2, <2>3, TimingTypes
<1>11. Stage'
  <2>1. CASE AllRest
    <3>1. AllRest' BY <1>8, <2>1 DEF AllRest
    <3> QED BY <1>4, <3>1, RestIsFree
  <2>2. ASSUME NEW o \in Settled, NEW n \in LeasePad..GrantLease, OneTalks(o, n) PROVE Stage'
    <3>1. Talks(station'[o], n - 1) /\ n - 1 \in LeasePad..GrantLease
      BY <1>8, <2>2 DEF OneTalks
    <3>2. \A q \in Settled \ {o} : Heeds(station'[q], o, n - 1)
      BY <1>1, <1>8, <2>2 DEF OneTalks
    <3>3. OneTalks(o, n - 1)' BY <1>1, <2>2, <3>1, <3>2 DEF OneTalks
    <3> QED BY <1>4, <3>1, <3>3, TalkIsTaken
  <2> QED BY <1>1, <1>2, <2>1, <2>2, QuietStage
<1> QED BY <1>1, <1>3, <1>9, <1>10, <1>11 DEF HubInv

(* The initial states, the steps, and the invariant of the hub.            *)
LEMMA InitHub ==
  ASSUME Hub, Init
  PROVE  HubInv
<1>1. Settled \subseteq Peer BY SettledArePeers
<1>2. \A p, q \in Peer : net[p][q] = << >> BY DEF Init
<1>3. Mesh
  <2>1. \A p, q \in Peer : {p, q} \in links <=> p # q /\ p \in Settled /\ q \in Settled
    <3> TAKE p, q \in Peer
    <3>1. {p, q} \in Pairs <=> p # q BY TwoStations DEF Pairs
    <3> QED BY <3>1 DEF Init
  <2>2. ~Relay => \A p \in Settled : sessions[p] = Settled \ {p} BY <1>1 DEF Init
  <2> QED BY <1>2, <2>1, <2>2 DEF Init, Mesh
<1>4. ASSUME NEW p \in Settled
      PROVE  Aware(station[p]) /\ Rests(station[p]) /\ station[p].beat = Heartbeat /\ station[p].inbound = 0
  <2>1. station[p] = SettledStation(p) BY <1>1 DEF Init
  <2>2. /\ station[p].id = p /\ station[p].roster = Settled /\ station[p].declared
        /\ station[p].observing = Heartbeat /\ station[p].inbound = 0
        /\ station[p].expired = {} /\ station[p].pin = NoPeer /\ ~station[p].urgent
        /\ station[p].retry = Off /\ station[p].phase = "idle"
        /\ station[p].holder = NoPeer /\ station[p].lease = 0
        /\ station[p].radio.phase = "idle" /\ station[p].beat = Heartbeat
    BY <2>1 DEF SettledStation, NewStation, RadioAt, Hub
  <2>3. 0 <= Heartbeat /\ 0 # Off BY TimingAssumption DEF Off
  <2> QED BY <2>2, <2>3 DEF Aware, Informed, Shown, Rests, ScreenOf
<1>5. AllAware BY <1>4 DEF AllAware
<1>6. Heard BY <1>4, TimingTypes DEF Heard
<1>7. ptt \subseteq Settled BY DEF Init
<1>8. Stage
  <2>1. \A a, b \in Settled : OnAir(a, b) = {} BY <1>1, <1>2 DEF OnAir, Air
  <2>2. Free(NoPeer, 1) BY <1>4, <2>1 DEF Free, FreeAt
  <2>3. 1 \in 1..GrantLease BY TimingTypes
  <2> QED BY <2>2, <2>3 DEF Stage
<1> QED BY <1>3, <1>5, <1>6, <1>7, <1>8 DEF HubInv

(* A message that arrives, whatever the stage.                             *)
LEMMA DeliverHub ==
  ASSUME Inv, HubInv, NEW p \in Peer, NEW q \in Peer, Deliver(p, q)
  PROVE  HubInv'
<1>1. Mesh /\ Heard /\ AllAware /\ ptt \subseteq Settled /\ Stage /\ ptt' = ptt
  BY DEF HubInv, Deliver
<1>2. ASSUME NEW o \in Peer \cup {NoPeer}, NEW n \in 1..GrantLease, Free(o, n)
      PROVE  Mesh' /\ Heard' /\ AllAware' /\ Stage'
  <2>1. Mesh' /\ Heard' /\ AllAware' /\ Free(o, n)' BY <1>1, <1>2, FreeStays
  <2> QED BY <2>1 DEF Stage
<1>3. ASSUME NEW o \in Settled, Asked(o)
      PROVE  Mesh' /\ Heard' /\ AllAware' /\ Stage'
  <2>1. Mesh' /\ Heard' /\ AllAware' /\ (Asked(o)' \/ Taken(o, GrantLease)')
    BY <1>1, <1>3, AskedGoesOn
  <2>2. GrantLease \in LeasePad..GrantLease BY TimingAssumption DEF GrantLease
  <2> QED BY <2>1, <2>2 DEF Stage
<1>4. ASSUME NEW o \in Settled, NEW n \in LeasePad..GrantLease, Taken(o, n)
      PROVE  Mesh' /\ Heard' /\ AllAware' /\ Stage'
  <2>1. Mesh' /\ Heard' /\ AllAware' /\ Taken(o, n)' BY <1>1, <1>4, TakenStays
  <2> QED BY <2>1 DEF Stage
<1>5. Mesh' /\ Heard' /\ AllAware' /\ Stage' BY <1>1, <1>2, <1>3, <1>4 DEF Stage
<1> QED BY <1>1, <1>5 DEF HubInv

LEMMA NextHub ==
  ASSUME Hub, Inv, HubInv, [Next]_vars
  PROVE  HubInv'
<1>1. CASE UNCHANGED vars
  <2>1. UNCHANGED <<station, up, sessions, links, net, ptt>> BY <1>1 DEF vars
  <2>2. (Mesh /\ Heard /\ AllAware /\ ptt \subseteq Settled)'
    BY <2>1 DEF HubInv, Mesh, Heard, AllAware
  <2>3. ASSUME NEW o, NEW n, Free(o, n) PROVE Free(o, n)'
    BY <2>1, <2>3 DEF Free, FreeAt, OnAir
  <2>4. ASSUME NEW o, Asked(o) PROVE Asked(o)' BY <2>1, <2>4 DEF Asked, OnAir
  <2>5. ASSUME NEW o, NEW n, Taken(o, n) PROVE Taken(o, n)'
    BY <2>1, <2>5 DEF Taken, TakenAt, Holds, Refused, OnAir
  <2>6. Stage' BY <2>3, <2>4, <2>5 DEF HubInv, Stage
  <2> QED BY <2>2, <2>6 DEF HubInv
<1>2. ASSUME NEW p \in Peer,
             Press(p) \/ CallEmergency(p) \/ Release(p) \/ StandDown(p) \/ PowerOff(p)
      PROVE  HubInv'
  BY <1>2, PressHub, ReleaseHub, PowerOffHub, NotOnHub
<1>3. ASSUME NEW p \in Peer, TimerFires(p) PROVE HubInv'
  BY <1>3, TotHub, BeatHub, NoTimerHub DEF TimerFires
<1>4. ASSUME NEW p \in Peer, NEW b \in BOOLEAN, Join(p, b) \/ Leave(p, b)
      PROVE  HubInv'
  BY <1>4, NotOnHub
<1>5. ASSUME NEW p \in Peer, NEW q \in Peer,
             SessionChange(p, q) \/ OpenLink(p, q) \/ CutLink(p, q) \/ Deliver(p, q)
      PROVE  HubInv'
  <2>1. TRUE \in BOOLEAN OBVIOUS
  <2> QED BY <1>5, <2>1, NotOnHub, DeliverHub
<1>6. CASE Tick BY <1>6, TickHub
<1> QED BY <1>1, <1>2, <1>3, <1>4, <1>5, <1>6 DEF Next

LEMMA HubInvariance ==
  ASSUME Hub
  PROVE  Spec => [](Inv /\ HubInv)
<1>1. Init => HubInv BY InitHub
<1>2. Inv /\ HubInv /\ [Next]_vars => HubInv' BY NextHub
<1> QED BY <1>1, <1>2, Invariance, PTL DEF Spec

(* Who is on the air holds the PTT, and its screen says so.                *)
LEMMA OnTheAir ==
  ASSUME Inv, HubInv, NEW p \in Settled, station[p].phase = "tx"
  PROVE  p \in ptt /\ (LockoutOn => station[p].radio.phase = "tx")
<1>1. ASSUME NEW o, NEW n, Free(o, n) PROVE FALSE
  BY <1>1 DEF Free, FreeAt, Rests, Heeds, Hears, Warned
<1>2. ASSUME NEW o \in Settled, Asked(o) PROVE FALSE
  BY <1>2 DEF Asked, Asks, Rests
<1>3. ASSUME NEW o \in Settled, NEW n, Taken(o, n)
      PROVE  p \in ptt /\ (LockoutOn => station[p].radio.phase = "tx")
  <2>1. CASE p = o BY <1>3, <2>1 DEF Taken, Holds, Talks, Asks
  <2>2. CASE p # o BY <1>3, <2>2 DEF Taken, TakenAt, Rests, Heeds, Hears, Warned, Begs
  <2> QED BY <2>1, <2>2
<1> QED BY <1>1, <1>2, <1>3 DEF HubInv, Stage

(* FR-026: on a hub with busy lockout everywhere an open microphone is     *)
(* shown as TX, whoever presses, releases, is cut off by the TOT or        *)
(* switches off, and in whatever order grants, starts and snapshots arrive.*)
THEOREM TxIsShown ==
  ASSUME Hub, LockoutOn
  PROVE  Spec => []TxLedIsLit
<1>1. Inv /\ HubInv => TxLedIsLit BY OnTheAir, HubStation DEF TxLedIsLit, Sound, HubInv, Mesh
<1> QED BY <1>1, HubInvariance, PTL

(* UX-FR-022: once every message has arrived every screen on a hub with    *)
(* busy lockout everywhere shows the engine's phase, or is off.            *)
THEOREM ScreenTellsPhase ==
  ASSUME Hub, LockoutOn
  PROVE  Spec => []ScreenSettles
<1>1. Inv /\ HubInv => ScreenSettles
  <2> SUFFICES ASSUME Inv, HubInv, NEW p \in up
               PROVE  \/ station[p].radio.phase = "off"
                      \/ station[p].radio.phase = ScreenOf(station[p].phase)
    BY DEF ScreenSettles
  <2>1. p \in Settled BY DEF HubInv, Mesh
  <2> QED BY <2>1, HubStation DEF Shown
<1> QED BY <1>1, HubInvariance, PTL

(* Once every message has arrived the others hear whoever talks.           *)
LEMMA OneTalker ==
  ASSUME Inv, HubInv, Quiet, NEW p \in Talkers
  PROVE  /\ up = Settled /\ p \in Settled
         /\ \E n \in LeasePad..GrantLease : OneTalks(p, n)
<1>1. up = Settled /\ p \in Settled /\ station[p].phase = "tx" BY DEF HubInv, Mesh, Talkers
<1> QED BY <1>1, QuietPart

(* On a hub with busy lockout everywhere, where no radio is switched off,  *)
(* once every message has arrived, all the others receive the talker and   *)
(* know whom they hear.                                                    *)
THEOREM AllHearTheTalker ==
  ASSUME Hub, LockoutOn, MaxOff = 0
  PROVE  Spec => []TalkerIsHeard
<1>1. Inv /\ HubInv => TalkerIsHeard
  <2> SUFFICES ASSUME Inv, HubInv, Quiet, NEW p \in Talkers, NEW q \in up \ {p}
               PROVE  /\ station[q].phase = "rx" /\ station[q].holder = p
                      /\ station[q].radio.speaker = p
    BY DEF TalkerIsHeard
  <2>1. PICK n \in LeasePad..GrantLease : OneTalks(p, n) BY OneTalker
  <2>2. q \in Settled BY OneTalker
  <2>3. Hears(station[q], p, n) BY <2>1, <2>2 DEF OneTalks, Heeds
  <2>4. station[q].radio.phase # "off" BY <2>2, HubStation DEF Shown
  <2> QED BY <2>3, <2>4 DEF Hears
<1> QED BY <1>1, HubInvariance, PTL

(* The hub as a lock: who waits for an answer, and who is on the air.      *)
Wanting == {p \in up : station[p].phase = "awaiting"}

OneTx ==
  /\ up = Settled
  /\ \A p, q \in Settled : station[p].phase = "tx" /\ station[q].phase = "tx" => p = q

(* At most one station is on the air.                                      *)
LEMMA OneIsOnAir == HubInv => OneTx
<1> SUFFICES ASSUME HubInv, NEW p \in Settled, NEW q \in Settled,
                    station[p].phase = "tx", station[q].phase = "tx"
             PROVE  p = q
  BY DEF OneTx, HubInv, Mesh
<1>1. ASSUME NEW o, NEW n, Free(o, n) PROVE FALSE
  BY <1>1 DEF Free, FreeAt, Rests, Heeds, Hears, Warned
<1>2. ASSUME NEW o \in Settled, Asked(o) PROVE FALSE
  BY <1>2 DEF Asked, Asks, Rests
<1>3. ASSUME NEW o \in Settled, NEW n, Taken(o, n) PROVE p = o /\ q = o
  BY <1>3 DEF Taken, TakenAt, Rests, Heeds, Hears, Warned, Begs
<1> QED BY <1>1, <1>2, <1>3 DEF HubInv, Stage

LEMMA OneStaysOnAir == HubInv' => OneTx'
  BY OneIsOnAir, PTL

(* A step that moves the phase of one station, drops a request only while  *)
(* another talks, and turns no transmission into a request, is a step of   *)
(* the lock.                                                               *)
LEMMA LockStep ==
  ASSUME OneTx, OneTx', NEW p \in Settled,
         \A q \in Settled \ {p} : station'[q].phase = station[q].phase,
         station[p].phase = "awaiting" =>
           station'[p].phase \in {"awaiting", "tx"} \/ Talkers # {},
         station[p].phase = "tx" => station'[p].phase # "awaiting"
  PROVE  [Lock!Next]_(Lock!floor)
<1>1. up = Settled /\ up' = Settled /\ p \in Peer BY SettledArePeers DEF OneTx
<1>2. \A a, b \in Settled :
        station'[a].phase = "tx" /\ station'[b].phase = "tx" => a = b
  BY DEF OneTx
<1>3. ASSUME NEW q \in Settled, q # p
      PROVE  (q \in Talkers' <=> q \in Talkers) /\ (q \in Wanting' <=> q \in Wanting)
  BY <1>1, <1>3 DEF Talkers, Wanting
<1>4. /\ Talkers \subseteq Settled /\ Talkers' \subseteq Settled
      /\ Wanting \subseteq Settled /\ Wanting' \subseteq Settled
      /\ p \in Talkers <=> station[p].phase = "tx"
      /\ p \in Talkers' <=> station'[p].phase = "tx"
      /\ p \in Wanting <=> station[p].phase = "awaiting"
      /\ p \in Wanting' <=> station'[p].phase = "awaiting"
  BY <1>1 DEF Talkers, Wanting
<1>5. CASE (p \in Talkers' <=> p \in Talkers) /\ (p \in Wanting' <=> p \in Wanting)
  <2>1. \A q : (q \in Talkers' <=> q \in Talkers) /\ (q \in Wanting' <=> q \in Wanting)
    BY <1>3, <1>4, <1>5
  <2>2. Talkers' = Talkers /\ Wanting' = Wanting BY <2>1
  <2> QED BY <2>2 DEF Lock!floor, Wanting
<1>6. CASE p \in Talkers /\ p \notin Talkers'
  <2>0. p \notin Wanting /\ p \notin Wanting' BY <1>4, <1>6
  <2>1. Talkers' = Talkers \ {p} /\ Wanting' = Wanting
    <3>1. \A q : q \in Talkers' <=> (q \in Talkers /\ q # p) BY <1>3, <1>4, <1>6
    <3>2. \A q : q \in Wanting' <=> q \in Wanting BY <1>3, <1>4, <2>0
    <3> QED BY <3>1, <3>2
  <2>2. Lock!Yield(p) BY <1>6, <2>1 DEF Lock!Yield, Wanting
  <2> QED BY <1>1, <2>2 DEF Lock!Next
<1>7. CASE p \notin Talkers /\ p \in Talkers'
  <2>1. Talkers = {}
    <3> SUFFICES ASSUME NEW q \in Talkers PROVE FALSE OBVIOUS
    <3>1. q \in Settled /\ q # p /\ q \in Talkers' BY <1>3, <1>4, <1>7
    <3>2. station'[q].phase = "tx" /\ station'[p].phase = "tx" BY <1>4, <1>7, <3>1 DEF Talkers
    <3> QED BY <1>2, <3>1, <3>2
  <2>2. Talkers' = {p} /\ Wanting' = Wanting \ {p} BY <1>3, <1>4, <1>7, <2>1
  <2>3. Lock!Take(p) BY <2>1, <2>2 DEF Lock!Take, Wanting
  <2> QED BY <1>1, <2>3 DEF Lock!Next
<1>8. CASE p \notin Talkers \cup Wanting /\ p \in Wanting'
  <2>0. p \notin Talkers' BY <1>4, <1>8
  <2>1. Talkers' = Talkers /\ Wanting' = Wanting \cup {p}
    <3>1. \A q : q \in Talkers' <=> q \in Talkers BY <1>3, <1>4, <1>8, <2>0
    <3>2. \A q : q \in Wanting' <=> (q \in Wanting \/ q = p) BY <1>3, <1>4, <1>8
    <3> QED BY <3>1, <3>2
  <2>2. Lock!Ask(p) BY <1>8, <2>1 DEF Lock!Ask, Wanting
  <2> QED BY <1>1, <2>2 DEF Lock!Next
<1>9. CASE p \in Wanting /\ p \notin Wanting' \cup Talkers'
  <2>0. p \notin Talkers /\ Talkers # {} BY <1>4, <1>9
  <2>1. Talkers' = Talkers /\ Wanting' = Wanting \ {p}
    <3>1. \A q : q \in Talkers' <=> q \in Talkers BY <1>3, <1>4, <1>9, <2>0
    <3>2. \A q : q \in Wanting' <=> (q \in Wanting /\ q # p) BY <1>3, <1>4, <1>9
    <3> QED BY <3>1, <3>2
  <2>2. Lock!Refuse(p) BY <1>9, <2>0, <2>1 DEF Lock!Refuse, Wanting
  <2> QED BY <1>1, <2>2 DEF Lock!Next
<1> QED BY <1>4, <1>5, <1>6, <1>7, <1>8, <1>9

(* While nothing is under way nobody is waiting, and no action of a station *)
(* turns its transmission into a request.                                  *)
LEMMA QuietPhases ==
  ASSUME Hub, Inv, HubInv, NEW p \in Peer,
         Press(p) \/ Release(p) \/ PowerOff(p) \/ TotCuts(p) \/ Beats(p)
  PROVE  /\ p \in Settled /\ \A q \in Settled \ {p} : station'[q] = station[q]
         /\ station[p].phase # "awaiting"
         /\ station[p].phase = "tx" => station'[p].phase # "awaiting"
<1> DEFINE s == station[p]
<1>1. Quiet /\ p \in Settled /\ Settled \subseteq Peer
  BY SettledArePeers
  DEF HubInv, Mesh, Press, MayPress, Release, PowerOff, TotCuts, Beats, Fire, MayAct, Hub
<1>2. s \in Station /\ Shown(s) /\ s.id = p /\ Informed(s) /\ s.phase # "awaiting"
  BY <1>1, HubStation, QuietPart
<1>3. ASSUME NEW t \in Station, Become(p, t, net)
      PROVE  /\ \A q \in Settled \ {p} : station'[q] = station[q]
             /\ station'[p].phase = t.phase
  <2>1. station' = [station EXCEPT ![p] = [t EXCEPT !.out = << >>]] BY <1>3 DEF Become, Install
  <2>2. station'[p] = [t EXCEPT !.out = << >>] /\ \A q \in Peer \ {p} : station'[q] = station[q]
    BY <2>1 DEF Inv, SoundStations
  <2> QED BY <1>1, <2>2 DEF Station
<1>4. ASSUME s.phase = "tx"
      PROVE  LET t == EndLocalTx(s)
             IN  ReleaseTransmit(s) = t /\ CutTx(s) = t /\ t \in Station /\ t.phase = "idle"
  <2>1. PICK n \in LeasePad..GrantLease : OneTalks(p, n) BY <1>1, <1>4, QuietPart
  <2>2. Talks(s, n) BY <2>1 DEF OneTalks
  <2> HIDE DEF s
  <2> QED BY <1>2, <2>2, TalkerEnds DEF Knows, Rests
<1>5. CASE Press(p)
  <2>1. s.phase # "tx" BY <1>1, <1>5, OnTheAir DEF Press
  <2>2. Keeps(s, RequestTransmit(s, FALSE)) BY <1>1, HubStation, RequestTransmitSound
  <2> QED BY <1>1, <1>2, <1>3, <1>5, <2>1, <2>2 DEF Press, Keeps, Sound
<1>6. CASE Release(p)
  <2>1. Keeps(s, ReleaseTransmit(s)) BY <1>1, HubStation, ReleaseTransmitSound
  <2>2. s.phase = "tx" => ReleaseTransmit(s).phase = "idle" BY <1>4
  <2> QED BY <1>1, <1>2, <1>3, <1>6, <2>1, <2>2 DEF Release, Keeps, Sound
<1>7. CASE PowerOff(p)
  <2>1. Keeps(s, SwitchOff(s)) /\ Keeps(s, ReleaseTransmit(s))
    BY <1>1, HubStation, SwitchOffSound, ReleaseTransmitSound
  <2>2. SwitchOff(s).phase = ReleaseTransmit(s).phase
    BY <2>1 DEF SwitchOff, Keeps, Sound, Station
  <2>3. s.phase = "tx" => ReleaseTransmit(s).phase = "idle" BY <1>4
  <2> QED BY <1>1, <1>2, <1>3, <1>7, <2>1, <2>2, <2>3 DEF PowerOff, Keeps, Sound
<1>8. CASE TotCuts(p)
  <2>1. Keeps(s, CutTx(s)) BY <1>1, HubStation, CutTxSound
  <2>2. s.phase = "tx" => CutTx(s).phase = "idle" BY <1>4
  <2> QED BY <1>1, <1>2, <1>3, <1>8, <2>1, <2>2 DEF TotCuts, Fire, Keeps, Sound
<1>9. CASE Beats(p)
  <2>1. PresenceBeat(s) \in Station /\ Same(s, PresenceBeat(s)) BY <1>2, BeatSays
  <2> QED BY <1>1, <1>2, <1>3, <1>9, <2>1 DEF Beats, Fire, Same
<1> QED BY <1>5, <1>6, <1>7, <1>8, <1>9

(* A message drops a request only in favour of another, and turns no       *)
(* transmission into one.                                                  *)
LEMMA MessagePhases ==
  ASSUME Inv, HubInv, NEW p \in Peer, NEW q \in Peer, Deliver(p, q)
  PROVE  /\ q \in Settled /\ \A r \in Settled \ {q} : station'[r] = station[r]
         /\ station[q].phase = "awaiting" =>
              station'[q].phase \in {"awaiting", "tx"} \/ Talkers # {}
         /\ station[q].phase = "tx" => station'[q].phase # "awaiting"
<1>1. Mesh /\ Heard /\ AllAware /\ Stage BY DEF HubInv
<1>2. q \in Settled /\ \A r \in Settled : r # q => station'[r] = station[r]
  BY <1>1, DeliverAct
<1>3. ASSUME NEW o, NEW n, Free(o, n) PROVE station[q].phase \notin {"tx", "awaiting"}
  BY <1>2, <1>3 DEF Free, FreeAt, Rests, Heeds, Hears, Warned
<1>4. ASSUME NEW o \in Settled, Asked(o)
      PROVE  /\ station[q].phase = "awaiting" => station'[q].phase \in {"awaiting", "tx"}
             /\ station[q].phase # "tx"
  <2>1. Asked(o)' \/ Taken(o, GrantLease)' BY <1>1, <1>4, AskedGoesOn
  <2>2. station'[o].phase \in {"awaiting", "tx"}
    BY <2>1 DEF Asked, Taken, Holds, Talks, Asks
  <2>3. q # o => station[q].phase = "idle" BY <1>2, <1>4 DEF Asked, Rests
  <2>4. station[o].phase = "awaiting" BY <1>4 DEF Asked, Asks
  <2> QED BY <2>2, <2>3, <2>4
<1>5. ASSUME NEW o \in Settled, NEW n \in LeasePad..GrantLease, Taken(o, n)
      PROVE  /\ station[q].phase = "awaiting" =>
                  station'[q].phase \in {"awaiting", "tx"} \/ Talkers # {}
             /\ station[q].phase = "tx" => station'[q].phase # "awaiting"
  <2>1. Taken(o, n)' /\ (station[o].phase = "tx" => station'[o].phase = "tx")
    BY <1>1, <1>5, TakenStays
  <2>2. station'[o].phase \in {"awaiting", "tx"} BY <2>1 DEF Taken, Holds, Talks, Asks
  <2>3. q # o => \/ station[q].phase \in {"idle", "rx"}
                 \/ station[q].phase = "awaiting" /\ station[o].phase = "tx"
    BY <1>2, <1>5 DEF Taken, TakenAt, Rests, Heeds, Hears, Warned, Begs
  <2>4. station[o].phase = "tx" => Talkers # {} BY <1>1 DEF Talkers, Mesh
  <2> QED BY <2>1, <2>2, <2>3, <2>4
<1> QED BY <1>1, <1>2, <1>3, <1>4, <1>5 DEF Stage

(* Time passes for all, and moves no phase.                                *)
LEMMA TickPhases ==
  ASSUME Inv, HubInv, Tick
  PROVE  UNCHANGED Lock!floor
<1>1. up = Settled /\ up' = up /\ Settled \subseteq Peer
  BY SettledArePeers DEF HubInv, Mesh, Tick
<1>2. ASSUME NEW p \in Settled PROVE station'[p].phase = station[p].phase
  <2>1. station'[p] = Elapse(station[p]) BY <1>1 DEF Tick
  <2>2. station[p] \in Station BY HubStation
  <2> QED BY <2>1, <2>2 DEF Elapse, Station
<1>3. Talkers' = Talkers /\ Wanting' = Wanting BY <1>1, <1>2 DEF Talkers, Wanting
<1> QED BY <1>3 DEF Lock!floor, Wanting

(* P5: two stations of the hub never transmit at once, not even while      *)
(* messages are under way, and not even when those without lockout ask for *)
(* a floor that is taken.                                                  *)
THEOREM OneVoice ==
  ASSUME Hub
  PROVE  Spec => []SingleVoice
<1>1. Inv /\ HubInv => SingleVoice
  <2> SUFFICES ASSUME Inv, HubInv, NEW p \in Talkers, NEW q \in Talkers, {p, q} \in links
               PROVE  FALSE
    BY DEF SingleVoice
  <2>1. OneTx BY OneIsOnAir
  <2>2. p \in Settled /\ q \in Settled /\ p = q BY <2>1 DEF OneTx, Talkers
  <2> QED BY <2>2, SettledArePeers DEF HubInv, Mesh
<1> QED BY <1>1, HubInvariance, PTL

(* Every step of the hub is a step of the lock or none.                    *)
LEMMA NextLock ==
  ASSUME Hub, Inv, HubInv, Inv', HubInv', [Next]_vars
  PROVE  [Lock!Next]_(Lock!floor)
<1>0. OneTx /\ OneTx' BY OneIsOnAir, OneStaysOnAir
<1>1. CASE UNCHANGED vars
  BY <1>1 DEF vars, Lock!floor, Talkers
<1>2. ASSUME NEW p \in Peer,
             Press(p) \/ Release(p) \/ PowerOff(p) \/ TotCuts(p) \/ Beats(p)
      PROVE  [Lock!Next]_(Lock!floor)
  <2>1. /\ p \in Settled /\ \A q \in Settled \ {p} : station'[q] = station[q]
        /\ station[p].phase # "awaiting"
        /\ station[p].phase = "tx" => station'[p].phase # "awaiting"
    BY <1>2, QuietPhases
  <2> QED BY <1>0, <2>1, LockStep
<1>3. ASSUME NEW p \in Peer, NEW q \in Peer, Deliver(p, q) PROVE [Lock!Next]_(Lock!floor)
  BY <1>0, <1>3, MessagePhases, LockStep
<1>4. CASE Tick BY <1>4, TickPhases
<1>5. ASSUME NEW p \in Peer, NEW q \in Peer, NEW b \in BOOLEAN
      PROVE  ~(\/ CallEmergency(p) \/ StandDown(p) \/ RetryFires(p) \/ LeaseExpires(p)
               \/ Join(p, b) \/ Leave(p, b)
               \/ SessionChange(p, q) \/ OpenLink(p, q) \/ CutLink(p, q))
  BY NotOnHub, NoTimerHub
<1>6. TRUE \in BOOLEAN OBVIOUS
<1> QED BY <1>1, <1>2, <1>3, <1>4, <1>5, <1>6 DEF Next, TimerFires

(* FR-020: every step of the hub, with lockout or without, is a step of    *)
(* the lock or a stutter: the floor is asked for, taken only when nobody   *)
(* has it, and given back; a request is refused only while another talks.  *)
(* (That each ends is left to the runs.)                                   *)
THEOREM FloorIsALock ==
  ASSUME Hub
  PROVE  Spec => Lock!Init /\ [][Lock!Next]_(Lock!floor)
<1>1. Init => Lock!Init
  <2> SUFFICES ASSUME Init PROVE Lock!Init OBVIOUS
  <2>1. up = Settled /\ \A p \in Settled : station[p].phase = "idle"
    BY SettledArePeers DEF Init, SettledStation, NewStation
  <2> QED BY <2>1 DEF Lock!Init, Talkers
<1>2. Inv /\ HubInv /\ (Inv /\ HubInv)' /\ [Next]_vars => [Lock!Next]_(Lock!floor) BY NextLock
<1> QED BY <1>1, <1>2, HubInvariance, PTL DEF Spec
=============================================================================
