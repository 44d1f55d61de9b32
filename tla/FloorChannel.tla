---------------------------- MODULE FloorChannel ----------------------------
(***************************************************************************)
(* The stations of one channel, their users and the network between them.  *)
(* Each station runs the engine of FloorEngine; a message goes to every    *)
(* peer an open link leads to and comes back to nobody.  A link is a       *)
(* WebRTC data channel (ordered and reliable) or the reliable LiveKit      *)
(* data path, so the messages of one sender arrive in order, but           *)
(* the two directions and the links of different pairs run independently.  *)
(***************************************************************************)
EXTENDS FloorEngine

CONSTANTS
  Settled,      \* the stations that have been on the channel for long
  Relay,        \* LINKED: the roster is the member list, never updated
  MaxDelay,     \* longest time, in ticks, a message is under way
  MaxPress,     \* bound on the presses of all users
  MaxChurn,     \* bound on joins and leaves
  MaxCut,       \* bound on failures of links
  MaxOff,       \* bound on powering a radio off
  Emergencies,  \* the stations whose user may call an emergency
  EarlyRelease, \* users may let go while the screen says it is requesting
  Loopback      \* the synchronous hub of the unit tests: nobody acts while
                \* a message is under way

ASSUME ChannelAssumption ==
  /\ Settled \subseteq Peer
  /\ {MaxDelay, MaxPress, MaxChurn, MaxCut, MaxOff} \subseteq Nat
  /\ Emergencies \subseteq Peer
  /\ {Relay, EarlyRelease, Loopback} \subseteq BOOLEAN

VARIABLES
  station,   \* the engine, mic and screen of every station
  up,        \* the stations on the channel
  sessions,  \* the signaling sessions each station's mesh has
  links,     \* the pairs of stations with an open link
  net,       \* the messages under way from one station to another
  ptt,       \* the stations whose user holds the PTT
  presses, churn, cuts, offs

vars == <<station, up, sessions, links, net, ptt, presses, churn, cuts, offs>>

(* A message and the ticks since it was sent.                              *)
Packet == [msg : Message, age : 0..MaxDelay]

Pairs == {pair \in SUBSET Peer : Cardinality(pair) = 2}

(* A station that has heard the others for a whole heartbeat: its guard    *)
(* window is over and all of them have told it the floor is idle.          *)
SettledStation(p) ==
  [NewStation(p, RadioAt("idle")) EXCEPT
     !.roster = IF Relay THEN Peer ELSE Settled, !.declared = TRUE,
     !.othersSeen = Settled # {p},
     !.witnesses = Settled \ {p}, !.joined = Heartbeat,
     !.observing = Heartbeat, !.inbound = 0]

Init ==
  /\ station = [p \in Peer |-> IF p \in Settled THEN SettledStation(p)
                               ELSE NewStation(p, RadioAt("idle"))]
  /\ up = Settled
  /\ sessions = [p \in Peer |-> IF p \in Settled /\ ~Relay
                                THEN Settled \ {p} ELSE {}]
  /\ links = {pair \in Pairs : pair \subseteq Settled}
  /\ net = [p \in Peer |-> [q \in Peer |-> << >>]]
  /\ ptt = {}
  /\ presses = 0 /\ churn = 0 /\ cuts = 0 /\ offs = 0

-----------------------------------------------------------------------------
(* Every step of a station ends here: what it sent fans out over the links *)
(* that are open.                                                          *)

Fresh(out) == [i \in DOMAIN out |-> [msg |-> out[i], age |-> 0]]

Fan(n, open, p, out) ==
  [n EXCEPT ![p] = [q \in Peer |->
      IF {p, q} \in open THEN n[p][q] \o Fresh(out) ELSE n[p][q]]]

Install(p, s) == [station EXCEPT ![p] = [s EXCEPT !.out = << >>]]

Become(p, s, n) == station' = Install(p, s) /\ net' = Fan(n, links, p, s.out)

-----------------------------------------------------------------------------
(* The users.                                                              *)

Quiet == \A p, q \in Peer : net[p][q] = << >>

MayAct == Loopback => Quiet

MayPress(p) == p \in up /\ MayAct /\ station[p].radio.phase \notin {"off", "boot"}

Press(p) ==
  /\ MayPress(p) /\ p \notin ptt /\ presses < MaxPress
  /\ ptt' = ptt \cup {p}
  /\ presses' = presses + 1
  /\ Become(p, RequestTransmit(station[p], FALSE), net)
  /\ UNCHANGED <<up, sessions, links, churn, cuts, offs>>

(* The emergency control is armed and fired, not held.                     *)
CallEmergency(p) ==
  /\ MayAct /\ p \in up \cap Emergencies /\ presses < MaxPress
  /\ presses' = presses + 1
  /\ Become(p, RequestTransmit(station[p], TRUE), net)
  /\ UNCHANGED <<up, sessions, links, ptt, churn, cuts, offs>>

Release(p) ==
  /\ MayAct /\ p \in ptt
  /\ EarlyRelease \/ station[p].radio.phase # "txRequest"
  /\ ptt' = ptt \ {p}
  /\ Become(p, ReleaseTransmit(station[p]), net)
  /\ UNCHANGED <<up, sessions, links, presses, churn, cuts, offs>>

StandDown(p) ==
  /\ MayAct /\ p \in up /\ station[p].pin = p
  /\ Become(p, ClearEmergency(station[p]), net)
  /\ UNCHANGED <<up, sessions, links, ptt, presses, churn, cuts, offs>>

(* powerOff: the floor is let go, then the screen goes dark; the engine    *)
(* and its links stay.                                                     *)
SwitchOff(s) ==
  LET t == ReleaseTransmit(s)
  IN  [t EXCEPT !.radio = Reduce(@, "PowerOff", LiveHolder(t), t.id)]

PowerOff(p) ==
  /\ MayPress(p) /\ offs < MaxOff
  /\ offs' = offs + 1
  /\ ptt' = ptt \ {p}
  /\ Become(p, SwitchOff(station[p]), net)
  /\ UNCHANGED <<up, sessions, links, presses, churn, cuts>>

-----------------------------------------------------------------------------
(* Coming and going.                                                       *)

(* A switch to a target declares its member list as the roster, in a relay *)
(* room that is joined already; the boot session declares nothing until a  *)
(* peer is found.                                                          *)
Join(p, targeted) ==
  LET new == NewStation(p, station[p].radio)
      s == IF targeted \/ Relay THEN UpdateRoster(new, Peer) ELSE new
      room == IF Relay THEN {{p, q} : q \in up} ELSE {}
  IN  /\ MayAct /\ p \notin up /\ churn < MaxChurn
      /\ churn' = churn + 1
      /\ up' = up \cup {p}
      /\ links' = links \cup room
      /\ station' = Install(p, s)
      /\ net' = Fan(net, links \cup room, p, s.out)
      /\ UNCHANGED <<sessions, ptt, presses, cuts, offs>>

(* Teardown releases the floor before the engine goes; a crash does not.   *)
(* Either way the links close and what the others sent is lost.            *)
Leave(p, crash) ==
  LET s == IF crash THEN station[p] ELSE ReleaseTransmit(station[p])
      gone == {{p, q} : q \in Peer}
      told == Fan(net, links, p, s.out)
  IN  /\ MayAct /\ p \in up /\ churn < MaxChurn
      /\ churn' = churn + 1
      /\ up' = up \ {p}
      /\ links' = links \ gone
      /\ sessions' = [sessions EXCEPT ![p] = {}]
      /\ station' = [station EXCEPT ![p] =
                       NewStation(p, IF crash THEN RadioAt("idle") ELSE s.radio)]
      /\ net' = [q \in Peer |-> [r \in Peer |->
                   IF r = p THEN << >> ELSE told[q][r]]]
      /\ ptt' = ptt \ {p}
      /\ UNCHANGED <<presses, cuts, offs>>

(* A signaling session comes up or goes, and the roster is published.      *)
SessionChange(p, q) ==
  LET known == IF q \in up THEN sessions[p] \cup {q} ELSE sessions[p] \ {q}
  IN  /\ ~Relay /\ p \in up /\ p # q /\ known # sessions[p]
      /\ sessions' = [sessions EXCEPT ![p] = known]
      /\ Become(p, UpdateRoster(station[p], known \cup {p}), net)
      /\ UNCHANGED <<up, links, ptt, presses, churn, cuts, offs>>

(* A data channel opens once both ends have the session, or as soon as     *)
(* both are in the relay's room.                                           *)
OpenLink(p, q) ==
  /\ p # q /\ {p, q} \subseteq up /\ {p, q} \notin links
  /\ Relay \/ (q \in sessions[p] /\ p \in sessions[q])
  /\ links' = links \cup {{p, q}}
  /\ UNCHANGED <<station, up, sessions, net, ptt, presses, churn, cuts, offs>>

(* A link fails with what it carried; only a silence tells.                *)
CutLink(p, q) ==
  /\ {p, q} \in links /\ cuts < MaxCut
  /\ cuts' = cuts + 1
  /\ links' = links \ {{p, q}}
  /\ net' = [net EXCEPT ![p][q] = << >>, ![q][p] = << >>]
  /\ UNCHANGED <<station, up, sessions, ptt, presses, churn, offs>>

-----------------------------------------------------------------------------
(* Messages, timers and the clock.                                         *)

Deliver(p, q) ==
  /\ q \in up /\ net[p][q] # << >>
  /\ Become(q, OnMessage(station[q], Head(net[p][q]).msg),
            [net EXCEPT ![p][q] = Tail(@)])
  /\ UNCHANGED <<up, sessions, links, ptt, presses, churn, cuts, offs>>

Fire(p, due, s) ==
  /\ MayAct /\ p \in up /\ due
  /\ Become(p, s, net)
  /\ UNCHANGED <<up, sessions, links, ptt, presses, churn, cuts, offs>>

RetryFires(p)   == Fire(p, station[p].retry = 0, RetryTxReq(station[p]))
TotCuts(p)      == Fire(p, station[p].totCut = 0, CutTx(station[p]))
Beats(p)        == Fire(p, station[p].beat = 0, PresenceBeat(station[p]))
LeaseExpires(p) == Fire(p, station[p].holder # NoPeer /\ station[p].lease = 0,
                        ExpireLease(station[p]))

(* Time passes for all stations at once, and never past a due timer or the *)
(* longest delay of a message.                                             *)
Tick ==
  /\ \A p \in up : ~Due(station[p])
  /\ \A p, q \in Peer : \A i \in DOMAIN net[p][q] : net[p][q][i].age < MaxDelay
  /\ station' = [p \in Peer |-> IF p \in up THEN Elapse(station[p])
                                ELSE station[p]]
  /\ net' = [p \in Peer |-> [q \in Peer |->
               [i \in DOMAIN net[p][q] |-> [net[p][q][i] EXCEPT !.age = @ + 1]]]]
  /\ UNCHANGED <<up, sessions, links, ptt, presses, churn, cuts, offs>>

TimerFires(p) == RetryFires(p) \/ TotCuts(p) \/ Beats(p) \/ LeaseExpires(p)

Next ==
  \/ \E p \in Peer :
       \/ Press(p) \/ CallEmergency(p) \/ Release(p) \/ StandDown(p)
       \/ PowerOff(p)
       \/ TimerFires(p)
       \/ \E b \in BOOLEAN : Join(p, b) \/ Leave(p, b)
       \/ \E q \in Peer : \/ SessionChange(p, q) \/ OpenLink(p, q)
                          \/ CutLink(p, q) \/ Deliver(p, q)
  \/ Tick

Spec == Init /\ [][Next]_vars

(* Dart's event loop runs every timer that is due and every message that   *)
(* has arrived; an ordered, reliable channel delivers what it carries.     *)
(* Users, arrivals and failures owe nothing.                               *)
Fairness ==
  /\ WF_vars(Tick)
  /\ \A p \in Peer :
       /\ WF_vars(RetryFires(p)) /\ WF_vars(TotCuts(p))
       /\ WF_vars(Beats(p)) /\ WF_vars(LeaseExpires(p))
       /\ \A q \in Peer : WF_vars(Deliver(p, q))

FairSpec == Spec /\ Fairness

-----------------------------------------------------------------------------
(* Types, and what holds in any channel, whatever crosses, leaves or fails *)

TypeOK ==
  /\ station \in [Peer -> Station]
  /\ \A p \in Peer : station[p].id = p /\ station[p].out = << >>
  /\ up \subseteq Peer /\ ptt \subseteq Peer
  /\ sessions \in [Peer -> SUBSET Peer]
  /\ links \subseteq SUBSET Peer
  /\ net \in [Peer -> [Peer -> Seq(Packet)]]
  /\ presses \in 0..MaxPress /\ churn \in 0..MaxChurn
  /\ cuts \in 0..MaxCut /\ offs \in 0..MaxOff

(* The microphone is open exactly while the engine transmits, and the      *)
(* time-out timer is armed exactly then: no handler that takes the floor   *)
(* or loses it leaves one of the three behind (FR-023).                    *)
MicFollowsFloor ==
  \A p \in Peer : LET s == station[p] IN
    /\ s.mic = (s.phase = "tx")
    /\ (s.totCut # Off) = (s.phase = "tx")

(* A station that waits for an answer has a retry armed, and one that      *)
(* receives has a lease to run out: neither phase waits on a message that  *)
(* may never come.                                                         *)
NothingHangs ==
  \A p \in Peer : LET s == station[p] IN
    /\ s.phase = "awaiting" => s.retry # Off
    /\ s.phase = "rx" => s.holder # NoPeer

(* A request is answered, refused or given up.                             *)
RequestEnds ==
  \A p \in Peer : station[p].phase = "awaiting" ~> station[p].phase # "awaiting"

(* When the users have stopped pressing, every transmission, reception and *)
(* lease ends, and no snapshot brings one back.                            *)
FloorFrees ==
  <>[](\A p \in up : station[p].phase = "idle" /\ LiveHolder(station[p]) = NoPeer)

-----------------------------------------------------------------------------
(* One voice at a time.                                                    *)

Talkers == {p \in up : station[p].phase = "tx"}

(* PTT floor discipline (P5): two stations in contact never transmit at    *)
(* once.                                                                   *)
SingleVoice == \A p, q \in Talkers : {p, q} \notin links

(* Whatever crossed on the way, two stations transmit together only while  *)
(* messages are under way: each hears the other and yields.                *)
VoicesSettle == Quiet => SingleVoice

(* The TX_START of p is under way in c.                                    *)
Calls(c, p) == \E i \in DOMAIN c : c[i].msg = Msg("TxStart", p)

(* Two linked talkers are about to part: one is still to hear the other.   *)
Parting ==
  \A p, q \in Talkers : p # q /\ {p, q} \in links
                        => Calls(net[p][q], p) \/ Calls(net[q][p], q)

(* Nobody starts to talk, and no message is taken in, so that two voices   *)
(* stay together unheard of each other; only a link that opens between two *)
(* talkers can do that (the arbiter never sees the floor of the other).    *)
VoicesPart == [][Parting => Parting' \/ \E p, q \in Talkers : OpenLink(p, q)]_vars

(* Once every message has arrived, a talker is received by all the others, *)
(* and they know whom they hear.                                           *)
TalkerIsHeard ==
  Quiet => \A p \in Talkers : \A q \in up \ {p} :
    /\ station[q].phase = "rx" /\ station[q].holder = p
    /\ station[q].radio.speaker = p

Starts(p) == station[p].phase # "tx" /\ station'[p].phase = "tx"

Beside(p) == {q \in Talkers \ {p} : {p, q} \in links}

(* The join guard (8.6): a newcomer that is elected arbiter does not grant *)
(* itself the floor beside a talker it has a link to.                      *)
GuardHolds ==
  [][\A p \in up :
       Starts(p) /\ IsLocalArbiter(station[p]) /\ ~station[p].firstOccupant
       => Beside(p) = {}]_vars

-----------------------------------------------------------------------------
(* What the user sees and wants.                                           *)

ScreenOf(phase) ==
  CASE phase = "idle" -> "idle"  [] phase = "awaiting" -> "txRequest"
    [] phase = "tx"   -> "tx"    [] phase = "rx"       -> "rxActive"

(* Once every message has arrived the screen shows the engine's phase      *)
(* (UX-FR-022).                                                            *)
ScreenSettles ==
  Quiet => \A p \in up : \/ station[p].radio.phase = "off"
                         \/ station[p].radio.phase = ScreenOf(station[p].phase)

(* An open microphone is never shown as anything but TX (FR-026).          *)
TxLedIsLit == \A p \in up : station[p].mic => station[p].radio.phase = "tx"

(* Two claims of the documents, checked by no run, because the code does   *)
(* not keep them (README, known disagreements).  VT-011: nobody is on the  *)
(* air whose user does not hold the PTT.  It fails when a grant crosses    *)
(* the release.                                                            *)
NoHotMic == \A p \in up : station[p].mic => p \in ptt

(* 8.3: while a user who asked for the floor keeps the PTT down, somebody  *)
(* gets on the air.  It fails when the lowest of the members is offline.   *)
PatienceIsHeard ==
  \A p \in Peer : p \in ptt /\ station[p].phase = "awaiting"
                  ~> Talkers # {} \/ p \notin ptt
=============================================================================
