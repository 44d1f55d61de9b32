----------------------------- MODULE RadioHost -----------------------------
(***************************************************************************)
(* KeryxRadioHost: builds a session at boot, rebuilds it when the settings *)
(* or the identity change, passes target switches to the session it has,   *)
(* and holds the engine the PTT works on.  Session g is the one that the   *)
(* g-th _startSession makes.                                               *)
(***************************************************************************)
EXTENDS RadioSession

CONSTANTS
  Initial,    \* the settings loaded at boot
  Overlap     \* the user may select a target while a switch is under way

ASSUME HostAssumption == Initial \in Setting /\ Overlap \in BOOLEAN

VARIABLES
  host,     \* the host's fields
  starting, \* where each _startSession is, and the settings it was given
  sess,     \* the session controllers
  call,     \* the calls on them
  alive,    \* the parts that have been made and not disposed of
  talking,  \* the engines that are transmitting
  wanted    \* the settings and the target the user chose last

vars == <<host, starting, sess, call, alive, talking, wanted>>

World ==
  [host |-> host, starting |-> starting, sess |-> sess, call |-> call,
   alive |-> alive, talking |-> talking]

Become(w) ==
  /\ host' = w.host /\ starting' = w.starting /\ sess' = w.sess
  /\ call' = w.call /\ alive' = w.alive /\ talking' = w.talking

NoSetting == "none"

(* _startSession up to its first await, the enrolment.                     *)
StartSession(w, setting) ==
  [w EXCEPT !.host.generation = @ + 1,
            !.starting[w.host.generation + 1] =
              [pc |-> "enrol", setting |-> setting]]

(* Boot has come to _startSession.                                         *)
Init ==
  LET off == [host |-> [disposed |-> FALSE, booted |-> FALSE,
                        generation |-> 0, session |-> 0, heard |-> 0,
                        engine |-> NoCall, applied |-> NoSetting,
                        failed |-> FALSE],
              starting |-> [g \in Gen |-> [pc |-> "idle",
                                           setting |-> NoSetting]]]
      boot == StartSession(off, Initial)
  IN  /\ host = boot.host /\ starting = boot.starting
      /\ sess = [g \in Gen |-> NewSession(NoSetting)]
      /\ call = [c \in Call |-> Idle]
      /\ alive = {} /\ talking = {}
      /\ wanted = [setting |-> Initial, target |-> 0]

-----------------------------------------------------------------------------
(* The host's side of a session.                                           *)

Superseded(w, g) == w.host.disposed \/ g # w.host.generation

(* _startSession returns; after the first one boot completes.              *)
Returns(w, g) ==
  [w EXCEPT !.starting[g].pc = "over",
            !.host.booted = @ \/ (g = 1 /\ ~w.host.disposed)]

(* The previous session is let go before the new one is made.              *)
Replace(w, g) ==
  LET let == IF w.host.session = 0 THEN w ELSE Dispose(w, w.host.session)
      bare == [let EXCEPT !.host.heard = 0, !.host.session = 0,
                          !.host.engine = NoCall, !.host.failed = FALSE,
                          !.starting[g].pc = "start",
                          !.sess[g] = NewSession(w.starting[g].setting)]
  IN  Start(bare, g)

(* The slip without the second look at the generation.                     *)
LandedAnyway(w, g) ==
  IF w.starting[g].pc # "start" THEN w
  ELSE Returns([w EXCEPT !.host.applied = w.starting[g].setting,
                         !.host.session = g, !.host.heard = g,
                         !.host.engine = w.sess[g].held["engine"]], g)

(* session.start() has returned, unless its caller gave it up before.      *)
Landed(w, g) ==
  IF w.starting[g].pc # "start" THEN w
  ELSE IF Superseded(w, g) THEN Returns(Dispose(w, g), g)
  ELSE Returns([w EXCEPT !.host.applied = w.starting[g].setting,
                         !.host.session = g, !.host.heard = g,
                         !.host.engine = w.sess[g].held["engine"]], g)

(* The slip that leaves the attempt open.                                  *)
StartFailedOpen(w, g) ==
  IF w.starting[g].pc # "start" THEN w
  ELSE [Dispose(w, g) EXCEPT !.host.failed = @ \/ ~Superseded(w, g),
                             !.starting[g].pc = "failed"]

(* session.start() has thrown, or the host's own bound has run out.        *)
StartFailed(w, g) ==
  IF w.starting[g].pc # "start" THEN w
  ELSE Returns([Dispose(w, g) EXCEPT
                  !.host.failed = @ \/ ~Superseded(w, g)], g)

(* The slip that keeps the engine of the boot.                             *)
ReadoptFirst(w, s, engine) ==
  IF w.host.heard = s /\ w.host.engine = NoCall
  THEN [w EXCEPT !.host.engine = engine] ELSE w

(* _readoptFloorEngine, called by the session's _adoptEngine in its turn.  *)
Readopt(w, s, engine) ==
  IF /\ ~w.sess[s].closed /\ w.host.heard = s
     /\ ~Superseded(w, s) /\ w.host.session = s
  THEN [w EXCEPT !.host.engine = engine] ELSE w

(* What follows the adoption of an engine in the same turn.                *)
Adopted(w, c) ==
  LET s == w.call[c].session
      heard == Readopt(Adopt(w, c), s, c)
  IN  IF c[1] = "start" THEN Landed(heard, s) ELSE heard

Abandoned(w, c) ==
  LET failed == BuildFailed(w, c)
  IN  IF c[1] = "start" THEN StartFailed(failed, w.call[c].session)
      ELSE failed

-----------------------------------------------------------------------------
(* The program's own steps.                                                *)

(* The directory enrolment has returned, failed or timed out.              *)
Enrolled(g) ==
  /\ starting[g].pc = "enrol"
  /\ Become(IF Superseded(World, g) THEN Returns(World, g)
            ELSE Replace(World, g))
  /\ UNCHANGED wanted

(* The slip of a bound around the relay's join alone.                      *)
JoinTimesOut(g) ==
  /\ starting[g].pc = "start" /\ call[<<"start", g>>].at = "linked"
  /\ Become(StartFailed(World, g))
  /\ UNCHANGED wanted

(* The bound around session.start().  The call it gives up on goes on.     *)
StartTimesOut(g) ==
  /\ starting[g].pc = "start"
  /\ Become(StartFailed(World, g))
  /\ UNCHANGED wanted

(* A disposal that a teardown awaits is over.                              *)
PartDisposed(c) ==
  /\ call[c].pc = "teardown"
  /\ Become(ResumeTearDown(World, c))
  /\ UNCHANGED wanted

SignalingStarted(c) ==
  /\ call[c].pc = "build" /\ call[c].at = "signaling"
  /\ Become(SignalingUp(World, c))
  /\ UNCHANGED wanted

(* Discovery is tuned or the room is joined.                               *)
ChainUp(c) ==
  /\ call[c].pc = "build" /\ call[c].at \in {"discovery", "linked"}
  /\ Become(Adopted(World, c))
  /\ UNCHANGED wanted

ChainFails(c) ==
  /\ call[c].pc = "build"
  /\ Become(Abandoned(World, c))
  /\ UNCHANGED wanted

(* The TOT, or another end of a transmission than the key.                 *)
TransmissionEnds(c) ==
  /\ c \in talking
  /\ Become([World EXCEPT !.talking = @ \ {c}])
  /\ UNCHANGED wanted

-----------------------------------------------------------------------------
(* The user's calls.                                                       *)

KeyWorks == <<host.engine, "engine">> \in alive

(* On an engine that has been disposed of, requestTransmit throws.         *)
PressPtt ==
  /\ KeyWorks
  /\ Become([World EXCEPT !.talking = @ \cup {host.engine}])
  /\ UNCHANGED wanted

(* releasePtt, releaseLatch, powerOff and the events of the service.       *)
ReleasePtt ==
  /\ host.engine \in talking
  /\ Become([World EXCEPT !.talking = @ \ {host.engine}])
  /\ UNCHANGED wanted

(* applySettings with _maybeRebuildSession: nothing before an attempt has  *)
(* concluded, and nothing when the session adopted last has them already.  *)
ApplySettings(setting) ==
  /\ ~host.disposed /\ host.generation < MaxGen
  /\ setting # wanted.setting
  /\ wanted' = [wanted EXCEPT !.setting = setting]
  /\ Become(IF \/ host.applied = NoSetting /\ ~host.failed
               \/ host.applied = setting
            THEN World ELSE StartSession(World, setting))

(* The settings of the rebuild are those applied last, if any.             *)
ReloadIdentity ==
  /\ ~host.disposed /\ host.generation < MaxGen
  /\ Become(StartSession(World, IF host.applied = NoSetting
                                THEN wanted.setting ELSE host.applied))
  /\ UNCHANGED wanted

Switching(c) == c[1] = "switch" /\ call[c].pc \in {"teardown", "build"}

(* Nothing before there is a session, though the screens show the target.  *)
SelectTarget(k) ==
  /\ ~host.disposed
  /\ call[<<"switch", k>>].pc = "idle"
  /\ \A n \in 1..(k - 1) : call[<<"switch", n>>].pc # "idle"
  /\ Overlap \/ \A c \in Call : ~Switching(c)
  /\ Become(IF host.session = 0 THEN Ends(World, <<"switch", k>>)
            ELSE SwitchTarget(World, <<"switch", k>>, host.session))
  /\ wanted' = [wanted EXCEPT !.target = k]

(* dispose releases the key first, which throws on an engine that has been *)
(* disposed of; what follows, the session's disposal too, is then skipped. *)
DisposeHost ==
  /\ ~host.disposed
  /\ LET marked == [World EXCEPT !.host.disposed = TRUE]
         released == [marked EXCEPT !.talking = @ \ {host.engine}]
     IN  Become(IF host.engine # NoCall /\ ~KeyWorks THEN marked
                ELSE IF host.session = 0 THEN [released EXCEPT !.host.heard = 0]
                ELSE Dispose([released EXCEPT !.host.heard = 0], host.session))
  /\ UNCHANGED wanted

-----------------------------------------------------------------------------
Runs ==
  \/ \E g \in Gen : Enrolled(g) \/ StartTimesOut(g)
  \/ \E c \in Call :
       \/ PartDisposed(c) \/ SignalingStarted(c) \/ ChainUp(c)
       \/ ChainFails(c) \/ TransmissionEnds(c)

Uses ==
  \/ PressPtt \/ ReleasePtt \/ ReloadIdentity \/ DisposeHost
  \/ \E setting \in Setting : ApplySettings(setting)
  \/ \E k \in 1..MaxSwitch : SelectTarget(k)

Next == Runs \/ Uses

Spec == Init /\ [][Next]_vars

(* The two timers of the host.  What they bound, the directory, the        *)
(* sockets and the platform, may hang for ever.                            *)
FairSpec ==
  Spec /\ \A g \in Gen : WF_vars(Enrolled(g)) /\ WF_vars(StartTimesOut(g))

-----------------------------------------------------------------------------
TypeOK ==
  /\ host \in [disposed : BOOLEAN, booted : BOOLEAN, generation : Gen,
               session : 0..MaxGen, heard : 0..MaxGen,
               engine : Call \cup {NoCall},
               applied : Setting \cup {NoSetting}, failed : BOOLEAN]
  /\ starting \in [Gen -> [pc : {"idle", "enrol", "start", "over"},
                           setting : Setting \cup {NoSetting}]]
  /\ sess \in [Gen -> [setting : Setting \cup {NoSetting},
                       disposed : BOOLEAN, closed : BOOLEAN,
                       held : [Part -> Call \cup {NoCall}]]]
  /\ call \in [Call -> [session : 0..MaxGen,
                        pc : {"idle", "teardown", "build", "over"},
                        at : Range(Parts) \cup {"none"}]]
  /\ alive \subseteq Call \X Part /\ talking \subseteq Call
  /\ wanted \in [setting : Setting, target : 0..MaxSwitch]

(* Nothing is under way.                                                   *)
Quiet ==
  /\ \A g \in Gen : starting[g].pc \in {"idle", "over"}
  /\ \A c \in Call : call[c].pc \in {"idle", "over"}

Made(g) == call[<<"start", g>>].pc # "idle"

(* Rebuilds may overlap with one another, with switches and with           *)
(* failures, but when all is quiet every session that was made has been    *)
(* disposed of, except the one the host has; and a host that has not       *)
(* failed has the newest (VT-002).                                         *)
OneSession ==
  Quiet =>
    /\ \A g \in Gen : Made(g) => sess[g].disposed \/ g = host.session
    /\ ~host.disposed /\ ~host.failed => host.session = host.generation

(* The host is on the air only with the engine under the PTT: across       *)
(* rebuilds and switches nobody loses the key to a transmission.           *)
KeyReachesTalker == talking \subseteq {host.engine}

(* When all is quiet and the session runs an engine, it is the engine the  *)
(* host holds.                                                             *)
KeyIsCurrent ==
  Quiet /\ ~host.disposed /\ host.session # 0 =>
    sess[host.session].held["engine"] \in {NoCall, host.engine}

(* What has been made and not disposed of is in a field of its session, so *)
(* that a teardown can find it.                                            *)
NoOrphan ==
  Quiet => \A p \in alive :
             sess[call[p[1]].session].held[p[2]] = p[1]

(* However the directory, the sockets and the platform hang, boot ends.    *)
BootLands == <>(host.booted \/ host.disposed)

(* VT-002: the final state matches the latest intent.                      *)
SettingsWin ==
  Quiet /\ ~host.disposed /\ host.session # 0 =>
    sess[host.session].setting = wanted.setting

(* A session that could not be established leaves no engine under the key. *)
InertWhenDown ==
  Quiet /\ ~host.disposed /\ host.engine # NoCall => KeyWorks

(* A switch that completes late does not put the engine of an older target *)
(* in the place of a newer one's (Technical 4).                            *)
NoStaleSwitch ==
  [][host.engine[1] = "switch" /\ host.engine'[1] = "switch" =>
       host.engine[2] <= host.engine'[2]]_vars
=============================================================================
