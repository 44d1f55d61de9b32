---------------------------- MODULE RadioSession ----------------------------
(***************************************************************************)
(* RadioSessionController: one session runs one chain of objects at a      *)
(* time, a LOCAL one (signaling, discovery, mesh and its transport) or a   *)
(* LINKED one (the relay's controller and the proxy transport), around a   *)
(* floor engine.  start, switchTarget and dispose are asynchronous, and    *)
(* nothing keeps them from overlapping; a call's state is where it waits.  *)
(*                                                                         *)
(* The operators take and return the whole state `w', so that a call may   *)
(* go on into the next and into its caller in one turn of the event loop.  *)
(* A chain has the name of the call that builds it.  Awaits that complete  *)
(* by microtasks (cancelling a subscription, disposing of the bridge) let  *)
(* no event in between and are not steps of their own.                     *)
(***************************************************************************)
EXTENDS Naturals, Sequences, FiniteSets, FiniteSetsExt

CONSTANTS
  Setting,    \* the values of the settings a session depends on
  Relayed,    \* those with a relay and without forceLocalOnly
  MaxGen,     \* bound on the sessions of one host
  MaxSwitch   \* bound on the calls of switchTarget

ASSUME SessionAssumption ==
  /\ Relayed \subseteq Setting
  /\ {MaxGen, MaxSwitch} \subseteq Nat \ {0}

Gen == 1..MaxGen

Call == ({"start", "dispose"} \X Gen) \cup ({"switch"} \X (1..MaxSwitch))

NoCall == <<"none", 0>>

(* What a teardown awaits the disposal of, in its order.                   *)
Parts == <<"mesh", "signaling", "discovery", "meshTransport",
           "linked", "linkedTransport">>

Part == Range(Parts) \cup {"engine"}

ChainParts(relay) ==
  IF relay THEN {"linked", "linkedTransport", "engine"}
  ELSE {"mesh", "signaling", "discovery", "meshTransport", "engine"}

(* A controller that has not started: its fields are null.                 *)
NewSession(setting) ==
  [setting |-> setting, disposed |-> FALSE, closed |-> FALSE,
   held |-> [part \in Part |-> NoCall]]

Idle == [session |-> 0, pc |-> "idle", at |-> "none"]

Waits(w, c, pc, part) ==
  [w EXCEPT !.call[c].pc = pc, !.call[c].at = part]

Ends(w, c) == Waits(w, c, "over", "none")

(* Disposing of a part silences an engine as well.                         *)
Kill(w, parts) ==
  [w EXCEPT !.alive = @ \ parts,
            !.talking = {c \in @ : <<c, "engine">> \notin parts}]

(* _startLocal and _startLinked up to their first await.                   *)
Build(w, c) ==
  IF c[1] = "switch" /\ w.sess[w.call[c].session].setting \in Relayed
  THEN Waits([w EXCEPT !.alive = @ \cup ({c} \X ChainParts(TRUE))],
             c, "build", "linked")
  ELSE Waits([w EXCEPT !.alive = @ \cup {<<c, "signaling">>}],
             c, "build", "signaling")

(* The end of _teardownActive.  The engine goes last, whichever it is now. *)
TornDown(w, c) ==
  LET s == w.call[c].session
      engine == w.sess[s].held["engine"]
      bare == Kill([w EXCEPT !.sess[s].held["engine"] = NoCall],
                   {<<engine, "engine">>})
  IN  IF c[1] = "switch" THEN Build(bare, c)
      ELSE Ends([bare EXCEPT !.sess[s].closed = TRUE], c)

(* _teardownActive from its n-th part: what the field holds now is taken   *)
(* and its disposal awaited; an empty field costs no await.                *)
TearDown(w, c, n) ==
  LET s == w.call[c].session
      left == {i \in n..Len(Parts) : w.sess[s].held[Parts[i]] # NoCall}
      part == Parts[Min(left)]
  IN  IF left = {} THEN TornDown(w, c)
      ELSE Waits(Kill([w EXCEPT !.sess[s].held[part] = NoCall],
                      {<<w.sess[s].held[part], part>>}),
                 c, "teardown", part)

ResumeTearDown(w, c) ==
  TearDown(w, c, 1 + CHOOSE i \in 1..Len(Parts) : Parts[i] = w.call[c].at)

(* The slip of a teardown that trusts the disposal to end a transmission.  *)
BeginTearDownKeyed(w, c, s) == TearDown([w EXCEPT !.call[c].session = s], c, 1)

(* _teardownActive starts with a release of the local transmission.        *)
BeginTearDown(w, c, s) ==
  TearDown([w EXCEPT !.call[c].session = s,
                     !.talking = @ \ {w.sess[s].held["engine"]}], c, 1)

Dispose(w, s) ==
  IF w.sess[s].disposed THEN w
  ELSE BeginTearDown([w EXCEPT !.sess[s].disposed = TRUE],
                     <<"dispose", s>>, s)

(* start: the first chain is always LOCAL.                                 *)
Start(w, s) ==
  Build([w EXCEPT !.call[<<"start", s>>].session = s], <<"start", s>>)

(* switchTarget refuses a disposed controller and nothing else.            *)
SwitchTarget(w, c, s) ==
  IF w.sess[s].disposed THEN Ends(w, c) ELSE BeginTearDown(w, c, s)

(* Signaling is up: discovery is made and started.                         *)
SignalingUp(w, c) ==
  Waits([w EXCEPT !.alive = @ \cup {<<c, "discovery">>}],
        c, "build", "discovery")

(* The last await is over: the fields are set and _adoptEngine runs, with  *)
(* no look at whether the controller has been disposed of meanwhile.       *)
Adopt(w, c) ==
  LET s == w.call[c].session
      parts == ChainParts(w.call[c].at = "linked")
  IN  Ends([w EXCEPT !.alive = @ \cup ({c} \X parts),
                     !.sess[s].held = [part \in Part |->
                        IF part \in parts THEN c ELSE @[part]]], c)

(* The slip of a failure path that forgets what was made last.             *)
BuildFailedHalf(w, c) == Ends(Kill(w, {c} \X (Part \ {"discovery"})), c)

(* The chain failed or its bound ran out: what has been built is disposed  *)
(* of, and the caller gets a SessionEstablishmentFailure.                  *)
BuildFailed(w, c) == Ends(Kill(w, {c} \X Part), c)
=============================================================================
