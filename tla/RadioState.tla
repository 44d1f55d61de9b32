----------------------------- MODULE RadioState -----------------------------
(***************************************************************************)
(* The reducer of the screen's state and the bridge that feeds it a floor  *)
(* engine's effects: src/lib/core/state/radio_state.dart and               *)
(* radio_state_bridge.dart.  Of the 20 fields of RadioState the floor can  *)
(* reach three that other parts depend on: the phase, the active speaker   *)
(* and the EMG lamp.                                                       *)
(***************************************************************************)
EXTENDS Arbiter

RadioPhase == {"off", "boot", "idle", "tuning", "txRequest", "tx", "rxActive",
               "linkDegraded"}

Radio == [phase : RadioPhase, speaker : Peer \cup {NoPeer}, emergency : BOOLEAN]

RadioAt(phase) == [phase |-> phase, speaker |-> NoPeer, emergency |-> FALSE]

(* The phase each event leads to; an event out of its phase is ignored.    *)
NextPhase(phase, event) ==
  CASE event = "PowerOff"                                         -> "off"
    [] event = "PowerOn"            /\ phase = "off"              -> "boot"
    [] event = "BootCompleted"      /\ phase = "boot"             -> "idle"
    [] event = "BeginTuning"        /\ phase = "idle"             -> "tuning"
    [] event = "FinishTuning"       /\ phase = "tuning"           -> "idle"
    [] event = "RequestTransmit"    /\ phase = "idle"             -> "txRequest"
    [] event = "TransmitGranted"    /\ phase = "txRequest"        -> "tx"
    [] event = "TransmitDenied"     /\ phase = "txRequest"        -> "idle"
    [] event = "EndTransmit"        /\ phase = "tx"               -> "idle"
    [] event = "RemoteFloorStarted" /\ phase = "idle"             -> "rxActive"
    [] event = "RemoteFloorEnded"   /\ phase = "rxActive"         -> "idle"
    [] event = "LinkDegraded"       /\ phase # "off"              -> "linkDegraded"
    [] event = "LinkResolved"       /\ phase = "linkDegraded"     -> "idle"
    [] OTHER                                                      -> phase

(* The bridge dispatches the event and then the speaker it implies; holder *)
(* is what the engine's holder getter returns while the effect is emitted. *)
Speaker(speaker, event, holder, self) ==
  CASE event = "RemoteFloorStarted"                        -> holder
    [] event \in {"RemoteFloorEnded", "EndTransmit", "PowerOff"} -> NoPeer
    [] event = "TransmitGranted" -> IF holder = NoPeer THEN self ELSE holder
    [] OTHER                                               -> speaker

Reduce(radio, event, holder, self) ==
  [radio EXCEPT !.phase   = NextPhase(@, event),
                !.speaker = Speaker(@, event, holder, self)]

LampOn(radio)  == [radio EXCEPT !.emergency = TRUE]
LampOff(radio) == [radio EXCEPT !.emergency = FALSE]
=============================================================================
