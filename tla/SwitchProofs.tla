---------------------------- MODULE SwitchProofs ----------------------------
(***************************************************************************)
(* Proofs about RadioHost where a target is not selected while a switch is *)
(* under way: the host is on the air only with the engine under the key,   *)
(* and nothing that has been made escapes the teardowns.                   *)
(*                                                                         *)
(* The argument: a chain is built only where a session's fields are empty, *)
(* so that setting them drops nothing; what is alive is in the hands of a  *)
(* call that builds or in a field; and so whoever transmits holds the      *)
(* engine in a field of the host's session, which has to be emptied, and   *)
(* the transmission ended, before there is another engine.                 *)
(***************************************************************************)
EXTENDS HostProofs

Switches(w, c) == c[1] = "switch" /\ w.call[c].pc \in {"teardown", "build"}

HeldBy(w, c) == w.sess[w.call[c].session].held

OneSwitch(w) == \A c, d \in Call : Switches(w, c) /\ Switches(w, d) => c = d

(* A switch works on a session whose start is over.                        *)
SwitchAfterStart(w) ==
  \A c \in Call : Switches(w, c) => w.call[<<"start", w.call[c].session>>].pc = "over"

(* Who builds has found or made the fields empty; who tears down has       *)
(* emptied them so far.                                                    *)
BuildsBare(w) ==
  \A c \in Call : w.call[c].pc = "build" => \A p \in Part : HeldBy(w, c)[p] = NoCall

TearsBare(w) ==
  \A c \in Call : Switches(w, c) /\ w.call[c].pc = "teardown" =>
    \E i \in 1..6 : /\ w.call[c].at = Parts[i]
                    /\ \A j \in 1..i : HeldBy(w, c)[Parts[j]] = NoCall

(* What is alive will be set, or is, in its field.                         *)
Lives(w) ==
  \A c \in Call, p \in Part : <<c, p>> \in w.alive =>
    /\ w.call[c].session \in Gen
    /\ \/ w.call[c].pc = "build" /\ p \in AdoptedParts(w, c)
       \/ w.call[c].pc = "over" /\ HeldBy(w, c)[p] = c

Talks(w) == \A c \in w.talking : c = w.host.engine /\ <<c, "engine">> \in w.alive

AirOK(w) ==
  /\ OneSwitch(w) /\ SwitchAfterStart(w) /\ BuildsBare(w) /\ TearsBare(w)
  /\ Lives(w) /\ Talks(w)

AirInv == AirOK(World)

-----------------------------------------------------------------------------
(* Teardowns.                                                              *)

LEMMA PartCases ==
  /\ "engine" \in Part
  /\ \A j \in 1..6 : Parts[j] \in Part
  /\ \A p \in Part : p = "engine" \/ \E j \in 1..6 : p = Parts[j]
<1>1. /\ \A j \in 1..6 : Parts[j] \in Range(Parts)
      /\ \A p \in Range(Parts) : \E j \in 1..6 : p = Parts[j]
  BY PartsFacts DEF Range
<1> QED BY <1>1 DEF Part

LEMMA TornAir ==
  ASSUME NEW w \in Worlds, NEW v, NEW c \in Call, NEW s \in Gen, NEW n \in 1..7,
         Torn(w, v, c, s, n), CallsOK(w), AirOK(w),
         c[1] # "start", w.call[c].pc \in {"idle", "teardown"},
         c[1] = "switch" =>
           /\ \A d \in Call : Switches(w, d) => d = c
           /\ w.call[<<"start", s>>].pc = "over"
           /\ \A j \in 1..(n - 1) : w.sess[s].held[Parts[j]] = NoCall
  PROVE  AirOK(v)
<1>1. /\ v \in Worlds
      /\ v.host = w.host
      /\ \A d \in Call : d # c => v.call[d] = w.call[d]
      /\ \A g \in Gen : g # s => v.sess[g] = w.sess[g]
      /\ \A p \in Part : v.sess[s].held[p] \in {w.sess[s].held[p], NoCall}
      /\ v.call[c].session = s
  BY DEF Torn
<1>2. \/ /\ v.call[c].pc = "teardown"
         /\ \E i \in n..6 : /\ v.call[c].at = Parts[i]
                            /\ \A j \in n..i : v.sess[s].held[Parts[j]] = NoCall
      \/ /\ c[1] = "switch" /\ v.call[c].pc = "build"
         /\ v.sess[s].held["engine"] = NoCall
         /\ \A j \in n..6 : v.sess[s].held[Parts[j]] = NoCall
      \/ c[1] # "switch" /\ v.call[c].pc = "over"
  BY DEF Torn
<1>3. /\ \A d \in Call, p \in Part :
           d # c => (<<d, p>> \in v.alive <=>
                       <<d, p>> \in w.alive /\ ~(w.sess[s].held[p] = d /\ v.sess[s].held[p] = NoCall))
      /\ \A p \in Part : <<c, p>> \in v.alive =>
           <<c, p>> \in w.alive
           \/ (v.call[c].pc = "build" /\ p \in ChainParts(v.call[c].at = "linked"))
      /\ \A d \in Call :
           d \in v.talking =>
             d \in w.talking /\ ~(w.sess[s].held["engine"] = d /\ v.sess[s].held["engine"] = NoCall)
  BY DEF Torn
<1>4. \A g \in Gen, p \in Part : v.sess[g].held[p] \in {w.sess[g].held[p], NoCall}
  <2> SUFFICES ASSUME NEW g \in Gen, NEW p \in Part
               PROVE  v.sess[g].held[p] \in {w.sess[g].held[p], NoCall}
    OBVIOUS
  <2>1. CASE g = s BY <1>1, <2>1
  <2>2. CASE g # s BY <1>1, <2>2
  <2> QED BY <2>1, <2>2
<1>5. \A j \in 1..6 : Parts[j] \in Part BY PartCases
<1>6. c[1] = "switch" => \A j \in 1..(n - 1) : v.sess[s].held[Parts[j]] = NoCall
  <2> SUFFICES ASSUME c[1] = "switch", NEW j \in 1..(n - 1)
               PROVE  v.sess[s].held[Parts[j]] = NoCall
    OBVIOUS
  <2>1. Parts[j] \in Part BY <1>5
  <2>2. w.sess[s].held[Parts[j]] = NoCall OBVIOUS
  <2> QED BY <1>1, <2>1, <2>2
<1>7. \A p \in Part : <<c, p>> \notin w.alive BY DEF AirOK, Lives
<1>8. \A d \in Call : Switches(v, d) => d = c \/ Switches(w, d) BY <1>1 DEF Switches
<1>9. OneSwitch(v)
  <2> SUFFICES ASSUME NEW d \in Call, NEW e \in Call, Switches(v, d), Switches(v, e)
               PROVE  d = e
    BY DEF OneSwitch
  <2>1. CASE c[1] = "switch" BY <1>8, <2>1
  <2>2. CASE c[1] # "switch"
    <3>1. d # c /\ e # c BY <2>2 DEF Switches
    <3> QED BY <1>8, <3>1 DEF AirOK, OneSwitch
  <2> QED BY <2>1, <2>2
<1>10. \A g \in Gen : v.call[<<"start", g>>] = w.call[<<"start", g>>]
  <2> SUFFICES ASSUME NEW g \in Gen PROVE v.call[<<"start", g>>] = w.call[<<"start", g>>]
    OBVIOUS
  <2>1. <<"start", g>>[1] = "start" /\ <<"start", g>> \in Call BY CallFacts
  <2> QED BY <1>1, <2>1
<1>11. SwitchAfterStart(v)
  <2> SUFFICES ASSUME NEW d \in Call, Switches(v, d)
               PROVE  v.call[<<"start", v.call[d].session>>].pc = "over"
    BY DEF SwitchAfterStart
  <2>1. CASE d = c
    <3>1. c[1] = "switch" BY <2>1 DEF Switches
    <3> QED BY <1>1, <1>10, <2>1, <3>1
  <2>2. CASE d # c
    <3>1. v.call[d] = w.call[d] /\ Switches(w, d) BY <1>1, <1>8, <2>2
    <3>2. w.call[d].session \in Gen BY <3>1, WorkFacts DEF Switches
    <3>3. w.call[<<"start", w.call[d].session>>].pc = "over"
      BY <3>1 DEF AirOK, SwitchAfterStart
    <3> QED BY <1>10, <3>1, <3>2, <3>3
  <2> QED BY <2>1, <2>2
<1>12. BuildsBare(v)
  <2> SUFFICES ASSUME NEW d \in Call, v.call[d].pc = "build", NEW p \in Part
               PROVE  HeldBy(v, d)[p] = NoCall
    BY DEF BuildsBare
  <2>1. CASE d = c
    <3>1. /\ c[1] = "switch" /\ v.sess[s].held["engine"] = NoCall
          /\ \A j \in n..6 : v.sess[s].held[Parts[j]] = NoCall
      BY <1>2, <2>1
    <3>2. p = "engine" \/ \E j \in 1..6 : p = Parts[j] BY PartCases
    <3>3. ASSUME NEW j \in 1..6 PROVE v.sess[s].held[Parts[j]] = NoCall
      <4>1. j \in 1..(n - 1) \/ j \in n..6 OBVIOUS
      <4> QED BY <1>6, <3>1, <4>1
    <3> QED BY <1>1, <2>1, <3>1, <3>2, <3>3 DEF HeldBy
  <2>2. CASE d # c
    <3>1. v.call[d] = w.call[d] BY <1>1, <2>2
    <3>2. w.call[d].session \in Gen BY <3>1, WorkFacts
    <3>3. HeldBy(w, d)[p] = NoCall BY <3>1 DEF AirOK, BuildsBare
    <3> QED BY <1>4, <3>1, <3>2, <3>3 DEF HeldBy
  <2> QED BY <2>1, <2>2
<1>13. TearsBare(v)
  <2> SUFFICES ASSUME NEW d \in Call, Switches(v, d), v.call[d].pc = "teardown"
               PROVE  \E i \in 1..6 : /\ v.call[d].at = Parts[i]
                                      /\ \A j \in 1..i : HeldBy(v, d)[Parts[j]] = NoCall
    BY DEF TearsBare
  <2>1. CASE d = c
    <3>1. c[1] = "switch" BY <2>1 DEF Switches
    <3>2. PICK i \in n..6 : /\ v.call[c].at = Parts[i]
                            /\ \A j \in n..i : v.sess[s].held[Parts[j]] = NoCall
      BY <1>2, <2>1
    <3>3. i \in 1..6 OBVIOUS
    <3>4. ASSUME NEW j \in 1..i PROVE v.sess[s].held[Parts[j]] = NoCall
      <4>1. j \in 1..(n - 1) \/ j \in n..i BY <3>3
      <4> QED BY <1>6, <3>1, <3>2, <4>1
    <3> QED BY <1>1, <2>1, <3>2, <3>3, <3>4 DEF HeldBy
  <2>2. CASE d # c
    <3>1. v.call[d] = w.call[d] /\ Switches(w, d) BY <1>1, <1>8, <2>2
    <3>2. w.call[d].session \in Gen BY <3>1, WorkFacts DEF Switches
    <3>3. PICK i \in 1..6 : /\ w.call[d].at = Parts[i]
                            /\ \A j \in 1..i : HeldBy(w, d)[Parts[j]] = NoCall
      BY <3>1 DEF AirOK, TearsBare
    <3>4. \A j \in 1..i : Parts[j] \in Part /\ HeldBy(v, d)[Parts[j]] = NoCall
      <4> SUFFICES ASSUME NEW j \in 1..i
                   PROVE  Parts[j] \in Part /\ HeldBy(v, d)[Parts[j]] = NoCall
        OBVIOUS
      <4>1. Parts[j] \in Part BY <1>5
      <4>2. HeldBy(w, d)[Parts[j]] = NoCall BY <3>3
      <4> QED BY <1>4, <3>1, <3>2, <4>1, <4>2 DEF HeldBy
    <3> QED BY <3>1, <3>3, <3>4
  <2> QED BY <2>1, <2>2
<1>14. Lives(v)
  <2> SUFFICES ASSUME NEW d \in Call, NEW p \in Part, <<d, p>> \in v.alive
               PROVE  /\ v.call[d].session \in Gen
                      /\ \/ v.call[d].pc = "build" /\ p \in AdoptedParts(v, d)
                         \/ v.call[d].pc = "over" /\ HeldBy(v, d)[p] = d
    BY DEF Lives
  <2>1. CASE d = c BY <1>1, <1>3, <1>7, <2>1 DEF AdoptedParts
  <2>2. CASE d # c
    <3>1. v.call[d] = w.call[d] BY <1>1, <2>2
    <3>2. <<d, p>> \in w.alive /\ ~(w.sess[s].held[p] = d /\ v.sess[s].held[p] = NoCall)
      BY <1>3, <2>2
    <3>3. /\ w.call[d].session \in Gen
          /\ \/ w.call[d].pc = "build" /\ p \in AdoptedParts(w, d)
             \/ w.call[d].pc = "over" /\ HeldBy(w, d)[p] = d
      BY <3>2 DEF AirOK, Lives
    <3>4. HeldBy(w, d)[p] = d => HeldBy(v, d)[p] = d
      <4>1. CASE w.call[d].session = s BY <1>1, <3>1, <3>2, <4>1 DEF HeldBy
      <4>2. CASE w.call[d].session # s BY <1>1, <3>1, <3>3, <4>2 DEF HeldBy
      <4> QED BY <4>1, <4>2
    <3> QED BY <3>1, <3>3, <3>4 DEF AdoptedParts
  <2> QED BY <2>1, <2>2
<1>15. Talks(v)
  <2> SUFFICES ASSUME NEW d \in v.talking
               PROVE  d = v.host.engine /\ <<d, "engine">> \in v.alive
    BY DEF Talks
  <2>1. d \in Call BY <1>1 DEF Worlds
  <2>2. d \in w.talking /\ ~(w.sess[s].held["engine"] = d /\ v.sess[s].held["engine"] = NoCall)
    BY <1>3, <2>1
  <2>3. d = w.host.engine /\ <<d, "engine">> \in w.alive BY <2>2 DEF AirOK, Talks
  <2>4. d # c BY <1>7, <2>3, PartCases
  <2> QED BY <1>1, <1>3, <2>1, <2>2, <2>3, <2>4, PartCases
<1> QED BY <1>9, <1>11, <1>12, <1>13, <1>14, <1>15 DEF AirOK

(* What touches neither a field nor a call nor what is alive.              *)
LEMMA FrameAir ==
  ASSUME NEW w, AirOK(w), CallsOK(w), w \in Worlds, NEW v \in Worlds,
         v.call = w.call, v.alive = w.alive,
         \A g \in Gen : v.sess[g].held = w.sess[g].held,
         \A c \in v.talking : c \in w.talking,
         v.host.engine = w.host.engine \/ \A c \in Call : c \notin v.talking
  PROVE  AirOK(v)
<1>1. \A c \in Call : Switches(v, c) <=> Switches(w, c) BY DEF Switches
<1>2. \A c \in Call : w.call[c].session \in Gen => HeldBy(v, c) = HeldBy(w, c)
  BY DEF HeldBy
<1>3. \A c \in Call : w.call[c].pc \in {"teardown", "build"} => HeldBy(v, c) = HeldBy(w, c)
  BY <1>2, WorkFacts
<1>4. OneSwitch(v) /\ SwitchAfterStart(v)
  BY <1>1 DEF AirOK, OneSwitch, SwitchAfterStart
<1>5. BuildsBare(v) BY <1>3 DEF AirOK, BuildsBare
<1>6. TearsBare(v) BY <1>1, <1>3 DEF AirOK, TearsBare
<1>7. Lives(v) BY <1>2 DEF AirOK, Lives, AdoptedParts
<1>8. Talks(v)
  <2>1. v.talking \subseteq Call BY DEF Worlds
  <2> QED BY <2>1 DEF AirOK, Talks
<1> QED BY <1>4, <1>5, <1>6, <1>7, <1>8 DEF AirOK

LEMMA DisposeAir ==
  ASSUME NEW w, NEW x, HostInv(w, x), AirOK(w), NEW s \in Gen
  PROVE  /\ AirOK(Dispose(w, s))
         /\ ~w.sess[s].disposed => w.sess[s].held["engine"] \notin Dispose(w, s).talking
         /\ \A c \in Call : c \in Dispose(w, s).talking => c \in w.talking
<1> DEFINE a == [w EXCEPT !.sess[s].disposed = TRUE]
           c == <<"dispose", s>>
           v == BeginTearDown(a, c, s)
<1>1. w \in Worlds /\ CallsOK(w) /\ DisposalOK(w) BY DEF HostInv
<1>2. CASE w.sess[s].disposed BY <1>2 DEF Dispose
<1>3. CASE ~w.sess[s].disposed
  <2>1. /\ a \in Worlds
        /\ a.host = w.host /\ a.starting = w.starting /\ a.call = w.call
        /\ a.alive = w.alive /\ a.talking = w.talking
        /\ \A g \in Gen : g # s => a.sess[g] = w.sess[g]
        /\ a.sess[s].disposed /\ a.sess[s].closed = w.sess[s].closed
        /\ a.sess[s].held = w.sess[s].held
    BY <1>1, DisposeEffect
  <2>2. Dispose(w, s) = v BY <1>3 DEF Dispose
  <2> HIDE DEF a
  <2>3. c \in Call /\ c[1] = "dispose" BY CallFacts
  <2>4. w.call[c].pc = "idle" BY <1>1, <1>3 DEF DisposalOK
  <2> HIDE DEF c
  <2>5. Torn(a, v, c, s, 1) /\ a.sess[s].held["engine"] \notin v.talking
    BY <2>1, <2>3, BeginTears
  <2> HIDE DEF v
  <2>6. CallsOK(a) BY <1>1, <2>1 DEF CallsOK
  <2>7. AirOK(a)
    <3>1. \A g \in Gen : a.sess[g].held = w.sess[g].held
      <4> SUFFICES ASSUME NEW g \in Gen PROVE a.sess[g].held = w.sess[g].held OBVIOUS
      <4>1. CASE g = s BY <2>1, <4>1
      <4>2. CASE g # s BY <2>1, <4>2
      <4> QED BY <4>1, <4>2
    <3> QED BY <1>1, <2>1, <3>1, FrameAir
  <2>8. 1 \in 1..7 OBVIOUS
  <2>9. AirOK(v) BY <2>1, <2>3, <2>4, <2>5, <2>6, <2>7, <2>8, TornAir
  <2>10. \A d \in Call : d \in v.talking => d \in w.talking BY <2>1, <2>5 DEF Torn
  <2> QED BY <2>1, <2>2, <2>5, <2>9, <2>10
<1> QED BY <1>2, <1>3

(* Who transmits holds the engine in the field of the host's session.      *)
LEMMA TalkerHeld ==
  ASSUME NEW w, NEW x, HostInv(w, x), AirOK(w), NEW c \in w.talking
  PROVE  /\ c \in Call /\ c = w.host.engine /\ w.host.session \in Gen
         /\ w.call[c].session = w.host.session /\ w.call[c].pc = "over"
         /\ w.sess[w.host.session].held["engine"] = c
<1>1. w \in Worlds /\ HostOK(w, x) BY DEF HostInv
<1>2. c \in Call BY <1>1 DEF Worlds
<1>3. c = w.host.engine /\ <<c, "engine">> \in w.alive BY DEF AirOK, Talks
<1>4. c # NoCall BY <1>2, NoCallFact
<1>5. w.call[c].session = w.host.session /\ w.call[c].pc = "over"
  BY <1>1, <1>3, <1>4 DEF HostOK
<1>6. w.call[c].session \in Gen /\ HeldBy(w, c)["engine"] = c
  BY <1>2, <1>3, <1>5, PartCases DEF AirOK, Lives
<1> QED BY <1>2, <1>3, <1>5, <1>6 DEF HeldBy

-----------------------------------------------------------------------------
(* The host's starts.                                                      *)

LEMMA LetGoAir ==
  ASSUME NEW w, HostInv(w, 0), AirOK(w), ~w.host.disposed
  PROVE  AirOK(LetGo(w)) /\ \A c \in Call : c \notin LetGo(w).talking
<1>1. w \in Worlds /\ HostOK(w, 0) BY DEF HostInv
<1>2. w.host.session \in Gen \/ w.host.session = 0 BY <1>1, HostFacts
<1>3. CASE w.host.session = 0
  <2>1. LetGo(w) = w BY <1>3 DEF LetGo
  <2>2. \A c \in Call : c \notin w.talking BY <1>3, TalkerHeld, GenFacts
  <2> QED BY <2>1, <2>2
<1>4. CASE w.host.session \in Gen
  <2> DEFINE s == w.host.session
             v == Dispose(w, s)
  <2>1. s # 0 BY <1>4, GenFacts
  <2>2. LetGo(w) = v BY <2>1 DEF LetGo
  <2>3. ~w.sess[s].disposed BY <1>1, <2>1 DEF HostOK
  <2>4. AirOK(v) /\ w.sess[s].held["engine"] \notin v.talking
        /\ \A c \in Call : c \in v.talking => c \in w.talking
    BY <1>4, <2>3, DisposeAir
  <2> HIDE DEF v
  <2>5. \A c \in Call : c \notin v.talking BY <2>4, TalkerHeld
  <2> QED BY <2>2, <2>4, <2>5
<1> QED BY <1>2, <1>3, <1>4

LEMMA ReplaceAir ==
  ASSUME NEW w, HostInv(w, 0), AirOK(w), NEW g \in Gen, w.starting[g].pc = "enrol",
         ~Superseded(w, g)
  PROVE  AirOK(Replace(w, g))
<1> DEFINE let == LetGo(w)
           v == Replace(w, g)
           c == <<"start", g>>
<1>1. w \in Worlds /\ ~w.host.disposed BY DEF HostInv, Superseded
<1>2. /\ HostInv(let, w.host.session) /\ let.host = w.host /\ let.starting = w.starting
      /\ let \in Worlds
  BY LetGoKeeps DEF HostInv
<1>3. AirOK(let) /\ \A d \in Call : d \notin let.talking BY <1>1, LetGoAir
<1>4. /\ v \in Worlds
      /\ \A i \in Gen : i # g => v.sess[i] = let.sess[i]
      /\ \A p \in Part : v.sess[g].held[p] = NoCall
      /\ v.call[c].session = g /\ v.call[c].pc = "build"
      /\ \A d \in Call : d # c => v.call[d] = let.call[d]
      /\ v.talking = let.talking
      /\ \A d \in Call, p \in Part : d # c => (<<d, p>> \in v.alive <=> <<d, p>> \in let.alive)
      /\ \A p \in Part : <<c, p>> \in v.alive =>
           <<c, p>> \in let.alive \/ p \in ChainParts(v.call[c].at = "linked")
  BY <1>1, <1>2, ReplaceCases
<1> HIDE DEF let, v
<1>5. c \in Call /\ c[1] = "start" /\ c[2] = g BY CallFacts
<1>6. \A d \in Call : let.call[d].session # g BY <1>2 DEF HostInv, NumbersOK
<1>7. let.call[c].pc = "idle" BY <1>2, <1>5, <1>6 DEF HostInv, CallsOK
<1> HIDE DEF c
<1>8. \A d \in Call : Switches(v, d) => d # c /\ Switches(let, d)
  BY <1>4, <1>5 DEF Switches
<1>9. OneSwitch(v) BY <1>3, <1>8 DEF AirOK, OneSwitch
<1>10. CallsOK(let) BY <1>2 DEF HostInv
<1>11. SwitchAfterStart(v)
  <2> SUFFICES ASSUME NEW d \in Call, Switches(v, d)
               PROVE  v.call[<<"start", v.call[d].session>>].pc = "over"
    BY DEF SwitchAfterStart
  <2>1. d # c /\ Switches(let, d) /\ v.call[d] = let.call[d] BY <1>4, <1>8
  <2> DEFINE i == let.call[d].session
  <2>2. i \in Gen BY <1>2, <1>10, <2>1, WorkFacts DEF Switches
  <2>3. let.call[<<"start", i>>].pc = "over" BY <1>3, <2>1 DEF AirOK, SwitchAfterStart
  <2>4. <<"start", i>> # c BY <1>7, <2>3
  <2>5. <<"start", i>> \in Call BY <2>2, CallFacts
  <2> QED BY <1>4, <2>1, <2>3, <2>4, <2>5
<1>12. \A d \in Call : d # c /\ let.call[d].session \in Gen => HeldBy(v, d) = HeldBy(let, d)
  BY <1>4, <1>6 DEF HeldBy
<1>13. HeldBy(v, c) = v.sess[g].held BY <1>4 DEF HeldBy
<1>14. BuildsBare(v)
  <2> SUFFICES ASSUME NEW d \in Call, v.call[d].pc = "build", NEW p \in Part
               PROVE  HeldBy(v, d)[p] = NoCall
    BY DEF BuildsBare
  <2>1. CASE d = c BY <1>4, <1>13, <2>1
  <2>2. CASE d # c
    <3>1. v.call[d] = let.call[d] BY <1>4, <2>2
    <3>2. let.call[d].session \in Gen BY <1>2, <1>10, <3>1, WorkFacts
    <3>3. HeldBy(let, d)[p] = NoCall BY <1>3, <3>1 DEF AirOK, BuildsBare
    <3> QED BY <1>12, <2>2, <3>2, <3>3
  <2> QED BY <2>1, <2>2
<1>15. TearsBare(v)
  <2> SUFFICES ASSUME NEW d \in Call, Switches(v, d), v.call[d].pc = "teardown"
               PROVE  \E i \in 1..6 : /\ v.call[d].at = Parts[i]
                                      /\ \A j \in 1..i : HeldBy(v, d)[Parts[j]] = NoCall
    BY DEF TearsBare
  <2>1. d # c /\ Switches(let, d) /\ v.call[d] = let.call[d] BY <1>4, <1>8
  <2>2. let.call[d].session \in Gen BY <1>2, <1>10, <2>1, WorkFacts DEF Switches
  <2>3. HeldBy(v, d) = HeldBy(let, d) BY <1>12, <2>1, <2>2
  <2> QED BY <1>3, <2>1, <2>3 DEF AirOK, TearsBare
<1>16. Lives(v)
  <2> SUFFICES ASSUME NEW d \in Call, NEW p \in Part, <<d, p>> \in v.alive
               PROVE  /\ v.call[d].session \in Gen
                      /\ \/ v.call[d].pc = "build" /\ p \in AdoptedParts(v, d)
                         \/ v.call[d].pc = "over" /\ HeldBy(v, d)[p] = d
    BY DEF Lives
  <2>1. CASE d = c
    <3>1. <<c, p>> \notin let.alive BY <1>3, <1>5, <1>7 DEF AirOK, Lives
    <3> QED BY <1>4, <2>1, <3>1 DEF AdoptedParts
  <2>2. CASE d # c
    <3>1. v.call[d] = let.call[d] /\ <<d, p>> \in let.alive BY <1>4, <2>2
    <3>2. /\ let.call[d].session \in Gen
          /\ \/ let.call[d].pc = "build" /\ p \in AdoptedParts(let, d)
             \/ let.call[d].pc = "over" /\ HeldBy(let, d)[p] = d
      BY <1>3, <3>1 DEF AirOK, Lives
    <3>3. HeldBy(v, d) = HeldBy(let, d) BY <1>12, <2>2, <3>2
    <3> QED BY <3>1, <3>2, <3>3 DEF AdoptedParts
  <2> QED BY <2>1, <2>2
<1>17. Talks(v)
  <2>1. v.talking \subseteq Call BY <1>4 DEF Worlds
  <2> QED BY <1>3, <1>4, <2>1 DEF Talks
<1> QED BY <1>9, <1>11, <1>14, <1>15, <1>16, <1>17 DEF AirOK, v

LEMMA ReturnsAir ==
  ASSUME NEW w \in Worlds, CallsOK(w), AirOK(w), NEW g \in Gen
  PROVE  AirOK(Returns(w, g))
<1> DEFINE v == Returns(w, g)
<1>1. /\ v \in Worlds
      /\ v.sess = w.sess /\ v.call = w.call
      /\ v.alive = w.alive /\ v.talking = w.talking
      /\ v.host.engine = w.host.engine
  BY ReturnsEffect
<1> HIDE DEF v
<1>2. AirOK(v) BY <1>1, FrameAir
<1> QED BY <1>2 DEF v

LEMMA StartFailedAir ==
  ASSUME NEW w, NEW g \in Gen, w.starting[g].pc = "start" => HostInv(w, g), AirOK(w)
  PROVE  AirOK(StartFailed(w, g))
<1>1. CASE w.starting[g].pc # "start" BY <1>1 DEF StartFailed
<1>2. CASE w.starting[g].pc = "start"
  <2> DEFINE d == Dispose(w, g)
             failed == d.host.failed \/ ~Superseded(w, g)
             h == [d.host EXCEPT !.failed = failed]
             f == [d EXCEPT !.host = h]
  <2>1. w \in Worlds /\ HostInv(w, g) BY <1>2 DEF HostInv
  <2>2. d \in Worlds /\ d.host = w.host BY <2>1, DisposeFrame
  <2>3. AirOK(d) BY <2>1, DisposeAir
  <2>4. CallsOK(d)
    <3>1. HostInv(d, g) BY <1>2, <2>1, DisposeKeeps
    <3> QED BY <3>1 DEF HostInv
  <2>5. StartFailed(w, g) = Returns(f, g) BY <1>2, <2>2 DEF StartFailed, Worlds
  <2> HIDE DEF d
  <2>6. d.host \in Hosts BY <2>2, HostFacts
  <2>7. failed \in BOOLEAN BY <2>6 DEF Superseded, Hosts
  <2> HIDE DEF failed
  <2>8. h \in Hosts /\ h.engine = d.host.engine BY <2>6, <2>7 DEF Hosts
  <2> HIDE DEF h
  <2>9. /\ f \in Worlds /\ f.host = h
        /\ f.starting = d.starting /\ f.sess = d.sess /\ f.call = d.call
        /\ f.alive = d.alive /\ f.talking = d.talking
    BY <2>2, <2>8, HostEffect
  <2> HIDE DEF f
  <2>10. AirOK(f) BY <2>2, <2>3, <2>4, <2>8, <2>9, FrameAir
  <2>11. CallsOK(f) BY <2>4, <2>9 DEF CallsOK
  <2>12. AirOK(Returns(f, g)) BY <2>9, <2>10, <2>11, ReturnsAir
  <2> QED BY <2>5, <2>12
<1> QED BY <1>1, <1>2

-----------------------------------------------------------------------------
(* The chains.                                                             *)

(* Nobody else builds or tears down where a call builds, but for disposals.*)
LEMMA AloneAtWork ==
  ASSUME NEW w \in Worlds, CallsOK(w), AirOK(w), NEW c \in Call, w.call[c].pc = "build",
         NEW d \in Call, d # c, w.call[d].pc = "build" \/ Switches(w, d)
  PROVE  w.call[d].session # w.call[c].session
<1> DEFINE s == w.call[c].session
<1>1. SUFFICES ASSUME w.call[d].session = s PROVE FALSE OBVIOUS
<1>2. s \in Gen /\ (c[1] = "start" => c = <<"start", s>>) /\ (d[1] = "start" => d = <<"start", s>>)
  BY <1>1, WorkFacts DEF Switches
<1>3. c[1] \in {"start", "switch"} /\ d[1] \in {"start", "switch"}
  <2>1. c[1] \in {"start", "dispose", "switch"} /\ d[1] \in {"start", "dispose", "switch"}
    BY CallFacts
  <2> QED BY <2>1 DEF CallsOK, Switches
<1>4. c[1] = "switch" => Switches(w, c) BY DEF Switches
<1>5. d[1] = "switch" => Switches(w, d) BY DEF Switches
<1>6. Switches(w, c) \/ Switches(w, d) => w.call[<<"start", s>>].pc = "over"
  BY <1>1 DEF AirOK, SwitchAfterStart
<1>7. CASE c[1] = "start" /\ d[1] = "start" BY <1>2, <1>7
<1>8. CASE c[1] = "start" /\ d[1] = "switch" BY <1>2, <1>5, <1>6, <1>8
<1>9. CASE c[1] = "switch" /\ d[1] = "start"
  <2>1. w.call[d].pc = "over" BY <1>2, <1>4, <1>6, <1>9
  <2> QED BY <2>1 DEF Switches
<1>10. CASE c[1] = "switch" /\ d[1] = "switch" BY <1>4, <1>5, <1>10 DEF AirOK, OneSwitch
<1> QED BY <1>3, <1>7, <1>8, <1>9, <1>10

(* A call that was building is over, and what it has made is in the fields *)
(* or dead.                                                                *)
LEMMA ConcludedAir ==
  ASSUME NEW w, HostInv(w, 0), AirOK(w), NEW c \in Call, w.call[c].pc = "build",
         NEW v, Concluded(w, v, c),
         \A p \in Part : <<c, p>> \in v.alive => v.sess[w.call[c].session].held[p] = c,
         NEW e, e \in {w.host.engine, c},
         e = c => w.call[c].session = w.host.session
  PROVE  AirOK(WithEngine(v, e))
<1> DEFINE s == w.call[c].session
           u == WithEngine(v, e)
<1>1. w \in Worlds /\ CallsOK(w) BY DEF HostInv
<1>2. s \in Gen BY <1>1, WorkFacts
<1>3. /\ v \in Worlds
      /\ v.host = w.host
      /\ v.call[c].session = s /\ v.call[c].pc = "over"
      /\ \A d \in Call : d # c => v.call[d] = w.call[d]
      /\ \A g \in Gen : g # s => v.sess[g] = w.sess[g]
      /\ \A d \in Call, p \in Part : d # c => (<<d, p>> \in v.alive <=> <<d, p>> \in w.alive)
      /\ \A d \in Call : d \in v.talking => d \in w.talking
  BY DEF Concluded
<1>4. e \in Call \cup {NoCall} BY <1>1, HostFacts
<1>5. /\ u \in Worlds
      /\ u.sess = v.sess /\ u.call = v.call /\ u.alive = v.alive /\ u.talking = v.talking
      /\ u.host.engine = e
  BY <1>3, <1>4, EngineEffect
<1> HIDE DEF u, s
<1>6. \A p \in Part : w.sess[s].held[p] = NoCall BY DEF AirOK, BuildsBare, HeldBy, s
<1>7. \A d \in Call : Switches(u, d) => d # c /\ Switches(w, d)
  BY <1>3, <1>5 DEF Switches
<1>8. OneSwitch(u) BY <1>7 DEF AirOK, OneSwitch
<1>9. \A g \in Gen : w.call[<<"start", g>>].pc = "over" => u.call[<<"start", g>>].pc = "over"
  <2>1. \A g \in Gen : <<"start", g>> \in Call BY CallFacts
  <2> QED BY <1>3, <1>5, <2>1
<1>10. \A d \in Call : d # c /\ w.call[d].session \in Gen /\ w.call[d].session # s =>
         HeldBy(u, d) = HeldBy(w, d)
  BY <1>3, <1>5 DEF HeldBy
<1>11. \A d \in Call : d # c /\ (w.call[d].pc = "build" \/ Switches(w, d)) =>
         w.call[d].session \in Gen /\ HeldBy(u, d) = HeldBy(w, d)
  <2> SUFFICES ASSUME NEW d \in Call, d # c, w.call[d].pc = "build" \/ Switches(w, d)
               PROVE  w.call[d].session \in Gen /\ HeldBy(u, d) = HeldBy(w, d)
    OBVIOUS
  <2>1. w.call[d].session \in Gen BY <1>1, WorkFacts DEF Switches
  <2>2. w.call[d].session # s BY <1>1, AloneAtWork DEF s
  <2> QED BY <1>10, <2>1, <2>2
<1>12. SwitchAfterStart(u)
  <2> SUFFICES ASSUME NEW d \in Call, Switches(u, d)
               PROVE  u.call[<<"start", u.call[d].session>>].pc = "over"
    BY DEF SwitchAfterStart
  <2>1. d # c /\ Switches(w, d) /\ u.call[d] = w.call[d] BY <1>3, <1>5, <1>7
  <2>2. w.call[d].session \in Gen BY <1>11, <2>1
  <2>3. w.call[<<"start", w.call[d].session>>].pc = "over"
    BY <2>1 DEF AirOK, SwitchAfterStart
  <2> QED BY <1>9, <2>1, <2>2, <2>3
<1>13. BuildsBare(u)
  <2> SUFFICES ASSUME NEW d \in Call, u.call[d].pc = "build", NEW p \in Part
               PROVE  HeldBy(u, d)[p] = NoCall
    BY DEF BuildsBare
  <2>1. d # c /\ u.call[d] = w.call[d] BY <1>3, <1>5
  <2>2. HeldBy(u, d) = HeldBy(w, d) BY <1>11, <2>1
  <2> QED BY <2>1, <2>2 DEF AirOK, BuildsBare
<1>14. TearsBare(u)
  <2> SUFFICES ASSUME NEW d \in Call, Switches(u, d), u.call[d].pc = "teardown"
               PROVE  \E i \in 1..6 : /\ u.call[d].at = Parts[i]
                                      /\ \A j \in 1..i : HeldBy(u, d)[Parts[j]] = NoCall
    BY DEF TearsBare
  <2>1. d # c /\ Switches(w, d) /\ u.call[d] = w.call[d] BY <1>3, <1>5, <1>7
  <2>2. HeldBy(u, d) = HeldBy(w, d) BY <1>11, <2>1
  <2> QED BY <2>1, <2>2 DEF AirOK, TearsBare
<1>15. Lives(u)
  <2> SUFFICES ASSUME NEW d \in Call, NEW p \in Part, <<d, p>> \in u.alive
               PROVE  /\ u.call[d].session \in Gen
                      /\ \/ u.call[d].pc = "build" /\ p \in AdoptedParts(u, d)
                         \/ u.call[d].pc = "over" /\ HeldBy(u, d)[p] = d
    BY DEF Lives
  <2>1. CASE d = c
    <3>1. v.sess[s].held[p] = c BY <1>5, <2>1 DEF s
    <3> QED BY <1>2, <1>3, <1>5, <2>1, <3>1 DEF HeldBy
  <2>2. CASE d # c
    <3>1. u.call[d] = w.call[d] /\ <<d, p>> \in w.alive BY <1>3, <1>5, <2>2
    <3>2. /\ w.call[d].session \in Gen
          /\ \/ w.call[d].pc = "build" /\ p \in AdoptedParts(w, d)
             \/ w.call[d].pc = "over" /\ HeldBy(w, d)[p] = d
      BY <3>1 DEF AirOK, Lives
    <3>3. HeldBy(w, d)[p] = d => w.call[d].session # s
      BY <1>6, NoCallFact DEF HeldBy
    <3>4. HeldBy(w, d)[p] = d => HeldBy(u, d)[p] = d BY <1>10, <2>2, <3>2, <3>3
    <3> QED BY <3>1, <3>2, <3>4 DEF AdoptedParts
  <2> QED BY <2>1, <2>2
<1>16. Talks(u)
  <2> SUFFICES ASSUME NEW d \in u.talking
               PROVE  d = u.host.engine /\ <<d, "engine">> \in u.alive
    BY DEF Talks
  <2>1. d \in Call BY <1>5 DEF Worlds
  <2>2. d \in w.talking BY <1>3, <1>5, <2>1
  <2>3. /\ d = w.host.engine /\ w.call[d].pc = "over"
        /\ w.sess[w.host.session].held["engine"] = d
    BY <2>2, TalkerHeld
  <2>4. d # c BY <2>3
  <2>5. w.host.session # s BY <1>6, <2>1, <2>3, NoCallFact, PartCases
  <2>6. e = w.host.engine BY <2>5 DEF s
  <2>7. <<d, "engine">> \in w.alive BY <2>2 DEF AirOK, Talks
  <2> QED BY <1>3, <1>5, <2>1, <2>3, <2>4, <2>6, <2>7, PartCases
<1> QED BY <1>8, <1>12, <1>13, <1>14, <1>15, <1>16 DEF AirOK, u

LEMMA LandedAir ==
  ASSUME NEW w, NEW g \in Gen, w.starting[g].pc = "start" => HostInv(w, g), AirOK(w)
  PROVE  AirOK(Landed(w, g))
<1>1. CASE w.starting[g].pc # "start" BY <1>1 DEF Landed
<1>2. CASE w.starting[g].pc = "start" /\ ~Superseded(w, g)
  <2> DEFINE a == Settled(w, g)
  <2>1. w \in Worlds /\ HostInv(w, g) /\ CallsOK(w) /\ HostOK(w, g) BY <1>2 DEF HostInv
  <2>2. w.host.session = 0 BY <1>2, <2>1 DEF Superseded, HostOK
  <2>3. \A c \in Call : c \notin w.talking BY <2>1, <2>2, TalkerHeld, GenFacts
  <2>4. /\ a \in Worlds /\ a.sess = w.sess /\ a.call = w.call
        /\ a.alive = w.alive /\ a.talking = w.talking
    BY <2>1, SettledEffect
  <2>5. Landed(w, g) = Returns(a, g) BY <1>2 DEF Landed, Settled
  <2> HIDE DEF a
  <2>6. AirOK(a) BY <2>1, <2>3, <2>4, FrameAir
  <2>7. CallsOK(a) BY <2>1, <2>4 DEF CallsOK
  <2>8. AirOK(Returns(a, g)) BY <2>4, <2>6, <2>7, ReturnsAir
  <2> QED BY <2>5, <2>8
<1>3. CASE w.starting[g].pc = "start" /\ Superseded(w, g)
  <2> DEFINE d == Dispose(w, g)
  <2>1. HostInv(w, g) BY <1>3
  <2>2. HostInv(d, g) BY <1>3, <2>1, DisposeKeeps
  <2>3. AirOK(d) BY <2>1, DisposeAir
  <2>4. Landed(w, g) = Returns(d, g) BY <1>3 DEF Landed
  <2> HIDE DEF d
  <2>5. AirOK(Returns(d, g)) BY <2>2, <2>3, ReturnsAir DEF HostInv
  <2> QED BY <2>4, <2>5
<1> QED BY <1>1, <1>2, <1>3

LEMMA AdoptedAir ==
  ASSUME NEW w, HostInv(w, 0), AirOK(w), NEW c \in Call, w.call[c].pc = "build"
  PROVE  AirOK(Adopted(w, c))
<1> DEFINE s == w.call[c].session
           v == Adopt(w, c)
           u == Readopt(v, s, c)
<1>1. w \in Worlds /\ CallsOK(w) BY DEF HostInv
<1>2. s \in Gen /\ (c[1] = "start" => c = <<"start", s>>) BY <1>1, WorkFacts
<1>3. /\ Concluded(w, v, c) /\ v.sess[s].held["engine"] = c
      /\ \A p \in Part :
           /\ p \in AdoptedParts(w, c) => v.sess[s].held[p] = c
           /\ p \notin AdoptedParts(w, c) => (<<c, p>> \in v.alive <=> <<c, p>> \in w.alive)
  BY <1>1, <1>2, AdoptConcludes
<1>4. Adopted(w, c) = IF c[1] = "start" THEN Landed(u, s) ELSE u BY DEF Adopted
<1> HIDE DEF v
<1>5. \A p \in Part : <<c, p>> \in w.alive => p \in AdoptedParts(w, c) BY DEF AirOK, Lives
<1>6. \A p \in Part : <<c, p>> \in v.alive => v.sess[s].held[p] = c BY <1>3, <1>5
<1>7. PICK e \in {w.host.engine, c} :
        /\ u = WithEngine(v, e)
        /\ e = c => s = w.host.session
        /\ ~w.host.disposed /\ w.host.session = w.host.generation =>
             v.sess[w.host.generation].held["engine"] \in {NoCall, e}
  BY <1>3, ReadoptCases
<1> HIDE DEF u
<1>8. AirOK(u)
  <2>1. AirOK(WithEngine(v, e)) BY <1>3, <1>6, <1>7, ConcludedAir
  <2> QED BY <1>7, <2>1
<1>9. ASSUME c[1] = "start", w.starting[s].pc = "start" PROVE HostInv(u, s)
  <2>1. HostInv(WithEngine(v, e), s) BY <1>3, <1>7, <1>9, ConcludesKeeps
  <2> QED BY <1>7, <2>1
<1>10. u.starting = w.starting
  <2>1. v \in Worlds BY <1>3 DEF Concluded
  <2>2. e \in Call \cup {NoCall} BY <1>1, HostFacts
  <2>3. u.starting = v.starting BY <1>7, <2>1, <2>2, EngineEffect
  <2> QED BY <1>3, <2>3 DEF Concluded
<1>11. CASE c[1] # "start" BY <1>4, <1>8, <1>11
<1>12. CASE c[1] = "start"
  <2>1. u.starting[s].pc = "start" => HostInv(u, s) BY <1>9, <1>10, <1>12
  <2>2. AirOK(Landed(u, s)) BY <1>2, <1>8, <2>1, LandedAir
  <2> QED BY <1>4, <1>12, <2>2
<1> QED BY <1>11, <1>12

LEMMA AbandonedAir ==
  ASSUME NEW w, HostInv(w, 0), AirOK(w), NEW c \in Call, w.call[c].pc = "build"
  PROVE  AirOK(Abandoned(w, c))
<1> DEFINE s == w.call[c].session
           u == BuildFailed(w, c)
           e == w.host.engine
<1>1. w \in Worlds /\ CallsOK(w) /\ HostOK(w, 0) BY DEF HostInv
<1>2. s \in Gen BY <1>1, WorkFacts
<1>3. Concluded(w, u, c) /\ u.sess = w.sess /\ \A p \in Part : <<c, p>> \notin u.alive
  BY <1>1, BuildFailedConcludes
<1>4. Abandoned(w, c) = IF c[1] = "start" THEN StartFailed(u, s) ELSE u BY DEF Abandoned
<1> HIDE DEF u
<1>5. u \in Worlds /\ u.host = w.host /\ u.starting = w.starting BY <1>3 DEF Concluded
<1>6. u = WithEngine(u, e) BY <1>5, SameEngine
<1>7. e # c
  <2>1. c # NoCall BY NoCallFact
  <2> QED BY <1>1, <2>1 DEF HostOK
<1>8. ~w.host.disposed /\ w.host.session = w.host.generation =>
        u.sess[w.host.generation].held["engine"] \in {NoCall, e}
  BY <1>1, <1>3 DEF HostOK
<1>9. e \in {w.host.engine, c} OBVIOUS
<1> HIDE DEF e
<1>10. AirOK(u)
  <2>1. AirOK(WithEngine(u, e)) BY <1>3, <1>7, <1>9, ConcludedAir
  <2> QED BY <1>6, <2>1
<1>11. ASSUME c[1] = "start", w.starting[s].pc = "start" PROVE HostInv(u, s)
  <2>1. HostInv(WithEngine(u, e), s) BY <1>3, <1>7, <1>8, <1>9, <1>11, ConcludesKeeps
  <2> QED BY <1>6, <2>1
<1>12. CASE c[1] # "start" BY <1>4, <1>10, <1>12
<1>13. CASE c[1] = "start"
  <2>1. u.starting[s].pc = "start" => HostInv(u, s) BY <1>5, <1>11, <1>13
  <2>2. AirOK(StartFailed(u, s)) BY <1>2, <1>10, <2>1, StartFailedAir
  <2> QED BY <1>4, <1>13, <2>2
<1> QED BY <1>12, <1>13

(* Discovery is no part of a chain through the relay, which does not wait  *)
(* for signaling.                                                          *)
LEMMA SignalingAir ==
  ASSUME NEW w, HostInv(w, 0), AirOK(w), NEW c \in Call, w.call[c].pc = "build",
         w.call[c].at = "signaling"
  PROVE  AirOK(SignalingUp(w, c))
<1> DEFINE v == Laid(w, c, {"discovery"}, "discovery")
<1>1. w \in Worlds /\ CallsOK(w) BY DEF HostInv
<1>2. {<<c, "discovery">>} = {c} \X {"discovery"} OBVIOUS
<1>3. SignalingUp(w, c) = v BY <1>2 DEF SignalingUp, Laid
<1>4. {"discovery"} \in SUBSET Part /\ "discovery" \in Range(Parts) BY PartsFacts
<1>5. LaidOut(w, v, c, {"discovery"}, "discovery") BY <1>1, <1>4, LaidEffect
<1> HIDE DEF v
<1>6. /\ v \in Worlds
      /\ v.host = w.host /\ v.sess = w.sess /\ v.talking = w.talking
      /\ v.call[c].session = w.call[c].session /\ v.call[c].pc = "build"
      /\ v.call[c].at = "discovery"
      /\ \A d \in Call : d # c => v.call[d] = w.call[d]
      /\ \A d \in Call, p \in Part : d # c => (<<d, p>> \in v.alive <=> <<d, p>> \in w.alive)
      /\ \A p \in Part : <<c, p>> \in v.alive <=> <<c, p>> \in w.alive \/ p = "discovery"
  BY <1>5 DEF LaidOut
<1>7. \A d \in Call : v.call[d].session = w.call[d].session /\ v.call[d].pc = w.call[d].pc
  BY <1>6
<1>8. \A d \in Call : HeldBy(v, d) = HeldBy(w, d) /\ (Switches(v, d) <=> Switches(w, d))
  BY <1>6, <1>7 DEF HeldBy, Switches
<1>9. OneSwitch(v) BY <1>8 DEF AirOK, OneSwitch
<1>10. SwitchAfterStart(v)
  <2> SUFFICES ASSUME NEW d \in Call, Switches(v, d)
               PROVE  v.call[<<"start", v.call[d].session>>].pc = "over"
    BY DEF SwitchAfterStart
  <2>1. Switches(w, d) /\ v.call[d].session = w.call[d].session BY <1>7, <1>8
  <2>2. w.call[d].session \in Gen BY <1>1, <2>1, WorkFacts DEF Switches
  <2>3. <<"start", w.call[d].session>> \in Call BY <2>2, CallFacts
  <2> QED BY <1>7, <2>1, <2>3 DEF AirOK, SwitchAfterStart
<1>11. BuildsBare(v) BY <1>7, <1>8 DEF AirOK, BuildsBare
<1>12. TearsBare(v)
  <2> SUFFICES ASSUME NEW d \in Call, Switches(v, d), v.call[d].pc = "teardown"
               PROVE  \E i \in 1..6 : /\ v.call[d].at = Parts[i]
                                      /\ \A j \in 1..i : HeldBy(v, d)[Parts[j]] = NoCall
    BY DEF TearsBare
  <2>1. d # c /\ v.call[d] = w.call[d] BY <1>6
  <2> QED BY <1>8, <2>1 DEF AirOK, TearsBare
<1>13. AdoptedParts(v, c) = AdoptedParts(w, c) /\ "discovery" \in AdoptedParts(v, c)
  BY <1>6 DEF AdoptedParts, ChainParts
<1>14. Lives(v)
  <2> SUFFICES ASSUME NEW d \in Call, NEW p \in Part, <<d, p>> \in v.alive
               PROVE  /\ v.call[d].session \in Gen
                      /\ \/ v.call[d].pc = "build" /\ p \in AdoptedParts(v, d)
                         \/ v.call[d].pc = "over" /\ HeldBy(v, d)[p] = d
    BY DEF Lives
  <2>1. CASE d = c
    <3>1. w.call[c].session \in Gen BY <1>1, WorkFacts
    <3>2. p \in AdoptedParts(v, c) BY <1>6, <1>13, <2>1 DEF AirOK, Lives
    <3> QED BY <1>6, <2>1, <3>1, <3>2
  <2>2. CASE d # c
    <3>1. v.call[d] = w.call[d] /\ <<d, p>> \in w.alive BY <1>6, <2>2
    <3> QED BY <1>8, <3>1 DEF AirOK, Lives, AdoptedParts
  <2> QED BY <2>1, <2>2
<1>15. Talks(v)
  <2>1. w.talking \subseteq Call BY <1>1 DEF Worlds
  <2> QED BY <1>6, <2>1, PartCases DEF AirOK, Talks
<1> QED BY <1>3, <1>9, <1>10, <1>11, <1>12, <1>14, <1>15 DEF AirOK

LEMMA ResumeAir ==
  ASSUME NEW w, HostInv(w, 0), AirOK(w), NEW c \in Call, w.call[c].pc = "teardown"
  PROVE  AirOK(ResumeTearDown(w, c))
<1> DEFINE s == w.call[c].session
           i == CHOOSE i \in 1..Len(Parts) : Parts[i] = w.call[c].at
           v == ResumeTearDown(w, c)
<1>1. w \in Worlds /\ CallsOK(w) BY DEF HostInv
<1>2. s \in Gen /\ c[1] # "start" BY <1>1, WorkFacts DEF CallsOK
<1>3. i \in 1..6 /\ Parts[i] = w.call[c].at
  <2>1. w.call[c].at \in Range(Parts) BY <1>1 DEF CallsOK
  <2>2. \E j \in 1..6 : Parts[j] = w.call[c].at BY <2>1, PartsFacts DEF Range
  <2> QED BY <2>2, PartsFacts
<1>4. v = TearDown(w, c, 1 + i) BY DEF ResumeTearDown
<1> HIDE DEF i, v
<1>5. 1 + i \in 1..7 /\ (1 + i) - 1 = i BY <1>3
<1>6. Torn(w, v, c, s, 1 + i) BY <1>1, <1>2, <1>4, <1>5, TearDownTears
<1>7. ASSUME c[1] = "switch"
      PROVE  /\ \A d \in Call : Switches(w, d) => d = c
             /\ w.call[<<"start", s>>].pc = "over"
             /\ \A j \in 1..i : w.sess[s].held[Parts[j]] = NoCall
  <2>1. Switches(w, c) BY <1>7 DEF Switches
  <2>2. PICK k \in 1..6 : /\ w.call[c].at = Parts[k]
                          /\ \A j \in 1..k : HeldBy(w, c)[Parts[j]] = NoCall
    BY <2>1 DEF AirOK, TearsBare
  <2>3. \A a, b \in 1..6 : Parts[a] = Parts[b] => a = b BY DEF Parts
  <2>4. k = i BY <1>3, <2>2, <2>3
  <2>5. \A j \in 1..i : w.sess[s].held[Parts[j]] = NoCall BY <2>2, <2>4 DEF HeldBy
  <2> QED BY <2>1, <2>5 DEF AirOK, OneSwitch, SwitchAfterStart
<1>8. AirOK(v) BY <1>1, <1>2, <1>5, <1>6, <1>7, TornAir
<1> QED BY <1>8 DEF v

-----------------------------------------------------------------------------
(* The user's calls.                                                       *)

LEMMA EndsAir ==
  ASSUME NEW w, HostInv(w, 0), AirOK(w), NEW c \in Call, c[1] = "switch",
         w.call[c].pc = "idle"
  PROVE  AirOK(Ends(w, c))
<1> DEFINE v == Ends(w, c)
<1>1. w \in Worlds /\ CallsOK(w) BY DEF HostInv
<1>2. /\ v \in Worlds
      /\ v.host = w.host /\ v.sess = w.sess
      /\ v.alive = w.alive /\ v.talking = w.talking
      /\ v.call[c].session = w.call[c].session /\ v.call[c].pc = "over"
      /\ \A d \in Call : d # c => v.call[d] = w.call[d]
  <2>1. "over" \in {"idle", "teardown", "build", "over"} /\ "none" \in Range(Parts) \cup {"none"}
    OBVIOUS
  <2> QED BY <1>1, <2>1, WaitsEffect DEF Ends
<1> HIDE DEF v
<1>3. \A d \in Call : v.call[d].pc # "over" => v.call[d] = w.call[d] BY <1>2
<1>4. \A d \in Call : Switches(v, d) => d # c /\ Switches(w, d) /\ v.call[d] = w.call[d]
  BY <1>2 DEF Switches
<1>5. \A d \in Call : HeldBy(v, d) = HeldBy(w, d) BY <1>2 DEF HeldBy
<1>6. OneSwitch(v) BY <1>4 DEF AirOK, OneSwitch
<1>7. SwitchAfterStart(v)
  <2> SUFFICES ASSUME NEW d \in Call, Switches(v, d)
               PROVE  v.call[<<"start", v.call[d].session>>].pc = "over"
    BY DEF SwitchAfterStart
  <2>1. Switches(w, d) /\ v.call[d] = w.call[d] BY <1>4
  <2>2. w.call[d].session \in Gen BY <1>1, <2>1, WorkFacts DEF Switches
  <2> DEFINE b == <<"start", w.call[d].session>>
  <2>3. b \in Call BY <2>2, CallFacts
  <2>4. w.call[b].pc = "over" BY <2>1 DEF AirOK, SwitchAfterStart
  <2>5. b # c BY <2>4
  <2>6. v.call[b] = w.call[b] BY <1>2, <2>3, <2>5
  <2> QED BY <2>1, <2>4, <2>6
<1>8. BuildsBare(v) BY <1>3, <1>5 DEF AirOK, BuildsBare
<1>9. TearsBare(v) BY <1>4, <1>5 DEF AirOK, TearsBare
<1>10. Lives(v)
  <2> SUFFICES ASSUME NEW d \in Call, NEW p \in Part, <<d, p>> \in v.alive
               PROVE  /\ v.call[d].session \in Gen
                      /\ \/ v.call[d].pc = "build" /\ p \in AdoptedParts(v, d)
                         \/ v.call[d].pc = "over" /\ HeldBy(v, d)[p] = d
    BY DEF Lives
  <2>1. d # c BY <1>2 DEF AirOK, Lives
  <2>2. v.call[d] = w.call[d] /\ <<d, p>> \in w.alive BY <1>2, <2>1
  <2> QED BY <1>5, <2>2 DEF AirOK, Lives, AdoptedParts
<1>11. Talks(v) BY <1>2 DEF AirOK, Talks
<1> QED BY <1>6, <1>7, <1>8, <1>9, <1>10, <1>11 DEF AirOK, v

LEMMA SwitchAir ==
  ASSUME NEW w, HostInv(w, 0), AirOK(w), w.host.session # 0,
         NEW k \in 1..MaxSwitch, w.call[<<"switch", k>>].pc = "idle",
         \A d \in Call : ~Switches(w, d)
  PROVE  AirOK(SwitchTarget(w, <<"switch", k>>, w.host.session))
<1> DEFINE c == <<"switch", k>>
           s == w.host.session
           v == BeginTearDown(w, c, s)
<1>1. w \in Worlds /\ CallsOK(w) /\ HostOK(w, 0) BY DEF HostInv
<1>2. c \in Call /\ c[1] = "switch" BY CallFacts
<1>3. CASE w.sess[s].disposed BY <1>2, <1>3, EndsAir DEF SwitchTarget
<1>4. CASE ~w.sess[s].disposed
  <2>1. s \in Gen BY <1>1, HostFacts
  <2>2. w.call[<<"start", s>>].pc = "over" BY <1>1 DEF HostOK
  <2>3. SwitchTarget(w, c, s) = v BY <1>4 DEF SwitchTarget
  <2>4. w.call[c].pc = "idle" OBVIOUS
  <2> HIDE DEF c
  <2>5. Torn(w, v, c, s, 1) BY <1>1, <1>2, <2>1, BeginTears
  <2> HIDE DEF v
  <2>6. 1 \in 1..7 /\ \A j \in 1..(1 - 1) : w.sess[s].held[Parts[j]] = NoCall OBVIOUS
  <2>7. AirOK(v) BY <1>1, <1>2, <2>1, <2>2, <2>4, <2>5, <2>6, TornAir
  <2> QED BY <2>3, <2>7 DEF c
<1> QED BY <1>3, <1>4

LEMMA StartSessionAir ==
  ASSUME NEW w, HostInv(w, 0), AirOK(w), w.host.generation < MaxGen,
         NEW setting \in Setting
  PROVE  AirOK(StartSession(w, setting))
<1> DEFINE v == StartSession(w, setting)
<1>1. w \in Worlds /\ CallsOK(w) BY DEF HostInv
<1>2. v \in Worlds BY StartSessionKeeps DEF HostInv
<1>3. /\ v.sess = w.sess /\ v.call = w.call /\ v.alive = w.alive /\ v.talking = w.talking
      /\ v.host = [w.host EXCEPT !.generation = w.host.generation + 1]
  BY <1>1 DEF StartSession, Worlds
<1> HIDE DEF v
<1>4. w.host \in Hosts BY <1>1, HostFacts
<1>5. v.host.engine = w.host.engine BY <1>3, <1>4 DEF Hosts
<1>6. AirOK(v) BY <1>1, <1>2, <1>3, <1>5, FrameAir
<1> QED BY <1>6 DEF v

LEMMA HostDisposedAir ==
  ASSUME NEW w, HostInv(w, 0), AirOK(w)
  PROVE  LET marked == [w EXCEPT !.host.disposed = TRUE]
             released == [marked EXCEPT !.talking = @ \ {w.host.engine}]
             deaf == [released EXCEPT !.host.heard = 0]
         IN  /\ AirOK(marked)
             /\ AirOK(deaf)
             /\ w.host.session # 0 => AirOK(Dispose(deaf, w.host.session))
<1> DEFINE marked == [w EXCEPT !.host.disposed = TRUE]
           released == [marked EXCEPT !.talking = @ \ {w.host.engine}]
           deaf == [released EXCEPT !.host.heard = 0]
<1>1. w \in Worlds /\ CallsOK(w) BY DEF HostInv
<1>2. w.host \in Hosts BY <1>1, HostFacts
<1>3. HostInv(marked, 0) /\ HostInv(deaf, 0) BY HostDisposedKeeps
<1>4. /\ marked.sess = w.sess /\ marked.call = w.call /\ marked.alive = w.alive
      /\ marked.talking = w.talking /\ marked.host.engine = w.host.engine
  BY <1>1, <1>2 DEF Worlds, Hosts
<1>5. /\ deaf.sess = w.sess /\ deaf.call = w.call /\ deaf.alive = w.alive
      /\ deaf.talking = w.talking \ {w.host.engine} /\ deaf.host.engine = w.host.engine
  BY <1>1, <1>2 DEF Worlds, Hosts
<1> HIDE DEF marked, deaf
<1>6. marked \in Worlds /\ deaf \in Worlds BY <1>3 DEF HostInv
<1>7. AirOK(marked) BY <1>1, <1>4, <1>6, FrameAir
<1>8. AirOK(deaf)
  <2>1. \A c \in deaf.talking : c \in w.talking BY <1>5
  <2> QED BY <1>1, <1>5, <1>6, <2>1, FrameAir
<1>9. ASSUME w.host.session # 0 PROVE AirOK(Dispose(deaf, w.host.session))
  <2>1. w.host.session \in Gen BY <1>1, <1>9, HostFacts
  <2> QED BY <1>3, <1>8, <2>1, DisposeAir
<1> QED BY <1>7, <1>8, <1>9 DEF marked, deaf

(* A transmission begins on the engine under the key.                      *)
LEMMA TalkingAir ==
  ASSUME NEW w, HostInv(w, 0), AirOK(w), NEW set \in SUBSET Call,
         \A c \in set : \/ c \in w.talking
                        \/ c = w.host.engine /\ <<c, "engine">> \in w.alive
  PROVE  AirOK([w EXCEPT !.talking = set])
<1> DEFINE v == [w EXCEPT !.talking = set]
           a == [w EXCEPT !.talking = {}]
<1>1. w \in Worlds /\ CallsOK(w) BY DEF HostInv
<1>2. /\ v \in Worlds /\ v.host = w.host /\ v.sess = w.sess /\ v.call = w.call
      /\ v.alive = w.alive /\ v.talking = set
      /\ a \in Worlds /\ a.host = w.host /\ a.sess = w.sess /\ a.call = w.call
      /\ a.alive = w.alive /\ a.talking = {}
  BY <1>1 DEF Worlds
<1> HIDE DEF v, a
<1>3. AirOK(a) BY <1>1, <1>2, FrameAir
<1>4. \A c \in Call : HeldBy(v, c) = HeldBy(a, c) /\ (Switches(v, c) <=> Switches(a, c))
  BY <1>2 DEF HeldBy, Switches
<1>5. OneSwitch(v) /\ SwitchAfterStart(v) /\ BuildsBare(v) /\ TearsBare(v) /\ Lives(v)
  BY <1>2, <1>3, <1>4
     DEF AirOK, OneSwitch, SwitchAfterStart, BuildsBare, TearsBare, Lives, AdoptedParts
<1>6. Talks(v) BY <1>2 DEF AirOK, Talks
<1> QED BY <1>5, <1>6 DEF AirOK, v

-----------------------------------------------------------------------------
(* The invariant.                                                          *)

LEMMA InitAir ==
  ASSUME Init
  PROVE  AirInv
<1>1. /\ call = [c \in Call |-> Idle] /\ alive = {} /\ talking = {} BY DEF Init
<1>2. \A c \in Call : call[c].pc = "idle" BY <1>1 DEF Idle
<1>3. \A c \in Call : World.call[c].pc = "idle" /\ ~Switches(World, c)
  BY <1>2, WorldFacts DEF Switches
<1>4. /\ OneSwitch(World) /\ SwitchAfterStart(World) /\ BuildsBare(World) /\ TearsBare(World)
  BY <1>3 DEF OneSwitch, SwitchAfterStart, BuildsBare, TearsBare
<1>5. Lives(World) /\ Talks(World) BY <1>1, WorldFacts DEF Lives, Talks
<1> QED BY <1>4, <1>5 DEF AirInv, AirOK

LEMMA BecomeAir ==
  ASSUME NEW w, AirOK(w), Become(w)
  PROVE  AirInv'
<1> DEFINE u == World'
<1>1. /\ u.host = w.host /\ u.sess = w.sess /\ u.call = w.call
      /\ u.alive = w.alive /\ u.talking = w.talking
  BY DEF Become, World
<1> HIDE DEF u
<1>2. \A c : HeldBy(u, c) = HeldBy(w, c) /\ (Switches(u, c) <=> Switches(w, c))
  BY <1>1 DEF HeldBy, Switches
<1>3. OneSwitch(u) /\ SwitchAfterStart(u)
  BY <1>1, <1>2 DEF AirOK, OneSwitch, SwitchAfterStart
<1>4. BuildsBare(u) /\ TearsBare(u) BY <1>1, <1>2 DEF AirOK, BuildsBare, TearsBare
<1>5. Lives(u) BY <1>1, <1>2 DEF AirOK, Lives, AdoptedParts
<1>6. Talks(u) BY <1>1 DEF AirOK, Talks
<1> QED BY <1>3, <1>4, <1>5, <1>6 DEF AirInv, AirOK, u

LEMMA RunsAir ==
  ASSUME Inv, AirInv, Runs
  PROVE  AirInv'
<1>1. HostInv(World, 0) /\ World \in Worlds /\ AirOK(World) /\ CallsOK(World)
  BY DEF Inv, HostInv, AirInv
<1>2. ASSUME NEW g \in Gen, Enrolled(g) PROVE AirInv'
  <2>1. World.starting[g].pc = "enrol" BY <1>2, WorldFacts DEF Enrolled
  <2>2. Become(IF Superseded(World, g) THEN Returns(World, g) ELSE Replace(World, g))
    BY <1>2 DEF Enrolled
  <2>3. CASE Superseded(World, g)
    <3>1. Become(Returns(World, g)) BY <2>2, <2>3
    <3>2. AirOK(Returns(World, g)) BY <1>1, ReturnsAir
    <3> QED BY <3>1, <3>2, BecomeAir
  <2>4. CASE ~Superseded(World, g)
    <3>1. Become(Replace(World, g)) BY <2>2, <2>4
    <3>2. AirOK(Replace(World, g)) BY <1>1, <2>1, <2>4, ReplaceAir
    <3> QED BY <3>1, <3>2, BecomeAir
  <2> QED BY <2>3, <2>4
<1>3. ASSUME NEW g \in Gen, StartTimesOut(g) PROVE AirInv'
  <2>1. HostInv(World, g) BY <1>1, Weaken
  <2>2. AirOK(StartFailed(World, g)) BY <1>1, <2>1, StartFailedAir
  <2>3. Become(StartFailed(World, g)) BY <1>3 DEF StartTimesOut
  <2> QED BY <2>2, <2>3, BecomeAir
<1>4. ASSUME NEW c \in Call, PartDisposed(c) PROVE AirInv'
  <2>1. World.call[c].pc = "teardown" /\ Become(ResumeTearDown(World, c))
    BY <1>4, WorldFacts DEF PartDisposed
  <2>2. AirOK(ResumeTearDown(World, c)) BY <1>1, <2>1, ResumeAir
  <2> QED BY <2>1, <2>2, BecomeAir
<1>5. ASSUME NEW c \in Call, SignalingStarted(c) PROVE AirInv'
  <2>1. /\ World.call[c].pc = "build" /\ World.call[c].at = "signaling"
        /\ Become(SignalingUp(World, c))
    BY <1>5, WorldFacts DEF SignalingStarted
  <2>2. AirOK(SignalingUp(World, c)) BY <1>1, <2>1, SignalingAir
  <2> QED BY <2>1, <2>2, BecomeAir
<1>6. ASSUME NEW c \in Call, ChainUp(c) PROVE AirInv'
  <2>1. World.call[c].pc = "build" /\ Become(Adopted(World, c))
    BY <1>6, WorldFacts DEF ChainUp
  <2>2. AirOK(Adopted(World, c)) BY <1>1, <2>1, AdoptedAir
  <2> QED BY <2>1, <2>2, BecomeAir
<1>7. ASSUME NEW c \in Call, ChainFails(c) PROVE AirInv'
  <2>1. World.call[c].pc = "build" /\ Become(Abandoned(World, c))
    BY <1>7, WorldFacts DEF ChainFails
  <2>2. AirOK(Abandoned(World, c)) BY <1>1, <2>1, AbandonedAir
  <2> QED BY <2>1, <2>2, BecomeAir
<1>8. ASSUME NEW c \in Call, TransmissionEnds(c) PROVE AirInv'
  <2> DEFINE set == World.talking \ {c}
  <2>1. set \in SUBSET Call /\ \A d \in set : d \in World.talking BY <1>1 DEF Worlds
  <2>2. Become([World EXCEPT !.talking = set]) BY <1>8 DEF TransmissionEnds
  <2> HIDE DEF set
  <2>3. AirOK([World EXCEPT !.talking = set]) BY <1>1, <2>1, TalkingAir
  <2> QED BY <2>2, <2>3, BecomeAir
<1> QED BY <1>2, <1>3, <1>4, <1>5, <1>6, <1>7, <1>8 DEF Runs

LEMMA UsesAir ==
  ASSUME Inv, WantedOK, AirInv, ~Overlap, Uses
  PROVE  AirInv'
<1>1. HostInv(World, 0) /\ World \in Worlds /\ AirOK(World) /\ CallsOK(World)
  BY DEF Inv, HostInv, AirInv
<1>2. host.applied \in Setting \cup {NoSetting}
  BY <1>1, HostFacts, WorldFacts DEF Hosts
<1>3. ASSUME PressPtt PROVE AirInv'
  <2> DEFINE set == World.talking \cup {host.engine}
  <2>1. host.engine \in Call /\ <<host.engine, "engine">> \in World.alive
    BY <1>1, <1>3, WorldFacts DEF PressPtt, KeyWorks, Worlds
  <2>2. /\ set \in SUBSET Call
        /\ \A d \in set : \/ d \in World.talking
                          \/ d = World.host.engine /\ <<d, "engine">> \in World.alive
    BY <1>1, <2>1, WorldFacts DEF Worlds
  <2>3. Become([World EXCEPT !.talking = set]) BY <1>3 DEF PressPtt
  <2> HIDE DEF set
  <2>4. AirOK([World EXCEPT !.talking = set]) BY <1>1, <2>2, TalkingAir
  <2> QED BY <2>3, <2>4, BecomeAir
<1>4. ASSUME ReleasePtt PROVE AirInv'
  <2> DEFINE set == World.talking \ {host.engine}
  <2>1. set \in SUBSET Call /\ \A d \in set : d \in World.talking BY <1>1 DEF Worlds
  <2>2. Become([World EXCEPT !.talking = set]) BY <1>4 DEF ReleasePtt
  <2> HIDE DEF set
  <2>3. AirOK([World EXCEPT !.talking = set]) BY <1>1, <2>1, TalkingAir
  <2> QED BY <2>2, <2>3, BecomeAir
<1>5. ASSUME ReloadIdentity PROVE AirInv'
  <2> DEFINE setting == IF host.applied = NoSetting THEN wanted.setting ELSE host.applied
  <2>1. setting \in Setting BY <1>2 DEF WantedOK
  <2>2. World.host.generation < MaxGen /\ Become(StartSession(World, setting))
    BY <1>5, WorldFacts DEF ReloadIdentity
  <2> HIDE DEF setting
  <2>3. AirOK(StartSession(World, setting)) BY <1>1, <2>1, <2>2, StartSessionAir
  <2> QED BY <2>2, <2>3, BecomeAir
<1>6. ASSUME DisposeHost PROVE AirInv'
  <2> DEFINE marked == [World EXCEPT !.host.disposed = TRUE]
             released == [marked EXCEPT !.talking = @ \ {World.host.engine}]
             deaf == [released EXCEPT !.host.heard = 0]
  <2>1. /\ AirOK(marked)
        /\ AirOK(deaf)
        /\ World.host.session # 0 => AirOK(Dispose(deaf, World.host.session))
    BY <1>1, HostDisposedAir
  <2>2. \/ Become(marked)
        \/ Become(deaf)
        \/ World.host.session # 0 /\ Become(Dispose(deaf, World.host.session))
    <3>1. World.host.engine = host.engine /\ World.host.session = host.session BY WorldFacts
    <3> QED BY <1>6, <3>1 DEF DisposeHost
  <2> HIDE DEF marked, deaf
  <2> QED BY <2>1, <2>2, BecomeAir
<1>7. ASSUME NEW setting \in Setting, ApplySettings(setting) PROVE AirInv'
  <2>1. World.host.generation < MaxGen BY <1>7, WorldFacts DEF ApplySettings
  <2>2. Become(World) \/ Become(StartSession(World, setting))
    BY <1>7 DEF ApplySettings
  <2>3. AirOK(StartSession(World, setting)) BY <1>1, <2>1, StartSessionAir
  <2> QED BY <1>1, <2>2, <2>3, BecomeAir
<1>8. ASSUME NEW k \in 1..MaxSwitch, SelectTarget(k) PROVE AirInv'
  <2> DEFINE c == <<"switch", k>>
  <2>1. c \in Call /\ c[1] = "switch" /\ World.call[c].pc = "idle"
    BY <1>8, CallFacts, WorldFacts DEF SelectTarget
  <2>2. \A d \in Call : ~Switches(World, d)
    BY <1>8, WorldFacts DEF SelectTarget, Switching, Switches
  <2>3. CASE host.session = 0
    <3>1. Become(Ends(World, c)) BY <1>8, <2>3 DEF SelectTarget
    <3> HIDE DEF c
    <3>2. AirOK(Ends(World, c)) BY <1>1, <2>1, EndsAir
    <3> QED BY <3>1, <3>2, BecomeAir
  <2>4. CASE host.session # 0
    <3>1. World.host.session # 0 /\ World.host.session = host.session BY <2>4, WorldFacts
    <3>2. Become(SwitchTarget(World, c, World.host.session))
      BY <1>8, <2>4, <3>1 DEF SelectTarget
    <3>3. AirOK(SwitchTarget(World, c, World.host.session))
      BY <1>1, <2>1, <2>2, <3>1, SwitchAir
    <3> QED BY <3>2, <3>3, BecomeAir
  <2> QED BY <2>3, <2>4
<1> QED BY <1>3, <1>4, <1>5, <1>6, <1>7, <1>8 DEF Uses

(* Where switches do not overlap, the fields of a session that is built    *)
(* are empty, what is alive is held, and who transmits is heard.           *)
THEOREM AirInvariant == ASSUME ~Overlap PROVE Spec => [](Inv /\ WantedOK /\ AirInv)
<1>1. Init => AirInv BY InitAir
<1>2. (Inv /\ WantedOK) /\ AirInv /\ [Next]_vars => AirInv'
  <2> SUFFICES ASSUME Inv, WantedOK, AirInv, [Next]_vars PROVE AirInv' OBVIOUS
  <2>1. CASE UNCHANGED vars
    <3>1. World' = World BY <2>1 DEF vars, World
    <3> QED BY <3>1 DEF AirInv
  <2>2. CASE Runs BY <2>2, RunsAir
  <2>3. CASE Uses BY <2>3, UsesAir
  <2> QED BY <2>1, <2>2, <2>3 DEF Next
<1>3. Spec => [](Inv /\ WantedOK) BY HostInvariant
<1> QED BY <1>1, <1>2, <1>3, PTL DEF Spec

(* Across rebuilds and switches nobody loses the key to a transmission:    *)
(* who is on the air is the engine under the PTT (_readoptFloorEngine,     *)
(* Technical 4), which can be released.                                    *)
THEOREM HostKeyReachesTalker == ASSUME ~Overlap PROVE Spec => []KeyReachesTalker
<1>1. AirInv => KeyReachesTalker
  BY WorldFacts DEF AirInv, AirOK, Talks, KeyReachesTalker
<1> QED BY <1>1, AirInvariant, PTL

(* When all is quiet, what has been made and not disposed of is in a field *)
(* of its session, where the next teardown finds it.                       *)
THEOREM HostNoOrphan == ASSUME ~Overlap PROVE Spec => []NoOrphan
<1>1. Inv /\ AirInv => NoOrphan
  <2> SUFFICES ASSUME Inv, AirInv, Quiet, NEW a \in alive
               PROVE  sess[call[a[1]].session].held[a[2]] = a[1]
    BY DEF NoOrphan
  <2>1. World \in Worlds BY DEF Inv, HostInv
  <2>2. PICK c \in Call, p \in Part : a = <<c, p>> BY <2>1, WorldFacts DEF Worlds
  <2>3. /\ call[c].pc # "build"
    BY DEF Quiet
  <2>4. sess[call[c].session].held[p] = c
    BY <2>2, <2>3, WorldFacts DEF AirInv, AirOK, Lives, HeldBy
  <2>5. a[1] = c /\ a[2] = p BY <2>2
  <2> QED BY <2>4, <2>5
<1> QED BY <1>1, AirInvariant, PTL
=============================================================================
