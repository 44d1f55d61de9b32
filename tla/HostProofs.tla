----------------------------- MODULE HostProofs -----------------------------
(***************************************************************************)
(* Proofs about RadioHost, for every number of sessions and of switches:   *)
(* rebuilds that overlap with one another, with switches, time-outs and    *)
(* failures leave one session, whose engine is the one under the key, and  *)
(* while switches do not overlap nothing that was made is lost and nobody  *)
(* loses the key to a transmission.                                        *)
(*                                                                         *)
(* The operators of the model take and return the whole state, so that the *)
(* invariant is a predicate on such a state; x is the session that is in   *)
(* the middle of a change, 0 between two steps.                            *)
(***************************************************************************)
EXTENDS RadioHost, TLAPS

Hosts ==
  [disposed : BOOLEAN, booted : BOOLEAN, generation : Gen,
   session : 0..MaxGen, heard : 0..MaxGen, engine : Call \cup {NoCall},
   applied : Setting \cup {NoSetting}, failed : BOOLEAN]

Starts == [pc : {"idle", "enrol", "start", "over"}, setting : Setting \cup {NoSetting}]

Fields == [Part -> Call \cup {NoCall}]

Sessions ==
  [setting : Setting \cup {NoSetting}, disposed : BOOLEAN, closed : BOOLEAN, held : Fields]

Calls ==
  [session : 0..MaxGen, pc : {"idle", "teardown", "build", "over"},
   at : Range(Parts) \cup {"none"}]

Worlds ==
  [host : Hosts, starting : [Gen -> Starts], sess : [Gen -> Sessions],
   call : [Call -> Calls], alive : SUBSET (Call \X Part), talking : SUBSET Call]

(* A call works on one session; start never tears down, dispose never      *)
(* builds.                                                                 *)
CallsOK(w) ==
  \A c \in Call :
    /\ c[1] = "start" => w.call[c].pc # "teardown"
    /\ c[1] = "dispose" => w.call[c].pc # "build"
    /\ c[1] # "switch" /\ w.call[c].pc # "idle" => w.call[c].session = c[2]
    /\ w.call[c].pc \in {"teardown", "build"} => w.call[c].session # 0
    /\ w.call[c].pc = "teardown" => w.call[c].at \in Range(Parts)
    /\ w.call[c].pc = "idle" => w.call[c].session = 0

(* Sessions are numbered in the order of their making, and nobody works on *)
(* one that has not been made.                                             *)
NumbersOK(w) ==
  \A g \in Gen :
    /\ w.starting[g].pc = "idle" <=> g > w.host.generation
    /\ w.starting[g].pc \in {"idle", "enrol"} =>
         \A c \in Call : w.call[c].session # g

(* A session that has been made is disposed of, the host's, or on its way  *)
(* to the host; what it holds was built for it.                            *)
SessionOK(w, x, g) ==
  /\ w.sess[g].closed => w.sess[g].disposed
  /\ w.call[<<"start", g>>].pc # "idle" =>
       w.sess[g].disposed \/ g = w.host.session \/ w.starting[g].pc = "start"
  /\ w.starting[g].pc = "start" /\ g # x =>
       w.call[<<"start", g>>].pc = "build" /\ ~w.sess[g].disposed
  /\ \A p \in Part : w.sess[g].held[p] # NoCall =>
       /\ w.call[w.sess[g].held[p]].session = g
       /\ w.call[w.sess[g].held[p]].pc = "over"

SessionsOK(w, x) == \A g \in Gen : SessionOK(w, x, g)

(* What the host has: no session while the newest starts, the newest or    *)
(* none when that is over, and an engine its session has built.            *)
HostOK(w, x) ==
  LET h == w.host
  IN  /\ h.session = 0 => h.engine = NoCall /\ h.heard = 0
      /\ h.session # 0 =>
           /\ w.starting[h.session].pc = "over"
           /\ w.call[<<"start", h.session>>].pc = "over"
           /\ ~h.disposed => h.heard = h.session
           /\ ~h.disposed /\ h.session # x => ~w.sess[h.session].disposed
      /\ w.starting[h.generation].pc = "start" => h.session = 0
      /\ ~h.disposed /\ w.starting[h.generation].pc = "over" =>
           \/ h.session = h.generation
           \/ h.session = 0 /\ (h.failed \/ h.generation = x)
      /\ h.engine # NoCall =>
           /\ w.call[h.engine].session = h.session
           /\ w.call[h.engine].pc = "over"
      /\ ~h.disposed /\ h.session = h.generation =>
           w.sess[h.generation].held["engine"] \in {NoCall, h.engine}

(* A session is disposed of by its call of dispose.                        *)
DisposalOK(w) ==
  \A g \in Gen : w.sess[g].disposed <=> w.call[<<"dispose", g>>].pc # "idle"

HostInv(w, x) ==
  /\ w \in Worlds
  /\ CallsOK(w) /\ NumbersOK(w) /\ SessionsOK(w, x) /\ HostOK(w, x) /\ DisposalOK(w)

-----------------------------------------------------------------------------
(* The names.                                                              *)

LEMMA PartsFacts ==
  /\ Len(Parts) = 6 /\ DOMAIN Parts = 1..6
  /\ Range(Parts) = {"mesh", "signaling", "discovery", "meshTransport",
                     "linked", "linkedTransport"}
  /\ Part = {"mesh", "signaling", "discovery", "meshTransport",
             "linked", "linkedTransport", "engine"}
  /\ \A i \in 1..6 : Parts[i] \in Range(Parts)
<1>1. Len(Parts) = 6 /\ DOMAIN Parts = 1..6 BY DEF Parts
<1>2. \A i \in 1..6 : Parts[i] \in {"mesh", "signaling", "discovery", "meshTransport",
                                     "linked", "linkedTransport"}
  BY DEF Parts
<1>3. /\ Parts[1] = "mesh" /\ Parts[2] = "signaling" /\ Parts[3] = "discovery"
      /\ Parts[4] = "meshTransport" /\ Parts[5] = "linked" /\ Parts[6] = "linkedTransport"
  BY DEF Parts
<1>4. 1 \in 1..6 /\ 2 \in 1..6 /\ 3 \in 1..6 /\ 4 \in 1..6 /\ 5 \in 1..6 /\ 6 \in 1..6
  OBVIOUS
<1>5. Range(Parts) = {Parts[i] : i \in 1..6} BY <1>1 DEF Range
<1>6. Range(Parts) = {"mesh", "signaling", "discovery", "meshTransport",
                      "linked", "linkedTransport"}
  <2>1. ASSUME NEW p \in Range(Parts)
        PROVE  p \in {"mesh", "signaling", "discovery", "meshTransport",
                      "linked", "linkedTransport"}
    BY <1>2, <1>5
  <2>2. /\ "mesh" \in Range(Parts) /\ "signaling" \in Range(Parts)
        /\ "discovery" \in Range(Parts) /\ "meshTransport" \in Range(Parts)
        /\ "linked" \in Range(Parts) /\ "linkedTransport" \in Range(Parts)
    BY <1>3, <1>4, <1>5
  <2> QED BY <2>1, <2>2
<1> QED BY <1>1, <1>5, <1>6 DEF Part

LEMMA NoCallFact == NoCall \notin Call
  BY DEF Call, NoCall

LEMMA CallFacts ==
  /\ \A g \in Gen : <<"start", g>> \in Call /\ <<"dispose", g>> \in Call
  /\ \A k \in 1..MaxSwitch : <<"switch", k>> \in Call
  /\ \A c \in Call :
       \/ \E g \in Gen : c = <<"start", g>>
       \/ \E g \in Gen : c = <<"dispose", g>>
       \/ \E k \in 1..MaxSwitch : c = <<"switch", k>>
  BY DEF Call, NoCall

LEMMA GenFacts ==
  /\ MaxGen \in Nat \ {0} /\ MaxSwitch \in Nat \ {0}
  /\ Gen = 1..MaxGen /\ Gen \subseteq 0..MaxGen /\ 0 \in 0..MaxGen /\ 0 \notin Gen
  BY SessionAssumption DEF Gen

-----------------------------------------------------------------------------
(* What a teardown does.                                                   *)

(* The n-th part is taken and its disposal awaited.                        *)
Taken(w, c, i) ==
  LET s == w.call[c].session
  IN  Waits(Kill([w EXCEPT !.sess[s].held[Parts[i]] = NoCall],
                 {<<w.sess[s].held[Parts[i]], Parts[i]>>}),
            c, "teardown", Parts[i])

LEMMA TearDownCases ==
  ASSUME NEW w, NEW c, NEW n \in 1..7
  PROVE  LET held == w.sess[w.call[c].session].held
         IN  \/ /\ \A j \in n..6 : held[Parts[j]] = NoCall
                /\ TearDown(w, c, n) = TornDown(w, c)
             \/ \E i \in n..6 :
                  /\ \A j \in n..(i - 1) : held[Parts[j]] = NoCall
                  /\ TearDown(w, c, n) = Taken(w, c, i)
<1> DEFINE held == w.sess[w.call[c].session].held
           left == {i \in n..Len(Parts) : held[Parts[i]] # NoCall}
<1>1. left = {i \in n..6 : held[Parts[i]] # NoCall} BY PartsFacts
<1>2. CASE left = {}
  <2>1. TearDown(w, c, n) = TornDown(w, c) BY <1>2 DEF TearDown
  <2> QED BY <1>1, <1>2, <2>1
<1>3. CASE left # {}
  <2>1. \E i \in left : \A j \in left : i <= j
    BY <1>1, <1>3, SMTT(30)
  <2>2. Min(left) \in left /\ \A j \in left : Min(left) <= j BY <2>1 DEF Min
  <2>3. TearDown(w, c, n) = Taken(w, c, Min(left)) BY <1>3 DEF TearDown, Taken
  <2>4. Min(left) \in n..6 BY <1>1, <2>2
  <2>5. \A j \in n..(Min(left) - 1) : held[Parts[j]] = NoCall
    <3> HIDE DEF left
    <3> SUFFICES ASSUME NEW j \in n..(Min(left) - 1), held[Parts[j]] # NoCall
                 PROVE  FALSE
      OBVIOUS
    <3>1. j \in n..6 /\ j < Min(left) BY <2>4
    <3>2. j \in left BY <1>1, <3>1
    <3> QED BY <2>2, <2>4, <3>1, <3>2
  <2> QED BY <2>3, <2>4, <2>5
<1> QED BY <1>2, <1>3

(* From w to v call c goes on with the teardown of session s, from the     *)
(* n-th part: it empties fields, and what they held is dead; it stops at   *)
(* the first field that was full, or when all are empty, builds or ends.   *)
Torn(w, v, c, s, n) ==
  LET was == w.sess[s]
      now == v.sess[s]
      k == v.call[c]
  IN  /\ v \in Worlds
      /\ v.host = w.host /\ v.starting = w.starting
      /\ \A d \in Call : d # c => v.call[d] = w.call[d]
      /\ \A g \in Gen : g # s => v.sess[g] = w.sess[g]
      /\ now.setting = was.setting /\ now.disposed = was.disposed
      /\ \A p \in Part : now.held[p] \in {was.held[p], NoCall}
      /\ k.session = s
      /\ \/ /\ k.pc = "teardown" /\ now.closed = was.closed
            /\ \E i \in n..6 : k.at = Parts[i] /\ \A j \in n..i : now.held[Parts[j]] = NoCall
         \/ /\ c[1] = "switch" /\ k.pc = "build" /\ now.closed = was.closed
            /\ now.held["engine"] = NoCall /\ \A j \in n..6 : now.held[Parts[j]] = NoCall
         \/ c[1] # "switch" /\ k.pc = "over" /\ now.closed
      /\ \A d \in Call, p \in Part :
           d # c => (<<d, p>> \in v.alive <=>
                       <<d, p>> \in w.alive /\ ~(was.held[p] = d /\ now.held[p] = NoCall))
      /\ \A p \in Part : <<c, p>> \in v.alive =>
           <<c, p>> \in w.alive \/ (k.pc = "build" /\ p \in ChainParts(k.at = "linked"))
      /\ \A d \in Call :
           d \in v.talking =>
             d \in w.talking /\ ~(was.held["engine"] = d /\ now.held["engine"] = NoCall)

LEMMA WaitsEffect ==
  ASSUME NEW w \in Worlds, NEW c \in Call,
         NEW pc \in {"idle", "teardown", "build", "over"},
         NEW part \in Range(Parts) \cup {"none"}
  PROVE  LET v == Waits(w, c, pc, part)
         IN  /\ v \in Worlds
             /\ v.host = w.host /\ v.starting = w.starting /\ v.sess = w.sess
             /\ v.alive = w.alive /\ v.talking = w.talking
             /\ v.call[c].session = w.call[c].session /\ v.call[c].pc = pc
             /\ v.call[c].at = part
             /\ \A d \in Call : d # c => v.call[d] = w.call[d]
<1> DEFINE k == [w.call[c] EXCEPT !.pc = pc, !.at = part]
<1>1. w.call \in [Call -> Calls] /\ w.call[c] \in Calls BY DEF Worlds
<1>2. /\ k \in Calls /\ k.session = w.call[c].session /\ k.pc = pc /\ k.at = part
  BY <1>1 DEF Calls
<1>3. Waits(w, c, pc, part) = [w EXCEPT !.call = [w.call EXCEPT ![c] = k]]
  BY <1>1 DEF Waits, Worlds, Calls
<1> HIDE DEF k
<1> QED BY <1>1, <1>2, <1>3 DEF Worlds

LEMMA KillEffect ==
  ASSUME NEW w \in Worlds, NEW parts
  PROVE  LET v == Kill(w, parts)
         IN  /\ v \in Worlds
             /\ v.host = w.host /\ v.starting = w.starting /\ v.sess = w.sess
             /\ v.call = w.call
             /\ \A a : a \in v.alive <=> a \in w.alive /\ a \notin parts
             /\ \A c : c \in v.talking <=> c \in w.talking /\ <<c, "engine">> \notin parts
  BY DEF Kill, Worlds

LEMMA EmptyEffect ==
  ASSUME NEW w \in Worlds, NEW s \in Gen, NEW part \in Part
  PROVE  LET v == [w EXCEPT !.sess[s].held[part] = NoCall]
         IN  /\ v \in Worlds
             /\ v.host = w.host /\ v.starting = w.starting /\ v.call = w.call
             /\ v.alive = w.alive /\ v.talking = w.talking
             /\ \A g \in Gen : g # s => v.sess[g] = w.sess[g]
             /\ v.sess[s].setting = w.sess[s].setting
             /\ v.sess[s].disposed = w.sess[s].disposed
             /\ v.sess[s].closed = w.sess[s].closed
             /\ v.sess[s].held[part] = NoCall
             /\ \A p \in Part : p # part => v.sess[s].held[p] = w.sess[s].held[p]
<1> DEFINE f == [w.sess[s].held EXCEPT ![part] = NoCall]
           r == [w.sess[s] EXCEPT !.held = f]
<1>1. w.sess \in [Gen -> Sessions] /\ w.sess[s] \in Sessions /\ w.sess[s].held \in Fields
  BY DEF Worlds, Sessions
<1>2. /\ f \in Fields /\ f[part] = NoCall
      /\ \A p \in Part : p # part => f[p] = w.sess[s].held[p]
  BY <1>1 DEF Fields
<1> HIDE DEF f
<1>3. /\ r \in Sessions /\ r.setting = w.sess[s].setting /\ r.disposed = w.sess[s].disposed
      /\ r.closed = w.sess[s].closed /\ r.held = f
  BY <1>1, <1>2 DEF Sessions
<1>4. [w EXCEPT !.sess[s].held[part] = NoCall] = [w EXCEPT !.sess = [w.sess EXCEPT ![s] = r]]
  BY DEF f, r
<1> HIDE DEF r
<1> QED BY <1>1, <1>2, <1>3, <1>4, ZenonT(30) DEF Worlds

(* A field is emptied, and what it held is dead.                           *)
Emptied(w, s, part) ==
  Kill([w EXCEPT !.sess[s].held[part] = NoCall], {<<w.sess[s].held[part], part>>})

LEMMA EmptiedEffect ==
  ASSUME NEW w \in Worlds, NEW s \in Gen, NEW part \in Part
  PROVE  LET v == Emptied(w, s, part)
         IN  /\ v \in Worlds
             /\ v.host = w.host /\ v.starting = w.starting /\ v.call = w.call
             /\ \A g \in Gen : g # s => v.sess[g] = w.sess[g]
             /\ v.sess[s].setting = w.sess[s].setting
             /\ v.sess[s].disposed = w.sess[s].disposed
             /\ v.sess[s].closed = w.sess[s].closed
             /\ v.sess[s].held[part] = NoCall
             /\ \A p \in Part : p # part => v.sess[s].held[p] = w.sess[s].held[p]
             /\ \A d \in Call, p \in Part :
                  <<d, p>> \in v.alive <=>
                    <<d, p>> \in w.alive /\ ~(w.sess[s].held[p] = d /\ p = part)
             /\ \A d \in Call :
                  d \in v.talking <=>
                    d \in w.talking /\ ~(w.sess[s].held[part] = d /\ part = "engine")
<1> DEFINE a == [w EXCEPT !.sess[s].held[part] = NoCall]
           gone == {<<w.sess[s].held[part], part>>}
           b == Kill(a, gone)
<1>1. /\ a \in Worlds
      /\ a.host = w.host /\ a.starting = w.starting /\ a.call = w.call
      /\ a.alive = w.alive /\ a.talking = w.talking
      /\ \A g \in Gen : g # s => a.sess[g] = w.sess[g]
      /\ a.sess[s].setting = w.sess[s].setting
      /\ a.sess[s].disposed = w.sess[s].disposed
      /\ a.sess[s].closed = w.sess[s].closed
      /\ a.sess[s].held[part] = NoCall
      /\ \A p \in Part : p # part => a.sess[s].held[p] = w.sess[s].held[p]
  BY EmptyEffect
<1>2. /\ \A d \in Call, p \in Part : <<d, p>> \in gone <=> w.sess[s].held[p] = d /\ p = part
      /\ \A d \in Call : <<d, "engine">> \in gone <=> w.sess[s].held[part] = d /\ part = "engine"
  OBVIOUS
<1>3. Emptied(w, s, part) = b BY DEF Emptied
<1> HIDE DEF a, gone
<1>4. /\ b \in Worlds
      /\ b.host = a.host /\ b.starting = a.starting /\ b.sess = a.sess /\ b.call = a.call
      /\ \A q : q \in b.alive <=> q \in a.alive /\ q \notin gone
      /\ \A d : d \in b.talking <=> d \in a.talking /\ <<d, "engine">> \notin gone
  BY <1>1, KillEffect
<1> HIDE DEF b
<1>5. /\ \A d \in Call, p \in Part :
                  <<d, p>> \in b.alive <=>
                    <<d, p>> \in w.alive /\ ~(w.sess[s].held[p] = d /\ p = part)
      /\ \A d \in Call :
           d \in b.talking <=>
             d \in w.talking /\ ~(w.sess[s].held[part] = d /\ part = "engine")
  BY <1>1, <1>2, <1>4
<1> QED BY <1>1, <1>3, <1>4, <1>5

LEMMA TakenTears ==
  ASSUME NEW w \in Worlds, NEW c \in Call, NEW s \in Gen, w.call[c].session = s,
         NEW n \in 1..7, NEW i \in n..6,
         \A j \in n..(i - 1) : w.sess[s].held[Parts[j]] = NoCall
  PROVE  Torn(w, Taken(w, c, i), c, s, n)
<1> DEFINE part == Parts[i]
           b == Emptied(w, s, part)
           v == Waits(b, c, "teardown", part)
<1>1. i \in 1..6 /\ part \in Range(Parts) /\ part \in Part /\ part # "engine"
  BY PartsFacts
<1>2. Taken(w, c, i) = v BY DEF Taken, Emptied
<1>3. \A j \in n..i : Parts[j] \in Part /\ (j = i \/ j \in n..(i - 1))
  <2> SUFFICES ASSUME NEW j \in n..i PROVE Parts[j] \in Part /\ (j = i \/ j \in n..(i - 1))
    OBVIOUS
  <2>1. j \in 1..6 /\ (j = i \/ j \in n..(i - 1)) BY <1>1
  <2> QED BY <2>1, PartsFacts
<1>4. \A j \in n..i : Parts[j] = part \/ w.sess[s].held[Parts[j]] = NoCall BY <1>3
<1> HIDE DEF part
<1>5. /\ b \in Worlds
      /\ b.host = w.host /\ b.starting = w.starting /\ b.call = w.call
      /\ \A g \in Gen : g # s => b.sess[g] = w.sess[g]
      /\ b.sess[s].setting = w.sess[s].setting
      /\ b.sess[s].disposed = w.sess[s].disposed
      /\ b.sess[s].closed = w.sess[s].closed
      /\ b.sess[s].held[part] = NoCall
      /\ \A p \in Part : p # part => b.sess[s].held[p] = w.sess[s].held[p]
      /\ \A d \in Call, p \in Part :
           <<d, p>> \in b.alive <=>
             <<d, p>> \in w.alive /\ ~(w.sess[s].held[p] = d /\ p = part)
      /\ \A d \in Call : d \in b.talking <=> d \in w.talking
  BY <1>1, EmptiedEffect
<1> HIDE DEF b
<1>6. /\ v \in Worlds
      /\ v.host = b.host /\ v.starting = b.starting /\ v.sess = b.sess
      /\ v.alive = b.alive /\ v.talking = b.talking
      /\ v.call[c].session = b.call[c].session /\ v.call[c].pc = "teardown" /\ v.call[c].at = part
      /\ \A d \in Call : d # c => v.call[d] = b.call[d]
  <2>1. b \in Worlds /\ part \in Range(Parts) \cup {"none"} BY <1>1, <1>5
  <2>2. "teardown" \in {"idle", "teardown", "build", "over"} OBVIOUS
  <2> QED BY <2>1, <2>2, WaitsEffect
<1> HIDE DEF v
<1>7. "engine" \in Part BY PartsFacts
<1>8. /\ \A p \in Part : v.sess[s].held[p] = IF p = part THEN NoCall ELSE w.sess[s].held[p]
      /\ \A j \in n..i : v.sess[s].held[Parts[j]] = NoCall
  BY <1>3, <1>4, <1>5, <1>6
<1>9. \A d \in Call, p \in Part :
        <<d, p>> \in v.alive <=>
          <<d, p>> \in w.alive /\ ~(w.sess[s].held[p] = d /\ v.sess[s].held[p] = NoCall)
  <2>1. \A d \in Call, p \in Part :
          w.sess[s].held[p] = d =>
            (p = part <=> v.sess[s].held[p] = NoCall)
    BY <1>8, NoCallFact
  <2>2. v.alive = b.alive BY <1>6
  <2> QED BY <1>5, <2>1, <2>2, ZenonT(30)
<1>10. \A d \in Call :
        d \in v.talking <=>
          d \in w.talking /\ ~(w.sess[s].held["engine"] = d /\ v.sess[s].held["engine"] = NoCall)
  BY <1>1, <1>5, <1>6, <1>7, <1>8, NoCallFact
<1>11. Torn(w, v, c, s, n)
  BY <1>3, <1>5, <1>6, <1>8, <1>9, <1>10, SMTT(30) DEF Torn, part
<1> QED BY <1>2, <1>11

(* Parts of a chain are made, and the call waits for one of them.          *)
Laid(w, c, parts, at) ==
  Waits([w EXCEPT !.alive = @ \cup ({c} \X parts)], c, "build", at)

LaidOut(w, v, c, parts, at) ==
  /\ v \in Worlds
  /\ v.host = w.host /\ v.starting = w.starting /\ v.sess = w.sess
  /\ v.talking = w.talking
  /\ v.call[c].session = w.call[c].session /\ v.call[c].pc = "build"
  /\ v.call[c].at = at
  /\ \A d \in Call : d # c => v.call[d] = w.call[d]
  /\ \A d \in Call, p \in Part : d # c => (<<d, p>> \in v.alive <=> <<d, p>> \in w.alive)
  /\ \A p \in Part : <<c, p>> \in v.alive <=> <<c, p>> \in w.alive \/ p \in parts

LEMMA LaidEffect ==
  ASSUME NEW w \in Worlds, NEW c \in Call, NEW parts \in SUBSET Part, NEW at \in Range(Parts)
  PROVE  LaidOut(w, Laid(w, c, parts, at), c, parts, at)
<1> DEFINE a == [w EXCEPT !.alive = @ \cup ({c} \X parts)]
           v == Waits(a, c, "build", at)
<1>1. /\ a \in Worlds
      /\ a.host = w.host /\ a.starting = w.starting /\ a.sess = w.sess
      /\ a.talking = w.talking /\ a.call = w.call
      /\ a.alive = w.alive \cup ({c} \X parts)
  BY DEF Worlds
<1> HIDE DEF a
<1>2. "build" \in {"idle", "teardown", "build", "over"} /\ at \in Range(Parts) \cup {"none"}
  OBVIOUS
<1>3. a \in Worlds BY <1>1
<1>4. /\ v \in Worlds
      /\ v.host = a.host /\ v.starting = a.starting /\ v.sess = a.sess
      /\ v.alive = a.alive /\ v.talking = a.talking
      /\ v.call[c].session = a.call[c].session /\ v.call[c].pc = "build"
      /\ v.call[c].at = at
      /\ \A d \in Call : d # c => v.call[d] = a.call[d]
  BY <1>2, <1>3, WaitsEffect
<1>5. Laid(w, c, parts, at) = v BY DEF Laid, a
<1> HIDE DEF v
<1>6. /\ \A d \in Call, p \in Part : d # c => (<<d, p>> \in v.alive <=> <<d, p>> \in w.alive)
      /\ \A p \in Part : <<c, p>> \in v.alive <=> <<c, p>> \in w.alive \/ p \in parts
  BY <1>1, <1>4
<1> QED BY <1>1, <1>4, <1>5, <1>6 DEF LaidOut

LEMMA BuildEffect ==
  ASSUME NEW w \in Worlds, NEW c \in Call
  PROVE  LET v == Build(w, c)
         IN  /\ v \in Worlds
             /\ v.host = w.host /\ v.starting = w.starting /\ v.sess = w.sess
             /\ v.talking = w.talking
             /\ v.call[c].session = w.call[c].session /\ v.call[c].pc = "build"
             /\ \A d \in Call : d # c => v.call[d] = w.call[d]
             /\ \A d \in Call, p \in Part : d # c => (<<d, p>> \in v.alive <=> <<d, p>> \in w.alive)
             /\ \A p \in Part : <<c, p>> \in v.alive =>
                  <<c, p>> \in w.alive \/ p \in ChainParts(v.call[c].at = "linked")
<1>1. /\ ChainParts(TRUE) \in SUBSET Part /\ {"signaling"} \in SUBSET Part
      /\ "linked" \in Range(Parts) /\ "signaling" \in Range(Parts)
      /\ {"signaling"} \subseteq ChainParts("signaling" = "linked")
      /\ ChainParts("linked" = "linked") = ChainParts(TRUE)
  BY PartsFacts DEF ChainParts
<1>2. {<<c, "signaling">>} = {c} \X {"signaling"} OBVIOUS
<1>3. \/ Build(w, c) = Laid(w, c, ChainParts(TRUE), "linked")
      \/ Build(w, c) = Laid(w, c, {"signaling"}, "signaling")
  BY <1>2 DEF Build, Laid
<1> DEFINE v == Build(w, c)
<1>4. PICK parts \in SUBSET Part, at \in Range(Parts) :
         v = Laid(w, c, parts, at) /\ parts \subseteq ChainParts(at = "linked")
  BY <1>1, <1>3
<1> HIDE DEF v
<1>5. LaidOut(w, v, c, parts, at) BY <1>4, LaidEffect
<1>6. \A p \in Part : <<c, p>> \in v.alive =>
        <<c, p>> \in w.alive \/ p \in ChainParts(v.call[c].at = "linked")
  BY <1>4, <1>5 DEF LaidOut
<1> QED BY <1>5, <1>6 DEF v, LaidOut

LEMMA CloseEffect ==
  ASSUME NEW w \in Worlds, NEW s \in Gen
  PROVE  LET v == [w EXCEPT !.sess[s].closed = TRUE]
         IN  /\ v \in Worlds
             /\ v.host = w.host /\ v.starting = w.starting /\ v.call = w.call
             /\ v.alive = w.alive /\ v.talking = w.talking
             /\ \A g \in Gen : g # s => v.sess[g] = w.sess[g]
             /\ v.sess[s].setting = w.sess[s].setting
             /\ v.sess[s].disposed = w.sess[s].disposed
             /\ v.sess[s].closed /\ v.sess[s].held = w.sess[s].held
<1> DEFINE r == [w.sess[s] EXCEPT !.closed = TRUE]
<1>1. w.sess \in [Gen -> Sessions] /\ w.sess[s] \in Sessions BY DEF Worlds
<1>2. /\ r \in Sessions /\ r.setting = w.sess[s].setting /\ r.disposed = w.sess[s].disposed
      /\ r.closed = TRUE /\ r.held = w.sess[s].held
  BY <1>1 DEF Sessions
<1>3. [w EXCEPT !.sess[s].closed = TRUE] = [w EXCEPT !.sess = [w.sess EXCEPT ![s] = r]]
  OBVIOUS
<1> HIDE DEF r
<1> QED BY <1>1, <1>2, <1>3 DEF Worlds

LEMMA TornDownTears ==
  ASSUME NEW w \in Worlds, NEW c \in Call, NEW s \in Gen, w.call[c].session = s,
         NEW n \in 1..7, \A j \in n..6 : w.sess[s].held[Parts[j]] = NoCall
  PROVE  Torn(w, TornDown(w, c), c, s, n)
<1> DEFINE b == Emptied(w, s, "engine")
           e == [b EXCEPT !.sess[s].closed = TRUE]
           v == TornDown(w, c)
<1>1. v = IF c[1] = "switch" THEN Build(b, c) ELSE Ends(e, c) BY DEF TornDown, Emptied
<1>2. "engine" \in Part BY PartsFacts
<1>3. /\ b \in Worlds
      /\ b.host = w.host /\ b.starting = w.starting /\ b.call = w.call
      /\ \A g \in Gen : g # s => b.sess[g] = w.sess[g]
      /\ b.sess[s].setting = w.sess[s].setting
      /\ b.sess[s].disposed = w.sess[s].disposed
      /\ b.sess[s].closed = w.sess[s].closed
      /\ b.sess[s].held["engine"] = NoCall
      /\ \A p \in Part : p # "engine" => b.sess[s].held[p] = w.sess[s].held[p]
      /\ \A d \in Call, p \in Part :
           <<d, p>> \in b.alive <=>
             <<d, p>> \in w.alive /\ ~(w.sess[s].held[p] = d /\ p = "engine")
      /\ \A d \in Call : d \in b.talking <=>
                           d \in w.talking /\ ~(w.sess[s].held["engine"] = d)
  BY <1>2, EmptiedEffect
<1> HIDE DEF b
<1>4. /\ e \in Worlds
      /\ e.host = b.host /\ e.starting = b.starting /\ e.call = b.call
      /\ e.alive = b.alive /\ e.talking = b.talking
      /\ \A g \in Gen : g # s => e.sess[g] = b.sess[g]
      /\ e.sess[s].setting = b.sess[s].setting
      /\ e.sess[s].disposed = b.sess[s].disposed
      /\ e.sess[s].closed /\ e.sess[s].held = b.sess[s].held
  BY <1>3, CloseEffect
<1> HIDE DEF e
<1>5. \A j \in n..6 : Parts[j] \in Part
  <2> SUFFICES ASSUME NEW j \in n..6 PROVE Parts[j] \in Part OBVIOUS
  <2>1. j \in 1..6 OBVIOUS
  <2> QED BY <2>1, PartsFacts
<1>6. /\ \A p \in Part : b.sess[s].held[p] \in {w.sess[s].held[p], NoCall}
      /\ \A j \in n..6 : b.sess[s].held[Parts[j]] = NoCall
  BY <1>3, <1>5
<1>7. /\ \A d \in Call, p \in Part :
           <<d, p>> \in b.alive <=>
             <<d, p>> \in w.alive /\ ~(w.sess[s].held[p] = d /\ b.sess[s].held[p] = NoCall)
      /\ \A d \in Call :
           d \in b.talking <=>
             d \in w.talking /\ ~(w.sess[s].held["engine"] = d /\ b.sess[s].held["engine"] = NoCall)
  <2>1. \A d \in Call, p \in Part :
          w.sess[s].held[p] = d => (p = "engine" <=> b.sess[s].held[p] = NoCall)
    BY <1>3, NoCallFact
  <2> QED BY <1>2, <1>3, <2>1
<1>8. CASE c[1] = "switch"
  <2>1. v = Build(b, c) BY <1>1, <1>8
  <2> HIDE DEF v
  <2>2. /\ v \in Worlds
        /\ v.host = b.host /\ v.starting = b.starting /\ v.sess = b.sess
        /\ v.talking = b.talking
        /\ v.call[c].session = b.call[c].session /\ v.call[c].pc = "build"
        /\ \A d \in Call : d # c => v.call[d] = b.call[d]
        /\ \A d \in Call, p \in Part : d # c => (<<d, p>> \in v.alive <=> <<d, p>> \in b.alive)
        /\ \A p \in Part : <<c, p>> \in v.alive =>
             <<c, p>> \in b.alive \/ p \in ChainParts(v.call[c].at = "linked")
    BY <1>3, <2>1, BuildEffect, SMTT(30)
  <2>3. /\ v.host = w.host /\ v.starting = w.starting
        /\ \A d \in Call : d # c => v.call[d] = w.call[d]
        /\ \A g \in Gen : g # s => v.sess[g] = w.sess[g]
        /\ v.sess[s].setting = w.sess[s].setting /\ v.sess[s].disposed = w.sess[s].disposed
        /\ v.sess[s].closed = w.sess[s].closed
        /\ v.call[c].session = s
    BY <1>3, <2>2
  <2>4. \A d \in Call, p \in Part :
          d # c => (<<d, p>> \in v.alive <=>
             <<d, p>> \in w.alive /\ ~(w.sess[s].held[p] = d /\ v.sess[s].held[p] = NoCall))
    BY <1>7, <2>2
  <2>5. \A d \in Call :
           d \in v.talking <=>
             d \in w.talking /\ ~(w.sess[s].held["engine"] = d /\ v.sess[s].held["engine"] = NoCall)
    BY <1>7, <2>2
  <2>6. /\ \A p \in Part : v.sess[s].held[p] \in {w.sess[s].held[p], NoCall}
        /\ \A j \in n..6 : v.sess[s].held[Parts[j]] = NoCall
        /\ v.sess[s].held["engine"] = NoCall
    BY <1>3, <1>6, <2>2, SMTT(30)
  <2>8. \A p \in Part : <<c, p>> \in v.alive =>
          <<c, p>> \in w.alive \/ p \in ChainParts(v.call[c].at = "linked")
    BY <1>3, <2>2
  <2>7. Torn(w, v, c, s, n) BY <1>8, <2>2, <2>3, <2>4, <2>5, <2>6, <2>8 DEF Torn
  <2> QED BY <2>7 DEF v
<1>9. CASE c[1] # "switch"
  <2>1. v = Waits(e, c, "over", "none") BY <1>1, <1>9 DEF Ends
  <2> HIDE DEF v
  <2>2. "over" \in {"idle", "teardown", "build", "over"} /\ "none" \in Range(Parts) \cup {"none"}
    OBVIOUS
  <2>3. /\ v \in Worlds
        /\ v.host = e.host /\ v.starting = e.starting /\ v.sess = e.sess
        /\ v.alive = e.alive /\ v.talking = e.talking
        /\ v.call[c].session = e.call[c].session /\ v.call[c].pc = "over"
        /\ \A d \in Call : d # c => v.call[d] = e.call[d]
    BY <1>4, <2>1, <2>2, WaitsEffect
  <2>4. /\ v.host = w.host /\ v.starting = w.starting
        /\ \A d \in Call : d # c => v.call[d] = w.call[d]
        /\ \A g \in Gen : g # s => v.sess[g] = w.sess[g]
        /\ v.sess[s].setting = w.sess[s].setting /\ v.sess[s].disposed = w.sess[s].disposed
        /\ v.sess[s].closed
        /\ v.call[c].session = s
    BY <1>3, <1>4, <2>3
  <2>5. \A p \in Part : v.sess[s].held[p] = b.sess[s].held[p] BY <1>4, <2>3
  <2>6. \A d \in Call, p \in Part :
             <<d, p>> \in v.alive <=>
             <<d, p>> \in w.alive /\ ~(w.sess[s].held[p] = d /\ v.sess[s].held[p] = NoCall)
    <3>1. v.alive = b.alive BY <1>4, <2>3
    <3> QED BY <1>7, <2>5, <3>1
  <2>7. \A d \in Call :
           d \in v.talking <=>
             d \in w.talking /\ ~(w.sess[s].held["engine"] = d /\ v.sess[s].held["engine"] = NoCall)
    BY <1>2, <1>4, <1>7, <2>3, <2>5
  <2>8. \A p \in Part : v.sess[s].held[p] \in {w.sess[s].held[p], NoCall}
    BY <1>6, <2>5
  <2>9. Torn(w, v, c, s, n) BY <1>9, <2>3, <2>4, <2>6, <2>7, <2>8 DEF Torn
  <2> QED BY <2>9 DEF v
<1> QED BY <1>8, <1>9

LEMMA TearDownTears ==
  ASSUME NEW w \in Worlds, NEW c \in Call, w.call[c].session \in Gen, NEW n \in 1..7
  PROVE  Torn(w, TearDown(w, c, n), c, w.call[c].session, n)
<1> DEFINE s == w.call[c].session
<1>1. \/ /\ \A j \in n..6 : w.sess[s].held[Parts[j]] = NoCall
         /\ TearDown(w, c, n) = TornDown(w, c)
      \/ \E i \in n..6 :
           /\ \A j \in n..(i - 1) : w.sess[s].held[Parts[j]] = NoCall
           /\ TearDown(w, c, n) = Taken(w, c, i)
  BY TearDownCases
<1> HIDE DEF s
<1>2. s \in Gen /\ w.call[c].session = s BY DEF s
<1>3. CASE /\ \A j \in n..6 : w.sess[s].held[Parts[j]] = NoCall
           /\ TearDown(w, c, n) = TornDown(w, c)
  BY <1>2, <1>3, TornDownTears
<1>4. CASE \E i \in n..6 :
             /\ \A j \in n..(i - 1) : w.sess[s].held[Parts[j]] = NoCall
             /\ TearDown(w, c, n) = Taken(w, c, i)
  BY <1>2, <1>4, TakenTears
<1> QED BY <1>1, <1>3, <1>4

(* A teardown that begins puts an end to the transmission first.           *)
LEMMA BeginTears ==
  ASSUME NEW w \in Worlds, NEW c \in Call, NEW s \in Gen
  PROVE  /\ Torn(w, BeginTearDown(w, c, s), c, s, 1)
         /\ w.sess[s].held["engine"] \notin BeginTearDown(w, c, s).talking
<1> DEFINE e == w.sess[s].held["engine"]
           k == [w.call[c] EXCEPT !.session = s]
           a == [w EXCEPT !.call[c].session = s, !.talking = @ \ {e}]
           v == TearDown(a, c, 1)
<1>1. BeginTearDown(w, c, s) = v BY DEF BeginTearDown
<1>2. w.call[c] \in Calls /\ s \in 0..MaxGen BY GenFacts DEF Worlds
<1>3. k \in Calls /\ k.session = s BY <1>2 DEF Calls
<1>4. a = [w EXCEPT !.call = [w.call EXCEPT ![c] = k], !.talking = w.talking \ {e}]
  BY DEF Worlds
<1> HIDE DEF k, a, e
<1>5. /\ a \in Worlds
      /\ a.host = w.host /\ a.starting = w.starting /\ a.sess = w.sess /\ a.alive = w.alive
      /\ a.talking = w.talking \ {e}
      /\ a.call[c].session = s
      /\ \A d \in Call : d # c => a.call[d] = w.call[d]
  BY <1>3, <1>4 DEF Worlds
<1>6. Torn(a, v, c, s, 1)
  <2>1. 1 \in 1..7 OBVIOUS
  <2> QED BY <1>5, <2>1, TearDownTears
<1> HIDE DEF v
<1>7. Torn(w, v, c, s, 1)
  <2>1. /\ v.host = w.host /\ v.starting = w.starting
        /\ \A d \in Call : d # c => v.call[d] = w.call[d]
        /\ \A g \in Gen : g # s => v.sess[g] = w.sess[g]
    BY <1>5, <1>6, ZenonT(30) DEF Torn
  <2>2. a.sess[s] = w.sess[s] /\ a.alive = w.alive BY <1>5
  <2>3. \A d \in Call : d \in a.talking => d \in w.talking BY <1>5
  <2>4. /\ v \in Worlds
        /\ v.sess[s].setting = w.sess[s].setting /\ v.sess[s].disposed = w.sess[s].disposed
        /\ \A p \in Part : v.sess[s].held[p] \in {w.sess[s].held[p], NoCall}
        /\ v.call[c].session = s
    BY <1>6, <2>2 DEF Torn
  <2>5. \/ /\ v.call[c].pc = "teardown" /\ v.sess[s].closed = w.sess[s].closed
           /\ \E i \in 1..6 : /\ v.call[c].at = Parts[i]
                              /\ \A j \in 1..i : v.sess[s].held[Parts[j]] = NoCall
        \/ /\ c[1] = "switch" /\ v.call[c].pc = "build" /\ v.sess[s].closed = w.sess[s].closed
           /\ v.sess[s].held["engine"] = NoCall
           /\ \A j \in 1..6 : v.sess[s].held[Parts[j]] = NoCall
        \/ c[1] # "switch" /\ v.call[c].pc = "over" /\ v.sess[s].closed
    BY <1>6, <2>2 DEF Torn
  <2>6. /\ \A d \in Call, p \in Part :
             d # c => (<<d, p>> \in v.alive <=>
               <<d, p>> \in w.alive /\ ~(w.sess[s].held[p] = d /\ v.sess[s].held[p] = NoCall))
        /\ \A p \in Part : <<c, p>> \in v.alive =>
             \/ <<c, p>> \in w.alive
             \/ v.call[c].pc = "build" /\ p \in ChainParts(v.call[c].at = "linked")
    <3>1. \A d \in Call, p \in Part :
             d # c => (<<d, p>> \in v.alive <=>
               <<d, p>> \in a.alive /\ ~(a.sess[s].held[p] = d /\ v.sess[s].held[p] = NoCall))
      BY <1>6 DEF Torn
    <3>2. \A p \in Part : <<c, p>> \in v.alive =>
             \/ <<c, p>> \in a.alive
             \/ v.call[c].pc = "build" /\ p \in ChainParts(v.call[c].at = "linked")
      BY <1>6 DEF Torn
    <3> QED BY <2>2, <3>1, <3>2
  <2>7. \A d \in Call : d \in v.talking =>
          d \in w.talking /\ ~(w.sess[s].held["engine"] = d /\ v.sess[s].held["engine"] = NoCall)
    BY <1>6, <2>2, <2>3, ZenonT(30) DEF Torn
  <2> QED BY <2>1, <2>4, <2>5, <2>6, <2>7 DEF Torn
<1>8. e \notin v.talking
  <2>1. e \in Call => (e \in v.talking => e \in a.talking) BY <1>6 DEF Torn
  <2>2. v.talking \subseteq Call BY <1>6 DEF Torn, Worlds
  <2> QED BY <1>5, <2>1, <2>2
<1> QED BY <1>1, <1>7, <1>8 DEF e

-----------------------------------------------------------------------------
(* Teardowns and disposals keep the invariant.                             *)

LEMMA TornKeeps ==
  ASSUME NEW w \in Worlds, NEW v, NEW c \in Call, NEW s \in Gen, NEW n \in 1..7, NEW x,
         Torn(w, v, c, s, n),
         CallsOK(w), NumbersOK(w), SessionsOK(w, x), HostOK(w, x),
         \A g \in Gen : <<"dispose", g>> # c =>
           (w.sess[g].disposed <=> w.call[<<"dispose", g>>].pc # "idle"),
         c[1] # "start",
         c[1] = "dispose" => c = <<"dispose", s>> /\ w.sess[s].disposed,
         w.starting[s].pc \in {"start", "over"},
         w.call[c].pc \in {"idle", "teardown"}
  PROVE  HostInv(v, x)
<1>1. /\ v \in Worlds /\ v.host = w.host /\ v.starting = w.starting
      /\ \A d \in Call : d # c => v.call[d] = w.call[d]
      /\ \A g \in Gen : g # s => v.sess[g] = w.sess[g]
      /\ v.sess[s].disposed = w.sess[s].disposed
      /\ \A p \in Part : v.sess[s].held[p] \in {w.sess[s].held[p], NoCall}
      /\ v.call[c].session = s
  BY DEF Torn
<1>2. /\ v.call[c].pc \in {"teardown", "build", "over"}
      /\ v.call[c].pc = "build" => c[1] = "switch"
      /\ v.call[c].pc = "teardown" => v.call[c].at \in Range(Parts)
  <2>1. \A i \in n..6 : Parts[i] \in Range(Parts)
    <3> SUFFICES ASSUME NEW i \in n..6 PROVE Parts[i] \in Range(Parts) OBVIOUS
    <3>1. i \in 1..6 OBVIOUS
    <3> QED BY <3>1, PartsFacts
  <2> QED BY <2>1 DEF Torn
<1>3. v.sess[s].closed => w.sess[s].closed \/ c[1] = "dispose"
  <2>1. c[1] \in {"start", "dispose", "switch"} BY CallFacts
  <2> QED BY <2>1 DEF Torn
<1>4. \A g \in Gen :
        /\ v.sess[g].disposed = w.sess[g].disposed
        /\ \A p \in Part : v.sess[g].held[p] \in {w.sess[g].held[p], NoCall}
        /\ v.call[<<"start", g>>] = w.call[<<"start", g>>]
  <2> SUFFICES ASSUME NEW g \in Gen
               PROVE  /\ v.sess[g].disposed = w.sess[g].disposed
                      /\ \A p \in Part : v.sess[g].held[p] \in {w.sess[g].held[p], NoCall}
                      /\ v.call[<<"start", g>>] = w.call[<<"start", g>>]
    OBVIOUS
  <2>1. <<"start", g>> \in Call /\ <<"start", g>> # c
    <3>1. <<"start", g>>[1] = "start" OBVIOUS
    <3> QED BY <3>1, CallFacts
  <2>2. CASE g = s BY <1>1, <2>1, <2>2
  <2>3. CASE g # s BY <1>1, <2>1, <2>3
  <2> QED BY <2>2, <2>3
<1>5. s # 0 BY GenFacts
<1>6. CallsOK(v)
  <2> SUFFICES ASSUME NEW d \in Call
               PROVE  /\ d[1] = "start" => v.call[d].pc # "teardown"
                      /\ d[1] = "dispose" => v.call[d].pc # "build"
                      /\ d[1] # "switch" /\ v.call[d].pc # "idle" => v.call[d].session = d[2]
                      /\ v.call[d].pc \in {"teardown", "build"} => v.call[d].session # 0
                      /\ v.call[d].pc = "teardown" => v.call[d].at \in Range(Parts)
                      /\ v.call[d].pc = "idle" => v.call[d].session = 0
    BY DEF CallsOK
  <2>1. CASE d # c BY <1>1, <2>1 DEF CallsOK
  <2>2. CASE d = c
    <3>1. c[1] \in {"dispose", "switch"} BY CallFacts
    <3>2. c[1] = "dispose" => c[2] = s OBVIOUS
    <3> QED BY <1>1, <1>2, <1>5, <2>2, <3>1, <3>2
  <2> QED BY <2>1, <2>2
<1>7. NumbersOK(v)
  BY <1>1 DEF NumbersOK
<1>8. ASSUME NEW g \in Gen, NEW p \in Part, v.sess[g].held[p] # NoCall
      PROVE  /\ v.call[v.sess[g].held[p]].session = g
             /\ v.call[v.sess[g].held[p]].pc = "over"
  <2>1. v.sess[g].held[p] = w.sess[g].held[p] BY <1>4, <1>8
  <2>2. w.sess[g].held[p] \in Call
    BY <1>8, <2>1 DEF Worlds, Sessions, Fields
  <2>3. /\ w.call[w.sess[g].held[p]].session = g
        /\ w.call[w.sess[g].held[p]].pc = "over"
    BY <1>8, <2>1 DEF SessionsOK, SessionOK
  <2> QED BY <1>1, <2>1, <2>2, <2>3, SMTT(30)
<1>9. ASSUME NEW g \in Gen PROVE SessionOK(v, x, g)
  <2>1. SessionOK(w, x, g) BY DEF SessionsOK
  <2>2. v.sess[g].closed => v.sess[g].disposed
    BY <1>1, <1>3, <2>1 DEF SessionOK
  <2>3. /\ v.call[<<"start", g>>] = w.call[<<"start", g>>]
        /\ v.sess[g].disposed = w.sess[g].disposed
    BY <1>4
  <2>4. /\ v.call[<<"start", g>>].pc # "idle" =>
             v.sess[g].disposed \/ g = v.host.session \/ v.starting[g].pc = "start"
        /\ v.starting[g].pc = "start" /\ g # x =>
             v.call[<<"start", g>>].pc = "build" /\ ~v.sess[g].disposed
    BY <1>1, <2>1, <2>3 DEF SessionOK
  <2> QED BY <1>8, <2>2, <2>4 DEF SessionOK
<1>10. HostOK(v, x)
  <2>1. w.host.session \in Gen \/ w.host.session = 0 BY GenFacts DEF Worlds, Hosts
  <2>2. w.host.engine \in Call \cup {NoCall} BY DEF Worlds, Hosts
  <2>3. w.host.engine # NoCall => v.call[w.host.engine] = w.call[w.host.engine]
    BY <1>1, <2>2 DEF HostOK
  <2>4. "engine" \in Part BY PartsFacts
  <2>5. w.host.generation \in Gen BY DEF Worlds, Hosts
  <2> QED BY <1>1, <1>4, <2>1, <2>3, <2>4, <2>5, SMTT(30) DEF HostOK
<1>11. DisposalOK(v)
  <2> SUFFICES ASSUME NEW g \in Gen
               PROVE  v.sess[g].disposed <=> v.call[<<"dispose", g>>].pc # "idle"
    BY DEF DisposalOK
  <2>1. <<"dispose", g>> \in Call BY CallFacts
  <2>2. CASE <<"dispose", g>> = c
    <3>1. c[1] = "dispose" /\ c[2] = g /\ c = <<"dispose", s>> BY <2>2
    <3>2. g = s BY <3>1
    <3> QED BY <1>2, <1>4, <2>2, <3>1, <3>2
  <2>3. CASE <<"dispose", g>> # c BY <1>1, <1>4, <2>1, <2>3
  <2> QED BY <2>2, <2>3
<1> QED BY <1>1, <1>6, <1>7, <1>9, <1>10, <1>11 DEF HostInv, SessionsOK

LEMMA DisposeEffect ==
  ASSUME NEW w \in Worlds, NEW s \in Gen
  PROVE  LET v == [w EXCEPT !.sess[s].disposed = TRUE]
         IN  /\ v \in Worlds
             /\ v.host = w.host /\ v.starting = w.starting /\ v.call = w.call
             /\ v.alive = w.alive /\ v.talking = w.talking
             /\ \A g \in Gen : g # s => v.sess[g] = w.sess[g]
             /\ v.sess[s].setting = w.sess[s].setting
             /\ v.sess[s].disposed /\ v.sess[s].closed = w.sess[s].closed
             /\ v.sess[s].held = w.sess[s].held
<1> DEFINE r == [w.sess[s] EXCEPT !.disposed = TRUE]
<1>1. w.sess \in [Gen -> Sessions] /\ w.sess[s] \in Sessions BY DEF Worlds
<1>2. /\ r \in Sessions /\ r.setting = w.sess[s].setting /\ r.disposed
      /\ r.closed = w.sess[s].closed /\ r.held = w.sess[s].held
  BY <1>1 DEF Sessions
<1>3. [w EXCEPT !.sess[s].disposed = TRUE] = [w EXCEPT !.sess = [w.sess EXCEPT ![s] = r]]
  OBVIOUS
<1> HIDE DEF r
<1> QED BY <1>1, <1>2, <1>3 DEF Worlds

(* What a disposal leaves alone.                                           *)
LEMMA DisposeFrame ==
  ASSUME NEW w \in Worlds, NEW s \in Gen
  PROVE  LET v == Dispose(w, s)
         IN  /\ v \in Worlds
             /\ v.host = w.host /\ v.starting = w.starting
             /\ \A d \in Call : d # <<"dispose", s>> => v.call[d] = w.call[d]
             /\ \A g \in Gen : g # s => v.sess[g] = w.sess[g]
             /\ v.sess[s].disposed /\ v.sess[s].setting = w.sess[s].setting
<1> DEFINE a == [w EXCEPT !.sess[s].disposed = TRUE]
           v == BeginTearDown(a, <<"dispose", s>>, s)
<1>1. /\ a \in Worlds
      /\ a.host = w.host /\ a.starting = w.starting /\ a.call = w.call
      /\ \A g \in Gen : g # s => a.sess[g] = w.sess[g]
      /\ a.sess[s].setting = w.sess[s].setting
      /\ a.sess[s].disposed
  BY DisposeEffect
<1>2. Dispose(w, s) = IF w.sess[s].disposed THEN w ELSE v BY DEF Dispose
<1> HIDE DEF a
<1>3. <<"dispose", s>> \in Call BY CallFacts
<1>4. Torn(a, v, <<"dispose", s>>, s, 1) BY <1>1, <1>3, BeginTears
<1> HIDE DEF v
<1>5. /\ v \in Worlds
      /\ v.host = w.host /\ v.starting = w.starting
      /\ \A d \in Call : d # <<"dispose", s>> => v.call[d] = w.call[d]
      /\ \A g \in Gen : g # s => v.sess[g] = w.sess[g]
      /\ v.sess[s].disposed /\ v.sess[s].setting = w.sess[s].setting
  BY <1>1, <1>4 DEF Torn
<1> QED BY <1>2, <1>5

LEMMA DisposeKeeps ==
  ASSUME NEW w, NEW x, HostInv(w, x), NEW s \in Gen,
         w.starting[s].pc \in {"start", "over"},
         s = x \/ (w.starting[s].pc = "over" /\ (w.host.disposed \/ s # w.host.session))
  PROVE  HostInv(Dispose(w, s), x)
<1> DEFINE a == [w EXCEPT !.sess[s].disposed = TRUE]
           c == <<"dispose", s>>
           v == BeginTearDown(a, c, s)
<1>1. w \in Worlds BY DEF HostInv
<1>2. CASE w.sess[s].disposed
  BY <1>2 DEF Dispose
<1>3. CASE ~w.sess[s].disposed
  <2>1. /\ a \in Worlds
        /\ a.host = w.host /\ a.starting = w.starting /\ a.call = w.call
        /\ \A g \in Gen : g # s => a.sess[g] = w.sess[g]
        /\ a.sess[s].disposed /\ a.sess[s].closed = w.sess[s].closed
        /\ a.sess[s].held = w.sess[s].held
    BY <1>1, DisposeEffect
  <2>2. Dispose(w, s) = v BY <1>3 DEF Dispose
  <2> HIDE DEF a
  <2>3. c \in Call /\ c[1] = "dispose" BY CallFacts
  <2>4. Torn(a, v, c, s, 1) BY <2>1, <2>3, BeginTears
  <2> HIDE DEF v
  <2>5. CallsOK(a) /\ NumbersOK(a) BY <2>1 DEF HostInv, CallsOK, NumbersOK
  <2>6. ASSUME NEW g \in Gen PROVE SessionOK(a, x, g)
    <3>1. SessionOK(w, x, g) BY DEF HostInv, SessionsOK
    <3>2. CASE g # s
      <4>1. a.sess[g] = w.sess[g] BY <2>1, <3>2
      <4> QED BY <2>1, <3>1, <4>1 DEF SessionOK
    <3>3. CASE g = s
      <4>1. w.starting[s].pc = "start" => s = x OBVIOUS
      <4> QED BY <2>1, <3>1, <3>3, <4>1, SMTT(30) DEF SessionOK
    <3> QED BY <3>2, <3>3
  <2>7. HostOK(a, x)
    <3>1. w.host.session \in Gen \/ w.host.session = 0 BY <1>1, GenFacts DEF Worlds, Hosts
    <3>2. w.host.generation \in Gen BY <1>1 DEF Worlds, Hosts
    <3>3. a.sess[w.host.generation].held = w.sess[w.host.generation].held BY <2>1, <3>2
    <3>4. ~w.host.disposed /\ w.host.session # 0 /\ w.host.session # x =>
             a.sess[w.host.session] = w.sess[w.host.session]
      BY <2>1, <3>1
    <3> QED BY <2>1, <3>3, <3>4 DEF HostInv, HostOK
  <2>8. \A g \in Gen : <<"dispose", g>> # c =>
          (a.sess[g].disposed <=> a.call[<<"dispose", g>>].pc # "idle")
    BY <2>1 DEF HostInv, DisposalOK
  <2>9. a.call[c].pc = "idle" BY <1>3, <2>1 DEF HostInv, DisposalOK
  <2>10. 1 \in 1..7 OBVIOUS
  <2> QED BY <2>1, <2>2, <2>3, <2>4, <2>5, <2>6, <2>7, <2>8, <2>9, <2>10, TornKeeps DEF SessionsOK
<1> QED BY <1>2, <1>3

-----------------------------------------------------------------------------
(* The host's starts.                                                      *)

LEMMA HostFacts ==
  ASSUME NEW w \in Worlds
  PROVE  /\ w.host \in Hosts /\ w.starting \in [Gen -> Starts]
         /\ w.sess \in [Gen -> Sessions] /\ w.call \in [Call -> Calls]
         /\ w.host.generation \in Gen
         /\ w.host.session \in Gen \/ w.host.session = 0
         /\ w.host.engine \in Call \/ w.host.engine = NoCall
  BY GenFacts DEF Worlds, Hosts

(* The session in the middle of a change may be named.                     *)
LEMMA Weaken ==
  ASSUME NEW w, NEW x, HostInv(w, 0)
  PROVE  HostInv(w, x)
<1>1. ASSUME NEW g \in Gen PROVE SessionOK(w, x, g)
  <2>1. g # 0 /\ SessionOK(w, 0, g) BY GenFacts DEF HostInv, SessionsOK
  <2> QED BY <2>1 DEF SessionOK
<1>2. HostOK(w, x) BY GenFacts DEF HostInv, HostOK, Worlds, Hosts
<1> QED BY <1>1, <1>2 DEF HostInv, SessionsOK

(* The host's fields change with the state of a start.                     *)
Moved(w, g, r, h) == [w EXCEPT !.host = h, !.starting = [w.starting EXCEPT ![g] = r]]

LEMMA StartingEffect ==
  ASSUME NEW w \in Worlds, NEW g \in Gen, NEW r \in Starts, NEW h \in Hosts
  PROVE  LET v == Moved(w, g, r, h)
         IN  /\ v \in Worlds
             /\ v.host = h /\ v.sess = w.sess /\ v.call = w.call
             /\ v.alive = w.alive /\ v.talking = w.talking
             /\ v.starting[g] = r
             /\ \A i \in Gen : i # g => v.starting[i] = w.starting[i]
  BY DEF Worlds, Moved

(* A session begins to start.                                              *)
LEMMA StartSessionKeeps ==
  ASSUME NEW w, HostInv(w, 0), w.host.generation < MaxGen,
         NEW setting \in Setting
  PROVE  HostInv(StartSession(w, setting), 0)
<1> DEFINE n == w.host.generation + 1
           r == [pc |-> "enrol", setting |-> setting]
           h == [w.host EXCEPT !.generation = n]
           v == StartSession(w, setting)
<1>1. w \in Worlds BY DEF HostInv
<1>2. /\ w.host \in Hosts /\ w.host.generation \in Gen
      /\ w.host.session \in Gen \/ w.host.session = 0
  BY <1>1, HostFacts
<1>3. n \in Gen /\ n # 0 /\ n > w.host.generation BY <1>2, GenFacts
<1>4. /\ h \in Hosts /\ h.generation = n
      /\ h.session = w.host.session /\ h.engine = w.host.engine /\ h.heard = w.host.heard
      /\ h.disposed = w.host.disposed
  BY <1>2, <1>3 DEF Hosts
<1>5. r \in Starts /\ r.pc = "enrol" BY DEF Starts
<1>6. v = Moved(w, n, r, h)
  BY DEF StartSession, Moved
<1> HIDE DEF n, h, r, v
<1>7. /\ v \in Worlds
      /\ v.host = h /\ v.sess = w.sess /\ v.call = w.call
      /\ v.starting[n] = r
      /\ \A i \in Gen : i # n => v.starting[i] = w.starting[i]
  BY <1>1, <1>3, <1>4, <1>5, <1>6, StartingEffect
<1>8. w.starting[n].pc = "idle" BY <1>3 DEF HostInv, NumbersOK
<1>9. \A c \in Call : w.call[c].session # n BY <1>3, <1>8 DEF HostInv, NumbersOK
<1>10. CallsOK(v) BY <1>7 DEF HostInv, CallsOK
<1>11. NumbersOK(v)
  <2> SUFFICES ASSUME NEW i \in Gen
               PROVE  /\ v.starting[i].pc = "idle" <=> i > n
                      /\ v.starting[i].pc \in {"idle", "enrol"} =>
                           \A c \in Call : v.call[c].session # i
    BY <1>4, <1>7 DEF NumbersOK
  <2>1. CASE i = n BY <1>3, <1>5, <1>7, <1>9, <2>1, GenFacts
  <2>2. CASE i # n
    <3>1. i > n <=> i > w.host.generation BY <1>2, <2>2, GenFacts DEF n
    <3> QED BY <1>7, <2>2, <3>1 DEF HostInv, NumbersOK
  <2> QED BY <2>1, <2>2
<1>12. ASSUME NEW i \in Gen PROVE SessionOK(v, 0, i)
  <2>1. SessionOK(w, 0, i) BY DEF HostInv, SessionsOK
  <2>2. v.starting[i].pc = "start" <=> w.starting[i].pc = "start"
    BY <1>5, <1>7, <1>8
  <2> QED BY <1>4, <1>7, <2>1, <2>2, SMTT(30) DEF SessionOK
<1>13. HostOK(v, 0)
  <2>1. HostOK(w, 0) BY DEF HostInv
  <2>2. w.host.session # 0 => w.host.session # n
    BY <1>2, <1>8, <2>1 DEF HostOK
  <2>3. w.host.session # 0 => v.starting[w.host.session] = w.starting[w.host.session]
    BY <1>2, <1>7, <2>2
  <2>4. w.host.session # n BY <1>3, <2>2
  <2> QED BY <1>4, <1>5, <1>7, <2>1, <2>3, <2>4 DEF HostOK
<1>14. DisposalOK(v) BY <1>7 DEF HostInv, DisposalOK
<1> QED BY <1>7, <1>10, <1>11, <1>12, <1>13, <1>14 DEF HostInv, SessionsOK, v

LEMMA ReturnsEffect ==
  ASSUME NEW w \in Worlds, NEW g \in Gen
  PROVE  LET v == Returns(w, g)
         IN  /\ v \in Worlds
             /\ v.sess = w.sess /\ v.call = w.call
             /\ v.alive = w.alive /\ v.talking = w.talking
             /\ v.starting[g].pc = "over"
             /\ \A i \in Gen : i # g => v.starting[i] = w.starting[i]
             /\ v.host.disposed = w.host.disposed
             /\ v.host.generation = w.host.generation
             /\ v.host.session = w.host.session /\ v.host.heard = w.host.heard
             /\ v.host.engine = w.host.engine /\ v.host.failed = w.host.failed
<1> DEFINE r == [w.starting[g] EXCEPT !.pc = "over"]
           h == [w.host EXCEPT !.booted = @ \/ (g = 1 /\ ~w.host.disposed)]
           v == Returns(w, g)
<1>1. w.host \in Hosts /\ w.starting[g] \in Starts BY DEF Worlds
<1>2. r \in Starts /\ r.pc = "over" BY <1>1 DEF Starts
<1>3. /\ h \in Hosts /\ h.disposed = w.host.disposed /\ h.generation = w.host.generation
      /\ h.session = w.host.session /\ h.heard = w.host.heard
      /\ h.engine = w.host.engine /\ h.failed = w.host.failed
  BY <1>1 DEF Hosts
<1>4. v = Moved(w, g, r, h)
  BY DEF Returns, Worlds, Moved
<1> HIDE DEF h, r, v
<1>5. /\ v \in Worlds
      /\ v.host = h /\ v.sess = w.sess /\ v.call = w.call
      /\ v.alive = w.alive /\ v.talking = w.talking
      /\ v.starting[g] = r
      /\ \A i \in Gen : i # g => v.starting[i] = w.starting[i]
  BY <1>2, <1>3, <1>4, StartingEffect
<1> QED BY <1>2, <1>3, <1>5 DEF v

(* _startSession returns without a session of its own for the host, or     *)
(* with the one it has given it before.                                    *)
LEMMA ReturnsKeeps ==
  ASSUME NEW w, NEW g \in Gen, HostInv(w, g), w.starting[g].pc # "idle",
         w.starting[g].pc = "start" => w.sess[g].disposed,
         w.host.session # g,
         g = w.host.generation /\ ~w.host.disposed =>
           w.host.session = 0 /\ w.host.failed
  PROVE  HostInv(Returns(w, g), 0)
<1> DEFINE v == Returns(w, g)
<1>1. w \in Worlds BY DEF HostInv
<1>2. /\ v \in Worlds
      /\ v.sess = w.sess /\ v.call = w.call
      /\ v.starting[g].pc = "over"
      /\ \A i \in Gen : i # g => v.starting[i] = w.starting[i]
      /\ v.host.disposed = w.host.disposed
      /\ v.host.generation = w.host.generation
      /\ v.host.session = w.host.session /\ v.host.heard = w.host.heard
      /\ v.host.engine = w.host.engine /\ v.host.failed = w.host.failed
  BY <1>1, ReturnsEffect
<1> HIDE DEF v
<1>3. /\ w.host.generation \in Gen
      /\ w.host.session \in Gen \/ w.host.session = 0
  BY <1>1, HostFacts
<1>4. CallsOK(v) BY <1>2 DEF HostInv, CallsOK
<1>5. NumbersOK(v) BY <1>2 DEF HostInv, NumbersOK
<1>6. ASSUME NEW i \in Gen PROVE SessionOK(v, 0, i)
  <2>1. SessionOK(w, g, i) BY DEF HostInv, SessionsOK
  <2>2. CASE i # g BY <1>2, <2>1, <2>2, SMTT(30) DEF SessionOK
  <2>3. CASE i = g
    <3>1. w.starting[g].pc = "enrol" => w.call[<<"start", g>>].pc = "idle"
      <4>1. <<"start", g>> \in Call /\ <<"start", g>>[1] = "start" /\ <<"start", g>>[2] = g
        BY CallFacts
      <4> QED BY <4>1 DEF HostInv, CallsOK, NumbersOK
    <3> QED BY <1>2, <2>1, <2>3, <3>1, SMTT(30) DEF SessionOK
  <2> QED BY <2>2, <2>3
<1>7. HostOK(v, 0)
  <2>1. HostOK(w, g) BY DEF HostInv
  <2>2. w.host.session # 0 => v.starting[w.host.session] = w.starting[w.host.session]
    BY <1>2, <1>3
  <2>3. CASE w.host.generation = g BY <1>2, <1>3, <2>1, <2>2, <2>3 DEF HostOK
  <2>4. CASE w.host.generation # g
    <3>1. v.starting[w.host.generation] = w.starting[w.host.generation] BY <1>2, <1>3, <2>4
    <3> QED BY <1>2, <1>3, <2>1, <2>2, <2>4, <3>1 DEF HostOK
  <2> QED BY <2>3, <2>4
<1>8. DisposalOK(v) BY <1>2 DEF HostInv, DisposalOK
<1> QED BY <1>2, <1>4, <1>5, <1>6, <1>7, <1>8 DEF HostInv, SessionsOK, v

(* The new session is made, when the host's fields have been cleared.      *)
Bared(w, g, h) ==
  [w EXCEPT !.host = h, !.starting[g].pc = "start",
            !.sess[g] = NewSession(w.starting[g].setting)]

LEMMA BaredEffect ==
  ASSUME NEW w \in Worlds, NEW g \in Gen, NEW h \in Hosts
  PROVE  LET v == Bared(w, g, h)
         IN  /\ v \in Worlds
             /\ v.host = h /\ v.call = w.call
             /\ v.alive = w.alive /\ v.talking = w.talking
             /\ v.starting[g].pc = "start"
             /\ \A i \in Gen : i # g => v.starting[i] = w.starting[i] /\ v.sess[i] = w.sess[i]
             /\ ~v.sess[g].disposed /\ ~v.sess[g].closed
             /\ \A p \in Part : v.sess[g].held[p] = NoCall
<1> DEFINE r == [w.starting[g] EXCEPT !.pc = "start"]
           k == NewSession(w.starting[g].setting)
           v == Bared(w, g, h)
<1>1. w.starting[g] \in Starts BY DEF Worlds
<1>2. r \in Starts /\ r.pc = "start" BY <1>1 DEF Starts
<1>3. /\ k \in Sessions /\ ~k.disposed /\ ~k.closed
      /\ \A p \in Part : k.held[p] = NoCall
  BY <1>1 DEF Sessions, Fields, NewSession, Starts
<1>4. v = [w EXCEPT !.host = h, !.starting = [w.starting EXCEPT ![g] = r],
                    !.sess = [w.sess EXCEPT ![g] = k]]
  BY DEF Bared, Worlds
<1> HIDE DEF k, r, v
<1>5. /\ v \in Worlds
      /\ v.host = h /\ v.call = w.call
      /\ v.alive = w.alive /\ v.talking = w.talking
      /\ v.starting[g] = r /\ v.sess[g] = k
      /\ \A i \in Gen : i # g => v.starting[i] = w.starting[i] /\ v.sess[i] = w.sess[i]
  BY <1>2, <1>3, <1>4 DEF Worlds
<1> QED BY <1>2, <1>3, <1>5 DEF v

LEMMA StartEffect ==
  ASSUME NEW w \in Worlds, NEW s \in Gen
  PROVE  LET v == Start(w, s)
             c == <<"start", s>>
         IN  /\ v \in Worlds
             /\ v.host = w.host /\ v.starting = w.starting /\ v.sess = w.sess
             /\ v.talking = w.talking
             /\ v.call[c].session = s /\ v.call[c].pc = "build"
             /\ \A d \in Call : d # c => v.call[d] = w.call[d]
             /\ \A d \in Call, p \in Part : d # c => (<<d, p>> \in v.alive <=> <<d, p>> \in w.alive)
             /\ \A p \in Part : <<c, p>> \in v.alive =>
                  <<c, p>> \in w.alive \/ p \in ChainParts(v.call[c].at = "linked")
<1> DEFINE c == <<"start", s>>
           k == [w.call[c] EXCEPT !.session = s]
           a == [w EXCEPT !.call[c].session = s]
           v == Build(a, c)
<1>1. c \in Call /\ s \in 0..MaxGen BY CallFacts, GenFacts
<1>2. w.call[c] \in Calls BY <1>1 DEF Worlds
<1>3. k \in Calls /\ k.session = s BY <1>1, <1>2 DEF Calls
<1>4. a = [w EXCEPT !.call = [w.call EXCEPT ![c] = k]] OBVIOUS
<1>5. Start(w, s) = v BY DEF Start
<1> HIDE DEF a, k, c
<1>6. /\ a \in Worlds
      /\ a.host = w.host /\ a.starting = w.starting /\ a.sess = w.sess
      /\ a.talking = w.talking /\ a.alive = w.alive
      /\ a.call[c] = k
      /\ \A d \in Call : d # c => a.call[d] = w.call[d]
  BY <1>1, <1>3, <1>4 DEF Worlds
<1>7. /\ v \in Worlds
      /\ v.host = a.host /\ v.starting = a.starting /\ v.sess = a.sess
      /\ v.talking = a.talking
      /\ v.call[c].session = a.call[c].session /\ v.call[c].pc = "build"
      /\ \A d \in Call : d # c => v.call[d] = a.call[d]
      /\ \A d \in Call, p \in Part : d # c => (<<d, p>> \in v.alive <=> <<d, p>> \in a.alive)
      /\ \A p \in Part : <<c, p>> \in v.alive =>
           <<c, p>> \in a.alive \/ p \in ChainParts(v.call[c].at = "linked")
  BY <1>1, <1>6, BuildEffect
<1> HIDE DEF v
<1>8. /\ \A d \in Call, p \in Part : d # c => (<<d, p>> \in v.alive <=> <<d, p>> \in w.alive)
      /\ \A p \in Part : <<c, p>> \in v.alive =>
           <<c, p>> \in w.alive \/ p \in ChainParts(v.call[c].at = "linked")
  BY <1>6, <1>7
<1> QED BY <1>3, <1>5, <1>6, <1>7, <1>8 DEF c

(* The previous session, if there is one, has been disposed of.            *)
LetGo(w) == IF w.host.session = 0 THEN w ELSE Dispose(w, w.host.session)

LEMMA LetGoKeeps ==
  ASSUME NEW w, HostInv(w, 0)
  PROVE  /\ HostInv(LetGo(w), w.host.session)
         /\ LetGo(w).host = w.host /\ LetGo(w).starting = w.starting
         /\ w.host.session # 0 => LetGo(w).sess[w.host.session].disposed
<1>1. w \in Worlds BY DEF HostInv
<1>2. w.host.session \in Gen \/ w.host.session = 0 BY <1>1, HostFacts
<1>3. CASE w.host.session = 0 BY <1>3 DEF LetGo
<1>4. CASE w.host.session \in Gen
  <2> DEFINE s == w.host.session
  <2>1. LetGo(w) = Dispose(w, s) BY <1>4, GenFacts DEF LetGo
  <2>2. w.starting[s].pc = "over" BY <1>4, GenFacts DEF HostInv, HostOK
  <2>3. HostInv(w, s) BY Weaken
  <2>4. HostInv(Dispose(w, s), s) BY <1>4, <2>2, <2>3, DisposeKeeps
  <2>5. /\ Dispose(w, s).host = w.host /\ Dispose(w, s).starting = w.starting
        /\ Dispose(w, s).sess[s].disposed
    BY <1>1, <1>4, DisposeFrame
  <2> QED BY <2>1, <2>4, <2>5
<1> QED BY <1>2, <1>3, <1>4

LEMMA ReplaceCases ==
  ASSUME NEW w \in Worlds, NEW g \in Gen, LetGo(w) \in Worlds,
         LetGo(w).host = w.host, LetGo(w).starting = w.starting
  PROVE  LET v == Replace(w, g)
             c == <<"start", g>>
             let == LetGo(w)
         IN  /\ v \in Worlds
             /\ v.host.disposed = w.host.disposed
             /\ v.host.generation = w.host.generation
             /\ v.host.session = 0 /\ v.host.heard = 0 /\ v.host.engine = NoCall
             /\ v.starting[g].pc = "start"
             /\ \A i \in Gen : i # g => v.starting[i] = w.starting[i] /\ v.sess[i] = let.sess[i]
             /\ ~v.sess[g].disposed /\ ~v.sess[g].closed
             /\ \A p \in Part : v.sess[g].held[p] = NoCall
             /\ v.call[c].session = g /\ v.call[c].pc = "build"
             /\ \A d \in Call : d # c => v.call[d] = let.call[d]
             /\ v.talking = let.talking
             /\ \A d \in Call, p \in Part : d # c => (<<d, p>> \in v.alive <=> <<d, p>> \in let.alive)
             /\ \A p \in Part : <<c, p>> \in v.alive =>
                  <<c, p>> \in let.alive \/ p \in ChainParts(v.call[c].at = "linked")
<1> DEFINE let == LetGo(w)
           h == [w.host EXCEPT !.heard = 0, !.session = 0, !.engine = NoCall, !.failed = FALSE]
           b == Bared(let, g, h)
           v == Replace(w, g)
           c == <<"start", g>>
<1>1. w.host \in Hosts BY HostFacts
<1>2. /\ h \in Hosts /\ h.disposed = w.host.disposed /\ h.generation = w.host.generation
      /\ h.session = 0 /\ h.heard = 0 /\ h.engine = NoCall
  BY <1>1, GenFacts DEF Hosts
<1>3. v = Start(b, g)
  <2>1. let.host = w.host /\ let.starting = w.starting /\ let \in Worlds OBVIOUS
  <2>2. Replace(w, g) = Start([let EXCEPT !.host.heard = 0, !.host.session = 0,
                          !.host.engine = NoCall, !.host.failed = FALSE,
                          !.starting[g].pc = "start",
                          !.sess[g] = NewSession(w.starting[g].setting)], g)
    BY DEF Replace, LetGo
  <2> HIDE DEF let
  <2>3. b = [let EXCEPT !.host.heard = 0, !.host.session = 0,
                          !.host.engine = NoCall, !.host.failed = FALSE,
                          !.starting[g].pc = "start",
                          !.sess[g] = NewSession(w.starting[g].setting)]
    BY <2>1 DEF Bared, Worlds
  <2> QED BY <2>2, <2>3
<1> HIDE DEF let, h, v
<1>4. let \in Worlds /\ let.host = w.host /\ let.starting = w.starting BY DEF let
<1>5. /\ b \in Worlds
      /\ b.host = h /\ b.call = let.call
      /\ b.alive = let.alive /\ b.talking = let.talking
      /\ b.starting[g].pc = "start"
      /\ \A i \in Gen : i # g => b.starting[i] = let.starting[i] /\ b.sess[i] = let.sess[i]
      /\ ~b.sess[g].disposed /\ ~b.sess[g].closed
      /\ \A p \in Part : b.sess[g].held[p] = NoCall
  BY <1>2, <1>4, BaredEffect
<1> HIDE DEF b
<1>6. /\ v \in Worlds
      /\ v.host = b.host /\ v.starting = b.starting /\ v.sess = b.sess
      /\ v.talking = b.talking
      /\ v.call[c].session = g /\ v.call[c].pc = "build"
      /\ \A d \in Call : d # c => v.call[d] = b.call[d]
      /\ \A d \in Call, p \in Part : d # c => (<<d, p>> \in v.alive <=> <<d, p>> \in b.alive)
      /\ \A p \in Part : <<c, p>> \in v.alive =>
           <<c, p>> \in b.alive \/ p \in ChainParts(v.call[c].at = "linked")
  BY <1>3, <1>5, StartEffect
<1> HIDE DEF c
<1>7. /\ \A d \in Call, p \in Part : d # c => (<<d, p>> \in v.alive <=> <<d, p>> \in let.alive)
      /\ \A p \in Part : <<c, p>> \in v.alive =>
           <<c, p>> \in let.alive \/ p \in ChainParts(v.call[c].at = "linked")
  BY <1>5, <1>6
<1> QED BY <1>2, <1>4, <1>5, <1>6, <1>7 DEF v, let, c

LEMMA ReplaceKeeps ==
  ASSUME NEW w, HostInv(w, 0), NEW g \in Gen, w.starting[g].pc = "enrol",
         ~Superseded(w, g)
  PROVE  HostInv(Replace(w, g), 0)
<1> DEFINE let == LetGo(w)
           v == Replace(w, g)
           c == <<"start", g>>
           x == w.host.session
<1>1. w \in Worlds /\ g = w.host.generation BY DEF HostInv, Superseded
<1>2. HostInv(let, x) /\ let.host = w.host /\ let.starting = w.starting
  BY LetGoKeeps
<1>3. let \in Worlds BY <1>2 DEF HostInv
<1>4. /\ v \in Worlds
      /\ v.host.disposed = w.host.disposed
      /\ v.host.generation = w.host.generation
      /\ v.host.session = 0 /\ v.host.heard = 0 /\ v.host.engine = NoCall
      /\ v.starting[g].pc = "start"
      /\ \A i \in Gen : i # g => v.starting[i] = w.starting[i] /\ v.sess[i] = let.sess[i]
      /\ ~v.sess[g].disposed /\ ~v.sess[g].closed
      /\ \A p \in Part : v.sess[g].held[p] = NoCall
      /\ v.call[c].session = g /\ v.call[c].pc = "build"
      /\ \A d \in Call : d # c => v.call[d] = let.call[d]
  BY <1>1, <1>2, <1>3, ReplaceCases
<1>5. x # 0 => let.sess[x].disposed BY LetGoKeeps
<1> HIDE DEF let, v, x
<1>6. c \in Call /\ c[1] = "start" /\ c[2] = g BY CallFacts
<1>7. \A d \in Call : let.call[d].session # g
  BY <1>2 DEF HostInv, NumbersOK
<1>8. let.call[c].pc = "idle" BY <1>2, <1>6, <1>7 DEF HostInv, CallsOK
<1>9. \A d \in Call : d[1] \in {"start", "dispose"} /\ d[2] = g => let.call[d].pc = "idle"
  BY <1>2, <1>7 DEF HostInv, CallsOK
<1>10. CallsOK(v)
  <2> SUFFICES ASSUME NEW d \in Call
               PROVE  /\ d[1] = "start" => v.call[d].pc # "teardown"
                      /\ d[1] = "dispose" => v.call[d].pc # "build"
                      /\ d[1] # "switch" /\ v.call[d].pc # "idle" => v.call[d].session = d[2]
                      /\ v.call[d].pc \in {"teardown", "build"} => v.call[d].session # 0
                      /\ v.call[d].pc = "teardown" => v.call[d].at \in Range(Parts)
                      /\ v.call[d].pc = "idle" => v.call[d].session = 0
    BY DEF CallsOK
  <2>1. CASE d = c
    <3>1. g # 0 BY GenFacts
    <3> HIDE DEF c
    <3> QED BY <1>4, <1>6, <2>1, <3>1
  <2>2. CASE d # c
    <3>1. v.call[d] = let.call[d] BY <1>4, <2>2
    <3> QED BY <1>2, <3>1 DEF HostInv, CallsOK
  <2> QED BY <2>1, <2>2
<1>11. NumbersOK(v)
  <2> SUFFICES ASSUME NEW i \in Gen
               PROVE  /\ v.starting[i].pc = "idle" <=> i > v.host.generation
                      /\ v.starting[i].pc \in {"idle", "enrol"} =>
                           \A d \in Call : v.call[d].session # i
    BY DEF NumbersOK
  <2>1. CASE i = g BY <1>1, <1>4, <2>1, GenFacts
  <2>2. CASE i # g
    <3>1. v.starting[i] = let.starting[i] /\ v.host.generation = let.host.generation
      BY <1>2, <1>4, <2>2
    <3>2. \A d \in Call : v.call[d].session = i => let.call[d].session = i
      BY <1>4, <2>2
    <3> QED BY <1>2, <3>1, <3>2 DEF HostInv, NumbersOK
  <2> QED BY <2>1, <2>2
<1>12. ASSUME NEW i \in Gen PROVE SessionOK(v, 0, i)
  <2>1. CASE i = g BY <1>4, <2>1 DEF SessionOK
  <2>2. CASE i # g
    <3>1. SessionOK(let, x, i) BY <1>2 DEF HostInv, SessionsOK
    <3>2. v.starting[i] = let.starting[i] /\ v.sess[i] = let.sess[i] BY <1>2, <1>4, <2>2
    <3>3. <<"start", i>> \in Call /\ <<"start", i>> # c BY <2>2, CallFacts
    <3>4. v.call[<<"start", i>>] = let.call[<<"start", i>>] BY <1>4, <3>3
    <3>5. let.host.session = x BY <1>2 DEF x
    <3>6. w.starting[i].pc = "start" => i # x
      BY GenFacts DEF HostInv, HostOK, x
    <3>7. ASSUME NEW p \in Part, v.sess[i].held[p] # NoCall
          PROVE  /\ v.call[v.sess[i].held[p]].session = i
                 /\ v.call[v.sess[i].held[p]].pc = "over"
      <4>1. /\ let.call[v.sess[i].held[p]].session = i
            /\ let.call[v.sess[i].held[p]].pc = "over"
        BY <3>1, <3>2, <3>7 DEF SessionOK
      <4>2. v.sess[i].held[p] \in Call BY <1>4, <3>7 DEF Worlds, Sessions, Fields
      <4>3. v.sess[i].held[p] # c BY <1>8, <4>1
      <4> QED BY <1>4, <4>1, <4>2, <4>3
    <3>8. /\ v.sess[i].closed => v.sess[i].disposed
          /\ v.call[<<"start", i>>].pc # "idle" =>
               v.sess[i].disposed \/ v.starting[i].pc = "start"
      BY <1>5, <3>1, <3>2, <3>4, <3>5, GenFacts DEF SessionOK
    <3>9. v.starting[i].pc = "start" /\ i # 0 =>
             v.call[<<"start", i>>].pc = "build" /\ ~v.sess[i].disposed
      BY <1>2, <3>1, <3>2, <3>4, <3>6 DEF SessionOK
    <3> QED BY <3>7, <3>8, <3>9 DEF SessionOK
  <2> QED BY <2>1, <2>2
<1>13. HostOK(v, 0)
  <2>1. w.host.generation # 0 BY <1>1, GenFacts
  <2> QED BY <1>1, <1>4, <2>1 DEF HostOK
<1>14. DisposalOK(v)
  <2> SUFFICES ASSUME NEW i \in Gen
               PROVE  v.sess[i].disposed <=> v.call[<<"dispose", i>>].pc # "idle"
    BY DEF DisposalOK
  <2>1. <<"dispose", i>> \in Call /\ <<"dispose", i>>[1] = "dispose" /\ <<"dispose", i>>[2] = i
    BY CallFacts
  <2>2. <<"dispose", i>> # c OBVIOUS
  <2>3. v.call[<<"dispose", i>>] = let.call[<<"dispose", i>>] BY <1>4, <2>1, <2>2
  <2>4. CASE i = g BY <1>4, <1>9, <2>1, <2>3, <2>4
  <2>5. CASE i # g
    <3>1. v.sess[i] = let.sess[i] BY <1>4, <2>5
    <3> QED BY <1>2, <2>3, <3>1 DEF HostInv, DisposalOK
  <2> QED BY <2>4, <2>5
<1> QED BY <1>4, <1>10, <1>11, <1>12, <1>13, <1>14 DEF HostInv, SessionsOK, v

LEMMA EnrolledKeeps ==
  ASSUME NEW w, HostInv(w, 0), NEW g \in Gen, w.starting[g].pc = "enrol"
  PROVE  /\ Superseded(w, g) => HostInv(Returns(w, g), 0)
         /\ ~Superseded(w, g) => HostInv(Replace(w, g), 0)
<1>1. ~Superseded(w, g) => HostInv(Replace(w, g), 0) BY ReplaceKeeps
<1>2. ASSUME Superseded(w, g) PROVE HostInv(Returns(w, g), 0)
  <2>1. HostInv(w, g) BY Weaken
  <2>2. w.host.session # g BY GenFacts DEF HostInv, HostOK
  <2>3. g = w.host.generation => w.host.disposed BY <1>2 DEF Superseded
  <2> QED BY <2>1, <2>2, <2>3, ReturnsKeeps
<1> QED BY <1>1, <1>2

LEMMA HostEffect ==
  ASSUME NEW w \in Worlds, NEW h \in Hosts
  PROVE  LET v == [w EXCEPT !.host = h]
         IN  /\ v \in Worlds /\ v.host = h
             /\ v.starting = w.starting /\ v.sess = w.sess /\ v.call = w.call
             /\ v.alive = w.alive /\ v.talking = w.talking
  BY DEF Worlds

(* A start that fails disposes of its session and leaves none.             *)
LEMMA StartFailedKeeps ==
  ASSUME NEW w, NEW g \in Gen,
         w.starting[g].pc = "start" => HostInv(w, g),
         w.starting[g].pc # "start" => HostInv(w, 0)
  PROVE  HostInv(StartFailed(w, g), 0)
<1>1. CASE w.starting[g].pc # "start" BY <1>1 DEF StartFailed
<1>2. CASE w.starting[g].pc = "start"
  <2> DEFINE d == Dispose(w, g)
             failed == d.host.failed \/ ~Superseded(w, g)
             h == [d.host EXCEPT !.failed = failed]
             f == [d EXCEPT !.host = h]
  <2>1. HostInv(w, g) /\ w \in Worlds BY <1>2 DEF HostInv
  <2>2. HostInv(d, g) BY <1>2, <2>1, DisposeKeeps
  <2>3. d \in Worlds /\ d.host = w.host /\ d.starting = w.starting /\ d.sess[g].disposed
    BY <2>1, DisposeFrame
  <2>4. StartFailed(w, g) = Returns(f, g)
    BY <1>2, <2>3 DEF StartFailed, Worlds
  <2> HIDE DEF d
  <2>5. d.host \in Hosts BY <2>3, HostFacts
  <2>6. failed \in BOOLEAN BY <2>5 DEF Superseded, Hosts
  <2>7. ~w.host.disposed /\ g = w.host.generation => failed BY DEF Superseded
  <2>8. w.host.failed => failed BY <2>3
  <2> HIDE DEF failed
  <2>9. /\ h \in Hosts /\ h.failed = failed
        /\ h.disposed = w.host.disposed /\ h.generation = w.host.generation
        /\ h.session = w.host.session /\ h.heard = w.host.heard
        /\ h.engine = w.host.engine
    BY <2>3, <2>5, <2>6 DEF Hosts
  <2> HIDE DEF h
  <2>10. /\ f \in Worlds /\ f.host = h
         /\ f.starting = d.starting /\ f.sess = d.sess /\ f.call = d.call
    BY <2>3, <2>9, HostEffect
  <2> HIDE DEF f
  <2>11. HostInv(f, g)
    <3>1. CallsOK(f) /\ NumbersOK(f) /\ DisposalOK(f)
      BY <2>2, <2>3, <2>9, <2>10 DEF HostInv, CallsOK, NumbersOK, DisposalOK
    <3>2. ASSUME NEW i \in Gen PROVE SessionOK(f, g, i)
      <4>1. SessionOK(d, g, i) BY <2>2 DEF HostInv, SessionsOK
      <4> QED BY <2>3, <2>9, <2>10, <4>1, SMTT(30) DEF SessionOK
    <3>3. HostOK(f, g)
      <4>1. HostOK(d, g) BY <2>2 DEF HostInv
      <4> QED BY <2>3, <2>8, <2>9, <2>10, <4>1 DEF HostOK
    <3> QED BY <2>10, <3>1, <3>2, <3>3 DEF HostInv, SessionsOK
  <2>12. w.host.session # g BY <1>2, <2>1, GenFacts DEF HostInv, HostOK
  <2>13. g = w.host.generation => w.host.session = 0
    BY <1>2, <2>1 DEF HostInv, HostOK
  <2>14. HostInv(Returns(f, g), 0)
    BY <1>2, <2>3, <2>7, <2>9, <2>10, <2>11, <2>12, <2>13, ReturnsKeeps
  <2> QED BY <2>4, <2>14
<1> QED BY <1>1, <1>2

-----------------------------------------------------------------------------
(* The chains.                                                             *)

(* A call that was building is over, having set its session's fields or    *)
(* disposed of what it had made.                                           *)
Concluded(w, v, c) ==
  LET s == w.call[c].session
  IN  /\ v \in Worlds
      /\ v.host = w.host /\ v.starting = w.starting
      /\ v.call[c].session = s /\ v.call[c].pc = "over"
      /\ \A d \in Call : d # c => v.call[d] = w.call[d]
      /\ \A g \in Gen : g # s => v.sess[g] = w.sess[g]
      /\ v.sess[s].setting = w.sess[s].setting
      /\ v.sess[s].disposed = w.sess[s].disposed
      /\ v.sess[s].closed = w.sess[s].closed
      /\ \A p \in Part : v.sess[s].held[p] \in {w.sess[s].held[p], c}
      /\ \A d \in Call, p \in Part : d # c => (<<d, p>> \in v.alive <=> <<d, p>> \in w.alive)
      /\ \A d \in Call : d # c => (d \in v.talking <=> d \in w.talking)
      /\ c \in v.talking => c \in w.talking

LEMMA HeldEffect ==
  ASSUME NEW w \in Worlds, NEW s \in Gen, NEW f \in Fields
  PROVE  LET v == [w EXCEPT !.sess[s].held = f]
         IN  /\ v \in Worlds
             /\ v.host = w.host /\ v.starting = w.starting /\ v.call = w.call
             /\ v.alive = w.alive /\ v.talking = w.talking
             /\ \A g \in Gen : g # s => v.sess[g] = w.sess[g]
             /\ v.sess[s].setting = w.sess[s].setting
             /\ v.sess[s].disposed = w.sess[s].disposed
             /\ v.sess[s].closed = w.sess[s].closed
             /\ v.sess[s].held = f
<1> DEFINE r == [w.sess[s] EXCEPT !.held = f]
<1>1. w.sess \in [Gen -> Sessions] /\ w.sess[s] \in Sessions BY DEF Worlds
<1>2. /\ r \in Sessions /\ r.setting = w.sess[s].setting /\ r.disposed = w.sess[s].disposed
      /\ r.closed = w.sess[s].closed /\ r.held = f
  BY <1>1 DEF Sessions
<1>3. [w EXCEPT !.sess[s].held = f] = [w EXCEPT !.sess = [w.sess EXCEPT ![s] = r]]
  OBVIOUS
<1> HIDE DEF r
<1> QED BY <1>1, <1>2, <1>3 DEF Worlds

(* What a chain has when it is up is in the fields and alive.              *)
AdoptedParts(w, c) == ChainParts(w.call[c].at = "linked")

LEMMA AdoptConcludes ==
  ASSUME NEW w \in Worlds, NEW c \in Call, w.call[c].session \in Gen
  PROVE  LET v == Adopt(w, c)
             s == w.call[c].session
         IN  /\ Concluded(w, v, c)
             /\ v.talking = w.talking
             /\ v.sess[s].held["engine"] = c
             /\ \A p \in Part :
                  /\ p \in AdoptedParts(w, c) => v.sess[s].held[p] = c /\ <<c, p>> \in v.alive
                  /\ p \notin AdoptedParts(w, c) =>
                       /\ v.sess[s].held[p] = w.sess[s].held[p]
                       /\ <<c, p>> \in v.alive <=> <<c, p>> \in w.alive
<1> DEFINE s == w.call[c].session
           parts == ChainParts(w.call[c].at = "linked")
           f == [p \in Part |-> IF p \in parts THEN c ELSE w.sess[s].held[p]]
           a == [w EXCEPT !.alive = @ \cup ({c} \X parts)]
           b == [a EXCEPT !.sess[s].held = f]
           v == Ends(b, c)
<1>1. s \in Gen OBVIOUS
<1>2. parts \in SUBSET Part /\ "engine" \in parts /\ "engine" \in Part
  BY PartsFacts DEF ChainParts
<1>3. parts = AdoptedParts(w, c) BY DEF AdoptedParts
<1>4. Adopt(w, c) = v
  <2>1. Adopt(w, c) = Ends([w EXCEPT !.alive = @ \cup ({c} \X parts),
                       !.sess[s].held = [p \in Part |-> IF p \in parts THEN c ELSE @[p]]], c)
    BY DEF Adopt
  <2> HIDE DEF parts, s
  <2>2. w.sess \in [Gen -> Sessions] BY DEF Worlds
  <2>3. [w EXCEPT !.alive = @ \cup ({c} \X parts),
             !.sess[s].held = [p \in Part |-> IF p \in parts THEN c ELSE @[p]]] = b
    BY DEF Worlds
  <2> QED BY <2>1, <2>3
<1> HIDE DEF s, parts
<1>5. w.sess[s] \in Sessions /\ w.sess[s].held \in Fields BY <1>1 DEF Worlds, Sessions
<1>6. /\ f \in Fields
      /\ \A p \in Part : f[p] = IF p \in parts THEN c ELSE w.sess[s].held[p]
  BY <1>5 DEF Fields
<1> HIDE DEF f
<1>7. /\ a \in Worlds
      /\ a.host = w.host /\ a.starting = w.starting /\ a.sess = w.sess
      /\ a.talking = w.talking /\ a.call = w.call
      /\ a.alive = w.alive \cup ({c} \X parts)
  BY <1>2 DEF Worlds
<1> HIDE DEF a
<1>8. /\ b \in Worlds
      /\ b.host = a.host /\ b.starting = a.starting /\ b.call = a.call
      /\ b.alive = a.alive /\ b.talking = a.talking
      /\ \A g \in Gen : g # s => b.sess[g] = a.sess[g]
      /\ b.sess[s].setting = a.sess[s].setting
      /\ b.sess[s].disposed = a.sess[s].disposed
      /\ b.sess[s].closed = a.sess[s].closed
      /\ b.sess[s].held = f
  BY <1>1, <1>6, <1>7, HeldEffect
<1> HIDE DEF b
<1>9. /\ v \in Worlds
      /\ v.host = b.host /\ v.starting = b.starting /\ v.sess = b.sess
      /\ v.alive = b.alive /\ v.talking = b.talking
      /\ v.call[c].session = b.call[c].session /\ v.call[c].pc = "over"
      /\ \A d \in Call : d # c => v.call[d] = b.call[d]
  <2>1. "over" \in {"idle", "teardown", "build", "over"} /\ "none" \in Range(Parts) \cup {"none"}
    OBVIOUS
  <2> QED BY <1>8, <2>1, WaitsEffect DEF Ends
<1> HIDE DEF v
<1>10. v.alive = w.alive \cup ({c} \X parts) BY <1>7, <1>8, <1>9
<1>11. /\ \A d \in Call, p \in Part : d # c => (<<d, p>> \in v.alive <=> <<d, p>> \in w.alive)
       /\ \A p \in Part : p \in parts => <<c, p>> \in v.alive
       /\ \A p \in Part : p \notin parts => (<<c, p>> \in v.alive <=> <<c, p>> \in w.alive)
  BY <1>10
<1>12. \A p \in Part : v.sess[s].held[p] = IF p \in parts THEN c ELSE w.sess[s].held[p]
  BY <1>6, <1>8, <1>9
<1>13. /\ v.host = w.host /\ v.starting = w.starting /\ v.talking = w.talking
       /\ v.call[c].session = s
       /\ \A d \in Call : d # c => v.call[d] = w.call[d]
       /\ \A g \in Gen : g # s => v.sess[g] = w.sess[g]
       /\ v.sess[s].setting = w.sess[s].setting
       /\ v.sess[s].disposed = w.sess[s].disposed
       /\ v.sess[s].closed = w.sess[s].closed
  BY <1>7, <1>8, <1>9 DEF s
<1>14. \A p \in Part : v.sess[s].held[p] \in {w.sess[s].held[p], c} BY <1>12
<1>15. Concluded(w, v, c) BY <1>9, <1>11, <1>13, <1>14 DEF Concluded, s
<1> QED BY <1>2, <1>3, <1>4, <1>11, <1>12, <1>13, <1>15 DEF s

LEMMA BuildFailedConcludes ==
  ASSUME NEW w \in Worlds, NEW c \in Call
  PROVE  LET v == BuildFailed(w, c)
         IN  /\ Concluded(w, v, c)
             /\ v.sess = w.sess
             /\ \A p \in Part : <<c, p>> \notin v.alive
<1> DEFINE a == Kill(w, {c} \X Part)
           v == Ends(a, c)
<1>1. /\ a \in Worlds
      /\ a.host = w.host /\ a.starting = w.starting /\ a.sess = w.sess /\ a.call = w.call
      /\ \A q : q \in a.alive <=> q \in w.alive /\ q \notin {c} \X Part
      /\ \A d : d \in a.talking <=> d \in w.talking /\ <<d, "engine">> \notin {c} \X Part
  BY KillEffect
<1>2. BuildFailed(w, c) = v BY DEF BuildFailed
<1> HIDE DEF a
<1>3. /\ v \in Worlds
      /\ v.host = a.host /\ v.starting = a.starting /\ v.sess = a.sess
      /\ v.alive = a.alive /\ v.talking = a.talking
      /\ v.call[c].session = a.call[c].session /\ v.call[c].pc = "over"
      /\ \A d \in Call : d # c => v.call[d] = a.call[d]
  <2>1. "over" \in {"idle", "teardown", "build", "over"} /\ "none" \in Range(Parts) \cup {"none"}
    OBVIOUS
  <2> QED BY <1>1, <2>1, WaitsEffect DEF Ends
<1> HIDE DEF v
<1>4. /\ \A d \in Call, p \in Part : d # c => (<<d, p>> \in v.alive <=> <<d, p>> \in w.alive)
      /\ \A p \in Part : <<c, p>> \notin v.alive
  BY <1>1, <1>3
<1>5. /\ \A d \in Call : d # c => (d \in v.talking <=> d \in w.talking)
      /\ c \in v.talking => c \in w.talking
  BY <1>1, <1>3
<1>6. Concluded(w, v, c) BY <1>1, <1>3, <1>4, <1>5 DEF Concluded
<1> QED BY <1>1, <1>2, <1>3, <1>4, <1>6

LEMMA WorkFacts ==
  ASSUME NEW w \in Worlds, CallsOK(w), NEW c \in Call, w.call[c].pc \in {"teardown", "build"}
  PROVE  /\ w.call[c].session \in Gen
         /\ c[1] = "start" => c = <<"start", w.call[c].session>>
         /\ c[1] = "dispose" => c = <<"dispose", w.call[c].session>>
<1>1. w.call[c] \in Calls BY DEF Worlds
<1>2. w.call[c].session \in 0..MaxGen /\ w.call[c].session # 0 BY <1>1 DEF CallsOK, Calls
<1>3. w.call[c].session \in Gen BY <1>2, GenFacts
<1>4. c[1] # "switch" => w.call[c].session = c[2] BY DEF CallsOK
<1>5. ASSUME NEW g \in Gen, c = <<"start", g>> PROVE c[1] = "start" /\ c[2] = g BY <1>5
<1>6. ASSUME NEW g \in Gen, c = <<"dispose", g>> PROVE c[1] = "dispose" /\ c[2] = g BY <1>6
<1>7. ASSUME NEW k \in 1..MaxSwitch, c = <<"switch", k>> PROVE c[1] = "switch" BY <1>7
<1>8. \/ \E g \in Gen : c = <<"start", g>>
      \/ \E g \in Gen : c = <<"dispose", g>>
      \/ \E k \in 1..MaxSwitch : c = <<"switch", k>>
  BY CallFacts
<1> QED BY <1>3, <1>4, <1>5, <1>6, <1>7, <1>8

(* The host's engine when a call of its session may have changed it.       *)
WithEngine(v, e) == [v EXCEPT !.host.engine = e]

LEMMA EngineEffect ==
  ASSUME NEW w \in Worlds, NEW e \in Call \cup {NoCall}
  PROVE  LET v == WithEngine(w, e)
         IN  /\ v \in Worlds
             /\ v.starting = w.starting /\ v.sess = w.sess /\ v.call = w.call
             /\ v.alive = w.alive /\ v.talking = w.talking
             /\ v.host.engine = e
             /\ v.host.disposed = w.host.disposed /\ v.host.generation = w.host.generation
             /\ v.host.session = w.host.session /\ v.host.heard = w.host.heard
             /\ v.host.failed = w.host.failed
<1> DEFINE h == [w.host EXCEPT !.engine = e]
<1>1. w.host \in Hosts BY HostFacts
<1>2. /\ h \in Hosts /\ h.engine = e
      /\ h.disposed = w.host.disposed /\ h.generation = w.host.generation
      /\ h.session = w.host.session /\ h.heard = w.host.heard
      /\ h.failed = w.host.failed
  BY <1>1 DEF Hosts
<1>3. WithEngine(w, e) = [w EXCEPT !.host = h] BY DEF WithEngine
<1> HIDE DEF h
<1> QED BY <1>2, <1>3, HostEffect

LEMMA ConcludesKeeps ==
  ASSUME NEW w, HostInv(w, 0), NEW c \in Call, w.call[c].pc = "build",
         NEW v, Concluded(w, v, c), NEW x,
         c[1] = "start" /\ w.starting[w.call[c].session].pc = "start" =>
           x = w.call[c].session,
         NEW e, e \in {w.host.engine, c},
         e = c => w.call[c].session = w.host.session,
         ~w.host.disposed /\ w.host.session = w.host.generation =>
           v.sess[w.host.generation].held["engine"] \in {NoCall, e}
  PROVE  HostInv(WithEngine(v, e), x)
<1> DEFINE s == w.call[c].session
           u == WithEngine(v, e)
<1>1. /\ w \in Worlds /\ CallsOK(w) /\ NumbersOK(w) /\ SessionsOK(w, 0)
      /\ HostOK(w, 0) /\ DisposalOK(w)
  BY DEF HostInv
<1>2. /\ s \in Gen
      /\ c[1] = "start" => c = <<"start", s>>
      /\ c[1] # "dispose"
  BY <1>1, WorkFacts DEF CallsOK
<1>3. /\ v \in Worlds
      /\ v.host = w.host /\ v.starting = w.starting
      /\ v.call[c].session = s /\ v.call[c].pc = "over"
      /\ \A d \in Call : d # c => v.call[d] = w.call[d]
      /\ \A g \in Gen : g # s => v.sess[g] = w.sess[g]
      /\ v.sess[s].disposed = w.sess[s].disposed
      /\ v.sess[s].closed = w.sess[s].closed
      /\ \A p \in Part : v.sess[s].held[p] \in {w.sess[s].held[p], c}
  BY DEF Concluded
<1>4. e \in Call \cup {NoCall} BY <1>1, HostFacts
<1>5. /\ u \in Worlds
      /\ u.starting = v.starting /\ u.sess = v.sess /\ u.call = v.call
      /\ u.host.engine = e
      /\ u.host.disposed = v.host.disposed /\ u.host.generation = v.host.generation
      /\ u.host.session = v.host.session /\ u.host.heard = v.host.heard
      /\ u.host.failed = v.host.failed
  BY <1>3, <1>4, EngineEffect
<1> HIDE DEF u, s
<1>6. CallsOK(u)
  <2> SUFFICES ASSUME NEW d \in Call
               PROVE  /\ d[1] = "start" => u.call[d].pc # "teardown"
                      /\ d[1] = "dispose" => u.call[d].pc # "build"
                      /\ d[1] # "switch" /\ u.call[d].pc # "idle" => u.call[d].session = d[2]
                      /\ u.call[d].pc \in {"teardown", "build"} => u.call[d].session # 0
                      /\ u.call[d].pc = "teardown" => u.call[d].at \in Range(Parts)
                      /\ u.call[d].pc = "idle" => u.call[d].session = 0
    BY DEF CallsOK
  <2>1. CASE d = c
    <3>1. c[1] # "switch" => s = c[2] BY <1>1 DEF CallsOK, s
    <3> QED BY <1>3, <1>5, <2>1, <3>1
  <2>2. CASE d # c
    <3>1. u.call[d] = w.call[d] BY <1>3, <1>5, <2>2
    <3> QED BY <1>1, <3>1 DEF CallsOK
  <2> QED BY <2>1, <2>2
<1>7. NumbersOK(u)
  <2>1. \A d \in Call : u.call[d].session = w.call[d].session BY <1>3, <1>5 DEF s
  <2> QED BY <1>1, <1>3, <1>5, <2>1 DEF NumbersOK
<1>8. ASSUME NEW g \in Gen
      PROVE  u.sess[g].disposed = w.sess[g].disposed /\ u.sess[g].closed = w.sess[g].closed
  <2>1. CASE g = s BY <1>3, <1>5, <2>1
  <2>2. CASE g # s BY <1>3, <1>5, <2>2
  <2> QED BY <2>1, <2>2
<1>9. ASSUME NEW g \in Gen
      PROVE  LET b == <<"start", g>>
             IN  /\ u.call[b].pc # "idle" => w.call[b].pc # "idle"
                 /\ w.call[b].pc = "over" => u.call[b].pc = "over"
                 /\ b # c => u.call[b] = w.call[b]
  <2>1. <<"start", g>> \in Call BY CallFacts
  <2>2. CASE <<"start", g>> = c
    <3> DEFINE b == <<"start", g>>
    <3>1. b = c BY <2>2
    <3> HIDE DEF b
    <3>2. u.call[b].pc = "over" /\ w.call[b].pc # "idle" BY <1>3, <1>5, <3>1
    <3> QED BY <3>1, <3>2 DEF b
  <2>3. CASE <<"start", g>> # c BY <1>3, <1>5, <2>1, <2>3
  <2> QED BY <2>2, <2>3
<1>10. ASSUME NEW g \in Gen, NEW p \in Part, u.sess[g].held[p] # NoCall
       PROVE  /\ u.call[u.sess[g].held[p]].session = g
              /\ u.call[u.sess[g].held[p]].pc = "over"
  <2>1. CASE g = s /\ u.sess[g].held[p] = c BY <1>3, <1>5, <2>1
  <2>2. CASE u.sess[g].held[p] = w.sess[g].held[p]
    <3> DEFINE d == w.sess[g].held[p]
    <3>1. d \in Call /\ d # NoCall
      BY <1>1, <1>10, <2>2 DEF Worlds, Sessions, Fields
    <3>2. w.call[d].session = g /\ w.call[d].pc = "over"
      BY <1>1, <1>10, <2>2 DEF SessionsOK, SessionOK
    <3> HIDE DEF d
    <3>3. d # c BY <3>2
    <3>4. u.call[d] = w.call[d] BY <1>3, <1>5, <3>1, <3>3
    <3> QED BY <2>2, <3>2, <3>4 DEF d
  <2>3. u.sess[g].held[p] = w.sess[g].held[p] \/ (g = s /\ u.sess[g].held[p] = c)
    <3>1. CASE g = s BY <1>3, <1>5, <3>1
    <3>2. CASE g # s BY <1>3, <1>5, <3>2
    <3> QED BY <3>1, <3>2
  <2> QED BY <2>1, <2>2, <2>3
<1>11. ASSUME NEW g \in Gen PROVE SessionOK(u, x, g)
  <2>1. SessionOK(w, 0, g) /\ g # 0 BY <1>1, GenFacts DEF SessionsOK
  <2>2. /\ u.sess[g].closed => u.sess[g].disposed
        /\ u.call[<<"start", g>>].pc # "idle" =>
             u.sess[g].disposed \/ g = u.host.session \/ u.starting[g].pc = "start"
    BY <1>3, <1>5, <1>8, <1>9, <2>1, SMTT(30) DEF SessionOK
  <2>3. u.starting[g].pc = "start" /\ g # x =>
             u.call[<<"start", g>>].pc = "build" /\ ~u.sess[g].disposed
    <3>1. <<"start", g>>[1] = "start" /\ <<"start", g>>[2] = g OBVIOUS
    <3>2. <<"start", g>> = c => g = s
      <4>1. ASSUME <<"start", g>> = c PROVE g = s
        <5>1. c[1] = "start" /\ c[2] = g BY <4>1
        <5>2. c = <<"start", s>> BY <1>2, <5>1
        <5>3. c[2] = s BY <5>2
        <5> QED BY <5>1, <5>3
      <4> QED BY <4>1
    <3>3. <<"start", g>> = c /\ w.starting[g].pc = "start" => g = x
      <4>1. <<"start", g>> = c => c[1] = "start" OBVIOUS
      <4> QED BY <3>2, <4>1 DEF s
    <3> QED BY <1>3, <1>5, <1>8, <1>9, <2>1, <3>3, SMTT(30) DEF SessionOK
  <2> QED BY <1>10, <2>2, <2>3 DEF SessionOK
<1>12. HostOK(u, x)
  <2>1. /\ w.host.generation \in Gen
        /\ w.host.session \in Gen \/ w.host.session = 0
        /\ w.host.engine \in Call \/ w.host.engine = NoCall
    BY <1>1, HostFacts
  <2>2. w.host.session # 0 =>
           /\ u.call[<<"start", w.host.session>>].pc = "over"
           /\ u.sess[w.host.session].disposed = w.sess[w.host.session].disposed
    BY <1>1, <1>8, <1>9, <2>1 DEF HostOK
  <2>3. e # NoCall => u.call[e].session = w.host.session /\ u.call[e].pc = "over"
    <3>1. CASE e = c BY <1>3, <1>5, <3>1 DEF s
    <3>2. CASE e # c
      <4>1. e = w.host.engine BY <3>2
      <4> QED BY <1>1, <1>3, <1>5, <2>1, <3>2, <4>1 DEF HostOK
    <3> QED BY <3>1, <3>2
  <2>4. w.host.session = 0 => e = NoCall
    <3>1. e = c => w.host.session # 0 BY <1>2, GenFacts DEF s
    <3> QED BY <1>1, <3>1 DEF HostOK
  <2>5. /\ u.host.session = 0 => u.host.engine = NoCall /\ u.host.heard = 0
        /\ u.host.engine # NoCall =>
             u.call[u.host.engine].session = u.host.session /\ u.call[u.host.engine].pc = "over"
    BY <1>1, <1>3, <1>5, <2>3, <2>4 DEF HostOK
  <2>6. u.host.session # 0 =>
           /\ u.starting[u.host.session].pc = "over"
           /\ u.call[<<"start", u.host.session>>].pc = "over"
           /\ ~u.host.disposed => u.host.heard = u.host.session
           /\ ~u.host.disposed /\ u.host.session # x => ~u.sess[u.host.session].disposed
    BY <1>1, <1>3, <1>5, <2>2 DEF HostOK
  <2>7. /\ u.starting[u.host.generation].pc = "start" => u.host.session = 0
        /\ ~u.host.disposed /\ u.starting[u.host.generation].pc = "over" =>
             u.host.session = u.host.generation \/ (u.host.session = 0 /\ u.host.failed)
    BY <1>1, <1>3, <1>5, <2>1, GenFacts DEF HostOK
  <2>8. ~u.host.disposed /\ u.host.session = u.host.generation =>
           u.sess[u.host.generation].held["engine"] \in {NoCall, u.host.engine}
    BY <1>3, <1>5
  <2> QED BY <2>5, <2>6, <2>7, <2>8 DEF HostOK
<1>13. DisposalOK(u)
  <2> SUFFICES ASSUME NEW g \in Gen
               PROVE  u.sess[g].disposed <=> u.call[<<"dispose", g>>].pc # "idle"
    BY DEF DisposalOK
  <2>1. <<"dispose", g>> \in Call /\ <<"dispose", g>>[1] = "dispose" BY CallFacts
  <2>2. <<"dispose", g>> # c BY <1>2, <2>1
  <2> QED BY <1>1, <1>3, <1>5, <1>8, <2>1, <2>2 DEF DisposalOK
<1> QED BY <1>5, <1>6, <1>7, <1>11, <1>12, <1>13 DEF HostInv, SessionsOK, u

(* The session is the host's.                                              *)
Settled(w, g) ==
  [w EXCEPT !.host.applied = w.starting[g].setting,
            !.host.session = g, !.host.heard = g,
            !.host.engine = w.sess[g].held["engine"]]

LEMMA SettledEffect ==
  ASSUME NEW w \in Worlds, NEW g \in Gen
  PROVE  LET v == Settled(w, g)
         IN  /\ v \in Worlds
             /\ v.starting = w.starting /\ v.sess = w.sess /\ v.call = w.call
             /\ v.alive = w.alive /\ v.talking = w.talking
             /\ v.host.engine = w.sess[g].held["engine"]
             /\ v.host.disposed = w.host.disposed /\ v.host.generation = w.host.generation
             /\ v.host.session = g /\ v.host.heard = g
             /\ v.host.failed = w.host.failed
<1> DEFINE h == [w.host EXCEPT !.applied = w.starting[g].setting,
                               !.session = g, !.heard = g,
                               !.engine = w.sess[g].held["engine"]]
<1>1. w.host \in Hosts BY HostFacts
<1>2. /\ w.starting[g].setting \in Setting \cup {NoSetting}
      /\ w.sess[g].held["engine"] \in Call \cup {NoCall}
      /\ g \in 0..MaxGen
  BY PartsFacts, GenFacts DEF Worlds, Starts, Sessions, Fields
<1>3. /\ h \in Hosts /\ h.engine = w.sess[g].held["engine"]
      /\ h.disposed = w.host.disposed /\ h.generation = w.host.generation
      /\ h.session = g /\ h.heard = g /\ h.failed = w.host.failed
  BY <1>1, <1>2 DEF Hosts
<1>4. Settled(w, g) = [w EXCEPT !.host = h] BY DEF Settled
<1> HIDE DEF h
<1> QED BY <1>3, <1>4, HostEffect

LEMMA SettledKeeps ==
  ASSUME NEW w, NEW g \in Gen, HostInv(w, g), w.starting[g].pc = "start",
         w.call[<<"start", g>>].pc = "over", ~w.sess[g].disposed, ~Superseded(w, g)
  PROVE  HostInv(Returns(Settled(w, g), g), 0)
<1> DEFINE a == Settled(w, g)
           v == Returns(a, g)
<1>1. /\ w \in Worlds /\ CallsOK(w) /\ NumbersOK(w) /\ SessionsOK(w, g)
      /\ HostOK(w, g) /\ DisposalOK(w)
  BY DEF HostInv
<1>2. g = w.host.generation /\ ~w.host.disposed BY DEF Superseded
<1>3. /\ a \in Worlds
      /\ a.starting = w.starting /\ a.sess = w.sess /\ a.call = w.call
      /\ a.host.engine = w.sess[g].held["engine"]
      /\ a.host.disposed = w.host.disposed /\ a.host.generation = w.host.generation
      /\ a.host.session = g /\ a.host.heard = g
  BY <1>1, SettledEffect
<1> HIDE DEF a
<1>4. /\ v \in Worlds
      /\ v.sess = a.sess /\ v.call = a.call
      /\ v.starting[g].pc = "over"
      /\ \A i \in Gen : i # g => v.starting[i] = a.starting[i]
      /\ v.host.disposed = a.host.disposed
      /\ v.host.generation = a.host.generation
      /\ v.host.session = a.host.session /\ v.host.heard = a.host.heard
      /\ v.host.engine = a.host.engine
  BY <1>3, ReturnsEffect
<1> HIDE DEF v
<1>5. CallsOK(v) BY <1>1, <1>3, <1>4 DEF CallsOK
<1>6. NumbersOK(v)
  <2> SUFFICES ASSUME NEW i \in Gen
               PROVE  /\ v.starting[i].pc = "idle" <=> i > v.host.generation
                      /\ v.starting[i].pc \in {"idle", "enrol"} =>
                           \A c \in Call : v.call[c].session # i
    BY DEF NumbersOK
  <2>1. CASE i = g BY <1>1, <1>3, <1>4, <2>1 DEF NumbersOK
  <2>2. CASE i # g BY <1>1, <1>3, <1>4, <2>2 DEF NumbersOK
  <2> QED BY <2>1, <2>2
<1>7. w.host.session = 0 BY <1>1, <1>2 DEF HostOK
<1>8. ASSUME NEW i \in Gen PROVE SessionOK(v, 0, i)
  <2>1. SessionOK(w, g, i) /\ i # 0 BY <1>1, GenFacts DEF SessionsOK
  <2>2. CASE i = g BY <1>3, <1>4, <2>1, <2>2, SMTT(30) DEF SessionOK
  <2>3. CASE i # g BY <1>3, <1>4, <1>7, <2>1, <2>3, SMTT(30) DEF SessionOK
  <2> QED BY <2>2, <2>3
<1>9. HostOK(v, 0)
  <2>1. g # 0 /\ "engine" \in Part BY GenFacts, PartsFacts
  <2>2. v.host.engine # NoCall => v.call[v.host.engine].session = g /\ v.call[v.host.engine].pc = "over"
    <3>1. SessionOK(w, g, g) BY <1>1 DEF SessionsOK
    <3> QED BY <1>3, <1>4, <2>1, <3>1, SMTT(30) DEF SessionOK
  <2> QED BY <1>2, <1>3, <1>4, <2>1, <2>2 DEF HostOK
<1>10. DisposalOK(v)
  <2>1. v.sess = w.sess /\ v.call = w.call BY <1>3, <1>4
  <2> QED BY <1>1, <2>1 DEF DisposalOK
<1> QED BY <1>4, <1>5, <1>6, <1>8, <1>9, <1>10 DEF HostInv, SessionsOK, v, a

LEMMA LandedKeeps ==
  ASSUME NEW w, NEW g \in Gen, w.call[<<"start", g>>].pc = "over",
         w.starting[g].pc = "start" => HostInv(w, g) /\ ~w.sess[g].disposed,
         w.starting[g].pc # "start" => HostInv(w, 0)
  PROVE  HostInv(Landed(w, g), 0)
<1>1. CASE w.starting[g].pc # "start" BY <1>1 DEF Landed
<1>2. CASE w.starting[g].pc = "start" /\ ~Superseded(w, g)
  BY <1>2, SettledKeeps DEF Landed, Settled
<1>3. CASE w.starting[g].pc = "start" /\ Superseded(w, g)
  <2> DEFINE d == Dispose(w, g)
  <2>1. HostInv(w, g) /\ w \in Worlds BY <1>3 DEF HostInv
  <2>2. HostInv(d, g) BY <1>3, <2>1, DisposeKeeps
  <2>3. d.host = w.host /\ d.starting = w.starting /\ d.sess[g].disposed
    BY <2>1, DisposeFrame
  <2>4. Landed(w, g) = Returns(d, g) BY <1>3 DEF Landed
  <2> HIDE DEF d
  <2>5. w.host.session # g BY <1>3, <2>1, GenFacts DEF HostInv, HostOK
  <2>6. g = w.host.generation => w.host.disposed BY <1>3 DEF Superseded
  <2>7. HostInv(Returns(d, g), 0) BY <1>3, <2>2, <2>3, <2>5, <2>6, ReturnsKeeps
  <2> QED BY <2>4, <2>7
<1> QED BY <1>1, <1>2, <1>3

LEMMA SameEngine ==
  ASSUME NEW v \in Worlds
  PROVE  WithEngine(v, v.host.engine) = v
<1>1. v.host \in Hosts BY HostFacts
<1>2. [v.host EXCEPT !.engine = v.host.engine] = v.host BY <1>1 DEF Hosts
<1>3. WithEngine(v, v.host.engine) = [v EXCEPT !.host = [v.host EXCEPT !.engine = v.host.engine]]
  BY DEF WithEngine
<1> QED BY <1>2, <1>3 DEF Worlds

(* The host takes the engine of the session it has from the call that      *)
(* built it.                                                               *)
LEMMA ReadoptCases ==
  ASSUME NEW w, HostInv(w, 0), NEW c \in Call, w.call[c].pc = "build",
         NEW v, Concluded(w, v, c), v.sess[w.call[c].session].held["engine"] = c
  PROVE  LET s == w.call[c].session
         IN  \E e \in {w.host.engine, c} :
               /\ Readopt(v, s, c) = WithEngine(v, e)
               /\ e = c => s = w.host.session
               /\ ~w.host.disposed /\ w.host.session = w.host.generation =>
                    v.sess[w.host.generation].held["engine"] \in {NoCall, e}
<1> DEFINE s == w.call[c].session
           cond == /\ ~v.sess[s].closed /\ v.host.heard = s
                   /\ ~Superseded(v, s) /\ v.host.session = s
<1>1. /\ w \in Worlds /\ CallsOK(w) /\ SessionsOK(w, 0) /\ HostOK(w, 0)
  BY DEF HostInv
<1>2. s \in Gen BY <1>1, WorkFacts
<1>3. /\ v \in Worlds /\ v.host = w.host
      /\ \A g \in Gen : g # s => v.sess[g] = w.sess[g]
      /\ v.sess[s].closed = w.sess[s].closed
  BY DEF Concluded
<1>4. w.host.generation \in Gen /\ w.host.session \in 0..MaxGen BY <1>1 DEF Worlds, Hosts
<1>5. SessionOK(w, 0, s) BY <1>1, <1>2 DEF SessionsOK
<1>6. c # w.host.engine
  <2>1. c # NoCall BY NoCallFact
  <2> QED BY <1>1, <2>1 DEF HostOK
<1>7. CASE cond
  <2>1. Readopt(v, s, c) = WithEngine(v, c) BY <1>7 DEF Readopt, WithEngine
  <2>2. s = w.host.session BY <1>3, <1>7
  <2>3. ~w.host.disposed /\ w.host.session = w.host.generation =>
                    v.sess[w.host.generation].held["engine"] \in {NoCall, c}
    BY <2>2
  <2> QED BY <2>1, <2>2, <2>3
<1>8. CASE ~cond
  <2>1. Readopt(v, s, c) = v BY <1>8 DEF Readopt
  <2>2. Readopt(v, s, c) = WithEngine(v, w.host.engine) BY <1>3, <2>1, SameEngine
  <2>3. ASSUME ~w.host.disposed, w.host.session = w.host.generation
        PROVE  v.sess[w.host.generation].held["engine"] \in {NoCall, w.host.engine}
    <3>1. w.host.generation # s
      <4>1. SUFFICES ASSUME w.host.generation = s PROVE FALSE OBVIOUS
      <4>2. w.host.session = s /\ s # 0 BY <1>2, <2>3, <4>1, GenFacts
      <4>3. w.host.heard = s /\ ~w.sess[s].disposed BY <1>1, <2>3, <4>2 DEF HostOK
      <4>4. ~w.sess[s].closed BY <1>5, <4>3 DEF SessionOK
      <4>5. ~Superseded(v, s) BY <1>3, <2>3, <4>1 DEF Superseded
      <4> QED BY <1>3, <1>8, <4>2, <4>3, <4>4, <4>5
    <3>2. v.sess[w.host.generation] = w.sess[w.host.generation] BY <1>3, <1>4, <3>1
    <3> QED BY <1>1, <2>3, <3>2 DEF HostOK
  <2> QED BY <1>6, <2>2, <2>3
<1> QED BY <1>7, <1>8

LEMMA AdoptedKeeps ==
  ASSUME NEW w, HostInv(w, 0), NEW c \in Call, w.call[c].pc = "build"
  PROVE  HostInv(Adopted(w, c), 0)
<1> DEFINE s == w.call[c].session
           v == Adopt(w, c)
           u == Readopt(v, s, c)
<1>1. w \in Worlds /\ CallsOK(w) /\ SessionsOK(w, 0) BY DEF HostInv
<1>2. s \in Gen /\ (c[1] = "start" => c = <<"start", s>>) BY <1>1, WorkFacts
<1>3. Concluded(w, v, c) /\ v.sess[s].held["engine"] = c
  BY <1>1, <1>2, AdoptConcludes
<1>4. Adopted(w, c) = IF c[1] = "start" THEN Landed(u, s) ELSE u BY DEF Adopted
<1> HIDE DEF v
<1>5. PICK e \in {w.host.engine, c} :
        /\ u = WithEngine(v, e)
        /\ e = c => s = w.host.session
        /\ ~w.host.disposed /\ w.host.session = w.host.generation =>
             v.sess[w.host.generation].held["engine"] \in {NoCall, e}
  BY <1>3, ReadoptCases
<1> HIDE DEF u
<1>6. ASSUME c[1] = "start", w.starting[s].pc = "start" PROVE HostInv(u, s)
  <2>1. HostInv(WithEngine(v, e), s) BY <1>3, <1>5, <1>6, ConcludesKeeps
  <2> QED BY <1>5, <2>1
<1>7. ASSUME ~(c[1] = "start" /\ w.starting[s].pc = "start") PROVE HostInv(u, 0)
  <2>1. HostInv(WithEngine(v, e), 0) BY <1>3, <1>5, <1>7, ConcludesKeeps
  <2> QED BY <1>5, <2>1
<1>8. /\ u.starting = w.starting /\ u.call[c].pc = "over"
      /\ u.sess[s].disposed = w.sess[s].disposed
  <2>1. v \in Worlds BY <1>3 DEF Concluded
  <2>2. e \in Call \cup {NoCall} BY <1>1, HostFacts
  <2>3. u.starting = v.starting /\ u.call = v.call /\ u.sess = v.sess
    BY <1>5, <2>1, <2>2, EngineEffect
  <2> QED BY <1>3, <2>3 DEF Concluded
<1>9. CASE c[1] # "start" BY <1>4, <1>7, <1>9
<1>10. CASE c[1] = "start"
  <2>1. w.starting[s].pc = "start" => ~w.sess[s].disposed
    BY <1>1, <1>2, GenFacts DEF SessionsOK, SessionOK
  <2>2. u.call[<<"start", s>>].pc = "over" BY <1>2, <1>8, <1>10
  <2>3. HostInv(Landed(u, s), 0)
    BY <1>2, <1>6, <1>7, <1>8, <1>10, <2>1, <2>2, LandedKeeps
  <2> QED BY <1>4, <1>10, <2>3
<1> QED BY <1>9, <1>10

LEMMA AbandonedKeeps ==
  ASSUME NEW w, HostInv(w, 0), NEW c \in Call, w.call[c].pc = "build"
  PROVE  HostInv(Abandoned(w, c), 0)
<1> DEFINE s == w.call[c].session
           u == BuildFailed(w, c)
<1>1. w \in Worlds /\ CallsOK(w) /\ HostOK(w, 0) BY DEF HostInv
<1>2. s \in Gen BY <1>1, WorkFacts
<1>3. Concluded(w, u, c) /\ u.sess = w.sess BY <1>1, BuildFailedConcludes
<1>4. Abandoned(w, c) = IF c[1] = "start" THEN StartFailed(u, s) ELSE u BY DEF Abandoned
<1> HIDE DEF u
<1>5. u \in Worlds /\ u.host = w.host /\ u.starting = w.starting BY <1>3 DEF Concluded
<1>6. u = WithEngine(u, w.host.engine) BY <1>5, SameEngine
<1>7. w.host.engine # c
  <2>1. c # NoCall BY NoCallFact
  <2> QED BY <1>1, <2>1 DEF HostOK
<1>8. ~w.host.disposed /\ w.host.session = w.host.generation =>
        u.sess[w.host.generation].held["engine"] \in {NoCall, w.host.engine}
  BY <1>1, <1>3 DEF HostOK
<1>9. w.host.engine \in {w.host.engine, c} OBVIOUS
<1>10. c[1] = "start" /\ w.starting[s].pc = "start" => HostInv(WithEngine(u, w.host.engine), s)
  BY <1>3, <1>7, <1>8, <1>9, ConcludesKeeps
<1>11. ~(c[1] = "start" /\ w.starting[s].pc = "start") => HostInv(WithEngine(u, w.host.engine), 0)
  BY <1>3, <1>7, <1>8, <1>9, ConcludesKeeps
<1>12. CASE c[1] # "start" BY <1>4, <1>6, <1>11, <1>12
<1>13. CASE c[1] = "start"
  <2>1. HostInv(StartFailed(u, s), 0)
    <3>1. u.starting[s].pc = "start" => HostInv(u, s) BY <1>5, <1>6, <1>10, <1>13
    <3>2. u.starting[s].pc # "start" => HostInv(u, 0) BY <1>5, <1>6, <1>11
    <3> QED BY <1>2, <3>1, <3>2, StartFailedKeeps
  <2> QED BY <1>4, <1>13, <2>1
<1> QED BY <1>12, <1>13

(* What neither the host nor a session nor the course of a call is changed *)
(* by.                                                                     *)
LEMMA SameKeeps ==
  ASSUME NEW w, HostInv(w, 0), NEW v \in Worlds,
         v.host = w.host, v.starting = w.starting, v.sess = w.sess,
         \A d \in Call :
           /\ v.call[d].session = w.call[d].session /\ v.call[d].pc = w.call[d].pc
           /\ v.call[d].pc = "teardown" => v.call[d].at = w.call[d].at
  PROVE  HostInv(v, 0)
<1>1. /\ w \in Worlds /\ CallsOK(w) /\ NumbersOK(w) /\ SessionsOK(w, 0)
      /\ HostOK(w, 0) /\ DisposalOK(w)
  BY DEF HostInv
<1>2. CallsOK(v) BY <1>1 DEF CallsOK
<1>3. NumbersOK(v) BY <1>1 DEF NumbersOK
<1>4. ASSUME NEW g \in Gen PROVE SessionOK(v, 0, g)
  <2>1. SessionOK(w, 0, g) BY <1>1 DEF SessionsOK
  <2>2. <<"start", g>> \in Call BY CallFacts
  <2>3. \A p \in Part : w.sess[g].held[p] # NoCall => w.sess[g].held[p] \in Call
    BY <1>1 DEF Worlds, Sessions, Fields
  <2> QED BY <2>1, <2>2, <2>3 DEF SessionOK
<1>5. HostOK(v, 0)
  <2>1. /\ w.host.session \in Gen \/ w.host.session = 0
        /\ w.host.engine \in Call \/ w.host.engine = NoCall
    BY <1>1, HostFacts
  <2>2. w.host.session # 0 => <<"start", w.host.session>> \in Call BY <2>1, CallFacts
  <2> QED BY <1>1, <2>1, <2>2 DEF HostOK
<1>6. DisposalOK(v)
  <2>1. \A g \in Gen : <<"dispose", g>> \in Call BY CallFacts
  <2> QED BY <1>1, <2>1 DEF DisposalOK
<1> QED BY <1>2, <1>3, <1>4, <1>5, <1>6 DEF HostInv, SessionsOK

LEMMA SignalingKeeps ==
  ASSUME NEW w, HostInv(w, 0), NEW c \in Call, w.call[c].pc = "build"
  PROVE  HostInv(SignalingUp(w, c), 0)
<1> DEFINE v == Laid(w, c, {"discovery"}, "discovery")
<1>1. w \in Worlds BY DEF HostInv
<1>2. {<<c, "discovery">>} = {c} \X {"discovery"} OBVIOUS
<1>3. SignalingUp(w, c) = v BY <1>2 DEF SignalingUp, Laid
<1>4. {"discovery"} \in SUBSET Part /\ "discovery" \in Range(Parts) BY PartsFacts
<1>5. LaidOut(w, v, c, {"discovery"}, "discovery") BY <1>1, <1>4, LaidEffect
<1> HIDE DEF v
<1>6. ASSUME NEW d \in Call
      PROVE  /\ v.call[d].session = w.call[d].session /\ v.call[d].pc = w.call[d].pc
             /\ v.call[d].pc = "teardown" => v.call[d].at = w.call[d].at
  BY <1>5 DEF LaidOut
<1> QED BY <1>3, <1>5, <1>6, SameKeeps DEF LaidOut

LEMMA ResumeKeeps ==
  ASSUME NEW w, HostInv(w, 0), NEW c \in Call, w.call[c].pc = "teardown"
  PROVE  HostInv(ResumeTearDown(w, c), 0)
<1> DEFINE s == w.call[c].session
           i == CHOOSE i \in 1..Len(Parts) : Parts[i] = w.call[c].at
           v == ResumeTearDown(w, c)
<1>1. /\ w \in Worlds /\ CallsOK(w) /\ NumbersOK(w) /\ SessionsOK(w, 0)
      /\ HostOK(w, 0) /\ DisposalOK(w)
  BY DEF HostInv
<1>2. /\ s \in Gen
      /\ c[1] = "dispose" => c = <<"dispose", s>>
      /\ c[1] # "start"
  BY <1>1, WorkFacts DEF CallsOK
<1>3. i \in 1..6
  <2>1. w.call[c].at \in Range(Parts) BY <1>1 DEF CallsOK
  <2>2. \E j \in 1..6 : Parts[j] = w.call[c].at BY <2>1, PartsFacts DEF Range
  <2> QED BY <2>2, PartsFacts
<1>4. v = TearDown(w, c, 1 + i) BY DEF ResumeTearDown
<1> HIDE DEF i, v
<1>5. 1 + i \in 1..7 BY <1>3
<1>6. Torn(w, v, c, s, 1 + i) BY <1>1, <1>2, <1>4, <1>5, TearDownTears
<1> HIDE DEF s
<1>7. c[1] = "dispose" => w.sess[s].disposed
  BY <1>1, <1>2 DEF DisposalOK
<1>8. w.starting[s].pc \in {"start", "over"}
  <2>1. w.starting[s] \in Starts BY <1>1, <1>2 DEF Worlds
  <2>2. w.starting[s].pc \notin {"idle", "enrol"} BY <1>1, <1>2 DEF NumbersOK, s
  <2> QED BY <2>1, <2>2 DEF Starts
<1>9. HostInv(v, 0)
  <2>1. \A g \in Gen : <<"dispose", g>> # c =>
           (w.sess[g].disposed <=> w.call[<<"dispose", g>>].pc # "idle")
    BY <1>1 DEF DisposalOK
  <2> QED BY <1>1, <1>2, <1>5, <1>6, <1>7, <1>8, <2>1, TornKeeps
<1> QED BY <1>9 DEF v

LEMMA TalkingKeeps ==
  ASSUME NEW w, HostInv(w, 0), NEW set \in SUBSET Call
  PROVE  HostInv([w EXCEPT !.talking = set], 0)
<1> DEFINE v == [w EXCEPT !.talking = set]
<1>1. w \in Worlds BY DEF HostInv
<1>2. /\ v \in Worlds
      /\ v.host = w.host /\ v.starting = w.starting /\ v.sess = w.sess
      /\ v.call = w.call
  BY <1>1 DEF Worlds
<1> HIDE DEF v
<1>3. HostInv(v, 0) BY <1>2, SameKeeps
<1> QED BY <1>3 DEF v

(* A switch that finds nothing to switch is over at once.                  *)
LEMMA EndsKeeps ==
  ASSUME NEW w, HostInv(w, 0), NEW c \in Call, c[1] = "switch", w.call[c].pc = "idle"
  PROVE  HostInv(Ends(w, c), 0)
<1> DEFINE v == Ends(w, c)
<1>1. /\ w \in Worlds /\ CallsOK(w) /\ NumbersOK(w) /\ SessionsOK(w, 0)
      /\ HostOK(w, 0) /\ DisposalOK(w)
  BY DEF HostInv
<1>2. /\ v \in Worlds
      /\ v.host = w.host /\ v.starting = w.starting /\ v.sess = w.sess
      /\ v.call[c].session = w.call[c].session /\ v.call[c].pc = "over"
      /\ \A d \in Call : d # c => v.call[d] = w.call[d]
  <2>1. "over" \in {"idle", "teardown", "build", "over"} /\ "none" \in Range(Parts) \cup {"none"}
    OBVIOUS
  <2> QED BY <1>1, <2>1, WaitsEffect DEF Ends
<1> HIDE DEF v
<1>3. \A d \in Call : w.call[d].pc # "idle" => v.call[d] = w.call[d] BY <1>2
<1>4. \A d \in Call : d[1] # "switch" => v.call[d] = w.call[d] BY <1>2
<1>5. CallsOK(v)
  <2> SUFFICES ASSUME NEW d \in Call
               PROVE  /\ d[1] = "start" => v.call[d].pc # "teardown"
                      /\ d[1] = "dispose" => v.call[d].pc # "build"
                      /\ d[1] # "switch" /\ v.call[d].pc # "idle" => v.call[d].session = d[2]
                      /\ v.call[d].pc \in {"teardown", "build"} => v.call[d].session # 0
                      /\ v.call[d].pc = "teardown" => v.call[d].at \in Range(Parts)
                      /\ v.call[d].pc = "idle" => v.call[d].session = 0
    BY DEF CallsOK
  <2>1. CASE d = c BY <1>2, <2>1
  <2>2. CASE d # c
    <3>1. v.call[d] = w.call[d] BY <1>2, <2>2
    <3> QED BY <1>1, <3>1 DEF CallsOK
  <2> QED BY <2>1, <2>2
<1>6. NumbersOK(v)
  <2>1. \A d \in Call : v.call[d].session = w.call[d].session BY <1>2
  <2> QED BY <1>1, <1>2, <2>1 DEF NumbersOK
<1>7. ASSUME NEW g \in Gen
      PROVE  /\ v.call[<<"start", g>>] = w.call[<<"start", g>>]
             /\ v.call[<<"dispose", g>>] = w.call[<<"dispose", g>>]
  <2>1. /\ <<"start", g>>[1] = "start" /\ <<"dispose", g>>[1] = "dispose"
        /\ <<"start", g>> \in Call /\ <<"dispose", g>> \in Call
    BY CallFacts
  <2> QED BY <1>4, <2>1
<1>8. ASSUME NEW g \in Gen PROVE SessionOK(v, 0, g)
  <2>1. SessionOK(w, 0, g) BY <1>1 DEF SessionsOK
  <2>2. \A p \in Part : w.sess[g].held[p] # NoCall => w.sess[g].held[p] \in Call
    BY <1>1 DEF Worlds, Sessions, Fields
  <2>3. \A p \in Part : w.sess[g].held[p] # NoCall =>
          v.call[w.sess[g].held[p]] = w.call[w.sess[g].held[p]]
    BY <1>3, <2>1, <2>2 DEF SessionOK
  <2>4. \A p \in Part : v.sess[g].held[p] # NoCall =>
          v.call[v.sess[g].held[p]].session = g /\ v.call[v.sess[g].held[p]].pc = "over"
    BY <1>2, <2>1, <2>3 DEF SessionOK
  <2> QED BY <1>2, <1>7, <2>1, <2>4 DEF SessionOK
<1>9. HostOK(v, 0)
  <2>1. /\ w.host.session \in Gen \/ w.host.session = 0
        /\ w.host.engine \in Call \/ w.host.engine = NoCall
    BY <1>1, HostFacts
  <2>2. w.host.engine # NoCall => v.call[w.host.engine] = w.call[w.host.engine]
    BY <1>1, <1>3, <2>1 DEF HostOK
  <2>3. w.host.session # 0 =>
          v.call[<<"start", w.host.session>>] = w.call[<<"start", w.host.session>>]
    BY <1>7, <2>1
  <2> QED BY <1>1, <1>2, <2>2, <2>3 DEF HostOK
<1>10. DisposalOK(v) BY <1>1, <1>2, <1>7 DEF DisposalOK
<1> QED BY <1>2, <1>5, <1>6, <1>8, <1>9, <1>10 DEF HostInv, SessionsOK, v

LEMMA SwitchKeeps ==
  ASSUME NEW w, HostInv(w, 0), w.host.session # 0,
         NEW k \in 1..MaxSwitch, w.call[<<"switch", k>>].pc = "idle"
  PROVE  HostInv(SwitchTarget(w, <<"switch", k>>, w.host.session), 0)
<1> DEFINE c == <<"switch", k>>
           s == w.host.session
           v == BeginTearDown(w, c, s)
<1>1. /\ w \in Worlds /\ CallsOK(w) /\ NumbersOK(w) /\ SessionsOK(w, 0)
      /\ HostOK(w, 0) /\ DisposalOK(w)
  BY DEF HostInv
<1>2. c \in Call /\ c[1] = "switch" BY CallFacts
<1>3. CASE w.sess[s].disposed
  BY <1>2, <1>3, EndsKeeps DEF SwitchTarget
<1>4. CASE ~w.sess[s].disposed
  <2>1. s \in Gen BY <1>1, HostFacts
  <2>2. w.starting[s].pc = "over" BY <1>1 DEF HostOK
  <2>3. SwitchTarget(w, c, s) = v BY <1>4 DEF SwitchTarget
  <2>4. w.call[c].pc = "idle" OBVIOUS
  <2> HIDE DEF c
  <2>5. Torn(w, v, c, s, 1) BY <1>1, <1>2, <2>1, BeginTears
  <2> HIDE DEF v
  <2>6. \A g \in Gen : <<"dispose", g>> # c =>
           (w.sess[g].disposed <=> w.call[<<"dispose", g>>].pc # "idle")
    BY <1>1 DEF DisposalOK
  <2>7. 1 \in 1..7 OBVIOUS
  <2>8. HostInv(v, 0)
    BY <1>1, <1>2, <2>1, <2>2, <2>4, <2>5, <2>6, <2>7, TornKeeps
  <2> QED BY <2>3, <2>8 DEF c
<1> QED BY <1>3, <1>4

(* The host is marked as disposed of and, unless the release of the key    *)
(* has thrown, lets the key and its session go.                            *)
LEMMA MarkedKeeps ==
  ASSUME NEW w, HostInv(w, 0), NEW heard \in {0, w.host.heard}, NEW set \in SUBSET Call
  PROVE  LET v == [w EXCEPT !.host = [w.host EXCEPT !.disposed = TRUE, !.heard = heard],
                            !.talking = set]
         IN  /\ HostInv(v, 0)
             /\ v.host.disposed /\ v.host.session = w.host.session
             /\ v.starting = w.starting
<1> DEFINE h == [w.host EXCEPT !.disposed = TRUE, !.heard = heard]
           v == [w EXCEPT !.host = h, !.talking = set]
<1>1. /\ w \in Worlds /\ CallsOK(w) /\ NumbersOK(w) /\ SessionsOK(w, 0)
      /\ HostOK(w, 0) /\ DisposalOK(w)
  BY DEF HostInv
<1>2. w.host \in Hosts BY <1>1, HostFacts
<1>3. /\ h \in Hosts /\ h.disposed /\ h.heard = heard
      /\ h.session = w.host.session /\ h.generation = w.host.generation
      /\ h.engine = w.host.engine
  BY <1>2, GenFacts DEF Hosts
<1> HIDE DEF h
<1>4. /\ v \in Worlds /\ v.host = h
      /\ v.starting = w.starting /\ v.sess = w.sess /\ v.call = w.call
  BY <1>1, <1>3 DEF Worlds
<1> HIDE DEF v
<1>5. CallsOK(v) /\ NumbersOK(v) /\ DisposalOK(v)
  BY <1>1, <1>3, <1>4 DEF CallsOK, NumbersOK, DisposalOK
<1>6. ASSUME NEW g \in Gen PROVE SessionOK(v, 0, g)
  <2>1. SessionOK(w, 0, g) BY <1>1 DEF SessionsOK
  <2> QED BY <1>3, <1>4, <2>1 DEF SessionOK
<1>7. HostOK(v, 0) BY <1>1, <1>3, <1>4 DEF HostOK
<1> QED BY <1>3, <1>4, <1>5, <1>6, <1>7 DEF HostInv, SessionsOK, v, h

LEMMA HostDisposedKeeps ==
  ASSUME NEW w, HostInv(w, 0)
  PROVE  LET marked == [w EXCEPT !.host.disposed = TRUE]
             released == [marked EXCEPT !.talking = @ \ {w.host.engine}]
             deaf == [released EXCEPT !.host.heard = 0]
         IN  /\ HostInv(marked, 0)
             /\ HostInv(deaf, 0)
             /\ w.host.session # 0 => HostInv(Dispose(deaf, w.host.session), 0)
<1> DEFINE marked == [w EXCEPT !.host.disposed = TRUE]
           released == [marked EXCEPT !.talking = @ \ {w.host.engine}]
           deaf == [released EXCEPT !.host.heard = 0]
           set == w.talking \ {w.host.engine}
<1>1. w \in Worlds /\ HostOK(w, 0) BY DEF HostInv
<1>2. w.host \in Hosts /\ w.talking \in SUBSET Call /\ set \in SUBSET Call
  BY <1>1 DEF Worlds
<1>3. marked = [w EXCEPT !.host = [w.host EXCEPT !.disposed = TRUE, !.heard = w.host.heard],
                         !.talking = w.talking]
  BY <1>1, <1>2 DEF Worlds, Hosts
<1>4. deaf = [w EXCEPT !.host = [w.host EXCEPT !.disposed = TRUE, !.heard = 0], !.talking = set]
  BY <1>1, <1>2 DEF Worlds, Hosts
<1> HIDE DEF marked, deaf, set
<1>5. HostInv(marked, 0)
  <2>1. w.host.heard \in {0, w.host.heard} OBVIOUS
  <2> QED BY <1>2, <1>3, <2>1, MarkedKeeps
<1>6. /\ HostInv(deaf, 0) /\ deaf.host.disposed /\ deaf.host.session = w.host.session
      /\ deaf.starting = w.starting
  <2>1. 0 \in {0, w.host.heard} OBVIOUS
  <2> QED BY <1>2, <1>4, <2>1, MarkedKeeps
<1>7. ASSUME w.host.session # 0 PROVE HostInv(Dispose(deaf, w.host.session), 0)
  <2>1. w.host.session \in Gen BY <1>1, <1>7, HostFacts
  <2>2. w.starting[w.host.session].pc = "over" BY <1>1, <1>7 DEF HostOK
  <2> QED BY <1>6, <2>1, <2>2, DisposeKeeps
<1> QED BY <1>5, <1>6, <1>7 DEF marked, deaf

-----------------------------------------------------------------------------
(* The invariant.                                                          *)

Inv == HostInv(World, 0)

LEMMA BecomeIs ==
  ASSUME NEW w \in Worlds, Become(w)
  PROVE  World' = w
  BY DEF Become, World, Worlds

LEMMA BecomeKeeps ==
  ASSUME NEW w, HostInv(w, 0), Become(w)
  PROVE  Inv'
<1>1. World' = w BY BecomeIs DEF HostInv
<1> QED BY <1>1 DEF Inv

LEMMA WorldFacts ==
  /\ World.host = host /\ World.starting = starting /\ World.sess = sess
  /\ World.call = call /\ World.alive = alive /\ World.talking = talking
  BY DEF World

WantedOK == wanted \in [setting : Setting, target : 0..MaxSwitch]

LEMMA InitInv ==
  ASSUME Init
  PROVE  Inv /\ WantedOK
<1> DEFINE down == [disposed |-> FALSE, booted |-> FALSE, generation |-> 0, session |-> 0,
                    heard |-> 0, engine |-> NoCall, applied |-> NoSetting, failed |-> FALSE]
           h == [down EXCEPT !.generation = 1]
           idle == [pc |-> "idle", setting |-> NoSetting]
           enrol == [pc |-> "enrol", setting |-> Initial]
           all == [g \in Gen |-> idle]
           off == [host |-> down, starting |-> all]
<1>1. 1 \in Gen /\ \A g \in Gen : g # 1 => g > 1 BY GenFacts
<1>2. /\ host = h
      /\ starting = [g \in Gen |-> IF g = 1 THEN enrol ELSE idle]
      /\ sess = [g \in Gen |-> NewSession(NoSetting)]
      /\ call = [c \in Call |-> Idle] /\ alive = {} /\ talking = {}
      /\ wanted = [setting |-> Initial, target |-> 0]
  <2>1. /\ host = StartSession(off, Initial).host
        /\ starting = StartSession(off, Initial).starting
    BY DEF Init
  <2>2. [all EXCEPT ![1] = enrol] = [g \in Gen |-> IF g = 1 THEN enrol ELSE idle]
    BY <1>1
  <2>3. down.generation + 1 = 1 OBVIOUS
  <2> HIDE DEF down, all, enrol
  <2>4. /\ StartSession(off, Initial).host = [down EXCEPT !.generation = down.generation + 1]
        /\ StartSession(off, Initial).starting = [all EXCEPT ![down.generation + 1] = enrol]
    BY DEF StartSession, enrol
  <2> QED BY <2>1, <2>2, <2>3, <2>4 DEF Init
<1>3. Initial \in Setting BY HostAssumption
<1>4. /\ h \in Hosts
      /\ h.generation = 1 /\ h.session = 0 /\ h.heard = 0 /\ h.engine = NoCall
  <2> DEFINE Down == [disposed : BOOLEAN, booted : BOOLEAN, generation : Nat,
                      session : {0}, heard : {0}, engine : {NoCall},
                      applied : {NoSetting}, failed : BOOLEAN]
  <2>1. down \in Down OBVIOUS
  <2> HIDE DEF down
  <2> QED BY <1>1, <2>1, GenFacts DEF Hosts
<1> HIDE DEF h
<1>5. /\ enrol \in Starts /\ idle \in Starts BY <1>3 DEF Starts
<1>6. /\ NewSession(NoSetting) \in Sessions
      /\ ~NewSession(NoSetting).disposed /\ ~NewSession(NoSetting).closed
      /\ \A p \in Part : NewSession(NoSetting).held[p] = NoCall
  BY DEF NewSession, Sessions, Fields
<1>7. Idle \in Calls /\ Idle.pc = "idle" /\ Idle.session = 0
  BY GenFacts DEF Idle, Calls
<1>8. World \in Worlds
  <2>1. /\ World.host \in Hosts
        /\ World.starting \in [Gen -> Starts] /\ World.sess \in [Gen -> Sessions]
        /\ World.call \in [Call -> Calls]
        /\ World.alive \in SUBSET (Call \X Part) /\ World.talking \in SUBSET Call
    BY <1>2, <1>4, <1>5, <1>6, <1>7, WorldFacts
  <2> QED BY <2>1, WorldFacts DEF World, Worlds
<1>9. /\ \A c \in Call : call[c].pc = "idle" /\ call[c].session = 0
      /\ \A g \in Gen : ~sess[g].disposed /\ ~sess[g].closed
      /\ \A g \in Gen, p \in Part : sess[g].held[p] = NoCall
  BY <1>2, <1>6, <1>7
<1>10. starting[1].pc = "enrol" /\ \A g \in Gen : g # 1 => starting[g].pc = "idle"
  BY <1>1, <1>2
<1>11. /\ host.generation = 1 /\ host.session = 0 /\ host.heard = 0 /\ host.engine = NoCall
  BY <1>2, <1>4
<1>12. CallsOK(World) BY <1>9, WorldFacts DEF CallsOK
<1>13. NumbersOK(World)
  <2>1. ASSUME NEW g \in Gen
        PROVE  /\ starting[g].pc = "idle" <=> g > 1
               /\ \A c \in Call : call[c].session # g
    <3>1. g # 0 BY GenFacts
    <3> QED BY <1>1, <1>9, <1>10, <3>1
  <2> QED BY <1>11, <2>1, WorldFacts DEF NumbersOK
<1>14. /\ \A g \in Gen : <<"start", g>> \in Call /\ <<"dispose", g>> \in Call BY CallFacts
<1>15. SessionsOK(World, 0)
  <2> SUFFICES ASSUME NEW g \in Gen PROVE SessionOK(World, 0, g) BY DEF SessionsOK
  <2>1. starting[g].pc # "start" BY <1>10
  <2> QED BY <1>9, <1>14, <2>1, WorldFacts DEF SessionOK
<1>16. HostOK(World, 0) BY <1>10, <1>11, WorldFacts DEF HostOK
<1>17. DisposalOK(World) BY <1>9, <1>14, WorldFacts DEF DisposalOK
<1>18. WantedOK BY <1>2, <1>3, GenFacts DEF WantedOK
<1> QED BY <1>8, <1>12, <1>13, <1>15, <1>16, <1>17, <1>18 DEF Inv, HostInv

LEMMA RunsKeep ==
  ASSUME Inv, Runs
  PROVE  Inv'
<1>1. HostInv(World, 0) /\ World \in Worlds BY DEF Inv, HostInv
<1>2. ASSUME NEW g \in Gen, Enrolled(g) PROVE Inv'
  <2>1. World.starting[g].pc = "enrol" BY <1>2, WorldFacts DEF Enrolled
  <2>2. /\ Superseded(World, g) => HostInv(Returns(World, g), 0)
        /\ ~Superseded(World, g) => HostInv(Replace(World, g), 0)
    BY <1>1, <2>1, EnrolledKeeps
  <2>3. Become(IF Superseded(World, g) THEN Returns(World, g) ELSE Replace(World, g))
    BY <1>2 DEF Enrolled
  <2>4. CASE Superseded(World, g)
    <3>1. Become(Returns(World, g)) BY <2>3, <2>4
    <3> QED BY <2>2, <2>4, <3>1, BecomeKeeps
  <2>5. CASE ~Superseded(World, g)
    <3>1. Become(Replace(World, g)) BY <2>3, <2>5
    <3> QED BY <2>2, <2>5, <3>1, BecomeKeeps
  <2> QED BY <2>4, <2>5
<1>3. ASSUME NEW g \in Gen, StartTimesOut(g) PROVE Inv'
  <2>1. HostInv(World, g) BY <1>1, Weaken
  <2>2. HostInv(StartFailed(World, g), 0) BY <1>1, <2>1, StartFailedKeeps
  <2>3. Become(StartFailed(World, g)) BY <1>3 DEF StartTimesOut
  <2> QED BY <2>2, <2>3, BecomeKeeps
<1>4. ASSUME NEW c \in Call, PartDisposed(c) PROVE Inv'
  <2>1. World.call[c].pc = "teardown" /\ Become(ResumeTearDown(World, c))
    BY <1>4, WorldFacts DEF PartDisposed
  <2>2. HostInv(ResumeTearDown(World, c), 0) BY <1>1, <2>1, ResumeKeeps
  <2> QED BY <2>1, <2>2, BecomeKeeps
<1>5. ASSUME NEW c \in Call, SignalingStarted(c) PROVE Inv'
  <2>1. World.call[c].pc = "build" /\ Become(SignalingUp(World, c))
    BY <1>5, WorldFacts DEF SignalingStarted
  <2>2. HostInv(SignalingUp(World, c), 0) BY <1>1, <2>1, SignalingKeeps
  <2> QED BY <2>1, <2>2, BecomeKeeps
<1>6. ASSUME NEW c \in Call, ChainUp(c) PROVE Inv'
  <2>1. World.call[c].pc = "build" /\ Become(Adopted(World, c))
    BY <1>6, WorldFacts DEF ChainUp
  <2>2. HostInv(Adopted(World, c), 0) BY <1>1, <2>1, AdoptedKeeps
  <2> QED BY <2>1, <2>2, BecomeKeeps
<1>7. ASSUME NEW c \in Call, ChainFails(c) PROVE Inv'
  <2>1. World.call[c].pc = "build" /\ Become(Abandoned(World, c))
    BY <1>7, WorldFacts DEF ChainFails
  <2>2. HostInv(Abandoned(World, c), 0) BY <1>1, <2>1, AbandonedKeeps
  <2> QED BY <2>1, <2>2, BecomeKeeps
<1>8. ASSUME NEW c \in Call, TransmissionEnds(c) PROVE Inv'
  <2> DEFINE set == World.talking \ {c}
  <2>1. set \in SUBSET Call BY <1>1 DEF Worlds
  <2>2. Become([World EXCEPT !.talking = set]) BY <1>8 DEF TransmissionEnds
  <2> HIDE DEF set
  <2>3. HostInv([World EXCEPT !.talking = set], 0) BY <1>1, <2>1, TalkingKeeps
  <2> QED BY <2>2, <2>3, BecomeKeeps
<1> QED BY <1>2, <1>3, <1>4, <1>5, <1>6, <1>7, <1>8 DEF Runs

LEMMA UsesKeep ==
  ASSUME Inv, WantedOK, Uses
  PROVE  Inv'
<1>1. HostInv(World, 0) /\ World \in Worlds BY DEF Inv, HostInv
<1>2. /\ host.generation \in Gen /\ (host.session \in Gen \/ host.session = 0)
      /\ host.engine \in Call \/ host.engine = NoCall
      /\ host.applied \in Setting \cup {NoSetting}
      /\ talking \in SUBSET Call
  BY <1>1, HostFacts, WorldFacts DEF Worlds, Hosts
<1>3. ASSUME PressPtt PROVE Inv'
  <2> DEFINE set == World.talking \cup {host.engine}
  <2>1. host.engine \in Call
    BY <1>1, <1>3, WorldFacts DEF PressPtt, KeyWorks, Worlds
  <2>2. set \in SUBSET Call BY <1>1, <2>1 DEF Worlds
  <2>3. Become([World EXCEPT !.talking = set]) BY <1>3 DEF PressPtt
  <2> HIDE DEF set
  <2>4. HostInv([World EXCEPT !.talking = set], 0) BY <1>1, <2>2, TalkingKeeps
  <2> QED BY <2>3, <2>4, BecomeKeeps
<1>4. ASSUME ReleasePtt PROVE Inv'
  <2> DEFINE set == World.talking \ {host.engine}
  <2>1. set \in SUBSET Call BY <1>1 DEF Worlds
  <2>2. Become([World EXCEPT !.talking = set]) BY <1>4 DEF ReleasePtt
  <2> HIDE DEF set
  <2>3. HostInv([World EXCEPT !.talking = set], 0) BY <1>1, <2>1, TalkingKeeps
  <2> QED BY <2>2, <2>3, BecomeKeeps
<1>5. ASSUME ReloadIdentity PROVE Inv'
  <2> DEFINE setting == IF host.applied = NoSetting THEN wanted.setting ELSE host.applied
  <2>1. setting \in Setting BY <1>2 DEF WantedOK
  <2>2. World.host.generation < MaxGen /\ Become(StartSession(World, setting))
    BY <1>5, WorldFacts DEF ReloadIdentity
  <2> HIDE DEF setting
  <2>3. HostInv(StartSession(World, setting), 0) BY <1>1, <2>1, <2>2, StartSessionKeeps
  <2> QED BY <2>2, <2>3, BecomeKeeps
<1>6. ASSUME DisposeHost PROVE Inv'
  <2> DEFINE marked == [World EXCEPT !.host.disposed = TRUE]
             released == [marked EXCEPT !.talking = @ \ {World.host.engine}]
             deaf == [released EXCEPT !.host.heard = 0]
  <2>1. /\ HostInv(marked, 0)
        /\ HostInv(deaf, 0)
        /\ World.host.session # 0 => HostInv(Dispose(deaf, World.host.session), 0)
    BY <1>1, HostDisposedKeeps
  <2>2. \/ Become(marked)
        \/ Become(deaf)
        \/ World.host.session # 0 /\ Become(Dispose(deaf, World.host.session))
    <3>1. World.host.engine = host.engine /\ World.host.session = host.session BY WorldFacts
    <3> QED BY <1>6, <3>1 DEF DisposeHost
  <2> HIDE DEF marked, deaf
  <2> QED BY <2>1, <2>2, BecomeKeeps
<1>7. ASSUME NEW setting \in Setting, ApplySettings(setting) PROVE Inv'
  <2>1. World.host.generation < MaxGen BY <1>7, WorldFacts DEF ApplySettings
  <2>2. Become(World) \/ Become(StartSession(World, setting))
    BY <1>7 DEF ApplySettings
  <2>3. HostInv(StartSession(World, setting), 0) BY <1>1, <2>1, StartSessionKeeps
  <2> QED BY <1>1, <2>2, <2>3, BecomeKeeps
<1>8. ASSUME NEW k \in 1..MaxSwitch, SelectTarget(k) PROVE Inv'
  <2> DEFINE c == <<"switch", k>>
  <2>1. c \in Call /\ c[1] = "switch" /\ World.call[c].pc = "idle"
    BY <1>8, CallFacts, WorldFacts DEF SelectTarget
  <2>2. CASE host.session = 0
    <3>1. Become(Ends(World, c)) BY <1>8, <2>2 DEF SelectTarget
    <3> HIDE DEF c
    <3>2. HostInv(Ends(World, c), 0) BY <1>1, <2>1, EndsKeeps
    <3> QED BY <3>1, <3>2, BecomeKeeps
  <2>3. CASE host.session # 0
    <3>1. World.host.session # 0 /\ World.host.session = host.session BY <2>3, WorldFacts
    <3>2. Become(SwitchTarget(World, c, World.host.session))
      BY <1>8, <2>3, <3>1 DEF SelectTarget
    <3>3. HostInv(SwitchTarget(World, c, World.host.session), 0)
      BY <1>1, <2>1, <3>1, SwitchKeeps
    <3> QED BY <3>2, <3>3, BecomeKeeps
  <2> QED BY <2>2, <2>3
<1> QED BY <1>3, <1>4, <1>5, <1>6, <1>7, <1>8 DEF Uses

LEMMA WantedKeeps ==
  ASSUME WantedOK, [Next]_vars
  PROVE  WantedOK'
<1>1. ASSUME Runs PROVE WantedOK'
  BY <1>1 DEF Runs, Enrolled, StartTimesOut, PartDisposed, SignalingStarted, ChainUp,
              ChainFails, TransmissionEnds, WantedOK
<1>2. ASSUME PressPtt \/ ReleasePtt \/ ReloadIdentity \/ DisposeHost PROVE WantedOK'
  BY <1>2 DEF PressPtt, ReleasePtt, ReloadIdentity, DisposeHost, WantedOK
<1>3. ASSUME NEW setting \in Setting, ApplySettings(setting) PROVE WantedOK'
  BY <1>3 DEF ApplySettings, WantedOK
<1>4. ASSUME NEW k \in 1..MaxSwitch, SelectTarget(k) PROVE WantedOK'
  <2>1. k \in 0..MaxSwitch BY GenFacts
  <2> QED BY <1>4, <2>1 DEF SelectTarget, WantedOK
<1>5. ASSUME UNCHANGED vars PROVE WantedOK'
  BY <1>5 DEF vars, WantedOK
<1> QED BY <1>1, <1>2, <1>3, <1>4, <1>5 DEF Next, Uses

(* The invariant holds in every state of the host, whatever overlaps.      *)
THEOREM HostInvariant == Spec => [](Inv /\ WantedOK)
<1>1. Init => Inv /\ WantedOK BY InitInv
<1>2. Inv /\ WantedOK /\ [Next]_vars => (Inv /\ WantedOK)'
  <2> SUFFICES ASSUME Inv, WantedOK, [Next]_vars PROVE (Inv /\ WantedOK)' OBVIOUS
  <2>1. WantedOK' BY WantedKeeps
  <2>2. CASE UNCHANGED vars
    <3>1. World' = World BY <2>2 DEF vars, World
    <3>2. Inv' BY <3>1 DEF Inv
    <3> QED BY <2>1, <3>2
  <2>3. CASE Runs
    <3>1. Inv' BY <2>3, RunsKeep
    <3> QED BY <2>1, <3>1
  <2>4. CASE Uses
    <3>1. Inv' BY <2>4, UsesKeep
    <3> QED BY <2>1, <3>1
  <2> QED BY <2>2, <2>3, <2>4 DEF Next
<1> QED BY <1>1, <1>2, PTL DEF Spec

(* The fields of the host, of its starts, of the sessions and of the calls *)
(* on them have the types the model gives them.                            *)
THEOREM HostTypes == Spec => []TypeOK
<1>1. Inv /\ WantedOK => TypeOK
  <2> SUFFICES ASSUME Inv, WantedOK PROVE TypeOK OBVIOUS
  <2>1. World \in Worlds BY DEF Inv, HostInv
  <2>2. /\ host \in Hosts /\ starting \in [Gen -> Starts] /\ sess \in [Gen -> Sessions]
        /\ call \in [Call -> Calls] /\ alive \in SUBSET (Call \X Part)
        /\ talking \in SUBSET Call
    BY <2>1, WorldFacts DEF Worlds
  <2> QED BY <2>2 DEF TypeOK, WantedOK, Hosts, Starts, Sessions, Fields, Calls
<1> QED BY <1>1, HostInvariant, PTL

(* VT-002: however the rebuilds, the switches, the time-outs and the       *)
(* failures overlap, when all is quiet one session is left, the newest     *)
(* unless the host has failed or been disposed of.                         *)
THEOREM HostOneSession == Spec => []OneSession
<1>1. Inv => OneSession
  <2> SUFFICES ASSUME Inv, Quiet
               PROVE  /\ \A g \in Gen : Made(g) => sess[g].disposed \/ g = host.session
                      /\ ~host.disposed /\ ~host.failed => host.session = host.generation
    BY DEF OneSession
  <2>1. /\ World \in Worlds /\ NumbersOK(World) /\ SessionsOK(World, 0) /\ HostOK(World, 0)
    BY DEF Inv, HostInv
  <2>2. ASSUME NEW g \in Gen, Made(g) PROVE sess[g].disposed \/ g = host.session
    <3>1. SessionOK(World, 0, g) BY <2>1 DEF SessionsOK
    <3>2. starting[g].pc # "start" BY DEF Quiet
    <3> QED BY <2>2, <3>1, <3>2, WorldFacts DEF SessionOK, Made
  <2>3. ~host.disposed /\ ~host.failed => host.session = host.generation
    <3>1. host.generation \in Gen BY <2>1, HostFacts, WorldFacts
    <3>2. host.generation # 0 /\ host.generation \in Nat BY <3>1, GenFacts
    <3>3. starting[host.generation].pc # "idle"
      BY <2>1, <3>1, <3>2, WorldFacts DEF NumbersOK
    <3>4. starting[host.generation].pc = "over" BY <3>1, <3>3 DEF Quiet
    <3> QED BY <2>1, <3>2, <3>4, WorldFacts DEF HostOK
  <2> QED BY <2>2, <2>3
<1> QED BY <1>1, HostInvariant, PTL

(* When all is quiet, the engine that the host's session runs is the one   *)
(* under the key: no call of another session, and no older call, has put   *)
(* its own in the place of it.                                             *)
THEOREM HostKeyIsCurrent == Spec => []KeyIsCurrent
<1>1. Inv => KeyIsCurrent
  <2> SUFFICES ASSUME Inv, Quiet, ~host.disposed, host.session # 0
               PROVE  sess[host.session].held["engine"] \in {NoCall, host.engine}
    BY DEF KeyIsCurrent
  <2>1. /\ World \in Worlds /\ NumbersOK(World) /\ HostOK(World, 0)
    BY DEF Inv, HostInv
  <2>2. host.generation \in Gen BY <2>1, HostFacts, WorldFacts
  <2>3. host.generation \in Nat BY <2>2, GenFacts
  <2>4. starting[host.generation].pc # "idle"
    BY <2>1, <2>2, <2>3, WorldFacts DEF NumbersOK
  <2>5. starting[host.generation].pc = "over" BY <2>2, <2>4 DEF Quiet
  <2>6. host.session = host.generation BY <2>1, <2>5, WorldFacts DEF HostOK
  <2> QED BY <2>1, <2>6, WorldFacts DEF HostOK
<1> QED BY <1>1, HostInvariant, PTL
=============================================================================
