------------------------------ MODULE Presence ------------------------------
(***************************************************************************)
(* Presence (token-svc/app/presence.py, presence_ws and the sweep of       *)
(* v2_api.py, the lifespan of main.py): statuses in the database, sockets  *)
(* in the hub of the process they are connected to.  A message of a socket *)
(* is handled in one step: nothing in it awaits until the fan-out has      *)
(* scheduled its sends, which then run one by one (mail).  A tick is a     *)
(* fraction of the five minutes after which an identity is offline.        *)
(***************************************************************************)
EXTENDS Integers, FiniteSets, Sequences, SequencesExt

CONSTANTS
  Pk,
  Contacts,       \* of each identity: its contacts
  CoMembers,      \* and the members of its groups
  Process,        \* processes of the service
  Moods,          \* the statuses users choose from in this instance
  OfflineAfter,   \* OFFLINE_AFTER_S in ticks
  Sweep,          \* the period of the sweep in ticks
  MaxChange,      \* bound: statuses sent in a behaviour
  MaxVisit        \* bound: connections made

ASSUME PresenceAssumption ==
  /\ IsFiniteSet(Pk) /\ Process # {}
  /\ Contacts \in [Pk -> SUBSET Pk] /\ CoMembers \in [Pk -> SUBSET Pk]
  /\ OfflineAfter \in Nat /\ Sweep \in Nat \ {0} /\ MaxChange \in Nat /\ MaxVisit \in Nat

Status == {"offline", "available", "busy"}
ASSUME MoodsAssumption == Moods \subseteq Status
Nowhere == "nowhere"
Silence == 0..(OfflineAfter + Sweep + 1)   \* longer silences are alike

VARIABLES
  status,    \* Identity.status
  seen,      \* time since Identity.last_seen_at
  sweepIn,   \* of each process: time until its sweep
  conn,      \* the process a phone has its socket at
  mail,      \* sends scheduled for the socket of a phone
  view,      \* what each phone shows of the others
  changes,   \* statuses so far
  visits,    \* connections so far
  (* history: what the properties compare the state with *)
  chosen,    \* the status the user sent last
  quiet,     \* time since the phone sent anything
  lapsed,    \* it was silent for too long since it sent that status
  told       \* of each phone: whose last change came while it was connected

db == <<status, seen>>
net == <<conn, mail>>
history == <<chosen, quiet, lapsed, told>>
vars == <<db, sweepIn, net, view, changes, visits, history>>

Msg == [pk: Pk, status: Status]

TypeOK ==
  /\ status \in [Pk -> Status] /\ chosen \in [Pk -> Status]
  /\ seen \in [Pk -> Silence] /\ quiet \in [Pk -> Silence]
  /\ sweepIn \in [Process -> 0..Sweep]
  /\ conn \in [Pk -> Process \cup {Nowhere}]
  /\ mail \in [Pk -> Seq(Msg)]
  /\ view \in [Pk -> [Pk -> Status]]
  /\ lapsed \subseteq Pk
  /\ told \in [Pk -> SUBSET Pk]
  /\ changes \in 0..MaxChange /\ visits \in 0..MaxVisit

Init ==
  /\ status = [p \in Pk |-> "offline"] /\ chosen = status
  /\ seen = [p \in Pk |-> 0] /\ quiet = seen
  /\ sweepIn = [q \in Process |-> Sweep]
  /\ conn = [p \in Pk |-> Nowhere]
  /\ mail = [p \in Pk |-> <<>>]
  /\ view = [p \in Pk |-> status]
  /\ changes = 0 /\ visits = 0
  /\ lapsed = {}
  /\ told = [p \in Pk |-> {}]

-----------------------------------------------------------------------------
(* audience_pks.                                                           *)
Audience(p) == Contacts[p] \cup CoMembers[p]

(* mark_stale_offline: who goes offline, and what is to be sent to whom.   *)
Stale == {p \in Pk : status[p] # "offline" /\ seen[p] > OfflineAfter}
StaleMail(v) ==
  SetToSeq({[pk |-> p, status |-> "offline"] : p \in {s \in Stale : v \in Audience(s)}})
Marked == [p \in Pk |-> IF p \in Stale THEN "offline" ELSE status[p]]

(* _ws_fanout_async in process q: out[v] goes to the socket of v in the    *)
(* hub of q.  What it publishes for the other processes arrives nowhere:   *)
(* handle_bus_message runs in the subscriber thread, which has no event    *)
(* loop, and MemoryPresenceHub.send_to makes the coroutine of the send and *)
(* drops it.  (Mutant: one message for each recipient, as on the bus.)     *)
FanOutFirst(q, out) ==
  mail' = [v \in Pk |-> IF conn[v] = q /\ out[v] # <<>> THEN Append(mail[v], Head(out[v])) ELSE mail[v]]
FanOut(q, out) == mail' = [v \in Pk |-> IF conn[v] = q THEN mail[v] \o out[v] ELSE mail[v]]

(* History: the recipients of a change who are connected somewhere are to  *)
(* be told; for the others what they show is out of date.                  *)
News(changed) ==
  told' = [v \in Pk |->
             LET mine == {p \in changed : v \in Audience(p)}
             IN  IF conn[v] # Nowhere THEN told[v] \cup mine ELSE told[v] \ mine]

-----------------------------------------------------------------------------
(* {"status": s}: what is stale goes first, then the status is applied.    *)
SendStatus(p, s) ==
  /\ conn[p] # Nowhere /\ changes < MaxChange
  /\ status' = [Marked EXCEPT ![p] = s]
  /\ seen' = [seen EXCEPT ![p] = 0]
  /\ FanOut(conn[p], [v \in Pk |->
       StaleMail(v) \o IF v \in Audience(p) THEN <<[pk |-> p, status |-> s]>> ELSE <<>>])
  /\ News(Stale \cup {p})
  /\ chosen' = [chosen EXCEPT ![p] = s]
  /\ quiet' = [quiet EXCEPT ![p] = 0]
  /\ lapsed' = lapsed \ {p}
  /\ changes' = changes + 1
  /\ UNCHANGED <<sweepIn, conn, view, visits>>

(* A heartbeat is seen; it sets no status.                                 *)
(* (Mutant: it is not.)                                                    *)
HeartbeatUnseen(p) ==
  /\ conn[p] # Nowhere
  /\ status' = Marked
  /\ FanOut(conn[p], [v \in Pk |-> StaleMail(v)])
  /\ News(Stale)
  /\ quiet' = [quiet EXCEPT ![p] = 0]
  /\ UNCHANGED <<seen, sweepIn, conn, view, changes, chosen, lapsed, visits>>
Heartbeat(p) ==
  /\ conn[p] # Nowhere
  /\ status' = Marked
  /\ seen' = [seen EXCEPT ![p] = 0]
  /\ FanOut(conn[p], [v \in Pk |-> StaleMail(v)])
  /\ News(Stale)
  /\ quiet' = [quiet EXCEPT ![p] = 0]
  /\ UNCHANGED <<sweepIn, conn, view, changes, chosen, lapsed, visits>>

(* run_presence_sweep.  A sweep that raises, which is logged and made up   *)
(* for a period later, is left out.  (Mutant: it has nothing to do for an  *)
(* empty hub.)                                                             *)
SweepConnected(q) ==
  /\ sweepIn[q] = 0
  /\ sweepIn' = [sweepIn EXCEPT ![q] = Sweep]
  /\ IF \A p \in Pk : conn[p] # q
       THEN UNCHANGED <<status, mail, told>>
       ELSE /\ status' = Marked
            /\ FanOut(q, [v \in Pk |-> StaleMail(v)])
            /\ News(Stale)
  /\ UNCHANGED <<seen, conn, view, changes, chosen, quiet, lapsed, visits>>
PresenceSweep(q) ==
  /\ sweepIn[q] = 0
  /\ sweepIn' = [sweepIn EXCEPT ![q] = Sweep]
  /\ status' = Marked
  /\ FanOut(q, [v \in Pk |-> StaleMail(v)])
  /\ News(Stale)
  /\ UNCHANGED <<seen, conn, view, changes, chosen, quiet, lapsed, visits>>

-----------------------------------------------------------------------------
(* The phone fetches identity_me before it opens its socket.               *)
FetchMe(p) ==
  /\ conn[p] = Nowhere
  /\ view' = [view EXCEPT ![p] = status]
  /\ UNCHANGED <<db, sweepIn, net, changes, history, visits>>

(* accept, then hub.add.                                                   *)
Connect(p, q) ==
  /\ conn[p] = Nowhere /\ visits < MaxVisit
  /\ conn' = [conn EXCEPT ![p] = q]
  /\ told' = [told EXCEPT ![p] = {}]
  /\ visits' = visits + 1
  /\ UNCHANGED <<db, sweepIn, mail, view, changes, chosen, quiet, lapsed>>

(* WebSocketDisconnect, or a dead socket whose sends fail unnoticed.  The  *)
(* status stays: only silence takes it away.                               *)
Disconnect(p) ==
  /\ conn[p] # Nowhere
  /\ conn' = [conn EXCEPT ![p] = Nowhere]
  /\ mail' = [mail EXCEPT ![p] = <<>>]
  /\ told' = [told EXCEPT ![p] = {}]
  /\ UNCHANGED <<db, sweepIn, view, changes, chosen, quiet, lapsed, visits>>

(* _safe_send.                                                             *)
Receive(p) ==
  /\ mail[p] # <<>>
  /\ view' = [view EXCEPT ![p][Head(mail[p]).pk] = Head(mail[p]).status]
  /\ mail' = [mail EXCEPT ![p] = Tail(@)]
  /\ UNCHANGED <<db, sweepIn, conn, changes, history, visits>>

(* Time passes while no sweep is due.  Silence is counted by the server    *)
(* (seen) and, for the properties, by the phone (quiet).                   *)
Older(n) == IF n < OfflineAfter + Sweep + 1 THEN n + 1 ELSE n

Tick ==
  /\ \A q \in Process : sweepIn[q] > 0
  /\ sweepIn' = [q \in Process |-> sweepIn[q] - 1]
  /\ seen' = [p \in Pk |-> Older(seen[p])]
  /\ quiet' = [p \in Pk |-> Older(quiet[p])]
  /\ lapsed' = lapsed \cup {p \in Pk : quiet[p] >= OfflineAfter}
  /\ UNCHANGED <<status, net, view, changes, chosen, told, visits>>

Phone(p) ==
  \/ \E s \in Moods : SendStatus(p, s)
  \/ Heartbeat(p) \/ FetchMe(p) \/ Disconnect(p) \/ Receive(p)
  \/ \E q \in Process : Connect(p, q)
Server == \E q \in Process : PresenceSweep(q)

Next == Server \/ Tick \/ \E p \in Pk : Phone(p)
Spec == Init /\ [][Next]_vars

-----------------------------------------------------------------------------
(* Five minutes of silence and the sweep after them take every identity    *)
(* offline, whichever messages of others run the marking first             *)
(* (V2-VT-013).                                                            *)
SilenceShows == \A p \in Pk : status[p] # "offline" => quiet[p] <= OfflineAfter + Sweep

(* Nothing else does: while a phone has not been silent for too long since *)
(* it sent its status, that is the status it has, whoever sweeps.          *)
OfflineIsEarned == \A p \in Pk : status[p] # chosen[p] => p \in lapsed

(* A phone that was connected when an identity of its audience changed     *)
(* shows that change when nothing is left to be delivered to it: later     *)
(* ones are neither dropped nor overtaken (V2-FR-031, Technical 4.3).      *)
ViewsAgree ==
  \A v, p \in Pk :
    p \in told[v] /\ mail[v] = <<>> => view[v][p] = status[p]
=============================================================================
