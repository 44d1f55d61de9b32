--------------------------- MODULE PresenceProofs ---------------------------
(***************************************************************************)
(* Proofs about Presence, for every set of identities and every timing:    *)
(* how silence and the status in the database hang together, and, with one *)
(* process, that what a phone was told of is what it shows.                *)
(***************************************************************************)
EXTENDS Presence, FiniteSetTheorems, SequenceTheorems, TLAPS

LEMMA TimingTypes ==
  OfflineAfter \in Nat /\ Sweep \in Nat /\ Sweep # 0 /\ MaxChange \in Nat /\ MaxVisit \in Nat
  BY PresenceAssumption

LEMMA AudienceType == ASSUME NEW p \in Pk PROVE Audience(p) \in SUBSET Pk
  BY PresenceAssumption DEF Audience

-----------------------------------------------------------------------------
(* What a recipient is sent of the stale identities: each of them once.    *)

(* A sequence without repetition names every element of a finite set.      *)
LEMMA SetToSeqNamesAll ==
  ASSUME NEW S, IsFiniteSet(S)
  PROVE  /\ SetToSeq(S) \in Seq(S) /\ Len(SetToSeq(S)) = Cardinality(S)
         /\ \A x \in S : \E i \in 1..Cardinality(S) : SetToSeq(S)[i] = x
<1> DEFINE n == Cardinality(S)
<1>1. n \in Nat BY FS_CardinalityType
<1>2. \E f \in [1..n -> S] : IsInjective(f)
  <2>1. ExistsBijection(1..n, S)
    <3>1. PICK k \in Nat : ExistsBijection(1..k, S) BY FS_NatBijection
    <3>2. k = n BY <3>1, FS_CountingElements
    <3> QED BY <3>1, <3>2
  <2> QED BY <2>1 DEF ExistsBijection, Bijection, Injection
<1> DEFINE f == SetToSeq(S)
<1>3. f \in [1..n -> S] /\ IsInjective(f) BY <1>2 DEF SetToSeq
<1>4. f \in Injection(1..n, S) BY <1>3 DEF Injection
<1>5. IsFiniteSet(1..n) /\ Cardinality(1..n) = n
  <2>1. IsFiniteSet(1..n) /\ Cardinality(1..n) = IF 1 > n THEN 0 ELSE n - 1 + 1 BY <1>1, FS_Interval
  <2> QED BY <1>1, <2>1
<1>6. f \in Surjection(1..n, S)
  <2> HIDE DEF f
  <2> QED BY <1>4, <1>5, FS_Injection
<1>7. \A x \in S : \E i \in 1..n : f[i] = x BY <1>6 DEF Surjection
<1>8. f \in Seq(S) /\ Len(f) = n
  <2> HIDE DEF f, n
  <2> QED BY <1>1, <1>3
<1> QED BY <1>7, <1>8

(* s names p; the last message about p in s says x.                        *)
Names(s, p) == \E i \in 1..Len(s) : s[i].pk = p
Ends(s, p, x) == \A i \in 1..Len(s) : s[i].pk = p => s[i].status = x \/ \E j \in i+1..Len(s) : s[j].pk = p

LEMMA StaleMailSays ==
  ASSUME NEW v \in Pk
  PROVE  /\ StaleMail(v) \in Seq(Msg)
         /\ \A p \in Pk : Names(StaleMail(v), p) <=> p \in Stale /\ v \in Audience(p)
         /\ \A p \in Pk : Ends(StaleMail(v), p, "offline")
<1> DEFINE T == {s \in Stale : v \in Audience(s)}
           note == [p \in T |-> [pk |-> p, status |-> "offline"]]
           S == {[pk |-> p, status |-> "offline"] : p \in T}
<1>1. T \in SUBSET Pk /\ IsFiniteSet(T) BY FS_Subset, PresenceAssumption DEF Stale
<1>2. IsFiniteSet(S)
  <2>1. note \in Surjection(T, S) BY DEF Surjection
  <2> HIDE DEF note, S, T
  <2> QED BY <1>1, <2>1, FS_Surjection
<1>3. S \in SUBSET Msg BY <1>1 DEF Msg, Status
<1>4. StaleMail(v) = SetToSeq(S) BY DEF StaleMail
<1>5. \A p \in Pk : [pk |-> p, status |-> "offline"] \in S <=> p \in T OBVIOUS
<1>6. \A m \in S : m.pk \in T /\ m.status = "offline" OBVIOUS
<1>7. ASSUME NEW p \in T PROVE \E m \in S : m.pk = p
  <2> WITNESS [pk |-> p, status |-> "offline"] \in S
  <2> QED OBVIOUS
<1> HIDE DEF S
<1> DEFINE s == SetToSeq(S)
<1>8. s \in Seq(S) /\ Len(s) = Cardinality(S) /\ \A x \in S : \E i \in 1..Cardinality(S) : s[i] = x
  BY <1>2, SetToSeqNamesAll
<1> HIDE DEF s
<1>9. s \in Seq(Msg) BY <1>3, <1>8
<1>10. \A i \in 1..Len(s) : s[i] \in S BY <1>8
<1>11. \A p \in Pk : Names(s, p) <=> p \in T BY <1>6, <1>7, <1>8, <1>10 DEF Names
<1>12. \A p \in Pk : Ends(s, p, "offline") BY <1>6, <1>10 DEF Ends
<1> QED BY <1>4, <1>9, <1>11, <1>12 DEF s

-----------------------------------------------------------------------------
(* Silence: the server and the phone count the same; one that counts too   *)
(* much has lapsed; and a sweep is due before an identity that is not      *)
(* offline is silent for longer than both periods.                         *)
Clocks ==
  /\ seen = quiet
  /\ \A p \in Pk : quiet[p] > OfflineAfter => p \in lapsed
  /\ \A p \in Pk, q \in Process : status[p] # "offline" => quiet[p] + sweepIn[q] <= OfflineAfter + Sweep

PresInv == TypeOK /\ Clocks /\ OfflineIsEarned

LEMMA InitPres == Init => PresInv
<1> SUFFICES ASSUME Init PROVE PresInv OBVIOUS
<1> USE TimingTypes DEF Init
<1>1. TypeOK BY DEF TypeOK, Status, Silence
<1>2. Clocks /\ OfflineIsEarned BY DEF Clocks, OfflineIsEarned
<1> QED BY <1>1, <1>2 DEF PresInv

LEMMA MarkedType ==
  ASSUME TypeOK
  PROVE  /\ Marked \in [Pk -> Status]
         /\ \A p \in Pk : Marked[p] = IF p \in Stale THEN "offline" ELSE status[p]
         /\ \A p \in Pk : Marked[p] # "offline" => seen[p] <= OfflineAfter
  BY TimingTypes DEF TypeOK, Marked, Stale, Status, Silence

(* Fan-out and news keep their types.                                      *)
LEMMA SendTypes ==
  ASSUME TypeOK, NEW q, NEW out \in [Pk -> Seq(Msg)], FanOut(q, out),
         NEW C \in SUBSET Pk, News(C)
  PROVE  mail' \in [Pk -> Seq(Msg)] /\ told' \in [Pk -> SUBSET Pk]
<1>1. \A v \in Pk : mail[v] \o out[v] \in Seq(Msg)
  BY ConcatProperties DEF TypeOK
<1>2. mail' \in [Pk -> Seq(Msg)] BY <1>1 DEF FanOut, TypeOK
<1>3. told' \in [Pk -> SUBSET Pk] BY DEF News, TypeOK
<1> QED BY <1>2, <1>3

(* What is sent when p has chosen s, and when nobody chose anything.       *)
Chose(p, s) ==
  [v \in Pk |-> StaleMail(v) \o IF v \in Audience(p) THEN <<[pk |-> p, status |-> s]>> ELSE <<>>]
Nobody == [v \in Pk |-> StaleMail(v)]

LEMMA OutTypes ==
  /\ Nobody \in [Pk -> Seq(Msg)]
  /\ \A p \in Pk, s \in Status : Chose(p, s) \in [Pk -> Seq(Msg)]
  /\ Stale \in SUBSET Pk
<1>1. Nobody \in [Pk -> Seq(Msg)] BY StaleMailSays DEF Nobody
<1>2. ASSUME NEW p \in Pk, NEW s \in Status, NEW v \in Pk
      PROVE  StaleMail(v) \o (IF v \in Audience(p) THEN <<[pk |-> p, status |-> s]>> ELSE <<>>) \in Seq(Msg)
  <2>1. [pk |-> p, status |-> s] \in Msg BY DEF Msg
  <2>2. (IF v \in Audience(p) THEN <<[pk |-> p, status |-> s]>> ELSE <<>>) \in Seq(Msg) BY <2>1
  <2> QED BY <2>2, StaleMailSays, ConcatProperties
<1>3. \A p \in Pk, s \in Status : Chose(p, s) \in [Pk -> Seq(Msg)] BY <1>2 DEF Chose
<1> QED BY <1>1, <1>3 DEF Stale

LEMMA SendPres ==
  ASSUME PresInv, NEW p \in Pk, NEW s \in Moods, SendStatus(p, s)
  PROVE  PresInv'
<1> USE TimingTypes DEF PresInv
<1>1. s \in Status BY MoodsAssumption
<1>2. FanOut(conn[p], Chose(p, s)) /\ News(Stale \cup {p}) BY DEF SendStatus, Chose
<1>3. mail' \in [Pk -> Seq(Msg)] /\ told' \in [Pk -> SUBSET Pk]
  <2>1. Stale \cup {p} \in SUBSET Pk /\ Chose(p, s) \in [Pk -> Seq(Msg)] BY <1>1, OutTypes
  <2> QED BY <1>2, <2>1, SendTypes
<1> USE DEF SendStatus
<1>4. /\ status' \in [Pk -> Status]
      /\ \A r \in Pk : status'[r] = IF r = p THEN s ELSE Marked[r]
  BY <1>1, MarkedType
<1>5. TypeOK' BY <1>1, <1>3, <1>4 DEF TypeOK, Silence
<1>6. /\ \A r \in Pk : quiet'[r] = IF r = p THEN 0 ELSE quiet[r]
      /\ \A r \in Pk : chosen'[r] = IF r = p THEN s ELSE chosen[r]
  BY DEF TypeOK
<1>7. Clocks'
  <2>1. seen' = quiet' BY DEF Clocks
  <2>2. \A r \in Pk : quiet'[r] > OfflineAfter => r \in lapsed' BY <1>6 DEF Clocks
  <2>3. ASSUME NEW r \in Pk, NEW q \in Process, status'[r] # "offline"
        PROVE  quiet'[r] + sweepIn[q] <= OfflineAfter + Sweep
    <3>1. CASE r = p BY <1>6, <3>1 DEF TypeOK
    <3>2. CASE r # p
      <4>1. status[r] # "offline" BY <1>4, <2>3, <3>2, MarkedType
      <4> QED BY <1>6, <3>2, <4>1 DEF Clocks
    <3> QED BY <3>1, <3>2
  <2> QED BY <2>1, <2>2, <2>3 DEF Clocks
<1>8. OfflineIsEarned'
  <2> SUFFICES ASSUME NEW r \in Pk, status'[r] # chosen'[r] PROVE r \in lapsed' BY DEF OfflineIsEarned
  <2>1. r # p BY <1>4, <1>6
  <2>2. CASE r \in Stale BY <2>1, <2>2 DEF Stale, Clocks
  <2>3. CASE r \notin Stale BY <1>4, <1>6, <2>1, <2>3, MarkedType DEF OfflineIsEarned
  <2> QED BY <2>2, <2>3
<1> QED BY <1>5, <1>7, <1>8

(* Marking who is stale keeps the clocks and earns the offline status.     *)
LEMMA MarkedPres ==
  ASSUME PresInv, NEW r \in Pk
  PROVE  /\ Marked[r] # "offline" => status[r] # "offline"
         /\ Marked[r] # chosen[r] => r \in lapsed
<1> USE DEF PresInv
<1>1. CASE r \in Stale BY <1>1, MarkedType DEF Stale, Clocks
<1>2. CASE r \notin Stale BY <1>2, MarkedType DEF OfflineIsEarned
<1> QED BY <1>1, <1>2

LEMMA HeartbeatPres ==
  ASSUME PresInv, NEW p \in Pk, Heartbeat(p)
  PROVE  PresInv'
<1> USE TimingTypes DEF PresInv
<1>1. mail' \in [Pk -> Seq(Msg)] /\ told' \in [Pk -> SUBSET Pk]
  <2>1. FanOut(conn[p], Nobody) /\ News(Stale) BY DEF Heartbeat, Nobody
  <2> QED BY <2>1, OutTypes, SendTypes
<1> USE DEF Heartbeat
<1>2. TypeOK'
  <2>1. seen' \in [Pk -> Silence] /\ quiet' \in [Pk -> Silence] BY DEF TypeOK, Silence
  <2> QED BY <1>1, <2>1, MarkedType DEF TypeOK
<1>3. \A r \in Pk : quiet'[r] = IF r = p THEN 0 ELSE quiet[r] BY DEF TypeOK
<1>4. Clocks'
  <2>1. seen' = quiet' BY DEF Clocks
  <2>2. \A r \in Pk : quiet'[r] > OfflineAfter => r \in lapsed' BY <1>3 DEF Clocks
  <2>3. \A r \in Pk, q \in Process : status'[r] # "offline" => quiet'[r] + sweepIn[q] <= OfflineAfter + Sweep
    BY <1>3, MarkedPres DEF Clocks, TypeOK
  <2> QED BY <2>1, <2>2, <2>3 DEF Clocks
<1>5. OfflineIsEarned' BY MarkedPres DEF OfflineIsEarned
<1> QED BY <1>2, <1>4, <1>5

LEMMA SweepPres ==
  ASSUME PresInv, NEW q \in Process, PresenceSweep(q)
  PROVE  PresInv'
<1> USE TimingTypes DEF PresInv
<1>1. mail' \in [Pk -> Seq(Msg)] /\ told' \in [Pk -> SUBSET Pk]
  <2>1. FanOut(q, Nobody) /\ News(Stale) BY DEF PresenceSweep, Nobody
  <2> QED BY <2>1, OutTypes, SendTypes
<1> USE DEF PresenceSweep
<1>2. TypeOK' BY <1>1, MarkedType DEF TypeOK
<1>3. Clocks'
  <2>1. \A r \in Pk, w \in Process : status'[r] # "offline" => quiet'[r] + sweepIn'[w] <= OfflineAfter + Sweep
    <3> SUFFICES ASSUME NEW r \in Pk, NEW w \in Process, Marked[r] # "offline"
                 PROVE  quiet[r] + sweepIn'[w] <= OfflineAfter + Sweep
      OBVIOUS
    <3>1. quiet[r] \in Nat /\ quiet[r] <= OfflineAfter BY MarkedType DEF Clocks, TypeOK, Silence
    <3>2. sweepIn'[w] \in 0..Sweep BY DEF TypeOK
    <3> QED BY <3>1, <3>2
  <2> QED BY <2>1 DEF Clocks
<1>4. OfflineIsEarned' BY MarkedPres DEF OfflineIsEarned
<1> QED BY <1>2, <1>3, <1>4

LEMMA TickPres ==
  ASSUME PresInv, Tick
  PROVE  PresInv'
<1> USE TimingTypes DEF PresInv, Tick
<1>1. \A n \in Silence : Older(n) \in Silence /\ Older(n) <= n + 1 /\ (Older(n) > OfflineAfter => n >= OfflineAfter)
  BY DEF Silence, Older
<1>2. TypeOK'
  <2>1. seen' \in [Pk -> Silence] /\ quiet' \in [Pk -> Silence] BY <1>1 DEF TypeOK
  <2>2. sweepIn' \in [Process -> 0..Sweep] BY DEF TypeOK
  <2>3. lapsed' \subseteq Pk BY DEF TypeOK
  <2> QED BY <2>1, <2>2, <2>3 DEF TypeOK, net
<1>3. \A p \in Pk : quiet[p] \in Silence /\ quiet'[p] = Older(quiet[p]) BY DEF TypeOK
<1>4. seen' = quiet' BY DEF Clocks
<1>5. \A p \in Pk : quiet'[p] > OfflineAfter => p \in lapsed' BY <1>1, <1>3
<1>6. ASSUME NEW p \in Pk, NEW q \in Process, status[p] # "offline"
      PROVE  quiet'[p] + sweepIn'[q] <= OfflineAfter + Sweep
  <2>1. quiet[p] + sweepIn[q] <= OfflineAfter + Sweep BY <1>6 DEF Clocks
  <2>2. sweepIn'[q] = sweepIn[q] - 1 /\ sweepIn[q] \in Nat BY DEF TypeOK
  <2>3. quiet'[p] <= quiet[p] + 1 /\ quiet[p] \in Nat /\ quiet'[p] \in Nat BY <1>1, <1>3 DEF Silence
  <2> QED BY <2>1, <2>2, <2>3
<1>7. Clocks' BY <1>4, <1>5, <1>6 DEF Clocks
<1>8. OfflineIsEarned' BY DEF OfflineIsEarned
<1> QED BY <1>2, <1>7, <1>8

LEMMA ReceiveTypes ==
  ASSUME TypeOK, NEW p \in Pk, Receive(p)
  PROVE  /\ Head(mail[p]) \in Msg
         /\ mail' \in [Pk -> Seq(Msg)] /\ view' \in [Pk -> [Pk -> Status]]
<1>1. mail[p] \in Seq(Msg) /\ mail[p] # <<>> BY DEF TypeOK, Receive
<1>2. Head(mail[p]) \in Msg /\ Tail(mail[p]) \in Seq(Msg) BY <1>1, HeadTailProperties
<1> QED BY <1>2 DEF TypeOK, Receive, Msg

LEMMA NextPres == PresInv /\ [Next]_vars => PresInv'
<1> SUFFICES ASSUME PresInv, [Next]_vars PROVE PresInv' OBVIOUS
<1>1. CASE Server BY <1>1, SweepPres DEF Server
<1>2. CASE Tick BY <1>2, TickPres
<1>3. ASSUME UNCHANGED <<db, sweepIn, chosen, quiet, lapsed>>, TypeOK' PROVE PresInv'
  BY <1>3 DEF PresInv, Clocks, OfflineIsEarned, db
<1>4. ASSUME NEW p \in Pk, Phone(p) PROVE PresInv'
  <2>1. CASE \E s \in Moods : SendStatus(p, s) BY <2>1, SendPres
  <2>2. CASE Heartbeat(p) BY <2>2, HeartbeatPres
  <2>3. CASE FetchMe(p)
    <3>1. TypeOK' BY <2>3 DEF FetchMe, PresInv, TypeOK, db, net, history
    <3> QED BY <1>3, <2>3, <3>1 DEF FetchMe, history
  <2>4. CASE Disconnect(p)
    <3>1. TypeOK' BY <2>4 DEF Disconnect, PresInv, TypeOK, db
    <3> QED BY <1>3, <2>4, <3>1 DEF Disconnect
  <2>5. CASE Receive(p)
    <3>1. TypeOK' BY <2>5, ReceiveTypes DEF Receive, PresInv, TypeOK, db, history
    <3> QED BY <1>3, <2>5, <3>1 DEF Receive, history
  <2>6. CASE \E q \in Process : Connect(p, q)
    <3>1. TypeOK' BY <2>6, TimingTypes DEF Connect, PresInv, TypeOK, db
    <3> QED BY <1>3, <2>6, <3>1 DEF Connect
  <2> QED BY <1>4, <2>1, <2>2, <2>3, <2>4, <2>5, <2>6 DEF Phone
<1>5. CASE UNCHANGED vars
  <2>1. TypeOK' BY <1>5 DEF vars, PresInv, TypeOK, db, net, history
  <2> QED BY <1>3, <1>5, <2>1 DEF vars, history
<1> QED BY <1>1, <1>2, <1>4, <1>5 DEF Next

(* Types and silence, together inductive.                                  *)
THEOREM PresenceInvariant == Spec => []PresInv
  BY InitPres, NextPres, PTL DEF Spec

(* The state keeps its types, scheduled sends included.                    *)
THEOREM PresenceTypes == Spec => []TypeOK
  BY PresenceInvariant, PTL DEF PresInv

(* An identity that is not shown as offline has been heard of within the   *)
(* limit and one period of the sweep, for every limit and period           *)
(* (mark_stale_offline, run_presence_sweep).                               *)
THEOREM SilenceIsShown == Spec => []SilenceShows
<1>1. PresInv => SilenceShows
  <2> SUFFICES ASSUME PresInv, NEW p \in Pk, status[p] # "offline" PROVE quiet[p] <= OfflineAfter + Sweep
    BY DEF SilenceShows
  <2>1. PICK q \in Process : TRUE BY PresenceAssumption
  <2>2. quiet[p] + sweepIn[q] <= OfflineAfter + Sweep BY DEF PresInv, Clocks
  <2>3. quiet[p] \in Nat /\ sweepIn[q] \in Nat BY TimingTypes DEF PresInv, TypeOK, Silence
  <2> QED BY <2>2, <2>3, TimingTypes
<1> QED BY <1>1, PresenceInvariant, PTL

(* Only silence past the limit takes a chosen status away, for any number  *)
(* of processes and phones.                                                *)
THEOREM OfflineNeedsSilence == Spec => []OfflineIsEarned
  BY PresenceInvariant, PTL DEF PresInv

-----------------------------------------------------------------------------
(* News: with one process, what is on its way to a phone ends with the     *)
(* status of whomever it was told of, or it shows that status already.     *)
NewsInv ==
  /\ \A v \in Pk : told[v] # {} => conn[v] # Nowhere
  /\ \A v, p \in Pk :
       p \in told[v] =>
         /\ v \in Audience(p)
         /\ Ends(mail[v], p, status[p])
         /\ Names(mail[v], p) \/ view[v][p] = status[p]

OneProcess == \A a, b \in Process : a = b

LEMMA EndsConcat ==
  ASSUME NEW s \in Seq(Msg), NEW t \in Seq(Msg), NEW p \in Pk, NEW x
  PROVE  /\ Names(s \o t, p) <=> Names(s, p) \/ Names(t, p)
         /\ Names(t, p) /\ Ends(t, p, x) => Ends(s \o t, p, x)
         /\ ~Names(t, p) /\ Ends(s, p, x) => Ends(s \o t, p, x)
<1> DEFINE m == Len(s)
           n == Len(t)
           u == s \o t
<1>1. m \in Nat /\ n \in Nat OBVIOUS
<1>2. /\ Len(u) = m + n
      /\ \A i \in 1..m + n : u[i] = IF i <= m THEN s[i] ELSE t[i - m]
  BY ConcatProperties
<1> HIDE DEF m, n, u
<1>3. \A i \in 1..m : i \in 1..m + n /\ u[i] = s[i] BY <1>1, <1>2
<1>4. \A i \in 1..n : m + i \in 1..m + n /\ u[m + i] = t[i]
  <2> SUFFICES ASSUME NEW i \in 1..n PROVE m + i \in 1..m + n /\ u[m + i] = t[i] OBVIOUS
  <2>1. m + i \in 1..m + n /\ ~(m + i <= m) /\ (m + i) - m = i BY <1>1
  <2> QED BY <1>2, <2>1
<1>5. \A i \in 1..m + n : i \in 1..m \/ \E j \in 1..n : i = m + j
  <2> SUFFICES ASSUME NEW i \in 1..m + n, i \notin 1..m PROVE \E j \in 1..n : i = m + j OBVIOUS
  <2>1. i - m \in 1..n /\ i = m + (i - m) BY <1>1
  <2> QED BY <2>1
<1>6. Names(u, p) <=> Names(s, p) \/ Names(t, p)
  <2>1. ASSUME Names(u, p) PROVE Names(s, p) \/ Names(t, p)
    <3>1. PICK i \in 1..m + n : u[i].pk = p BY <1>2, <2>1 DEF Names
    <3> QED BY <1>3, <1>4, <1>5, <3>1 DEF Names, m, n
  <2>2. ASSUME Names(s, p) PROVE Names(u, p)
    <3>1. PICK i \in 1..m : s[i].pk = p BY <2>2 DEF Names, m
    <3> QED BY <1>2, <1>3, <3>1 DEF Names
  <2>3. ASSUME Names(t, p) PROVE Names(u, p)
    <3>1. PICK i \in 1..n : t[i].pk = p BY <2>3 DEF Names, n
    <3>2. m + i \in 1..Len(u) /\ u[m + i].pk = p BY <1>2, <1>4, <3>1
    <3> QED BY <3>2 DEF Names
  <2> QED BY <2>1, <2>2, <2>3
<1>7. ASSUME Names(t, p), Ends(t, p, x) PROVE Ends(u, p, x)
  <2> SUFFICES ASSUME NEW i \in 1..m + n, u[i].pk = p
               PROVE  u[i].status = x \/ \E j \in i+1..m + n : u[j].pk = p
    BY <1>2 DEF Ends
  <2>1. CASE i \in 1..m
    <3>1. PICK k \in 1..n : t[k].pk = p BY <1>7 DEF Names, n
    <3>2. m + k \in i+1..m + n /\ u[m + k].pk = p BY <1>1, <1>4, <2>1, <3>1
    <3> QED BY <3>2
  <2>2. ASSUME NEW k \in 1..n, i = m + k PROVE u[i].status = x \/ \E j \in i+1..m + n : u[j].pk = p
    <3>1. u[i] = t[k] BY <1>4, <2>2
    <3>2. t[k].status = x \/ \E j \in k+1..n : t[j].pk = p BY <1>7, <3>1 DEF Ends, n
    <3>3. ASSUME NEW j \in k+1..n, t[j].pk = p PROVE \E l \in i+1..m + n : u[l].pk = p
      <4>1. j \in 1..n /\ m + j \in i+1..m + n BY <1>1, <2>2
      <4> QED BY <1>4, <3>3, <4>1
    <3> QED BY <3>1, <3>2, <3>3
  <2> QED BY <1>5, <2>1, <2>2
<1>8. ASSUME ~Names(t, p), Ends(s, p, x) PROVE Ends(u, p, x)
  <2> SUFFICES ASSUME NEW i \in 1..m + n, u[i].pk = p
               PROVE  u[i].status = x \/ \E j \in i+1..m + n : u[j].pk = p
    BY <1>2 DEF Ends
  <2>1. i \in 1..m BY <1>4, <1>5, <1>8 DEF Names, n
  <2>2. s[i].status = x \/ \E j \in i+1..m : s[j].pk = p BY <1>3, <1>8, <2>1 DEF Ends, m
  <2>3. ASSUME NEW j \in i+1..m, s[j].pk = p PROVE \E l \in i+1..m + n : u[l].pk = p
    <3>1. j \in 1..m /\ j \in i+1..m + n BY <1>1, <2>1
    <3> QED BY <1>3, <2>3, <3>1
  <2> QED BY <1>3, <2>1, <2>2, <2>3
<1> QED BY <1>6, <1>7, <1>8 DEF u

(* The change of those in C is the last word of what is sent about them,   *)
(* and nothing is sent of the others.                                      *)
LastWord(C, out, after) ==
  \A v, p \in Pk :
    IF p \in C
      THEN v \in Audience(p) => Names(out[v], p) /\ Ends(out[v], p, after[p])
      ELSE v \in Audience(p) => ~Names(out[v], p) /\ after[p] = status[p]

LEMMA FanOutNews ==
  ASSUME OneProcess, TypeOK, NewsInv, NEW q \in Process, NEW C \in SUBSET Pk,
         NEW out \in [Pk -> Seq(Msg)], FanOut(q, out), News(C), LastWord(C, out, status'),
         UNCHANGED <<conn, view>>
  PROVE  NewsInv'
<1>1. \A v \in Pk : told'[v] = LET mine == {p \in C : v \in Audience(p)}
                               IN  IF conn[v] # Nowhere THEN told[v] \cup mine ELSE told[v] \ mine
  BY DEF News
<1>2. \A v \in Pk : told'[v] # {} => conn'[v] # Nowhere BY <1>1 DEF NewsInv
<1>3. ASSUME NEW v \in Pk, NEW p \in Pk, p \in told'[v]
      PROVE  /\ v \in Audience(p)
             /\ Ends(mail'[v], p, status'[p])
             /\ Names(mail'[v], p) \/ view'[v][p] = status'[p]
  <2>1. v \in Audience(p) BY <1>1, <1>3 DEF NewsInv
  <2>2. conn[v] = q BY <1>2, <1>3 DEF OneProcess, TypeOK
  <2>3. mail'[v] = mail[v] \o out[v] BY <2>2 DEF FanOut
  <2>4. mail[v] \in Seq(Msg) /\ out[v] \in Seq(Msg) BY DEF TypeOK
  <2>5. CASE p \in C
    <3>1. Names(out[v], p) /\ Ends(out[v], p, status'[p]) BY <2>1, <2>5 DEF LastWord
    <3> QED BY <2>1, <2>3, <2>4, <3>1, EndsConcat
  <2>6. CASE p \notin C
    <3>1. ~Names(out[v], p) /\ status'[p] = status[p] BY <2>1, <2>6 DEF LastWord
    <3>2. p \in told[v] BY <1>1, <1>3, <2>6
    <3>3. Ends(mail[v], p, status'[p]) /\ (Names(mail[v], p) \/ view'[v][p] = status'[p])
      BY <3>1, <3>2 DEF NewsInv
    <3> QED BY <2>1, <2>3, <2>4, <3>1, <3>3, EndsConcat
  <2> QED BY <2>5, <2>6
<1> QED BY <1>2, <1>3 DEF NewsInv, Audience

LEMMA NobodyLast == ASSUME TypeOK PROVE LastWord(Stale, Nobody, Marked)
  BY StaleMailSays, MarkedType DEF LastWord, Nobody

LEMMA ChoseLast ==
  ASSUME TypeOK, NEW p \in Pk, NEW s \in Status
  PROVE  LastWord(Stale \cup {p}, Chose(p, s), [Marked EXCEPT ![p] = s])
<1> DEFINE after == [Marked EXCEPT ![p] = s]
           msg == [pk |-> p, status |-> s]
<1>1. \A r \in Pk : after[r] = IF r = p THEN s ELSE Marked[r] BY MarkedType
<1>2. msg \in Msg /\ msg.pk = p /\ msg.status = s BY DEF Msg
<1> HIDE DEF after, msg
<1>3. /\ <<msg>> \in Seq(Msg) /\ <<>> \in Seq(Msg)
      /\ \A r \in Pk : /\ Names(<<msg>>, r) <=> r = p
                       /\ ~Names(<<>>, r)
      /\ Ends(<<msg>>, p, s)
  BY <1>2 DEF Names, Ends
<1>4. ASSUME NEW v \in Pk, NEW r \in Pk, v \in Audience(r)
      PROVE  IF r \in Stale \cup {p}
               THEN Names(Chose(p, s)[v], r) /\ Ends(Chose(p, s)[v], r, after[r])
               ELSE ~Names(Chose(p, s)[v], r) /\ after[r] = status[r]
  <2> DEFINE tail == IF v \in Audience(p) THEN <<msg>> ELSE <<>>
  <2>1. Chose(p, s)[v] = StaleMail(v) \o tail BY DEF Chose, msg
  <2>2. tail \in Seq(Msg) BY <1>3
  <2>3. r = p => tail = <<msg>> BY <1>4
  <2>4. r # p => ~Names(tail, r) BY <1>3
  <2> HIDE DEF tail
  <2>5. StaleMail(v) \in Seq(Msg) /\ (Names(StaleMail(v), r) <=> r \in Stale) /\ Ends(StaleMail(v), r, "offline")
    BY <1>4, StaleMailSays
  <2>6. CASE r = p BY <1>1, <1>3, <2>1, <2>2, <2>3, <2>5, <2>6, EndsConcat
  <2>7. CASE r # p BY <1>1, <2>1, <2>2, <2>4, <2>5, <2>7, EndsConcat, MarkedType
  <2> QED BY <2>6, <2>7
<1> QED BY <1>4 DEF LastWord, after

LEMMA ReceiveNews ==
  ASSUME TypeOK, NewsInv, NEW v \in Pk, Receive(v)
  PROVE  NewsInv'
<1> DEFINE m == Head(mail[v])
           s == mail[v]
           t == Tail(mail[v])
<1>1. s \in Seq(Msg) /\ s # <<>> BY DEF TypeOK, Receive
<1>2. /\ m \in Msg /\ t \in Seq(Msg) /\ Len(t) = Len(s) - 1 /\ Len(s) \in Nat /\ Len(s) # 0 /\ m = s[1]
      /\ \A i \in 1..Len(t) : t[i] = s[i + 1]
  BY <1>1, HeadTailProperties
<1>3. /\ \A w \in Pk : mail'[w] = IF w = v THEN t ELSE mail[w]
      /\ \A w, p \in Pk : view'[w][p] = IF w = v /\ p = m.pk THEN m.status ELSE view[w][p]
      /\ UNCHANGED <<status, conn, told>>
  BY <1>2 DEF Receive, TypeOK, Msg, db, history
<1> HIDE DEF m, s, t
<1>4. ASSUME NEW p \in Pk, NEW x, Ends(s, p, x)
      PROVE  Ends(t, p, x) /\ (Names(s, p) => Names(t, p) \/ m.pk = p)
                           /\ (m.pk = p => Names(t, p) \/ m.status = x)
  <2>1. ASSUME NEW i \in 1..Len(t), t[i].pk = p
        PROVE  t[i].status = x \/ \E j \in i+1..Len(t) : t[j].pk = p
    <3>1. i + 1 \in 1..Len(s) /\ s[i + 1].pk = p /\ t[i] = s[i + 1] BY <1>2, <2>1
    <3>2. CASE s[i + 1].status = x BY <3>1, <3>2
    <3>3. ASSUME NEW j \in (i+1)+1..Len(s), s[j].pk = p PROVE \E l \in i+1..Len(t) : t[l].pk = p
      <4>1. j - 1 \in i+1..Len(t) /\ j - 1 \in 1..Len(t) /\ (j - 1) + 1 = j BY <1>2
      <4>2. t[j - 1] = s[j] BY <1>2, <4>1
      <4> QED BY <3>3, <4>1, <4>2
    <3> QED BY <1>4, <3>1, <3>2, <3>3 DEF Ends
  <2>2. ASSUME NEW j \in 2..Len(s), s[j].pk = p PROVE Names(t, p)
    <3>1. j - 1 \in 1..Len(t) /\ (j - 1) + 1 = j BY <1>2
    <3>2. t[j - 1] = s[j] BY <1>2, <3>1
    <3> QED BY <2>2, <3>1, <3>2 DEF Names
  <2>3. Names(s, p) => Names(t, p) \/ m.pk = p
    <3> SUFFICES ASSUME NEW i \in 1..Len(s), s[i].pk = p PROVE Names(t, p) \/ m.pk = p BY DEF Names
    <3>1. i = 1 \/ i \in 2..Len(s) BY <1>2
    <3> QED BY <1>2, <2>2, <3>1
  <2>4. m.pk = p => Names(t, p) \/ m.status = x
    <3> SUFFICES ASSUME m.pk = p, m.status # x PROVE Names(t, p) OBVIOUS
    <3>1. 1 \in 1..Len(s) /\ s[1].pk = p /\ s[1].status # x BY <1>2
    <3>2. PICK j \in 1 + 1..Len(s) : s[j].pk = p BY <1>4, <3>1 DEF Ends
    <3>3. j \in 2..Len(s) BY <1>2
    <3> QED BY <2>2, <3>2, <3>3
  <2> QED BY <2>1, <2>3, <2>4 DEF Ends
<1>5. ASSUME NEW w \in Pk, NEW p \in Pk, p \in told'[w]
      PROVE  /\ w \in Audience(p)
             /\ Ends(mail'[w], p, status'[p])
             /\ Names(mail'[w], p) \/ view'[w][p] = status'[p]
  <2>1. /\ w \in Audience(p) /\ Ends(mail[w], p, status[p])
        /\ Names(mail[w], p) \/ view[w][p] = status[p]
    BY <1>3, <1>5 DEF NewsInv
  <2>2. CASE w # v BY <1>3, <2>1, <2>2
  <2>3. CASE w = v
    <3>1. Ends(s, p, status[p]) /\ (Names(s, p) \/ view[v][p] = status[p]) BY <2>1, <2>3 DEF s
    <3> QED BY <1>3, <1>4, <2>1, <2>3, <3>1
  <2> QED BY <2>2, <2>3
<1> QED BY <1>3, <1>5 DEF NewsInv, Audience

LEMMA NextNews ==
  ASSUME OneProcess
  PROVE  PresInv /\ NewsInv /\ [Next]_vars => NewsInv'
<1> SUFFICES ASSUME PresInv, NewsInv, [Next]_vars PROVE NewsInv' OBVIOUS
<1>1. TypeOK BY DEF PresInv
<1>2. ASSUME UNCHANGED <<status, conn, mail, view, told>> PROVE NewsInv'
  BY <1>2 DEF NewsInv, Audience
<1>3. CASE Server
  <2>1. PICK q \in Process : PresenceSweep(q) BY <1>3 DEF Server
  <2>2. /\ FanOut(q, Nobody) /\ News(Stale) /\ status' = Marked /\ UNCHANGED <<conn, view>>
    BY <2>1 DEF PresenceSweep, Nobody
  <2> QED BY <1>1, <2>2, NobodyLast, OutTypes, FanOutNews
<1>4. CASE Tick BY <1>2, <1>4 DEF Tick, net
<1>5. ASSUME NEW p \in Pk, Phone(p) PROVE NewsInv'
  <2>1. CASE \E s \in Moods : SendStatus(p, s)
    <3>1. PICK s \in Moods : SendStatus(p, s) BY <2>1
    <3>2. s \in Status BY MoodsAssumption
    <3>3. /\ FanOut(conn[p], Chose(p, s)) /\ News(Stale \cup {p})
          /\ status' = [Marked EXCEPT ![p] = s] /\ UNCHANGED <<conn, view>> /\ conn[p] # Nowhere
      BY <3>1 DEF SendStatus, Chose
    <3>4. conn[p] \in Process BY <1>1, <3>3 DEF TypeOK
    <3>5. Stale \cup {p} \in SUBSET Pk /\ Chose(p, s) \in [Pk -> Seq(Msg)] BY <3>2, OutTypes
    <3>6. LastWord(Stale \cup {p}, Chose(p, s), status') BY <1>1, <3>2, <3>3, ChoseLast
    <3> QED BY <1>1, <3>3, <3>4, <3>5, <3>6, FanOutNews
  <2>2. CASE Heartbeat(p)
    <3>1. /\ FanOut(conn[p], Nobody) /\ News(Stale) /\ status' = Marked
          /\ UNCHANGED <<conn, view>> /\ conn[p] # Nowhere
      BY <2>2 DEF Heartbeat, Nobody
    <3>2. conn[p] \in Process BY <1>1, <3>1 DEF TypeOK
    <3> QED BY <1>1, <3>1, <3>2, NobodyLast, OutTypes, FanOutNews
  <2>3. CASE FetchMe(p)
    <3>1. told[p] = {} /\ \A w \in Pk \ {p} : view'[w] = view[w]
      BY <1>1, <2>3 DEF FetchMe, NewsInv, TypeOK
    <3> QED BY <2>3, <3>1 DEF FetchMe, NewsInv, Audience, db, net, history
  <2>4. CASE Disconnect(p)
    <3>1. told'[p] = {} /\ \A w \in Pk \ {p} : told'[w] = told[w] /\ mail'[w] = mail[w] /\ conn'[w] = conn[w]
      BY <1>1, <2>4 DEF Disconnect, TypeOK
    <3> QED BY <2>4, <3>1 DEF Disconnect, NewsInv, Audience, db
  <2>5. CASE Receive(p) BY <1>1, <2>5, ReceiveNews
  <2>6. CASE \E q \in Process : Connect(p, q)
    <3>1. told'[p] = {} /\ \A w \in Pk \ {p} : told'[w] = told[w] /\ conn'[w] = conn[w]
      BY <1>1, <2>6 DEF Connect, TypeOK
    <3> QED BY <2>6, <3>1 DEF Connect, NewsInv, Audience, db
  <2> QED BY <1>5, <2>1, <2>2, <2>3, <2>4, <2>5, <2>6 DEF Phone
<1>6. CASE UNCHANGED vars BY <1>2, <1>6 DEF vars, db, net, history
<1> QED BY <1>3, <1>4, <1>5, <1>6 DEF Next

(* A phone shows the status of everybody it was told of once its mail is   *)
(* delivered, for any number of phones, groups and messages on their way,  *)
(* as long as one process serves them (presence_ws, _ws_fanout_async).     *)
THEOREM OneProcessAgrees == ASSUME OneProcess PROVE Spec => []ViewsAgree
<1>1. Init => NewsInv BY DEF Init, NewsInv
<1>2. PresInv /\ NewsInv /\ [Next]_vars => NewsInv' BY NextNews
<1>3. PresInv /\ NewsInv => ViewsAgree
  <2>1. ASSUME NEW v \in Pk, mail[v] = <<>> PROVE \A p \in Pk : ~Names(mail[v], p)
    BY <2>1 DEF Names
  <2> QED BY <2>1 DEF NewsInv, ViewsAgree
<1> QED BY <1>1, <1>2, <1>3, PresenceInvariant, PTL DEF Spec
=============================================================================
