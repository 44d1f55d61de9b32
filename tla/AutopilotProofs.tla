--------------------------- MODULE AutopilotProofs ---------------------------
(***************************************************************************)
(* Theorems about the supervisor, for any plan, units, budget and bounds.  *)
(*                                                                         *)
(* With every fault: what the state consists of, and that the hourly       *)
(* ceiling is overrun by less than the number of units.  The invariant     *)
(* counts the units the list of the tick still launches with those the log *)
(* already holds.                                                          *)
(*                                                                         *)
(* Without the faults that make two of one (Calm): no two sessions on one  *)
(* task, a board that stays legal, and the life cycle of the protocol.     *)
(* The invariant gives each unit at most one token, which a decision makes *)
(* and which is in turn a deed of the list, a process and a report.        *)
(***************************************************************************)
EXTENDS Autopilot, FiniteSetTheorems, WellFoundedInduction, TLAPS

-----------------------------------------------------------------------------
(* Numbers: least elements, and a set gone through in order.               *)
(* A set of numbers that is not empty has a least one.                     *)
LEMMA LeastNat ==
  ASSUME NEW S \in SUBSET Nat, S # {}
  PROVE  \E m \in S : \A n \in S : m <= n
<1> DEFINE R == OpToRel(<, Nat)
<1>1. IsWellFoundedOn(R, Nat) BY NatLessThanWellFounded
<1>2. \A x, y \in Nat : <<x, y>> \in R <=> x < y BY DEF OpToRel
<1> HIDE DEF R
<1>3. PICK m \in S : \A n \in S : ~(<<n, m>> \in R) BY <1>1, WFMin
<1>4. ASSUME NEW n \in S PROVE m <= n
  <2>1. m \in Nat /\ n \in Nat OBVIOUS
  <2>2. ~(n < m) BY <2>1, <1>2, <1>3
  <2> QED BY <2>1, <2>2
<1> QED BY <1>3, <1>4

(* A finite set of numbers can be gone through in order.                   *)
Ordering(s, S) ==
  /\ s \in [1..Cardinality(S) -> S]
  /\ \A i, j \in 1..Cardinality(S) : i < j => s[i] < s[j]

Orderable(n) ==
  \A S \in SUBSET Nat : IsFiniteSet(S) /\ Cardinality(S) = n => \E s : Ordering(s, S)

(* One element more is put before the rest.                                *)
LEMMA OrderMore ==
  ASSUME NEW n \in Nat, Orderable(n)
  PROVE  Orderable(n + 1)
<1> SUFFICES ASSUME NEW S \in SUBSET Nat, IsFiniteSet(S), Cardinality(S) = n + 1
             PROVE  \E s : Ordering(s, S)
  BY DEF Orderable
<1>1. S # {} BY FS_EmptySet
<1>2. PICK m \in S : \A x \in S : m <= x BY <1>1, LeastNat
<1> DEFINE T == S \ {m}
<1>3. T \in SUBSET Nat /\ IsFiniteSet(T) /\ Cardinality(T) = n BY FS_RemoveElement
<1>4. PICK s : Ordering(s, T) BY <1>3 DEF Orderable
<1>5. s \in [1..n -> T] /\ \A i, j \in 1..n : i < j => s[i] < s[j] BY <1>3, <1>4 DEF Ordering
<1> DEFINE r == [i \in 1..n + 1 |-> IF i = 1 THEN m ELSE s[i - 1]]
<1>6. ASSUME NEW i \in 1..n + 1, i # 1 PROVE i - 1 \in 1..n /\ r[i] = s[i - 1] /\ r[i] \in T
  BY <1>5, <1>6
<1>7. r[1] = m OBVIOUS
<1>8. r \in [1..n + 1 -> S] BY <1>6, <1>7
<1>9. ASSUME NEW i \in 1..n + 1, NEW j \in 1..n + 1, i < j PROVE r[i] < r[j]
  <2>1. j # 1 BY <1>9
  <2>2. CASE i = 1
    <3>1. r[j] \in T BY <2>1, <1>6
    <3>2. r[j] \in S /\ r[j] # m BY <3>1
    <3>3. m \in Nat /\ r[j] \in Nat /\ m <= r[j] BY <3>2, <1>2
    <3> HIDE DEF r, T
    <3> QED BY <3>2, <3>3, <2>2, <1>7
  <2>3. CASE i # 1 BY <2>1, <2>3, <1>5, <1>6, <1>9
  <2> QED BY <2>2, <2>3
<1> HIDE DEF r
<1> QED BY <1>8, <1>9 DEF Ordering

(* The size of a smallest set without an order is not zero, and no         *)
(* successor either.                                                       *)
LEMMA AllOrderable == \A n \in Nat : Orderable(n)
<1> SUFFICES ASSUME {n \in Nat : ~Orderable(n)} # {} PROVE FALSE OBVIOUS
<1>1. PICK m \in {n \in Nat : ~Orderable(n)} : \A n \in {n \in Nat : ~Orderable(n)} : m <= n
  BY LeastNat
<1>2. Orderable(0)
  <2> SUFFICES ASSUME NEW S \in SUBSET Nat, IsFiniteSet(S), Cardinality(S) = 0
               PROVE  \E s : Ordering(s, S)
    BY DEF Orderable
  <2>1. Ordering([i \in 1..0 |-> i], S) BY DEF Ordering
  <2> QED BY <2>1
<1>3. m # 0 BY <1>1, <1>2
<1>4. m - 1 \in Nat /\ (m - 1) + 1 = m BY <1>1, <1>3
<1>5. Orderable(m - 1) BY <1>1, <1>4
<1>6. Orderable(m) BY <1>4, <1>5, OrderMore
<1> QED BY <1>1, <1>6

(* InOrder goes through a set of tasks, each of them once.                 *)
LEMMA InOrderOrders ==
  ASSUME NEW S \in SUBSET Task
  PROVE  /\ Cardinality(S) \in Nat
         /\ InOrder(S) \in [1..Cardinality(S) -> S]
         /\ \A i, j \in 1..Cardinality(S) : i # j => InOrder(S)[i] # InOrder(S)[j]
         /\ \A t \in S : \E i \in 1..Cardinality(S) : InOrder(S)[i] = t
<1>1. IsFiniteSet(S) /\ S \in SUBSET Nat BY PlanAssumption, FS_Subset
<1>2. Cardinality(S) \in Nat BY <1>1, FS_CardinalityType
<1>3. PICK s : Ordering(s, S) BY <1>1, <1>2, AllOrderable DEF Orderable
<1>4. Ordering(InOrder(S), S)
  <2>1. /\ s \in [1..Cardinality(S) -> S]
        /\ \A i, j \in DOMAIN s : i < j => s[i] < s[j]
    BY <1>3 DEF Ordering
  <2>2. /\ InOrder(S) \in [1..Cardinality(S) -> S]
        /\ \A i, j \in DOMAIN InOrder(S) : i < j => InOrder(S)[i] < InOrder(S)[j]
    BY <2>1 DEF InOrder
  <2> QED BY <2>2 DEF Ordering
<1> DEFINE s0 == InOrder(S)
           n == Cardinality(S)
<1>5. s0 \in [1..n -> S] /\ \A i, j \in 1..n : i < j => s0[i] < s0[j] BY <1>4 DEF Ordering
<1>6. ASSUME NEW i \in 1..n, NEW j \in 1..n, i # j PROVE s0[i] # s0[j]
  <2>1. s0[i] \in Nat /\ s0[j] \in Nat BY <1>1, <1>5
  <2>2. i < j \/ j < i BY <1>2, <1>6
  <2> QED BY <2>1, <2>2, <1>5
<1>7. \A t \in S : \E i \in 1..n : s0[i] = t
  <2> DEFINE T == {s0[i] : i \in 1..n}
  <2>1. s0 \in Surjection(1..n, T) BY <1>5 DEF Surjection
  <2>2. s0 \in Injection(1..n, T)
    <3>1. s0 \in [1..n -> T] BY <1>5
    <3> HIDE DEF s0, T, n
    <3> QED BY <3>1, <1>6 DEF Injection, IsInjective
  <2>3. IsFiniteSet(1..n) /\ Cardinality(1..n) = n BY <1>2, FS_Interval
  <2>4. Cardinality(T) = n BY <2>1, <2>2, <2>3, FS_Surjection
  <2>5. T \subseteq S BY <1>5
  <2>6. S = T BY <1>1, <2>4, <2>5, FS_Subset
  <2> QED BY <2>6
<1> QED BY <1>2, <1>5, <1>6, <1>7

(* The task to start first exists, whatever set of tasks may be started.   *)
LEMMA FirstIsOne ==
  ASSUME NEW S \in SUBSET Task, S # {}
  PROVE  First(S) \in S
<1> DEFINE Ranks == {n \in Nat : \E t \in S : Rank[t] = n}
<1>1. \A t \in S : t \in Nat /\ Rank[t] \in Nat BY PlanAssumption
<1>2. Ranks # {} /\ Ranks \in SUBSET Nat BY <1>1
<1>3. PICK r \in Ranks : \A n \in Ranks : r <= n BY <1>2, LeastNat
<1> DEFINE Best == {t \in S : Rank[t] = r}
<1>4. Best # {} /\ Best \in SUBSET Nat BY <1>1, <1>3
<1>5. PICK t \in Best : \A s \in Best : t <= s BY <1>4, LeastNat
<1>6. ASSUME NEW s \in S PROVE Rank[t] < Rank[s] \/ (Rank[t] = Rank[s] /\ t <= s)
  <2>1. Rank[s] \in Ranks /\ Rank[t] = r /\ r \in Nat /\ Rank[s] \in Nat BY <1>1, <1>3, <1>5
  <2>2. r <= Rank[s] BY <2>1, <1>3
  <2>3. CASE r = Rank[s] BY <2>3, <2>1, <1>5
  <2>4. CASE r # Rank[s] BY <2>4, <2>1, <2>2
  <2> QED BY <2>3, <2>4
<1> HIDE DEF Ranks, Best
<1>7. \E x \in S : \A s \in S : Rank[x] < Rank[s] \/ (Rank[x] = Rank[s] /\ x <= s)
  BY <1>5, <1>6 DEF Best
<1> QED BY <1>7 DEF First

(* What a unit claims is one of its own tasks: one it holds, or one it may *)
(* start.                                                                  *)
LEMMA TargetIsOne ==
  ASSUME NEW p \in Plan, NEW u, ~NothingFor(p, u)
  PROVE  /\ Resumes(p, u) => Target(p, u) \in Held(p, u)
         /\ ~Resumes(p, u) => Target(p, u) \in Eligible(p, u)
         /\ Target(p, u) \in Task /\ Owner[Target(p, u)] = u
<1>1. Held(p, u) \in SUBSET Task /\ Eligible(p, u) \in SUBSET Task BY DEF Held, Eligible, In
<1>2. CASE Resumes(p, u)
  <2>1. Held(p, u) # {} /\ Held(p, u) \in SUBSET Nat BY <1>1, <1>2, PlanAssumption DEF Resumes
  <2>2. \E t \in Held(p, u) : \A s \in Held(p, u) : t <= s BY <2>1, LeastNat
  <2>3. Target(p, u) \in Held(p, u) BY <1>2, <2>2 DEF Target
  <2> QED BY <1>1, <1>2, <2>3 DEF Held
<1>3. CASE ~Resumes(p, u)
  <2>1. Eligible(p, u) # {} BY <1>3 DEF Resumes, NothingFor
  <2>2. First(Eligible(p, u)) \in Eligible(p, u) BY <1>1, <2>1, FirstIsOne
  <2>3. Target(p, u) \in Eligible(p, u) BY <1>3, <2>2 DEF Target
  <2> QED BY <1>1, <1>3, <2>3 DEF Eligible
<1> QED BY <1>2, <1>3

LEMMA FiledFacts ==
  ASSUME files \in Seq(Report), NEW i \in 1..Len(files)
  PROVE  /\ files[i] \in Report
         /\ Filed(files[i])[1] \in 0..1 /\ Filed(files[i])[2] = files[i].task
         /\ files[i].task \in Nat
<1> DEFINE r == files[i]
<1>1. r \in Report OBVIOUS
<1> HIDE DEF r
<1>2. r.task \in Nat BY <1>1, PlanAssumption DEF Report
<1>3. CASE r.status = "unreported" BY <1>1, <1>2, <1>3 DEF Filed, r
<1>4. CASE r.status # "unreported" BY <1>1, <1>2, <1>4 DEF Filed, r
<1> QED BY <1>3, <1>4

(* The file taken next is one that was listed, and is the only such.       *)
LEMMA TurnIsOne ==
  ASSUME files \in Seq(Report), left \in 0..Len(files), left > 0
  PROVE  /\ Turn \in 1..left
         /\ \A j \in 1..left : Sooner(Turn, j)
<1> DEFINE a(i) == Filed(files[i])[1]
           b(i) == Filed(files[i])[2]
<1>1. \A i \in 1..left : a(i) \in Nat /\ b(i) \in Nat BY FiledFacts
<1>0. \A i, j \in 1..left : Sooner(i, j) <=> a(i) < a(j) \/ (a(i) = a(j) /\ (b(i) < b(j) \/ (b(i) = b(j) /\ i <= j)))
  BY DEF Sooner
<1> HIDE DEF a, b
<1> DEFINE A == {n \in Nat : \E i \in 1..left : a(i) = n}
<1>2. A # {} /\ A \in SUBSET Nat BY <1>1
<1>3. PICK x \in A : \A n \in A : x <= n BY <1>2, LeastNat
<1> DEFINE B == {n \in Nat : \E i \in 1..left : a(i) = x /\ b(i) = n}
<1>4. B # {} /\ B \in SUBSET Nat BY <1>1, <1>3
<1>5. PICK y \in B : \A n \in B : y <= n BY <1>4, LeastNat
<1> DEFINE C == {i \in 1..left : a(i) = x /\ b(i) = y}
<1>6. C # {} /\ C \in SUBSET Nat BY <1>5
<1>7. PICK i \in C : \A n \in C : i <= n BY <1>6, LeastNat
<1>8. ASSUME NEW j \in 1..left
      PROVE  a(i) < a(j) \/ (a(i) = a(j) /\ (b(i) < b(j) \/ (b(i) = b(j) /\ i <= j)))
  <2>1. a(j) \in A /\ a(i) = x /\ b(i) = y /\ x \in Nat /\ y \in Nat /\ a(j) \in Nat /\ b(j) \in Nat
    BY <1>1, <1>3, <1>5, <1>7
  <2>2. x <= a(j) BY <2>1, <1>3
  <2>3. CASE x = a(j)
    <3>1. b(j) \in B BY <2>3, <2>1
    <3>2. y <= b(j) BY <3>1, <1>5
    <3>3. CASE y = b(j) BY <3>3, <2>3, <2>1, <1>7
    <3>4. CASE y # b(j) BY <3>4, <3>2, <2>3, <2>1
    <3> QED BY <3>3, <3>4
  <2>4. CASE x # a(j) BY <2>1, <2>2, <2>4
  <2> QED BY <2>3, <2>4
<1>9. \E k \in 1..left : \A j \in 1..left : Sooner(k, j) BY <1>0, <1>7, <1>8
<1> QED BY <1>9 DEF Turn

-----------------------------------------------------------------------------
(* Sequences.                                                              *)
LEMMA SeqFacts ==
  ASSUME NEW S, NEW s \in Seq(S)
  PROVE  /\ Len(s) \in Nat /\ DOMAIN s = 1..Len(s)
         /\ \A k \in 1..Len(s) : s[k] \in S
OBVIOUS

LEMMA SeqMade ==
  ASSUME NEW S, NEW n \in Nat, NEW s \in [1..n -> S]
  PROVE  s \in Seq(S) /\ Len(s) = n /\ DOMAIN s = 1..n
OBVIOUS

LEMMA ConcatFacts ==
  ASSUME NEW S, NEW s \in Seq(S), NEW r \in Seq(S)
  PROVE  /\ s \o r \in Seq(S) /\ Len(s \o r) = Len(s) + Len(r)
         /\ DOMAIN (s \o r) = 1..Len(s) + Len(r)
         /\ \A k \in 1..Len(s) : (s \o r)[k] = s[k]
         /\ \A k \in 1..Len(r) : (s \o r)[Len(s) + k] = r[k]
OBVIOUS

LEMMA RemoveAtFacts ==
  ASSUME NEW S, NEW s \in Seq(S), NEW i \in 1..Len(s)
  PROVE  /\ RemoveAt(s, i) \in Seq(S) /\ Len(RemoveAt(s, i)) = Len(s) - 1
         /\ DOMAIN RemoveAt(s, i) = 1..Len(s) - 1
         /\ \A k \in 1..Len(s) - 1 : RemoveAt(s, i)[k] = IF k < i THEN s[k] ELSE s[k + 1]
<1> DEFINE a == SubSeq(s, 1, i - 1)
           b == SubSeq(s, i + 1, Len(s))
<1>1. a \in Seq(S) /\ Len(a) = i - 1 /\ \A k \in 1..i - 1 : a[k] = s[k] OBVIOUS
<1>2. b \in Seq(S) /\ Len(b) = Len(s) - i /\ \A k \in 1..Len(s) - i : b[k] = s[k + i] OBVIOUS
<1>3. RemoveAt(s, i) = a \o b BY DEF RemoveAt
<1> HIDE DEF a, b
<1>4. a \o b \in Seq(S) /\ Len(a \o b) = Len(s) - 1 /\ DOMAIN (a \o b) = 1..Len(s) - 1
  <2>1. Len(a) + Len(b) = Len(s) - 1 BY <1>1, <1>2
  <2>2. /\ a \o b \in Seq(S) /\ Len(a \o b) = Len(a) + Len(b)
        /\ DOMAIN (a \o b) = 1..Len(a) + Len(b)
    BY <1>1, <1>2, ConcatFacts, ZenonT(30)
  <2> QED BY <2>1, <2>2
<1>5. ASSUME NEW k \in 1..Len(s) - 1 PROVE (a \o b)[k] = IF k < i THEN s[k] ELSE s[k + 1]
  <2>1. CASE k < i
    <3>1. k \in 1..i - 1 BY <2>1
    <3>2. (a \o b)[k] = a[k] BY <3>1, <1>1, <1>2
    <3> QED BY <3>1, <3>2, <2>1, <1>1
  <2>2. CASE ~(k < i)
    <3>1. k - (i - 1) \in 1..Len(s) - i BY <2>2
    <3>2. (a \o b)[k] = b[k - (i - 1)] BY <3>1, <1>1, <1>2, <2>2
    <3>3. b[k - (i - 1)] = s[(k - (i - 1)) + i] BY <3>1, <1>2
    <3>4. (k - (i - 1)) + i = k + 1 OBVIOUS
    <3> QED BY <3>2, <3>3, <3>4, <2>2
  <2> QED BY <2>1, <2>2
<1> QED BY <1>3, <1>4, <1>5

LEMMA AppendFacts ==
  ASSUME NEW S, NEW s \in Seq(S), NEW e \in S
  PROVE  /\ Append(s, e) \in Seq(S) /\ Len(Append(s, e)) = Len(s) + 1
         /\ DOMAIN Append(s, e) = 1..Len(s) + 1
         /\ \A k \in 1..Len(s) : Append(s, e)[k] = s[k]
         /\ Append(s, e)[Len(s) + 1] = e
OBVIOUS

LEMMA TailFacts ==
  ASSUME NEW S, NEW s \in Seq(S), s # <<>>
  PROVE  /\ Tail(s) \in Seq(S) /\ Len(Tail(s)) = Len(s) - 1 /\ Len(s) > 0
         /\ DOMAIN Tail(s) = 1..Len(s) - 1
         /\ \A k \in 1..Len(s) - 1 : Tail(s)[k] = s[k + 1]
         /\ Head(s) = s[1] /\ s[1] \in S
OBVIOUS

-----------------------------------------------------------------------------
(* The log.                                                                *)
Falling(log) == \A i, j \in DOMAIN log : i < j => log[j] <= log[i]

(* The dispatches of the last hour are the end of the log.                 *)
LEMMA PrunedFacts ==
  ASSUME NEW log \in Seq(0..Hour - 1), Falling(log)
  PROVE  /\ Pruned(log) \in Seq(0..Hour - 1) /\ Falling(Pruned(log))
         /\ Len(Pruned(log)) <= Len(log)
<1> DEFINE gone == {i \in DOMAIN log : log[i] + 1 >= Hour}
           c == Cardinality(gone)
           n == Len(log)
<1>1. Hour \in Nat \ {0} BY AutopilotAssumption
<1>2. n \in Nat /\ DOMAIN log = 1..n /\ \A i \in 1..n : log[i] \in 0..Hour - 1 BY SeqFacts
<1>3. IsFiniteSet(1..n) /\ Cardinality(1..n) = n BY <1>2, FS_Interval
<1>4. gone \in SUBSET (1..n) BY <1>2
<1>5. c \in Nat /\ c <= n /\ IsFiniteSet(gone) BY <1>3, <1>4, FS_Subset, FS_CardinalityType
<1>6. ASSUME NEW i \in 1..n, i > c PROVE log[i] + 1 \in 0..Hour - 1
  <2> SUFFICES ASSUME i \in gone PROVE FALSE BY <1>1, <1>2
  <2>1. ASSUME NEW j \in 1..i PROVE j \in gone
    <3>1. j \in 1..n /\ log[j] \in 0..Hour - 1 /\ log[i] \in 0..Hour - 1 BY <1>2
    <3>2. log[i] <= log[j] BY <3>1, <1>2 DEF Falling
    <3> QED BY <3>1, <3>2, <1>1, <1>2
  <2>2. (1..i) \in SUBSET gone BY <2>1
  <2>3. Cardinality(1..i) = i BY <1>6, FS_Interval
  <2>4. i <= c BY <2>2, <2>3, <1>5, FS_Subset
  <2> QED BY <2>4, <1>5, <1>6
<1> HIDE DEF gone, c, n
<1> DEFINE q == [i \in 1..n - c |-> log[i + c] + 1]
<1>7. Pruned(log) = q BY DEF Pruned, gone, c, n
<1>8. ASSUME NEW i \in 1..n - c PROVE i + c \in 1..n /\ i + c > c /\ q[i] = log[i + c] + 1 /\ q[i] \in 0..Hour - 1
  BY <1>5, <1>2, <1>6
<1>9. q \in Seq(0..Hour - 1) /\ Len(q) = n - c /\ DOMAIN q = 1..n - c
  <2>1. n - c \in Nat BY <1>2, <1>5
  <2>2. q \in [1..n - c -> 0..Hour - 1] BY <1>8
  <2> HIDE DEF q
  <2> QED BY <2>1, <2>2, SeqMade
<1>10. ASSUME NEW i \in 1..n - c, NEW j \in 1..n - c, i < j PROVE q[j] <= q[i]
  <2>1. log[j + c] <= log[i + c] BY <1>2, <1>5, <1>8, <1>10 DEF Falling
  <2> QED BY <2>1, <1>2, <1>8
<1> HIDE DEF q
<1>11. Falling(q) BY <1>9, <1>10 DEF Falling
<1> QED BY <1>7, <1>9, <1>11, <1>2, <1>5 DEF n

LEMMA FallingAppend ==
  ASSUME NEW log \in Seq(0..Hour - 1), Falling(log)
  PROVE  Append(log, 0) \in Seq(0..Hour - 1) /\ Falling(Append(log, 0))
<1>1. Hour \in Nat \ {0} BY AutopilotAssumption
<1>2. Append(log, 0) \in Seq(0..Hour - 1) BY <1>1
<1> QED BY <1>1, <1>2 DEF Falling

-----------------------------------------------------------------------------
(* The edits of PLAN.md.                                                   *)
LEMMA SetFieldsFacts ==
  ASSUME NEW p \in Plan, NEW t \in Task, NEW e \in Entry
  PROVE  /\ SetFields(p, t, e) \in Plan
         /\ SetFields(p, t, e)[t].status = e.status
         /\ SetFields(p, t, e)[t].reason = e.reason
         /\ SetFields(p, t, e)[t].branch = e.branch
         /\ SetFields(p, t, e)[t].evidence = e.evidence
         /\ \A s \in Task : s # t => SetFields(p, t, e)[s] = p[s]
<1>1. 0 \in 0..Expiry + 1 BY PlanAssumption
<1> DEFINE f == [e EXCEPT !.age = 0]
<1>2. /\ f \in Entry /\ f.status = e.status /\ f.reason = e.reason
      /\ f.branch = e.branch /\ f.evidence = e.evidence
  BY <1>1 DEF Entry
<1>3. SetFields(p, t, e) = [p EXCEPT ![t] = f] BY DEF SetFields
<1> HIDE DEF f
<1> QED BY <1>2, <1>3 DEF Plan

LEMMA ClaimedFacts ==
  ASSUME NEW p \in Plan, NEW t \in Task
  PROVE  /\ Claimed(p, t) \in Plan
         /\ Claimed(p, t)[t].status = "claimed" /\ Claimed(p, t)[t].branch
         /\ Claimed(p, t)[t].evidence = p[t].evidence /\ Claimed(p, t)[t].reason = p[t].reason
         /\ \A s \in Task : s # t => Claimed(p, t)[s] = p[s]
<1> DEFINE e == [p[t] EXCEPT !.status = "claimed", !.branch = TRUE]
<1>1. p[t] \in Entry BY DEF Plan
<1>2. /\ e \in Entry /\ e.status = "claimed" /\ e.branch
      /\ e.evidence = p[t].evidence /\ e.reason = p[t].reason
  BY <1>1 DEF Entry, Status
<1>3. Claimed(p, t) = SetFields(p, t, e) BY DEF Claimed
<1> HIDE DEF e
<1> QED BY <1>2, <1>3, SetFieldsFacts

LEMMA AnsweredFacts ==
  ASSUME NEW p \in Plan, NEW t \in Task
  PROVE  /\ Answered(p, t) \in Plan
         /\ p[t].status = "blocked" =>
              Answered(p, t)[t].status = "pending" /\ Answered(p, t)[t].reason = NoReason
         /\ p[t].status # "blocked" =>
              Answered(p, t)[t].status = p[t].status /\ Answered(p, t)[t].reason = p[t].reason
         /\ Answered(p, t)[t].branch = p[t].branch /\ Answered(p, t)[t].evidence = p[t].evidence
         /\ \A s \in Task : s # t => Answered(p, t)[s] = p[s]
<1>1. p[t] \in Entry BY DEF Plan
<1>2. CASE p[t].status = "blocked"
  <2> DEFINE e == [p[t] EXCEPT !.status = "pending", !.reason = NoReason]
  <2>1. /\ e \in Entry /\ e.status = "pending" /\ e.reason = NoReason
        /\ e.evidence = p[t].evidence /\ e.branch = p[t].branch
    BY <1>1 DEF Entry, Status
  <2>2. Answered(p, t) = SetFields(p, t, e) BY <1>2 DEF Answered
  <2> HIDE DEF e
  <2> QED BY <1>2, <2>1, <2>2, SetFieldsFacts
<1>3. CASE p[t].status # "blocked"
  <2>1. Answered(p, t) = SetFields(p, t, p[t]) BY <1>3 DEF Answered
  <2> QED BY <1>1, <1>3, <2>1, SetFieldsFacts
<1> QED BY <1>2, <1>3

LEMMA ReworkedFacts ==
  ASSUME NEW p \in Plan, NEW t \in Task
  PROVE  /\ Reworked(p, t) \in Plan
         /\ Reworked(p, t)[t].reason = p[t].reason
         /\ \A s \in Task : s # t => Reworked(p, t)[s] = p[s]
<1> DEFINE e == [p[t] EXCEPT !.status = "in_progress"]
<1>1. p[t] \in Entry BY DEF Plan
<1>2. e \in Entry /\ e.reason = p[t].reason BY <1>1 DEF Entry, Status
<1>3. Reworked(p, t) = SetFields(p, t, e) BY DEF Reworked
<1> HIDE DEF e
<1> QED BY <1>2, <1>3, SetFieldsFacts

LEMMA ReportedFacts ==
  ASSUME NEW p \in Plan, NEW r \in Report, r.status \in {"in_progress", "needs_review", "blocked"}
  PROVE  /\ Reported(p, r) \in Plan /\ r.task \in Task
         /\ Reported(p, r)[r.task].branch = p[r.task].branch
         /\ \A s \in Task : s # r.task => Reported(p, r)[s] = p[s]
         /\ r.status = "in_progress" =>
              /\ Reported(p, r)[r.task].status = p[r.task].status
              /\ Reported(p, r)[r.task].reason = p[r.task].reason
              /\ Reported(p, r)[r.task].evidence = p[r.task].evidence
         /\ r.status = "needs_review" =>
              /\ Reported(p, r)[r.task].status = "needs_review"
              /\ Reported(p, r)[r.task].evidence
         /\ r.status = "blocked" =>
              /\ Reported(p, r)[r.task].status = "blocked"
              /\ Reported(p, r)[r.task].reason = r.reason
<1> DEFINE t == r.task
<1>1. t \in Task /\ p[t] \in Entry /\ r.reason \in Reason \cup {NoReason} BY DEF Plan, Report
<1>2. CASE r.status = "in_progress"
  <2>1. Reported(p, r) = SetFields(p, t, p[t]) BY <1>2 DEF Reported
  <2> QED BY <1>1, <1>2, <2>1, SetFieldsFacts
<1>3. CASE r.status = "needs_review"
  <2> DEFINE e == [p[t] EXCEPT !.status = "needs_review", !.evidence = TRUE]
  <2>1. e \in Entry /\ e.status = "needs_review" /\ e.evidence /\ e.branch = p[t].branch
    BY <1>1 DEF Entry, Status
  <2>2. Reported(p, r) = SetFields(p, t, e) BY <1>3 DEF Reported
  <2> HIDE DEF e
  <2> QED BY <1>1, <1>3, <2>1, <2>2, SetFieldsFacts
<1>4. CASE r.status = "blocked"
  <2> DEFINE e == [p[t] EXCEPT !.status = "blocked", !.reason = r.reason]
  <2>1. e \in Entry /\ e.status = "blocked" /\ e.reason = r.reason /\ e.branch = p[t].branch
    BY <1>1 DEF Entry, Status
  <2>2. Reported(p, r) = SetFields(p, t, e) BY <1>4 DEF Reported
  <2> HIDE DEF e
  <2> QED BY <1>1, <1>4, <2>1, <2>2, SetFieldsFacts
<1> QED BY <1>2, <1>3, <1>4

LEMMA AgedFacts ==
  ASSUME NEW p \in Plan
  PROVE  /\ Aged(p) \in Plan
         /\ \A t \in Task : /\ Aged(p)[t].status = p[t].status
                            /\ Aged(p)[t].reason = p[t].reason
                            /\ Aged(p)[t].branch = p[t].branch
                            /\ Aged(p)[t].evidence = p[t].evidence
<1>1. \A n \in 0..Expiry + 1 : Older(n) \in 0..Expiry + 1 BY PlanAssumption DEF Older
<1>2. ASSUME NEW t \in Task
      PROVE  /\ Aged(p)[t] \in Entry
             /\ Aged(p)[t].status = p[t].status /\ Aged(p)[t].reason = p[t].reason
             /\ Aged(p)[t].branch = p[t].branch /\ Aged(p)[t].evidence = p[t].evidence
  <2>1. p[t] \in Entry BY DEF Plan
  <2> DEFINE e == [p[t] EXCEPT !.age = Older(@)]
  <2>2. /\ e \in Entry /\ e.status = p[t].status /\ e.reason = p[t].reason
        /\ e.branch = p[t].branch /\ e.evidence = p[t].evidence
    BY <1>1, <2>1 DEF Entry
  <2>3. Aged(p)[t] = IF p[t].status \in {"claimed", "in_progress"} THEN e ELSE p[t] BY DEF Aged
  <2> HIDE DEF e
  <2> QED BY <2>1, <2>2, <2>3
<1>3. Aged(p) = [t \in Task |-> Aged(p)[t]] BY DEF Aged
<1> QED BY <1>2, <1>3 DEF Plan

LEMMA JudgedFacts ==
  ASSUME work \in Plan, NEW S \in SUBSET Task, NEW verdict \in [S -> {"done", "in_progress"}]
  PROVE  /\ Judged(S, verdict) \in Plan
         /\ \A t \in S : /\ Judged(S, verdict)[t].status = verdict[t]
                         /\ Judged(S, verdict)[t].reason = work[t].reason
                         /\ Judged(S, verdict)[t].branch = work[t].branch
                         /\ Judged(S, verdict)[t].evidence = work[t].evidence
         /\ \A t \in Task \ S : Judged(S, verdict)[t] = work[t]
<1>1. 0 \in 0..Expiry + 1 BY PlanAssumption
<1>2. ASSUME NEW t \in S
      PROVE  /\ Judged(S, verdict)[t] \in Entry
             /\ Judged(S, verdict)[t].status = verdict[t]
             /\ Judged(S, verdict)[t].reason = work[t].reason
             /\ Judged(S, verdict)[t].branch = work[t].branch
             /\ Judged(S, verdict)[t].evidence = work[t].evidence
  <2>1. work[t] \in Entry /\ verdict[t] \in Status BY DEF Plan, Status
  <2> DEFINE e == [work[t] EXCEPT !.status = verdict[t], !.age = 0]
  <2>2. /\ e \in Entry /\ e.status = verdict[t] /\ e.reason = work[t].reason
        /\ e.branch = work[t].branch /\ e.evidence = work[t].evidence
    BY <1>1, <2>1 DEF Entry
  <2>3. Judged(S, verdict)[t] = e BY DEF Judged
  <2> HIDE DEF e
  <2> QED BY <2>2, <2>3
<1>3. \A t \in Task \ S : Judged(S, verdict)[t] = work[t] BY DEF Judged
<1>4. Judged(S, verdict) = [t \in Task |-> Judged(S, verdict)[t]] BY DEF Judged
<1>5. \A t \in Task : Judged(S, verdict)[t] \in Entry BY <1>2, <1>3 DEF Plan
<1> QED BY <1>2, <1>3, <1>4, <1>5 DEF Plan

-----------------------------------------------------------------------------
(* What TypeOK rests on. The invariant is a conjunction of what the board, *)
(* the memory, the queues, the list of the tick and the budget are like.   *)
DeedRec == [do: Deed, task: Task \cup {Nothing}]
Launch == {"redispatch", "dispatch"}
Judge == {"review", "approve"}
Ender == {"freeze", "illegal", "stop", "digest"}
Does(D) == {i \in DOMAIN todo : todo[i].do \in D}
Launching == {u \in Unit : \E i \in Does({"dispatch"}) : Owner[todo[i].task] = u}

PlansOK == head \in Plan /\ work \in Plan

MemsOK ==
  /\ mem \in Memory /\ saved \in Memory
  /\ Falling(mem.log) /\ Falling(saved.log)

QueuesOK ==
  /\ files \in Seq(Report) /\ left \in 0..Len(files)
  /\ phase = "archive" => left > 0
  /\ inbox \in Seq(Command)
  /\ \A i \in DOMAIN inbox : inbox[i].cmd \in {"answer", "approve", "rework"} => inbox[i].task \in Task

RestOK ==
  /\ phase \in Phase /\ halting \in BOOLEAN /\ stop \in BOOLEAN /\ wave \in BOOLEAN
  /\ runs \in Seq(Run)
  /\ "overlap" \notin Faults => \A i \in DOMAIN runs : runs[i].text = <<>>
  /\ exited \in [Unit -> Task \cup {Nothing}] /\ inflight \in [Unit -> Task \cup {Nothing}]
  /\ beat \in [Task -> 0..Expiry + 1]
  /\ sent \in 0..MaxSent /\ crashes \in 0..MaxCrash
  /\ heard \subseteq Task

(* A task is started again, or its conflict triaged, once in a tick.       *)
DeedOK(d) ==
  /\ d.do \notin {"illegal", "stop", "digest"} => d.task \in Task
  /\ d.do = "redispatch" => mem.stale[d.task] <= 1
  /\ d.do = "triage" /\ "overlap" \notin Faults
       /\ work[d.task].reason.term = "OWNERSHIP_CONFLICT" => mem.conflict[d.task] = 0

TodoOK ==
  /\ todo \in Seq(DeedRec)
  /\ \A i \in DOMAIN todo : DeedOK(todo[i])
  /\ \A i, j \in DOMAIN todo :
       i # j /\ todo[i].do = todo[j].do /\ todo[i].do \in {"redispatch", "triage", "dispatch"} =>
         todo[i].task # todo[j].task
  /\ \A i, j \in Does({"dispatch"}) : i # j => Owner[todo[i].task] # Owner[todo[j].task]
  /\ phase \in {"asleep", "halted", "down"} => todo = <<>>
  /\ phase # "acting" => \A i \in DOMAIN todo : todo[i].do = "approve"

BudgetOK ==
  /\ Len(mem.log) + Cardinality(Launching) < Ceiling + Cardinality(Unit)
  /\ Len(saved.log) < Ceiling + Cardinality(Unit)

TypeInv == PlansOK /\ MemsOK /\ QueuesOK /\ RestOK /\ TodoOK /\ BudgetOK

LEMMA TypeInvIsEnough == TypeInv => TypeOK
BY DEF TypeInv, PlansOK, MemsOK, QueuesOK, RestOK, TodoOK, TypeOK, DeedRec

LEMMA CeilingIsKept == TypeInv => CeilingNearlyKept
<1> SUFFICES ASSUME TypeInv PROVE CeilingNearlyKept OBVIOUS
<1>1. IsFiniteSet(Unit) /\ Launching \in SUBSET Unit BY PlanAssumption DEF Launching
<1>2. Cardinality(Launching) \in Nat /\ Cardinality(Unit) \in Nat
  BY <1>1, FS_Subset, FS_CardinalityType
<1>3. Len(mem.log) \in Nat BY SeqFacts DEF TypeInv, MemsOK, Memory
<1> QED BY <1>2, <1>3, AutopilotAssumption DEF TypeInv, BudgetOK, CeilingNearlyKept

LEMMA UnitCount ==
  /\ Cardinality(Unit) \in Nat /\ Cardinality(Unit) > 0
  /\ \A S \in SUBSET Unit : IsFiniteSet(S) /\ Cardinality(S) \in Nat /\ Cardinality(S) <= Cardinality(Unit)
BY PlanAssumption, FS_Subset, FS_CardinalityType, FS_EmptySet

LEMMA InitTypes == Init => TypeInv
<1> SUFFICES ASSUME Init PROVE TypeInv OBVIOUS
<1>1. Expiry \in Nat /\ Hour \in Nat \ {0} /\ MaxSent \in Nat /\ MaxCrash \in Nat /\ Ceiling \in Nat
  BY PlanAssumption, AutopilotAssumption
<1>2. PlansOK
  <2>1. NewPlan \in Plan BY <1>1 DEF NewPlan, Plan, Entry, Status
  <2> QED BY <2>1 DEF Init, PlansOK
<1>3. MemsOK
  <2>1. Fresh.log = <<>> /\ Fresh \in Memory BY <1>1 DEF Fresh, Memory
  <2>2. Falling(Fresh.log) BY <2>1 DEF Falling
  <2> QED BY <2>1, <2>2 DEF Init, MemsOK
<1>4. QueuesOK BY DEF Init, QueuesOK
<1>5. RestOK
  <2>1. exited = [u \in Unit |-> Nothing] /\ inflight = exited BY DEF Init
  <2>2. beat \in [Task -> 0..Expiry + 1] BY <1>1 DEF Init
  <2>3. runs \in Seq(Run) /\ \A i \in DOMAIN runs : runs[i].text = <<>> BY DEF Init
  <2>4. exited \in [Unit -> Task \cup {Nothing}] /\ inflight \in [Unit -> Task \cup {Nothing}] BY <2>1
  <2>5. sent \in 0..MaxSent /\ crashes \in 0..MaxCrash BY <1>1 DEF Init
  <2>6. /\ phase \in Phase /\ halting \in BOOLEAN /\ stop \in BOOLEAN /\ wave \in BOOLEAN /\ heard \subseteq Task
    BY DEF Init, Phase
  <2> QED BY <2>2, <2>3, <2>4, <2>5, <2>6 DEF RestOK
<1>6. TodoOK BY DEF Init, TodoOK, Does
<1>7. BudgetOK
  <2>1. Launching = {} BY DEF Init, Launching, Does
  <2>2. Len(mem.log) = 0 /\ Len(saved.log) = 0 BY DEF Init, Fresh
  <2> QED BY <2>1, <2>2, <1>1, UnitCount, FS_EmptySet DEF BudgetOK
<1> QED BY <1>2, <1>3, <1>4, <1>5, <1>6, <1>7 DEF TypeInv

-----------------------------------------------------------------------------
(* What is left alone keeps its type.                                      *)
LEMMA PlansStay == ASSUME PlansOK, UNCHANGED board PROVE PlansOK'
BY DEF PlansOK, board
LEMMA MemsStay == ASSUME MemsOK, UNCHANGED store PROVE MemsOK'
BY DEF MemsOK, store
LEMMA QueuesStay ==
  ASSUME QueuesOK, UNCHANGED <<files, left, inbox>>, phase' = "archive" => left > 0 PROVE QueuesOK'
BY DEF QueuesOK
LEMMA BudgetStays ==
  ASSUME BudgetOK, UNCHANGED <<todo, mem.log, saved.log>> PROVE BudgetOK'
BY DEF BudgetOK, Launching, Does

LEMMA TodoEmpties == ASSUME todo' = <<>> PROVE TodoOK'
BY DEF TodoOK, Does

LEMMA BudgetShrinks ==
  ASSUME BudgetOK, MemsOK, MemsOK', Len(mem'.log) <= Len(mem.log), Launching' \subseteq Launching,
         Len(saved'.log) < Ceiling + Cardinality(Unit)
  PROVE  BudgetOK'
<1>1. Launching \in SUBSET Unit BY DEF Launching
<1>2. Cardinality(Launching') <= Cardinality(Launching) /\ Cardinality(Launching') \in Nat /\ Cardinality(Launching) \in Nat
  BY <1>1, UnitCount, FS_Subset
<1>3. Len(mem.log) \in Nat /\ Len(mem'.log) \in Nat BY SeqFacts DEF MemsOK, Memory
<1> QED BY <1>2, <1>3, UnitCount, AutopilotAssumption DEF BudgetOK

(* A step that leaves the list of the tick, and what it is about, alone.   *)
LEMMA MuteFacts ==
  ASSUME NEW m \in Memory, NEW k \in 0..1, NEW n, n = [m EXCEPT !.mute = k]
  PROVE  n \in Memory /\ n.log = m.log /\ n.stale = m.stale /\ n.conflict = m.conflict
<1> DEFINE R == IF "overlap" \in Faults THEN Nat ELSE 0..1
           M == 0..1
<1>1. Memory = [rework: [Task -> Nat], stale: [Task -> 0..2], conflict: [Task -> R],
                unreported: [Task -> M], log: Seq(0..Hour - 1), mute: M]
  BY DEF Memory
<1>2. k \in M OBVIOUS
<1> HIDE DEF R, M
<1> QED BY <1>1, <1>2

LEMMA LogFacts ==
  ASSUME NEW m \in Memory, NEW l \in Seq(0..Hour - 1), NEW n, n = [m EXCEPT !.log = l]
  PROVE  /\ n \in Memory /\ n.log = l
         /\ n.stale = m.stale /\ n.conflict = m.conflict /\ n.mute = m.mute
<1> DEFINE R == IF "overlap" \in Faults THEN Nat ELSE 0..1
           L == Seq(0..Hour - 1)
<1>1. Memory = [rework: [Task -> Nat], stale: [Task -> 0..2], conflict: [Task -> R],
                unreported: [Task -> 0..1], log: L, mute: 0..1]
  BY DEF Memory
<1>2. l \in L OBVIOUS
<1> HIDE DEF R, L
<1> QED BY <1>1, <1>2

LEMMA LaterFacts ==
  ASSUME NEW m \in Memory, Falling(m.log)
  PROVE  /\ Later(m) \in Memory /\ Falling(Later(m).log) /\ Len(Later(m).log) <= Len(m.log)
         /\ Later(m).stale = m.stale /\ Later(m).conflict = m.conflict
<1> DEFINE l == Pruned(m.log)
<1>1. m.log \in Seq(0..Hour - 1) BY DEF Memory
<1>2. l \in Seq(0..Hour - 1) /\ Falling(l) /\ Len(l) <= Len(m.log) BY <1>1, PrunedFacts
<1>3. Later(m) = [m EXCEPT !.log = l, !.mute = 0] BY DEF Later
<1> HIDE DEF l
<1>4. Later(m) = [[m EXCEPT !.log = l] EXCEPT !.mute = 0] BY <1>3 DEF Memory
<1> DEFINE a == [m EXCEPT !.log = l]
<1>5. a \in Memory /\ a.log = l /\ a.stale = m.stale /\ a.conflict = m.conflict BY <1>2, LogFacts
<1> HIDE DEF a
<1>6. Later(m) = [a EXCEPT !.mute = 0] BY <1>4 DEF a
<1>7. 0 \in 0..1 OBVIOUS
<1> QED BY <1>2, <1>5, <1>6, <1>7, MuteFacts

LEMMA BumpRework ==
  ASSUME NEW m \in Memory, NEW t \in Task, NEW n, n = [m EXCEPT !["rework"][t] = @ + 1]
  PROVE  n \in Memory /\ n.log = m.log /\ n.stale = m.stale /\ n.conflict = m.conflict
<1> DEFINE f == [m.rework EXCEPT ![t] = @ + 1]
<1>1. f \in [Task -> Nat] BY DEF Memory
<1>2. n = [m EXCEPT !.rework = f] OBVIOUS
<1> HIDE DEF f
<1>3. n \in Memory BY <1>1, <1>2 DEF Memory
<1>4. n.log = m.log /\ n.stale = m.stale /\ n.conflict = m.conflict BY <1>2 DEF Memory
<1> QED BY <1>3, <1>4

LEMMA BumpStale ==
  ASSUME NEW m \in Memory, NEW t \in Task, NEW n, n = [m EXCEPT !["stale"][t] = @ + 1], m.stale[t] <= 1
  PROVE  /\ n \in Memory /\ n.log = m.log /\ n.conflict = m.conflict
         /\ \A s \in Task : s # t => n.stale[s] = m.stale[s]
<1> DEFINE f == [m.stale EXCEPT ![t] = @ + 1]
<1>1. m.stale \in [Task -> 0..2] BY DEF Memory
<1>2. m.stale[t] \in 0..1 BY <1>1
<1>3. f \in [Task -> 0..2] /\ \A s \in Task : s # t => f[s] = m.stale[s] BY <1>1, <1>2
<1>4. n = [m EXCEPT !.stale = f] OBVIOUS
<1> HIDE DEF f
<1>5. n.stale = f BY <1>4 DEF Memory
<1> QED BY <1>3, <1>4, <1>5 DEF Memory

LEMMA BumpConflict ==
  ASSUME NEW m \in Memory, NEW t \in Task, NEW n, n = [m EXCEPT !["conflict"][t] = @ + 1],
         "overlap" \notin Faults => m.conflict[t] = 0
  PROVE  /\ n \in Memory /\ n.log = m.log /\ n.stale = m.stale
         /\ \A s \in Task : s # t => n.conflict[s] = m.conflict[s]
<1> DEFINE f == [m.conflict EXCEPT ![t] = @ + 1]
           R == IF "overlap" \in Faults THEN Nat ELSE 0..1
<1>1. m.conflict \in [Task -> R] BY DEF Memory
<1>2. m.conflict[t] + 1 \in R
  <2>1. CASE "overlap" \in Faults BY <1>1, <2>1
  <2>2. CASE "overlap" \notin Faults BY <2>2
  <2> QED BY <2>1, <2>2
<1> HIDE DEF R
<1>3. f \in [Task -> R] /\ \A s \in Task : s # t => f[s] = m.conflict[s] BY <1>1, <1>2
<1>4. n = [m EXCEPT !.conflict = f] OBVIOUS
<1> HIDE DEF f
<1>5. n.conflict = f BY <1>4 DEF Memory
<1>6. n \in Memory /\ n.log = m.log /\ n.stale = m.stale
  BY <1>3, <1>4 DEF Memory, R
<1> QED BY <1>3, <1>5, <1>6

LEMMA BumpUnreported ==
  ASSUME NEW m \in Memory, NEW t \in Task, NEW n, NEW k \in 0..1, n = [m EXCEPT !["unreported"][t] = k]
  PROVE  n \in Memory /\ n.log = m.log /\ n.stale = m.stale /\ n.conflict = m.conflict
BY DEF Memory

LEMMA TickTypes == ASSUME TypeInv, Tick PROVE TypeInv'
<1> USE DEF TypeInv
<1>1. todo = <<>> /\ todo' = <<>> BY DEF TodoOK, Tick
<1>2. Launching' \subseteq Launching BY <1>1 DEF Launching, Does
<1>3. RestOK' /\ QueuesOK'
  <2>1. QueuesOK' BY DEF QueuesOK, Tick
  <2>2. heard' \subseteq Task BY DEF RestOK, Tick, Notified
  <2>3. beat' \in [Task -> 0..Expiry + 1]
    <3>1. \A n \in 0..Expiry + 1 : Older(n) \in 0..Expiry + 1 /\ 0 \in 0..Expiry + 1 BY PlanAssumption DEF Older
    <3>2. CASE wave BY <3>2 DEF Tick, RestOK
    <3>3. CASE ~wave
      <4>1. PICK idle \in SUBSET Task : beat' = [t \in Task |-> IF Working(t) /\ t \notin idle THEN 0 ELSE Older(beat[t])]
        BY <3>3 DEF Tick, Elapse
      <4> QED BY <3>1, <4>1 DEF RestOK
    <3> QED BY <3>2, <3>3 DEF RestOK
  <2>4. exited' \in [Unit -> Task \cup {Nothing}] BY DEF Tick
  <2> QED BY <2>1, <2>2, <2>3, <2>4 DEF RestOK, Tick, Phase
<1>4. CASE wave
  <2>1. UNCHANGED board /\ UNCHANGED store BY <1>4 DEF Tick
  <2>2. PlansOK' /\ MemsOK' BY <2>1, PlansStay, MemsStay
  <2>3. BudgetOK' BY <1>1, <2>1, BudgetStays DEF store
  <2> QED BY <1>1, <1>3, <2>2, <2>3, TodoEmpties
<1>5. CASE ~wave
  <2>1. head' = Aged(head) /\ work' = Aged(work) /\ mem' = Later(mem) /\ saved' = Later(saved)
    BY <1>5 DEF Tick, Elapse
  <2>2. PlansOK' BY <2>1, AgedFacts DEF PlansOK
  <2>3. MemsOK' /\ Len(mem'.log) <= Len(mem.log) /\ Len(saved'.log) <= Len(saved.log)
    BY <2>1, LaterFacts DEF MemsOK
  <2>4. Len(saved'.log) < Ceiling + Cardinality(Unit)
    <3>1. Len(saved.log) \in Nat /\ Len(saved'.log) \in Nat BY <2>3, SeqFacts DEF MemsOK, Memory
    <3> QED BY <3>1, <2>3, UnitCount, AutopilotAssumption DEF BudgetOK
  <2>5. BudgetOK' BY <1>2, <2>3, <2>4, BudgetShrinks
  <2> QED BY <1>1, <1>3, <2>2, <2>3, <2>5, TodoEmpties
<1> QED BY <1>4, <1>5

-----------------------------------------------------------------------------
(* The first deed is done and gone; the counters of the others stay.       *)
LEMMA TodoPops ==
  ASSUME TodoOK, phase = "acting", UNCHANGED phase, todo # <<>>, todo' = Tail(todo),
         \A k \in 2..Len(todo) : todo[k].do = "redispatch" => mem'.stale[todo[k].task] = mem.stale[todo[k].task],
         \A k \in 2..Len(todo) :
           todo[k].do = "triage" /\ "overlap" \notin Faults
             /\ work'[todo[k].task].reason.term = "OWNERSHIP_CONFLICT" =>
               work'[todo[k].task].reason = work[todo[k].task].reason /\ mem'.conflict[todo[k].task] = mem.conflict[todo[k].task]
  PROVE  TodoOK' /\ Launching' \subseteq Launching
<1>1. todo \in Seq(DeedRec) BY DEF TodoOK
<1>2. /\ todo' \in Seq(DeedRec) /\ DOMAIN todo' = 1..Len(todo) - 1
      /\ \A k \in 1..Len(todo) - 1 : todo'[k] = todo[k + 1]
  BY <1>1, TailFacts
<1>3. DOMAIN todo = 1..Len(todo) /\ Len(todo) \in Nat BY <1>1, SeqFacts
<1>4. \A k \in 1..Len(todo) - 1 : k + 1 \in 2..Len(todo) /\ k + 1 \in DOMAIN todo BY <1>3
<1>5. ASSUME NEW k \in DOMAIN todo' PROVE DeedOK(todo[k])'
  <2>1. todo'[k] = todo[k + 1] /\ k + 1 \in 2..Len(todo) /\ k + 1 \in DOMAIN todo BY <1>2, <1>4
  <2>2. DeedOK(todo[k + 1]) BY <2>1 DEF TodoOK
  <2> QED BY <2>1, <2>2 DEF DeedOK
<1>6. ASSUME NEW i \in DOMAIN todo', NEW j \in DOMAIN todo', i # j
      PROVE  /\ todo'[i].do = todo'[j].do /\ todo'[i].do \in {"redispatch", "triage", "dispatch"} =>
                  todo'[i].task # todo'[j].task
             /\ todo'[i].do = "dispatch" /\ todo'[j].do = "dispatch" => Owner[todo'[i].task] # Owner[todo'[j].task]
  <2>1. i + 1 # j + 1 /\ i + 1 \in DOMAIN todo /\ j + 1 \in DOMAIN todo BY <1>2, <1>4, <1>6
  <2>2. todo'[i] = todo[i + 1] /\ todo'[j] = todo[j + 1] BY <1>2
  <2> QED BY <2>1, <2>2 DEF TodoOK, Does
<1>7. TodoOK' BY <1>2, <1>5, <1>6 DEF TodoOK, Does
<1>8. Launching' \subseteq Launching
  <2> SUFFICES ASSUME NEW u \in Launching' PROVE u \in Launching OBVIOUS
  <2>1. PICK k \in DOMAIN todo' : u \in Unit /\ todo'[k].do = "dispatch" /\ Owner[todo'[k].task] = u
    BY DEF Launching, Does
  <2>2. k + 1 \in DOMAIN todo /\ todo'[k] = todo[k + 1] BY <1>2, <1>4
  <2> QED BY <2>1, <2>2 DEF Launching, Does
<1> QED BY <1>7, <1>8

LEMMA HeadFacts ==
  ASSUME TodoOK, todo # <<>>
  PROVE  /\ Head(todo) = todo[1] /\ 1 \in DOMAIN todo /\ Head(todo) \in DeedRec /\ DeedOK(Head(todo))
         /\ Len(todo) \in Nat /\ DOMAIN todo = 1..Len(todo)
         /\ \A k \in 2..Len(todo) : k \in DOMAIN todo /\ k # 1
<1>1. todo \in Seq(DeedRec) BY DEF TodoOK
<1>2. Len(todo) > 0 /\ Head(todo) = todo[1] /\ todo[1] \in DeedRec BY <1>1, TailFacts
<1>3. DOMAIN todo = 1..Len(todo) /\ Len(todo) \in Nat BY <1>1, SeqFacts
<1> QED BY <1>2, <1>3 DEF TodoOK

LEMMA BudgetPops ==
  ASSUME BudgetOK, MemsOK, MemsOK', mem'.log = mem.log, saved' = saved, Launching' \subseteq Launching
  PROVE  BudgetOK'
<1>1. Len(mem'.log) <= Len(mem.log) BY SeqFacts DEF MemsOK, Memory
<1> QED BY <1>1, BudgetShrinks DEF BudgetOK

LEMMA HaltTypes == ASSUME TypeInv, Halt PROVE TypeInv'
<1> USE DEF TypeInv
<1>1. todo # <<>> /\ todo' = Tail(todo) /\ phase = "acting" /\ UNCHANGED phase BY DEF Halt, Next1
<1>2. UNCHANGED <<board, store, files, left, inbox>> BY DEF Halt, others
<1>3. TodoOK' /\ Launching' \subseteq Launching BY <1>1, <1>2, TodoPops DEF board, store
<1>4. PlansOK' /\ MemsOK' /\ QueuesOK' BY <1>1, <1>2, PlansStay, MemsStay, QueuesStay
<1>5. BudgetOK' BY <1>2, <1>3, <1>4, BudgetPops DEF store
<1>6. RestOK' BY DEF Halt, RestOK, others
<1> QED BY <1>3, <1>4, <1>5, <1>6

LEMMA EscalateTypes == ASSUME TypeInv, Escalate PROVE TypeInv'
<1> USE DEF TypeInv
<1>1. todo # <<>> /\ todo' = Tail(todo) /\ phase = "acting" /\ UNCHANGED phase BY DEF Escalate, Next1
<1>2. UNCHANGED <<board, store, files, left, inbox>> BY DEF Escalate, others
<1>3. TodoOK' /\ Launching' \subseteq Launching BY <1>1, <1>2, TodoPops DEF board, store
<1>4. PlansOK' /\ MemsOK' /\ QueuesOK' BY <1>1, <1>2, PlansStay, MemsStay, QueuesStay
<1>5. BudgetOK' BY <1>2, <1>3, <1>4, BudgetPops DEF store
<1>6. Head(todo).task \in Task BY <1>1, HeadFacts DEF DeedOK, Escalate, Next1
<1>7. RestOK' BY <1>6 DEF Escalate, RestOK, others, Notified
<1> QED BY <1>3, <1>4, <1>5, <1>7

LEMMA ReviewTypes == ASSUME TypeInv, Review PROVE TypeInv'
<1> USE DEF TypeInv
<1> DEFINE t == Head(todo).task
           waiting == In(work, {"needs_review"}) \cap (IF Head(todo).do = "review" THEN Task ELSE {t})
<1>1. todo # <<>> /\ todo' = Tail(todo) /\ phase = "acting" /\ UNCHANGED phase /\ Head(todo).do \in Judge
  BY DEF Review, Next1, Judge
<1>2. UNCHANGED <<saved, files, left, inbox>> BY DEF Review, others
<1>3. t \in Task BY <1>1, HeadFacts DEF DeedOK, Judge
<1>4. waiting \in SUBSET Task BY DEF In
<1>5. /\ \/ \E verdict \in [waiting -> {"done", "in_progress"}] :
               work' = Judged(waiting, verdict) /\ head' = work'
         \/ UNCHANGED board
      /\ Bump("rework", t) \/ UNCHANGED mem
  BY DEF Review
<1> HIDE DEF waiting
<1>6. PlansOK' /\ \A s \in Task : work'[s].reason = work[s].reason
  <2>1. CASE UNCHANGED board BY <2>1, PlansStay DEF board
  <2>2. CASE ~UNCHANGED board
    <3>1. PICK verdict \in [waiting -> {"done", "in_progress"}] : work' = Judged(waiting, verdict) /\ head' = work'
      BY <1>5, <2>2
    <3>2. work \in Plan BY DEF PlansOK
    <3>3. Judged(waiting, verdict) \in Plan /\ \A s \in Task : Judged(waiting, verdict)[s].reason = work[s].reason
      BY <1>4, <3>2, JudgedFacts
    <3> QED BY <3>1, <3>3 DEF PlansOK
  <2> QED BY <2>1, <2>2
<1>7. MemsOK' /\ mem'.log = mem.log /\ mem'.stale = mem.stale /\ mem'.conflict = mem.conflict
  <2>1. CASE UNCHANGED mem BY <1>2, <2>1 DEF MemsOK
  <2>2. CASE Bump("rework", t)
    <3>1. mem \in Memory BY DEF MemsOK
    <3>2. mem' = [mem EXCEPT !["rework"][t] = @ + 1] BY <2>2 DEF Bump
    <3>3. mem' \in Memory /\ mem'.log = mem.log /\ mem'.stale = mem.stale /\ mem'.conflict = mem.conflict
      BY <1>3, <3>1, <3>2, BumpRework
    <3> QED BY <1>2, <3>3 DEF MemsOK
  <2> QED BY <1>5, <2>1, <2>2
<1>8. \A k \in 2..Len(todo) : todo[k].do = "triage" => todo[k].task \in Task
  BY <1>1, HeadFacts DEF TodoOK, DeedOK
<1>9. TodoOK' /\ Launching' \subseteq Launching BY <1>1, <1>6, <1>7, <1>8, TodoPops
<1>10. QueuesOK' BY <1>1, <1>2, QueuesStay
<1>11. BudgetOK' BY <1>2, <1>7, <1>9, BudgetPops
<1>12. RestOK' BY DEF Review, RestOK, others
<1> QED BY <1>6, <1>7, <1>9, <1>10, <1>11, <1>12

LEMMA TriageTypes == ASSUME TypeInv, Triage PROVE TypeInv'
<1> USE DEF TypeInv
<1> DEFINE t == Head(todo).task
<1>1. todo # <<>> /\ todo' = Tail(todo) /\ phase = "acting" /\ UNCHANGED phase /\ Head(todo).do = "triage"
  BY DEF Triage, Next1
<1>2. UNCHANGED <<saved, files, left, inbox>> BY DEF Triage, others
<1>3. t \in Task /\ DeedOK(Head(todo)) /\ Head(todo) = todo[1] /\ 1 \in DOMAIN todo BY <1>1, HeadFacts DEF DeedOK
<1>4. /\ UNCHANGED board \/ (work' = Answered(work, t) /\ head' = work')
      /\ IF work[t].reason.term = "OWNERSHIP_CONFLICT" THEN Bump("conflict", t) ELSE UNCHANGED mem
  BY DEF Triage
<1>5. /\ PlansOK'
      /\ \A s \in Task : work'[s].reason.term = "OWNERSHIP_CONFLICT" => work'[s].reason = work[s].reason
  <2>1. CASE UNCHANGED board BY <2>1, PlansStay DEF board
  <2>2. CASE ~UNCHANGED board
    <3>1. work' = Answered(work, t) /\ head' = work' BY <1>4, <2>2
    <3>2. work \in Plan BY DEF PlansOK
    <3>3. \A s \in Task : s # t => work'[s] = work[s] BY <1>3, <3>1, <3>2, AnsweredFacts
    <3>4. work'[t].reason = NoReason \/ work'[t].reason = work[t].reason BY <1>3, <3>1, <3>2, AnsweredFacts
    <3>5. work' \in Plan BY <1>3, <3>1, <3>2, AnsweredFacts
    <3> QED BY <3>1, <3>3, <3>4, <3>5 DEF PlansOK, NoReason
  <2> QED BY <2>1, <2>2
<1>6. /\ MemsOK' /\ mem'.log = mem.log /\ mem'.stale = mem.stale
      /\ \A s \in Task : s # t => mem'.conflict[s] = mem.conflict[s]
  <2>1. CASE UNCHANGED mem BY <1>2, <2>1 DEF MemsOK
  <2>2. CASE Bump("conflict", t) /\ work[t].reason.term = "OWNERSHIP_CONFLICT"
    <3>1. mem \in Memory BY DEF MemsOK
    <3>2. mem' = [mem EXCEPT !["conflict"][t] = @ + 1] BY <2>2 DEF Bump
    <3>3. "overlap" \notin Faults => mem.conflict[t] = 0 BY <1>1, <1>3, <2>2 DEF DeedOK
    <3>4. /\ mem' \in Memory /\ mem'.log = mem.log /\ mem'.stale = mem.stale
          /\ \A s \in Task : s # t => mem'.conflict[s] = mem.conflict[s]
      BY <1>3, <3>1, <3>2, <3>3, BumpConflict, ZenonT(30)
    <3> QED BY <1>2, <3>4 DEF MemsOK
  <2> QED BY <1>4, <2>1, <2>2
<1>7. \A k \in 2..Len(todo) : todo[k].do = "triage" => todo[k].task \in Task /\ todo[k].task # t
  BY <1>1, <1>3, HeadFacts DEF TodoOK, DeedOK
<1>8. TodoOK' /\ Launching' \subseteq Launching BY <1>1, <1>5, <1>6, <1>7, TodoPops
<1>9. QueuesOK' BY <1>1, <1>2, QueuesStay
<1>10. BudgetOK' BY <1>2, <1>6, <1>8, BudgetPops
<1>11. RestOK' BY DEF Triage, RestOK, others
<1> QED BY <1>5, <1>6, <1>8, <1>9, <1>10, <1>11

LEMMA LaunchTypes ==
  ASSUME TypeInv, NEW t \in Task, LaunchShellBg(t), UNCHANGED phase, phase = "acting"
  PROVE  RestOK' /\ QueuesOK'
<1> USE DEF TypeInv
<1>1. Owner[t] \in Unit BY PlanAssumption
<1> DEFINE r == [unit |-> Owner[t], task |-> t, stage |-> "starting", text |-> <<>>]
<1>2. r \in Run /\ r.text = <<>> BY <1>1 DEF Run
<1>3. runs' = Append(runs, r) BY DEF LaunchShellBg
<1> HIDE DEF r
<1>0. runs \in Seq(Run) BY DEF RestOK
<1>4. /\ runs' \in Seq(Run)
      /\ "overlap" \notin Faults => \A i \in DOMAIN runs' : runs'[i].text = <<>>
  <2>1. runs' \in Seq(Run) BY <1>0, <1>2, <1>3, AppendFacts
  <2>2. ASSUME NEW i \in DOMAIN runs', "overlap" \notin Faults PROVE runs'[i].text = <<>>
    <3>1. i \in 1..Len(runs) \/ i = Len(runs) + 1 BY <1>0, <1>2, <1>3, AppendFacts, SeqFacts
    <3>2. CASE i \in 1..Len(runs)
      <4>1. runs'[i] = runs[i] /\ i \in DOMAIN runs BY <3>2, <1>0, <1>2, <1>3, AppendFacts, SeqFacts
      <4> QED BY <4>1, <2>2 DEF RestOK
    <3>3. CASE i = Len(runs) + 1 BY <3>3, <1>0, <1>2, <1>3, AppendFacts
    <3> QED BY <3>1, <3>2, <3>3
  <2> QED BY <2>1, <2>2
<1>5. exited' \in [Unit -> Task \cup {Nothing}] BY <1>1 DEF LaunchShellBg, RestOK
<1>6. RestOK' BY <1>4, <1>5 DEF LaunchShellBg, RestOK
<1>7. UNCHANGED <<files, left, inbox>> BY DEF LaunchShellBg
<1> QED BY <1>6, <1>7, QueuesStay

(* A dispatch moves one unit from the list to the log.                     *)
LEMMA DispatchTypes == ASSUME TypeInv, Dispatch PROVE TypeInv'
<1> USE DEF TypeInv
<1> DEFINE t == Head(todo).task
<1>1. todo # <<>> /\ todo' = Tail(todo) /\ phase = "acting" /\ Head(todo).do = "dispatch"
  BY DEF Dispatch, Next1
<1>2. UNCHANGED phase /\ UNCHANGED board /\ UNCHANGED saved /\ LaunchShellBg(t)
  BY DEF Dispatch, LaunchShellBg
<1>3. t \in Task /\ Head(todo) = todo[1] /\ 1 \in DOMAIN todo BY <1>1, HeadFacts DEF DeedOK
<1>4. RestOK' /\ QueuesOK' BY <1>1, <1>2, <1>3, LaunchTypes
<1>5. mem \in Memory /\ mem.log \in Seq(0..Hour - 1) /\ Falling(mem.log) BY DEF MemsOK, Memory
<1> DEFINE l == Append(mem.log, 0)
<1>6. l \in Seq(0..Hour - 1) /\ Falling(l) /\ Len(l) = Len(mem.log) + 1 /\ Len(mem.log) \in Nat
  BY <1>5, FallingAppend, SeqFacts
<1>7. mem' = [mem EXCEPT !.log = l] BY DEF Dispatch
<1> HIDE DEF l
<1>8. /\ mem' \in Memory /\ mem'.log = l /\ mem'.stale = mem.stale /\ mem'.conflict = mem.conflict
  BY <1>5, <1>6, <1>7, LogFacts
<1>9. MemsOK' BY <1>2, <1>6, <1>8 DEF MemsOK
<1>10. TodoOK' /\ Launching' \subseteq Launching BY <1>1, <1>2, <1>8, TodoPops DEF board
<1>11. PlansOK' BY <1>2, PlansStay
<1>12. Owner[t] \in Launching BY <1>1, <1>3, PlanAssumption DEF Launching, Does
<1>13. Owner[t] \notin Launching'
  <2> SUFFICES ASSUME Owner[t] \in Launching' PROVE FALSE OBVIOUS
  <2>1. PICK k \in DOMAIN todo' : todo'[k].do = "dispatch" /\ Owner[todo'[k].task] = Owner[t]
    BY DEF Launching, Does
  <2>2. todo \in Seq(DeedRec) BY DEF TodoOK
  <2>3. k + 1 \in DOMAIN todo /\ k + 1 # 1 /\ todo'[k] = todo[k + 1]
    BY <1>1, <2>1, <2>2, TailFacts, SeqFacts
  <2>4. k + 1 \in Does({"dispatch"}) /\ 1 \in Does({"dispatch"}) BY <1>1, <1>3, <2>1, <2>3 DEF Does
  <2> QED BY <1>3, <2>1, <2>3, <2>4 DEF TodoOK
<1>14. Cardinality(Launching') + 1 <= Cardinality(Launching) /\ Cardinality(Launching) \in Nat /\ Cardinality(Launching') \in Nat
  <2>1. Launching \in SUBSET Unit BY DEF Launching
  <2>2. IsFiniteSet(Launching) /\ Cardinality(Launching) \in Nat BY <2>1, UnitCount
  <2> DEFINE S == Launching \ {Owner[t]}
  <2>3. IsFiniteSet(S) /\ Cardinality(S) = Cardinality(Launching) - 1 BY <1>12, <2>2, FS_RemoveElement
  <2>4. Launching' \in SUBSET S BY <1>10, <1>13
  <2> HIDE DEF S
  <2>5. Cardinality(Launching') <= Cardinality(S) /\ IsFiniteSet(Launching') BY <2>3, <2>4, FS_Subset
  <2> QED BY <2>2, <2>3, <2>5, FS_CardinalityType
<1>15. BudgetOK' BY <1>2, <1>6, <1>8, <1>14, UnitCount, AutopilotAssumption DEF BudgetOK
<1> QED BY <1>4, <1>9, <1>10, <1>11, <1>15

LEMMA RedispatchTypes == ASSUME TypeInv, RedispatchStale PROVE TypeInv'
<1> USE DEF TypeInv
<1> DEFINE t == Head(todo).task
<1>1. todo # <<>> /\ todo' = Tail(todo) /\ phase = "acting" /\ Head(todo).do = "redispatch"
  BY DEF RedispatchStale, Next1
<1>2. UNCHANGED phase /\ UNCHANGED board /\ UNCHANGED saved /\ LaunchShellBg(t) /\ Bump("stale", t)
  BY DEF RedispatchStale, LaunchShellBg
<1>3. t \in Task /\ DeedOK(Head(todo)) /\ Head(todo) = todo[1] /\ 1 \in DOMAIN todo BY <1>1, HeadFacts DEF DeedOK
<1>4. RestOK' /\ QueuesOK' BY <1>1, <1>2, <1>3, LaunchTypes
<1>5. mem \in Memory /\ mem.stale[t] <= 1 /\ mem' = [mem EXCEPT !["stale"][t] = @ + 1]
  BY <1>1, <1>2, <1>3 DEF MemsOK, Bump, DeedOK
<1>6. /\ mem' \in Memory /\ mem'.log = mem.log /\ mem'.conflict = mem.conflict
      /\ \A s \in Task : s # t => mem'.stale[s] = mem.stale[s]
  BY <1>3, <1>5, BumpStale, ZenonT(60)
<1>7. \A k \in 2..Len(todo) : todo[k].do = "redispatch" => todo[k].task \in Task /\ todo[k].task # t
  BY <1>1, <1>3, HeadFacts DEF TodoOK, DeedOK
<1>8. TodoOK' /\ Launching' \subseteq Launching BY <1>1, <1>2, <1>6, <1>7, TodoPops DEF board
<1>9. PlansOK' /\ MemsOK' BY <1>2, <1>6, PlansStay DEF MemsOK
<1>10. BudgetOK' BY <1>2, <1>6, <1>8, <1>9, BudgetPops
<1> QED BY <1>4, <1>8, <1>9, <1>10

LEMMA SaveTypes == ASSUME TypeInv, Save PROVE TypeInv'
<1> USE DEF TypeInv
<1>1. UNCHANGED <<board, mem, files, left, inbox>> /\ todo = <<>> /\ todo' = <<>> /\ saved' = mem
  BY DEF Save, others
<1>2. phase' # "archive" BY DEF Save
<1>3. PlansOK' /\ QueuesOK' /\ TodoOK' BY <1>1, <1>2, PlansStay, QueuesStay, TodoEmpties
<1>4. MemsOK' BY <1>1 DEF MemsOK
<1>5. RestOK' BY DEF Save, RestOK, others, Phase
<1>6. BudgetOK'
  <2>1. Launching' = {} /\ Launching = {} BY <1>1 DEF Launching, Does
  <2>2. Len(mem.log) \in Nat BY SeqFacts DEF MemsOK, Memory
  <2> QED BY <1>1, <2>1, <2>2, FS_EmptySet DEF BudgetOK
<1> QED BY <1>3, <1>4, <1>5, <1>6

-----------------------------------------------------------------------------
(* The processes around the loop.                                          *)
LEMMA ProcessTypes ==
  ASSUME TypeInv, PlansOK', RestOK', QueuesOK', UNCHANGED loop, UNCHANGED store,
         \A t \in Task : work'[t].reason.term = "OWNERSHIP_CONFLICT" /\ "overlap" \notin Faults =>
           work'[t].reason = work[t].reason
  PROVE  TypeInv'
<1>1. TodoOK' BY DEF TypeInv, TodoOK, Does, DeedOK, loop, store
<1>2. MemsOK' /\ BudgetOK' BY MemsStay, BudgetStays DEF TypeInv, store, loop
<1> QED BY <1>1, <1>2 DEF TypeInv

LEMMA RunFacts ==
  ASSUME RestOK, NEW i \in DOMAIN runs
  PROVE  /\ i \in 1..Len(runs) /\ runs[i] \in Run /\ runs[i].unit \in Unit /\ runs[i].task \in Task
         /\ runs[i].text \in Plan \cup {<<>>}
         /\ RemoveAt(runs, i) \in Seq(Run)
         /\ \A k \in DOMAIN RemoveAt(runs, i) : \E j \in DOMAIN runs : RemoveAt(runs, i)[k] = runs[j]
<1>1. runs \in Seq(Run) BY DEF RestOK
<1>2. i \in 1..Len(runs) /\ runs[i] \in Run BY <1>1, SeqFacts
<1>3. runs[i].unit \in Unit /\ runs[i].task \in Task /\ runs[i].text \in Plan \cup {<<>>} BY <1>2 DEF Run
<1>4. \A k \in 1..Len(runs) - 1 : RemoveAt(runs, i)[k] = IF k < i THEN runs[k] ELSE runs[k + 1]
  BY <1>1, <1>2, RemoveAtFacts
<1>5. DOMAIN RemoveAt(runs, i) = 1..Len(runs) - 1 /\ Len(runs) \in Nat /\ DOMAIN runs = 1..Len(runs)
  BY <1>1, <1>2, RemoveAtFacts, SeqFacts
<1>6. \A k \in DOMAIN RemoveAt(runs, i) : \E j \in DOMAIN runs : RemoveAt(runs, i)[k] = runs[j]
  <2> SUFFICES ASSUME NEW k \in 1..Len(runs) - 1 PROVE \E j \in 1..Len(runs) : RemoveAt(runs, i)[k] = runs[j]
    BY <1>5
  <2>1. k \in 1..Len(runs) /\ k + 1 \in 1..Len(runs) BY <1>5
  <2> QED BY <2>1, <1>4
<1> QED BY <1>1, <1>2, <1>3, <1>6, RemoveAtFacts

LEMMA RefuseTypes == ASSUME TypeInv, NEW i \in DOMAIN runs, Refuse(i) PROVE TypeInv'
<1> USE DEF TypeInv
<1>1. /\ UNCHANGED board /\ UNCHANGED loop /\ UNCHANGED store
      /\ UNCHANGED <<stop, wave, inbox, sent, crashes, heard, inflight, files, beat>>
  BY DEF Refuse, Exit
<1>2. runs' = RemoveAt(runs, i) /\ exited' = [exited EXCEPT ![runs[i].unit] = runs[i].task]
  BY DEF Refuse, Exit
<1>3. /\ runs' \in Seq(Run) /\ exited' \in [Unit -> Task \cup {Nothing}]
      /\ "overlap" \notin Faults => \A k \in DOMAIN runs' : runs'[k].text = <<>>
  BY <1>2, RunFacts DEF RestOK
<1>4. RestOK' BY <1>1, <1>3 DEF RestOK, loop
<1>5. QueuesOK' /\ PlansOK' BY <1>1, PlansStay DEF QueuesOK, loop
<1> QED BY <1>1, <1>4, <1>5, ProcessTypes DEF board

LEMMA PeekTypes == ASSUME TypeInv, NEW i \in DOMAIN runs, Peek(i) PROVE TypeInv'
<1> USE DEF TypeInv
<1>1. /\ UNCHANGED board /\ UNCHANGED loop /\ UNCHANGED store
      /\ UNCHANGED <<stop, wave, inbox, sent, crashes, heard, exited, inflight, files, beat>>
  BY DEF Peek
<1>2. runs' = [runs EXCEPT ![i].text = work] BY DEF Peek
<1>3. runs' \in Seq(Run)
  <2>1. runs \in Seq(Run) /\ runs[i] \in Run /\ work \in Plan BY RunFacts DEF RestOK, PlansOK
  <2> DEFINE r == [runs[i] EXCEPT !.text = work]
  <2>2. r \in Run BY <2>1 DEF Run
  <2>3. runs' = [runs EXCEPT ![i] = r] BY <1>2
  <2> HIDE DEF r
  <2> QED BY <2>1, <2>2, <2>3
<1>4. RestOK' BY <1>1, <1>3 DEF RestOK, loop, Peek
<1>5. QueuesOK' /\ PlansOK' BY <1>1, PlansStay DEF QueuesOK, loop
<1> QED BY <1>1, <1>4, <1>5, ProcessTypes DEF board

LEMMA ClaimTypes == ASSUME TypeInv, NEW i \in DOMAIN runs, ClaimForUnit(i) PROVE TypeInv'
<1> USE DEF TypeInv
<1> DEFINE u == runs[i].unit
           text == ReadBy(i)
           t == Target(text, u)
<1>1. /\ UNCHANGED loop /\ UNCHANGED store /\ UNCHANGED <<stop, wave, inbox, sent, crashes, heard, files, beat>>
  BY DEF ClaimForUnit, Exit
<1>2. u \in Unit /\ text \in Plan /\ runs \in Seq(Run) /\ RemoveAt(runs, i) \in Seq(Run)
  BY RunFacts DEF PlansOK, RestOK, ReadBy
<1>3. QueuesOK' BY <1>1 DEF QueuesOK, loop
<1>4. CASE NothingFor(text, u)
  <2>1. UNCHANGED board /\ runs' = RemoveAt(runs, i) /\ UNCHANGED <<exited, inflight>>
    BY <1>4 DEF ClaimForUnit, Exit
  <2>2. RestOK' BY <1>1, <1>2, <2>1, RunFacts DEF RestOK, loop
  <2>3. PlansOK' BY <2>1, PlansStay
  <2> QED BY <1>1, <1>3, <2>1, <2>2, <2>3, ProcessTypes DEF board
<1>5. CASE ~NothingFor(text, u)
  <2>1. /\ IF Resumes(text, u) THEN UNCHANGED board ELSE Write(Claimed(text, t))
        /\ runs' = [runs EXCEPT ![i] = [unit |-> u, task |-> t, stage |-> "working", text |-> <<>>]]
        /\ inflight' = [inflight EXCEPT ![u] = t] /\ UNCHANGED exited
    BY <1>5 DEF ClaimForUnit, TakeTask
  <2>2. t \in Task BY <1>2, <1>5, TargetIsOne
  <2> DEFINE r == [unit |-> u, task |-> t, stage |-> "working", text |-> <<>>]
             q == Claimed(text, t)
  <2>3. r \in Run /\ r.text = <<>> BY <1>2, <2>2 DEF Run
  <2>4. runs' = [runs EXCEPT ![i] = r] BY <2>1
  <2>5. q \in Plan /\ \A s \in Task : q[s].reason = text[s].reason BY <1>2, <2>2, ClaimedFacts
  <2>6. CASE Resumes(text, u)
    <3>1. UNCHANGED board BY <2>1, <2>6
    <3> HIDE DEF r, q, text, t
    <3>2. RestOK' BY <1>1, <1>2, <2>1, <2>2, <2>3, <2>4 DEF RestOK, loop
    <3>3. PlansOK' BY <3>1, PlansStay
    <3> QED BY <1>1, <1>3, <3>1, <3>2, <3>3, ProcessTypes DEF board
  <2>7. CASE ~Resumes(text, u)
    <3>1. Write(q) BY <2>1, <2>7
    <3>2. text # work => runs[i].text # <<>> BY DEF ReadBy
    <3> HIDE DEF r, q, text, t
    <3>3. RestOK' BY <1>1, <1>2, <2>1, <2>2, <2>3, <2>4 DEF RestOK, loop
    <3>4. PlansOK' BY <2>5, <3>1 DEF PlansOK, Write
    <3>5. "overlap" \notin Faults => text = work BY <3>2 DEF RestOK
    <3> QED BY <1>1, <1>3, <2>5, <3>1, <3>3, <3>4, <3>5, ProcessTypes DEF Write
  <2> QED BY <2>6, <2>7
<1> QED BY <1>4, <1>5

LEMMA EndingTypes ==
  ASSUME TypeInv, NEW i \in DOMAIN runs, NEW status, NEW reason, EndSession(i, status, reason),
         status \in {"in_progress", "needs_review", "malformed", "unreported", "blocked"},
         reason \in Reason \cup {NoReason}
  PROVE  TypeInv'
<1> USE DEF TypeInv
<1>1. /\ UNCHANGED board /\ UNCHANGED loop /\ UNCHANGED store
      /\ UNCHANGED <<stop, wave, inbox, sent, crashes, heard, exited, inflight, beat>>
  BY DEF EndSession
<1> DEFINE r == [task |-> runs[i].task, unit |-> runs[i].unit, status |-> status, reason |-> reason]
<1>2. r \in Report BY RunFacts DEF Report
<1>3. files' = Append(files, r) /\ runs' = RemoveAt(runs, i) BY DEF EndSession
<1> HIDE DEF r
<1>4. files' \in Seq(Report) /\ left \in 0..Len(files')
  BY <1>2, <1>3, AppendFacts DEF QueuesOK
<1>5. QueuesOK' BY <1>1, <1>4 DEF QueuesOK, loop
<1>6. RestOK' BY <1>1, <1>3, RunFacts DEF RestOK, loop
<1>7. PlansOK' BY <1>1, PlansStay
<1> QED BY <1>1, <1>5, <1>6, <1>7, ProcessTypes DEF board

LEMMA HandleUpdateTypes ==
  ASSUME TypeInv, NEW cmd \in Commands, NEW t \in Task \cup {Nothing},
         HandleUpdate([cmd |-> cmd, task |-> t])
  PROVE  TypeInv'
<1> USE DEF TypeInv
<1> DEFINE c == [cmd |-> cmd, task |-> t]
<1>1. /\ UNCHANGED board /\ UNCHANGED loop /\ UNCHANGED store
      /\ UNCHANGED <<stop, wave, runs, exited, inflight, files, beat, crashes, heard>>
  BY DEF HandleUpdate, others
<1>2. c \in Command /\ c.cmd = cmd /\ c.task = t BY DEF Command
<1>3. cmd \in {"answer", "approve", "rework"} => t \in Task
  BY <1>2 DEF HandleUpdate, Sensible
<1>4. inbox' = Append(inbox, c) /\ sent' = sent + 1 /\ sent < MaxSent BY DEF HandleUpdate
<1>0. inbox \in Seq(Command) BY DEF QueuesOK
<1> HIDE DEF c
<1>5. inbox' \in Seq(Command) BY <1>0, <1>2, <1>4, AppendFacts
<1>6. ASSUME NEW k \in DOMAIN inbox', inbox'[k].cmd \in {"answer", "approve", "rework"}
      PROVE  inbox'[k].task \in Task
  <2>1. k \in 1..Len(inbox) \/ k = Len(inbox) + 1 BY <1>0, <1>2, <1>4, AppendFacts, SeqFacts
  <2>2. CASE k \in 1..Len(inbox)
    <3>1. inbox'[k] = inbox[k] /\ k \in DOMAIN inbox BY <2>2, <1>0, <1>2, <1>4, AppendFacts, SeqFacts
    <3> QED BY <3>1, <1>6 DEF QueuesOK
  <2>3. CASE k = Len(inbox) + 1
    <3>1. inbox'[k] = c BY <2>3, <1>0, <1>2, <1>4, AppendFacts
    <3> QED BY <3>1, <1>2, <1>3, <1>6
  <2> QED BY <2>1, <2>2, <2>3
<1>7. QueuesOK' BY <1>1, <1>5, <1>6 DEF QueuesOK, loop
<1>8. RestOK' BY <1>1, <1>4, AutopilotAssumption DEF RestOK, loop
<1>9. PlansOK' BY <1>1, PlansStay
<1> QED BY <1>1, <1>7, <1>8, <1>9, ProcessTypes DEF board

LEMMA CrashTypes == ASSUME TypeInv, Crash PROVE TypeInv'
<1> USE DEF TypeInv
<1>1. /\ UNCHANGED board /\ UNCHANGED <<stop, runs, inflight, files, beat, sent, heard>>
      /\ saved' \in {saved, Fresh} /\ phase' = "down" /\ todo' = <<>> /\ left' = 0 /\ halting' = FALSE
      /\ wave' = FALSE /\ inbox' = <<>> /\ mem' = Fresh
      /\ exited' = [u \in Unit |-> Nothing] /\ crashes' = crashes + 1 /\ crashes < MaxCrash
  BY DEF Crash
<1>2. Fresh.log = <<>> /\ Fresh \in Memory /\ Falling(Fresh.log)
  <2>1. Fresh.log = <<>> BY DEF Fresh
  <2>2. <<>> \in Seq(0..Hour - 1) OBVIOUS
  <2>3. Fresh \in Memory BY <2>2 DEF Fresh, Memory
  <2> QED BY <2>1, <2>3 DEF Falling
<1>3. MemsOK' BY <1>1, <1>2 DEF MemsOK
<1>4. QueuesOK' BY <1>1, SeqFacts DEF QueuesOK
<1>5. exited' \in [Unit -> Task \cup {Nothing}] BY <1>1
<1>0. crashes' \in 0..MaxCrash
  <2>1. crashes \in 0..MaxCrash /\ MaxCrash \in Nat BY AutopilotAssumption DEF RestOK
  <2> QED BY <1>1, <2>1
<1>6. RestOK' BY <1>1, <1>0, <1>5 DEF RestOK, Phase
<1>7. PlansOK' /\ TodoOK' BY <1>1, PlansStay, TodoEmpties
<1>8. BudgetOK'
  <2>1. Launching' = {} BY <1>1 DEF Launching, Does
  <2>2. Len(mem'.log) = 0 BY <1>1, <1>2
  <2>3. Cardinality(Launching') = 0 BY <2>1, FS_EmptySet
  <2>4. 0 < Ceiling + Cardinality(Unit) BY UnitCount, AutopilotAssumption
  <2> QED BY <1>1, <2>2, <2>3, <2>4 DEF BudgetOK
<1> QED BY <1>3, <1>4, <1>6, <1>7, <1>8

LEMMA RestartTypes == ASSUME TypeInv, Restart PROVE TypeInv'
<1> USE DEF TypeInv
<1>1. /\ UNCHANGED <<board, todo, left, saved, inbox, files>>
      /\ phase = "down" /\ phase' = "commands" /\ mem' = saved
  BY DEF Restart, others
<1>2. todo = <<>> /\ todo' = <<>> BY <1>1 DEF TodoOK
<1>3. PlansOK' /\ QueuesOK' /\ TodoOK' BY <1>1, <1>2, PlansStay, QueuesStay, TodoEmpties
<1>4. MemsOK' BY <1>1 DEF MemsOK
<1>5. RestOK' BY DEF Restart, RestOK, others, Phase
<1>6. BudgetOK'
  <2>1. Launching' = {} BY <1>2 DEF Launching, Does
  <2>2. Len(saved.log) \in Nat BY SeqFacts DEF MemsOK, Memory
  <2>3. Cardinality(Launching') = 0 BY <2>1, FS_EmptySet
  <2> QED BY <1>1, <2>2, <2>3 DEF BudgetOK
<1> QED BY <1>3, <1>4, <1>5, <1>6

-----------------------------------------------------------------------------
(* The queues.                                                             *)
LEMMA ListTypes == ASSUME TypeInv, ListReports PROVE TypeInv'
<1> USE DEF TypeInv
<1>1. /\ UNCHANGED board /\ UNCHANGED store /\ UNCHANGED <<todo, inbox, files>>
      /\ phase = "commands" /\ phase' = "reports" /\ left' = Len(files)
  BY DEF ListReports, others
<1>2. PlansOK' /\ MemsOK' BY <1>1, PlansStay, MemsStay
<1>3. QueuesOK' BY <1>1, SeqFacts DEF QueuesOK
<1>4. RestOK' BY DEF ListReports, RestOK, others, Phase
<1>5. TodoOK' BY <1>1 DEF TodoOK, Does, DeedOK, board, store
<1>6. BudgetOK' BY <1>1, BudgetStays DEF store
<1> QED BY <1>2, <1>3, <1>4, <1>5, <1>6

LEMMA ArchiveTypes == ASSUME TypeInv, Archive PROVE TypeInv'
<1> USE DEF TypeInv
<1>1. /\ UNCHANGED board /\ UNCHANGED store /\ UNCHANGED <<todo, inbox>>
      /\ phase = "archive" /\ phase' = "reports" /\ left' = left - 1 /\ files' = RemoveAt(files, Turn)
  BY DEF Archive
<1>2. PlansOK' /\ MemsOK' BY <1>1, PlansStay, MemsStay
<1>3. QueuesOK'
  <2>1. files \in Seq(Report) /\ left \in 0..Len(files) /\ left > 0 BY <1>1 DEF QueuesOK
  <2>2. Turn \in 1..left /\ Turn \in 1..Len(files) BY <2>1, TurnIsOne, SeqFacts
  <2>3. files' \in Seq(Report) /\ Len(files') = Len(files) - 1 BY <1>1, <2>1, <2>2, RemoveAtFacts
  <2> QED BY <1>1, <2>1, <2>3, SeqFacts DEF QueuesOK
<1>4. RestOK' BY DEF Archive, RestOK, Phase
<1>5. TodoOK' BY <1>1 DEF TodoOK, Does, DeedOK, board, store
<1>6. BudgetOK' BY <1>1, BudgetStays DEF store
<1> QED BY <1>2, <1>3, <1>4, <1>5, <1>6

LEMMA DrainControlTypes == ASSUME TypeInv, DrainControl PROVE TypeInv'
<1> USE DEF TypeInv
<1> DEFINE r == files[Turn]
<1>1. /\ UNCHANGED <<todo, left, halting, saved, stop, wave, inbox, sent, crashes>>
      /\ UNCHANGED <<runs, exited, inflight, files, beat>>
      /\ phase = "reports" /\ phase' = "archive" /\ left > 0
  BY DEF DrainControl, others
<1>2. IF r.status = "unreported" THEN Unreported(r.task) /\ Write(work)
      ELSE IF Accepts(r) THEN Write(Reported(work, r)) /\ UNCHANGED <<mem, heard>>
      ELSE Notified({r.task}, mem) /\ UNCHANGED <<board, mem>>
  BY DEF DrainControl
<1>3. r \in Report /\ r.task \in Task
  <2>1. files \in Seq(Report) /\ left \in 0..Len(files) BY DEF QueuesOK
  <2>2. Turn \in 1..Len(files) BY <1>1, <2>1, TurnIsOne, SeqFacts
  <2>3. files[Turn] \in Report BY <2>1, <2>2, SeqFacts
  <2> QED BY <2>3 DEF Report
<1> HIDE DEF r
<1>4. PlansOK'
  <2>1. CASE r.status = "unreported" BY <1>2, <2>1 DEF PlansOK, Write
  <2>2. CASE r.status # "unreported" /\ Accepts(r)
    <3>1. r.status \in {"in_progress", "needs_review", "blocked"} BY <1>3, <2>2 DEF Report, Accepts, ValidControl
    <3>2. Reported(work, r) \in Plan BY <1>3, <3>1, ReportedFacts DEF PlansOK
    <3> QED BY <1>2, <2>2, <3>2 DEF PlansOK, Write
  <2>3. CASE r.status # "unreported" /\ ~Accepts(r) BY <1>2, <2>3, PlansStay
  <2> QED BY <2>1, <2>2, <2>3
<1>5. mem' \in Memory /\ mem'.log = mem.log /\ mem'.stale = mem.stale /\ mem'.conflict = mem.conflict
  <2>0. mem \in Memory BY DEF MemsOK
  <2>1. CASE UNCHANGED mem BY <2>0, <2>1
  <2>2. CASE Unreported(r.task)
    <3>1. CASE mem.unreported[r.task] = 0
      <4>1. mem' = [mem EXCEPT !["unreported"][r.task] = @ + 1] BY <2>2, <3>1 DEF Unreported, Bump
      <4>2. [mem EXCEPT !["unreported"][r.task] = @ + 1] = [mem EXCEPT !["unreported"][r.task] = mem.unreported[r.task] + 1]
        OBVIOUS
      <4>3. mem' = [mem EXCEPT !["unreported"][r.task] = 1] BY <3>1, <4>1, <4>2
      <4>4. 1 \in 0..1 OBVIOUS
      <4> QED BY <1>3, <2>0, <4>3, <4>4, BumpUnreported
    <3>2. CASE mem.unreported[r.task] # 0
      <4>1. mem' = [mem EXCEPT !["unreported"][r.task] = 0] BY <2>2, <3>2 DEF Unreported
      <4>2. 0 \in 0..1 OBVIOUS
      <4> QED BY <1>3, <2>0, <4>1, <4>2, BumpUnreported
    <3> QED BY <3>1, <3>2
  <2> QED BY <1>2, <2>1, <2>2
<1>6. MemsOK' BY <1>1, <1>5 DEF MemsOK
<1>7. heard' \subseteq Task BY <1>2, <1>3 DEF RestOK, Unreported, Notified
<1>8. RestOK' BY <1>1, <1>7 DEF RestOK, Phase
<1>9. QueuesOK' BY <1>1 DEF QueuesOK
<1>10. TodoOK' BY <1>1, <1>5 DEF TodoOK, Does, DeedOK
<1>11. BudgetOK' BY <1>1, <1>5, BudgetStays
<1> QED BY <1>4, <1>6, <1>8, <1>9, <1>10, <1>11

LEMMA DrainTgTypes == ASSUME TypeInv, DrainTgQueue PROVE TypeInv'
<1> USE DEF TypeInv
<1> DEFINE c == Head(inbox)
<1>1. /\ UNCHANGED <<phase, left, halting, saved, sent, crashes, heard>>
      /\ UNCHANGED <<runs, exited, inflight, files, beat>>
      /\ phase = "commands" /\ inbox # <<>> /\ inbox' = Tail(inbox) /\ Handle(c)
  BY DEF DrainTgQueue, others
<1>2. inbox \in Seq(Command) BY DEF QueuesOK
<1>3. c \in Command /\ (c.cmd \in {"answer", "approve", "rework"} => c.task \in Task)
  <2>1. c = inbox[1] /\ c \in Command /\ 1 \in DOMAIN inbox BY <1>1, <1>2, TailFacts, SeqFacts
  <2> QED BY <2>1 DEF QueuesOK
<1>4. QueuesOK'
  <2>1. inbox' \in Seq(Command) /\ \A k \in DOMAIN inbox' : k + 1 \in DOMAIN inbox /\ inbox'[k] = inbox[k + 1]
    BY <1>1, <1>2, TailFacts, SeqFacts
  <2> QED BY <1>1, <2>1 DEF QueuesOK
<1> HIDE DEF c
<1>5. RestOK' BY <1>1, <1>3 DEF RestOK, Handle, AnswerOrRework
<1>6. PlansOK'
  <2>1. CASE AnswerOrRework(c)
    <3>1. work \in Plan /\ c.task \in Task BY <1>3, <2>1 DEF AnswerOrRework, PlansOK
    <3>2. Answered(work, c.task) \in Plan /\ Reworked(work, c.task) \in Plan BY <3>1, AnsweredFacts, ReworkedFacts
    <3> QED BY <2>1, <3>2 DEF AnswerOrRework, PlansOK, Write
  <2>2. CASE ~AnswerOrRework(c) BY <1>1, <2>2, PlansStay DEF Handle
  <2> QED BY <2>1, <2>2
<1>7. mem' \in Memory /\ mem'.log = mem.log /\ mem'.stale = mem.stale /\ mem'.conflict = mem.conflict
  <2>0. mem \in Memory BY DEF MemsOK
  <2>1. CASE UNCHANGED mem BY <2>0, <2>1
  <2>2. CASE ~UNCHANGED mem
    <3>1. mem' = [mem EXCEPT !.mute = 1] BY <1>1, <2>2 DEF Handle, AnswerOrRework
    <3>2. 1 \in 0..1 OBVIOUS
    <3> QED BY <2>0, <3>1, <3>2, MuteFacts
  <2> QED BY <2>1, <2>2
<1>8. MemsOK' BY <1>1, <1>7 DEF MemsOK
<1>9. /\ todo' \in Seq(DeedRec)
      /\ \A k \in DOMAIN todo' : todo'[k].do = "approve" /\ todo'[k].task \in Task
  <2>0. /\ todo \in Seq(DeedRec)
        /\ \A k \in DOMAIN todo : todo[k].do = "approve" /\ todo[k].task \in Task
    BY <1>1 DEF TodoOK, DeedOK
  <2>1. CASE UNCHANGED todo BY <2>0, <2>1
  <2>2. CASE c.cmd = "approve"
    <3> DEFINE d == [do |-> "approve", task |-> c.task]
    <3>1. d \in DeedRec /\ d.do = "approve" /\ d.task \in Task BY <1>3, <2>2 DEF DeedRec, Deed
    <3>2. todo' = Append(todo, d) BY <1>1, <2>2 DEF Handle, AnswerOrRework
    <3> HIDE DEF d
    <3>3. todo' \in Seq(DeedRec) BY <2>0, <3>1, <3>2, AppendFacts
    <3>4. ASSUME NEW k \in DOMAIN todo' PROVE todo'[k].do = "approve" /\ todo'[k].task \in Task
      <4>1. (k \in 1..Len(todo) /\ todo'[k] = todo[k] /\ k \in DOMAIN todo) \/ todo'[k] = d
        BY <2>0, <3>1, <3>2, AppendFacts, SeqFacts
      <4> QED BY <2>0, <3>1, <4>1
    <3> QED BY <3>3, <3>4
  <2> QED BY <1>1, <2>1, <2>2 DEF Handle, AnswerOrRework
<1>10. TodoOK' BY <1>1, <1>9 DEF TodoOK, Does, DeedOK
<1>11. BudgetOK'
  <2>1. Launching' = {} BY <1>9 DEF Launching, Does
  <2>2. Launching' \subseteq Launching BY <2>1
  <2> QED BY <1>1, <1>7, <1>8, <2>2, BudgetPops
<1> QED BY <1>4, <1>5, <1>6, <1>8, <1>10, <1>11

-----------------------------------------------------------------------------
(* What a tick decides: one deed for each task of four kinds, those about  *)
(* work that waits for review first.                                       *)
Covers(D, p, S) ==
  /\ D \in Seq(DeedRec)
  /\ \A k \in DOMAIN D : D[k].task \in S /\ D[k].do = DeedFor(p, D[k].task)
  /\ \A k, l \in DOMAIN D : k # l => D[k].task # D[l].task
  /\ \A t \in S : \E k \in DOMAIN D : D[k].task = t

Leads(D, N) == \A k, l \in DOMAIN D : k < l /\ D[l].task \in N => D[k].task \in N

LEMMA DeedForType == ASSUME NEW p, NEW t PROVE DeedFor(p, t) \in Deed
BY DEF DeedFor, Deed

LEMMA DeedsCover ==
  ASSUME NEW p, NEW S \in SUBSET Task
  PROVE  Covers(Deeds(p, S), p, S)
<1> DEFINE n == Cardinality(S)
           s == InOrder(S)
           D == [i \in 1..n |-> [do |-> DeedFor(p, s[i]), task |-> s[i]]]
<1>1. /\ n \in Nat /\ s \in [1..n -> S]
      /\ \A i, j \in 1..n : i # j => s[i] # s[j]
      /\ \A t \in S : \E i \in 1..n : s[i] = t
  BY InOrderOrders
<1>2. Deeds(p, S) = D BY DEF Deeds
<1> HIDE DEF n, s
<1>3. \A i \in 1..n : D[i] \in DeedRec /\ D[i].task = s[i] /\ D[i].do = DeedFor(p, s[i])
  BY <1>1, DeedForType DEF DeedRec
<1>4. D \in Seq(DeedRec) /\ DOMAIN D = 1..n
  <2>1. D \in [1..n -> DeedRec] BY <1>3
  <2> HIDE DEF D
  <2> QED BY <1>1, <2>1, SeqMade
<1> HIDE DEF D
<1>5. Covers(D, p, S) BY <1>1, <1>3, <1>4 DEF Covers
<1> QED BY <1>2, <1>5

LEMMA CoverJoins ==
  ASSUME NEW p, NEW A, NEW B, NEW S, NEW T, NEW N, Covers(A, p, S), Covers(B, p, T),
         S \cap T = {}, T \cap N = {}, Leads(A, N)
  PROVE  Covers(A \o B, p, S \cup T) /\ Leads(A \o B, N)
<1> DEFINE D == A \o B
<1>1. A \in Seq(DeedRec) /\ B \in Seq(DeedRec) BY DEF Covers
<1>2. /\ D \in Seq(DeedRec) /\ DOMAIN D = 1..Len(A) + Len(B)
      /\ \A k \in 1..Len(A) : D[k] = A[k]
      /\ \A k \in 1..Len(B) : D[Len(A) + k] = B[k]
      /\ DOMAIN A = 1..Len(A) /\ DOMAIN B = 1..Len(B) /\ Len(A) \in Nat /\ Len(B) \in Nat
  BY <1>1, ConcatFacts, SeqFacts
<1> HIDE DEF D
<1>3. ASSUME NEW k \in DOMAIN D
      PROVE  \/ k \in DOMAIN A /\ D[k] = A[k] /\ D[k].task \in S
             \/ k - Len(A) \in DOMAIN B /\ D[k] = B[k - Len(A)] /\ D[k].task \in T /\ k > Len(A)
  <2>1. CASE k <= Len(A)
    <3>1. k \in DOMAIN A /\ D[k] = A[k] BY <2>1, <1>2
    <3> QED BY <3>1 DEF Covers
  <2>2. CASE ~(k <= Len(A))
    <3>1. k - Len(A) \in DOMAIN B /\ Len(A) + (k - Len(A)) = k /\ k > Len(A) BY <2>2, <1>2
    <3>2. D[k] = B[k - Len(A)] BY <3>1, <1>2
    <3> QED BY <3>1, <3>2 DEF Covers
  <2> QED BY <2>1, <2>2
<1>4. \A k \in DOMAIN D : D[k].task \in S \cup T /\ D[k].do = DeedFor(p, D[k].task)
  BY <1>3 DEF Covers
<1>5. ASSUME NEW k \in DOMAIN D, NEW l \in DOMAIN D, k # l PROVE D[k].task # D[l].task
  <2>1. CASE k \in DOMAIN A /\ D[k] = A[k] /\ l \in DOMAIN A /\ D[l] = A[l] BY <2>1, <1>5 DEF Covers
  <2>2. CASE /\ k - Len(A) \in DOMAIN B /\ D[k] = B[k - Len(A)]
             /\ l - Len(A) \in DOMAIN B /\ D[l] = B[l - Len(A)]
    <3>1. k - Len(A) # l - Len(A) BY <1>2, <1>5
    <3> QED BY <2>2, <3>1 DEF Covers
  <2>3. CASE (D[k].task \in S /\ D[l].task \in T) \/ (D[k].task \in T /\ D[l].task \in S) BY <2>3
  <2> QED BY <1>3, <2>1, <2>2, <2>3
<1>6. ASSUME NEW t \in S \cup T PROVE \E k \in DOMAIN D : D[k].task = t
  <2>1. CASE t \in S
    <3>1. PICK k \in DOMAIN A : A[k].task = t BY <2>1 DEF Covers
    <3>2. k \in DOMAIN D /\ D[k] = A[k] BY <1>2
    <3> QED BY <3>1, <3>2
  <2>2. CASE t \in T
    <3>1. PICK k \in DOMAIN B : B[k].task = t BY <2>2 DEF Covers
    <3>2. Len(A) + k \in DOMAIN D /\ D[Len(A) + k] = B[k] BY <1>2
    <3> QED BY <3>1, <3>2
  <2> QED BY <2>1, <2>2
<1>7. Leads(D, N)
  <2> SUFFICES ASSUME NEW k \in DOMAIN D, NEW l \in DOMAIN D, k < l, D[l].task \in N
               PROVE  D[k].task \in N
    BY DEF Leads
  <2>1. l \in DOMAIN A /\ D[l] = A[l] BY <1>3
  <2>2. k \in DOMAIN A BY <2>1, <1>2
  <2>3. D[k] = A[k] BY <2>2, <1>2
  <2> QED BY <2>1, <2>2, <2>3 DEF Leads
<1>8. Covers(D, p, S \cup T) BY <1>2, <1>4, <1>5, <1>6 DEF Covers
<1> QED BY <1>7, <1>8 DEF D

LEMMA PicksFacts ==
  ASSUME NEW p, NEW gate, NEW t \in Picks(p, gate)
  PROVE  /\ t \in Task /\ p[t].status = "pending" /\ Owner[t] \in Unit /\ Held(p, Owner[t]) = {}
         /\ t = First(Eligible(p, Owner[t])) /\ DepsDone(p, t)
<1>1. PICK u \in Idle(p) : t = First(Eligible(p, u)) BY DEF Picks
<1>2. u \in Unit /\ Held(p, u) = {} /\ Eligible(p, u) # {} BY <1>1 DEF Idle
<1>3. Eligible(p, u) \in SUBSET Task BY DEF Eligible, In
<1>4. t \in Eligible(p, u) BY <1>1, <1>2, <1>3, FirstIsOne
<1>5. t \in Task /\ Owner[t] = u /\ p[t].status = "pending" /\ DepsDone(p, t) BY <1>4 DEF Eligible, In
<1> QED BY <1>1, <1>2, <1>5

(* One deed at most of each task; only some say more.                      *)
DecidedOn(D, p, gate) ==
  /\ D \in Seq(DeedRec)
  /\ \/ /\ Len(D) = 1 /\ D[1].do \in {"illegal", "stop", "digest"}
     \/ /\ \A k \in DOMAIN D :
             /\ D[k].task \in Task /\ D[k].do = DeedFor(p, D[k].task)
             /\ p[D[k].task].status = "pending" => D[k].task \in Picks(p, gate)
             /\ p[D[k].task].status \notin {"pending", "needs_review", "blocked"} => D[k].task \in StaleTasks(p)
        /\ \A k, l \in DOMAIN D : k # l => D[k].task # D[l].task
        /\ \A t \in In(p, {"needs_review"}) : \E k \in DOMAIN D : D[k].task = t
        /\ \A k, l \in DOMAIN D :
             k < l /\ p[D[l].task].status = "needs_review" => p[D[k].task].status = "needs_review"

LEMMA DecisionsFacts ==
  ASSUME NEW p \in Plan, NEW gate
  PROVE  DecidedOn(Decisions(p, gate), p, gate)
<1> DEFINE NR == In(p, {"needs_review"})
           BL == In(p, {"blocked"})
           ST == StaleTasks(p)
           PK == Picks(p, gate)
           D == Deeds(p, NR) \o Deeds(p, BL) \o Deeds(p, ST) \o Deeds(p, PK)
<1>1. ASSUME NEW d \in {"illegal", "stop", "digest"} PROVE DecidedOn(Single(d), p, gate)
  <2> DEFINE e == [do |-> d, task |-> Nothing]
  <2>1. e \in DeedRec /\ e.do = d BY DEF DeedRec, Deed
  <2>2. Single(d) = <<e>> BY DEF Single
  <2> HIDE DEF e
  <2>3. <<e>> \in Seq(DeedRec) /\ Len(<<e>>) = 1 /\ <<e>>[1] = e BY <2>1
  <2> QED BY <2>1, <2>2, <2>3 DEF DecidedOn
<1>2. /\ \A t \in PK : t \in Task /\ p[t].status = "pending"
      /\ \A t \in ST : t \in Task /\ p[t].status \in {"claimed", "in_progress"}
      /\ \A t \in BL : t \in Task /\ p[t].status = "blocked"
      /\ \A t \in NR : t \in Task /\ p[t].status = "needs_review"
      /\ \A t \in Task : p[t].status = "needs_review" => t \in NR
  BY PicksFacts DEF StaleTasks, In
<1> HIDE DEF PK, ST, BL, NR
<1>3. NR \in SUBSET Task /\ BL \in SUBSET Task /\ ST \in SUBSET Task /\ PK \in SUBSET Task BY <1>2
<1>4. Covers(Deeds(p, NR), p, NR) /\ Leads(Deeds(p, NR), NR)
  <2>1. Covers(Deeds(p, NR), p, NR) BY <1>3, DeedsCover
  <2> QED BY <2>1 DEF Covers, Leads
<1>5. Covers(Deeds(p, BL), p, BL) /\ Covers(Deeds(p, ST), p, ST) /\ Covers(Deeds(p, PK), p, PK)
  BY <1>3, DeedsCover
<1>6. Covers(Deeds(p, NR) \o Deeds(p, BL), p, NR \cup BL) /\ Leads(Deeds(p, NR) \o Deeds(p, BL), NR)
  <2>1. NR \cap BL = {} /\ BL \cap NR = {} BY <1>2
  <2> QED BY <2>1, <1>4, <1>5, CoverJoins
<1>7. /\ Covers(Deeds(p, NR) \o Deeds(p, BL) \o Deeds(p, ST), p, (NR \cup BL) \cup ST)
      /\ Leads(Deeds(p, NR) \o Deeds(p, BL) \o Deeds(p, ST), NR)
  <2>1. (NR \cup BL) \cap ST = {} /\ ST \cap NR = {} BY <1>2
  <2> QED BY <2>1, <1>5, <1>6, CoverJoins
<1>8. Covers(D, p, ((NR \cup BL) \cup ST) \cup PK) /\ Leads(D, NR)
  <2>1. ((NR \cup BL) \cup ST) \cap PK = {} /\ PK \cap NR = {} BY <1>2
  <2> QED BY <2>1, <1>5, <1>7, CoverJoins
<1> HIDE DEF D
<1>9. DecidedOn(D, p, gate)
  <2>1. D \in Seq(DeedRec) /\ \A k, l \in DOMAIN D : k # l => D[k].task # D[l].task BY <1>8 DEF Covers
  <2>2. ASSUME NEW k \in DOMAIN D
        PROVE  /\ D[k].task \in Task /\ D[k].do = DeedFor(p, D[k].task)
               /\ p[D[k].task].status = "pending" => D[k].task \in PK
               /\ p[D[k].task].status \notin {"pending", "needs_review", "blocked"} => D[k].task \in ST
    <3>1. D[k].task \in ((NR \cup BL) \cup ST) \cup PK /\ D[k].do = DeedFor(p, D[k].task)
      BY <1>8 DEF Covers
    <3> QED BY <3>1, <1>2
  <2>3. \A t \in NR : \E k \in DOMAIN D : D[k].task = t BY <1>8 DEF Covers
  <2>4. ASSUME NEW k \in DOMAIN D, NEW l \in DOMAIN D, k < l, p[D[l].task].status = "needs_review"
        PROVE  p[D[k].task].status = "needs_review"
    <3>1. D[l].task \in NR BY <1>2, <2>2, <2>4
    <3>2. D[k].task \in NR BY <1>8, <2>4, <3>1 DEF Leads
    <3> QED BY <1>2, <3>2
  <2> QED BY <2>1, <2>2, <2>3, <2>4 DEF DecidedOn, NR, ST, PK
<1>10. Decisions(p, gate) \in {Single("stop"), Single("illegal"), Single("digest"), D}
  BY DEF Decisions, D, NR, BL, ST, PK
<1> QED BY <1>1, <1>9, <1>10

-----------------------------------------------------------------------------
(* What DeedFor says about the task.                                       *)
LEMMA DeedForFacts ==
  ASSUME NEW p \in Plan, NEW t \in Task, mem \in Memory
  PROVE  /\ DeedFor(p, t) \notin {"approve", "illegal", "stop", "digest"}
         /\ DeedFor(p, t) = "dispatch" <=> p[t].status = "pending"
         /\ DeedFor(p, t) \in {"review", "freeze"} <=> p[t].status = "needs_review"
         /\ DeedFor(p, t) = "redispatch" =>
              mem.stale[t] <= 1 /\ p[t].status \in {"claimed", "in_progress", "done"}
         /\ DeedFor(p, t) = "triage" => p[t].status = "blocked"
         /\ DeedFor(p, t) = "triage" /\ "overlap" \notin Faults /\ p[t].reason.term = "OWNERSHIP_CONFLICT" =>
              mem.conflict[t] = 0
<1>1. p[t].status \in Status BY DEF Plan, Entry
<1>2. mem.stale[t] \in 0..2 BY DEF Memory
<1>3. "overlap" \notin Faults => mem.conflict[t] \in 0..1 BY DEF Memory
<1>4. CASE p[t].status = "needs_review" BY <1>4 DEF DeedFor
<1>5. CASE p[t].status = "blocked"
  <2>1. CASE p[t].reason.term = "OWNERSHIP_CONFLICT" BY <1>3, <1>5, <2>1 DEF DeedFor
  <2>2. CASE p[t].reason.term = "MISSING_DEPENDENCY" BY <1>5, <2>2 DEF DeedFor
  <2>3. CASE p[t].reason.term = "TOOLING_FAILURE" BY <1>5, <2>3 DEF DeedFor
  <2>4. CASE p[t].reason.term \notin {"OWNERSHIP_CONFLICT", "MISSING_DEPENDENCY", "TOOLING_FAILURE"}
    BY <1>5, <2>4 DEF DeedFor
  <2> QED BY <2>1, <2>2, <2>3, <2>4
<1>6. CASE p[t].status = "pending" BY <1>6 DEF DeedFor
<1>7. CASE p[t].status \in {"claimed", "in_progress", "done"} BY <1>2, <1>7 DEF DeedFor
<1> QED BY <1>1, <1>4, <1>5, <1>6, <1>7 DEF Status

(* Dispatches are decided only below the ceiling, one for each unit.       *)
LEMMA DecideTypes == ASSUME TypeInv, Decide PROVE TypeInv'
<1> USE DEF TypeInv
<1>1. PICK gate : todo' = todo \o Decisions(head, gate) BY DEF Decide
<1> DEFINE D == Decisions(head, gate)
<1>2. /\ phase = "reports" /\ phase' = "acting" /\ work' = head
      /\ UNCHANGED <<head, left, halting, mem, saved, stop, wave, inbox, sent, crashes, heard>>
      /\ UNCHANGED <<runs, exited, inflight, files, beat>>
  BY DEF Decide, store, others
<1>3. PlansOK' BY <1>2 DEF PlansOK
<1>4. MemsOK' BY <1>2, MemsStay DEF store
<1>5. QueuesOK' BY <1>2 DEF QueuesOK
<1>6. RestOK' BY <1>2 DEF RestOK, Phase
<1>7. DecidedOn(D, head, gate) BY DecisionsFacts DEF PlansOK
<1>8. /\ todo \in Seq(DeedRec)
      /\ \A k \in DOMAIN todo : DeedOK(todo[k]) /\ todo[k].do = "approve"
  BY <1>2 DEF TodoOK
<1> HIDE DEF D
<1>9. D \in Seq(DeedRec) BY <1>7 DEF DecidedOn
<1>10. ASSUME NEW k \in DOMAIN D, NEW d, d = D[k]
       PROVE  /\ d.do # "approve"
              /\ DeedOK(d)'
              /\ d.do = "dispatch" => d.task \in Picks(head, gate)
  <2>1. CASE Len(D) = 1 /\ D[1].do \in {"illegal", "stop", "digest"}
    <3>1. k = 1 BY <2>1, <1>9, SeqFacts
    <3> QED BY <2>1, <3>1, <1>10 DEF DeedOK
  <2>2. CASE /\ D[k].task \in Task /\ D[k].do = DeedFor(head, D[k].task)
             /\ head[D[k].task].status = "pending" => D[k].task \in Picks(head, gate)
    <3>1. head \in Plan /\ mem \in Memory BY DEF PlansOK, MemsOK
    <3> QED BY <2>2, <3>1, <1>2, <1>10, DeedForFacts DEF DeedOK
  <2> QED BY <2>1, <2>2, <1>7 DEF DecidedOn
<1>11. ASSUME NEW k \in DOMAIN D, NEW l \in DOMAIN D, k # l PROVE D[k].task # D[l].task
  <2>1. CASE Len(D) = 1 BY <2>1, <1>9, <1>11, SeqFacts
  <2> QED BY <2>1, <1>7, <1>11 DEF DecidedOn
<1>12. ASSUME NEW k \in DOMAIN D, NEW l \in DOMAIN D, k # l, D[k].do = "dispatch", D[l].do = "dispatch"
       PROVE  Owner[D[k].task] # Owner[D[l].task]
  <2>1. D[k].task \in Picks(head, gate) /\ D[l].task \in Picks(head, gate) BY <1>10, <1>12
  <2>2. /\ D[k].task = First(Eligible(head, Owner[D[k].task]))
        /\ D[l].task = First(Eligible(head, Owner[D[l].task]))
    BY <2>1, PicksFacts
  <2> QED BY <2>2, <1>11, <1>12
<1> DEFINE n == Len(todo)
<1>13. /\ todo' \in Seq(DeedRec) /\ DOMAIN todo' = 1..n + Len(D)
       /\ \A k \in 1..n : todo'[k] = todo[k] /\ k \in DOMAIN todo
       /\ \A k \in 1..Len(D) : todo'[n + k] = D[k]
       /\ DOMAIN D = 1..Len(D) /\ Len(D) \in Nat /\ n \in Nat
  BY <1>1, <1>8, <1>9, ConcatFacts, SeqFacts DEF D
<1> HIDE DEF n
<1>14. ASSUME NEW k \in DOMAIN todo'
       PROVE  \/ k \in DOMAIN todo /\ todo'[k] = todo[k]
              \/ k - n \in DOMAIN D /\ todo'[k] = D[k - n]
  <2>1. CASE k <= n BY <2>1, <1>13
  <2>2. CASE ~(k <= n)
    <3>1. k - n \in DOMAIN D /\ n + (k - n) = k BY <2>2, <1>13
    <3> QED BY <3>1, <1>13
  <2> QED BY <2>1, <2>2
<1>15. TodoOK'
  <2>1. ASSUME NEW k \in DOMAIN todo', NEW d, d = todo'[k] PROVE DeedOK(d)'
    <3>1. CASE k \in DOMAIN todo /\ todo'[k] = todo[k]
      <4>1. DeedOK(todo[k]) /\ todo[k].do = "approve" BY <3>1, <1>8
      <4> QED BY <3>1, <4>1, <2>1 DEF DeedOK
    <3>2. CASE k - n \in DOMAIN D /\ todo'[k] = D[k - n] BY <3>2, <1>10, <2>1
    <3> QED BY <3>1, <3>2, <1>14
  <2>2. ASSUME NEW i \in DOMAIN todo', NEW j \in DOMAIN todo', i # j, todo'[i].do = todo'[j].do,
               todo'[i].do \in {"redispatch", "triage", "dispatch"}
        PROVE  /\ todo'[i].task # todo'[j].task
               /\ todo'[i].do = "dispatch" => Owner[todo'[i].task] # Owner[todo'[j].task]
    <3>1. /\ i - n \in DOMAIN D /\ todo'[i] = D[i - n]
          /\ j - n \in DOMAIN D /\ todo'[j] = D[j - n]
      BY <1>14, <1>8, <2>2
    <3>2. i - n # j - n BY <2>2, <1>13
    <3> QED BY <3>1, <3>2, <2>2, <1>11, <1>12
  <2> QED BY <1>2, <1>13, <2>1, <2>2 DEF TodoOK, Does, DeedOK
<1>16. BudgetOK'
  <2>1. Launching' \in SUBSET Unit BY DEF Launching
  <2>2. Cardinality(Launching') \in Nat /\ Cardinality(Launching') <= Cardinality(Unit) BY <2>1, UnitCount
  <2>3. Len(mem.log) \in Nat BY SeqFacts DEF MemsOK, Memory
  <2>4. CASE Launching' = {}
    <3>1. Cardinality(Launching') = 0 BY <2>4, FS_EmptySet
    <3>2. Cardinality(Launching) \in Nat BY UnitCount DEF Launching
    <3> QED BY <3>1, <3>2, <2>3, <1>2, UnitCount, AutopilotAssumption DEF BudgetOK
  <2>5. CASE Launching' # {}
    <3>1. PICK k \in DOMAIN todo' : todo'[k].do = "dispatch" BY <2>5 DEF Launching, Does
    <3>2. k - n \in DOMAIN D /\ todo'[k] = D[k - n] BY <3>1, <1>8, <1>14
    <3>3. Picks(head, gate) # {} BY <3>1, <3>2, <1>10
    <3>4. Len(mem.log) < Ceiling BY <3>3, <2>3, AutopilotAssumption DEF Picks
    <3> QED BY <3>4, <2>2, <2>3, <1>2, UnitCount, AutopilotAssumption DEF BudgetOK
  <2> QED BY <2>4, <2>5
<1> QED BY <1>3, <1>4, <1>5, <1>6, <1>15, <1>16

LEMMA StutterTypes == ASSUME TypeInv, UNCHANGED vars PROVE TypeInv'
BY DEF TypeInv, PlansOK, MemsOK, QueuesOK, RestOK, TodoOK, BudgetOK, DeedOK, Launching, Does,
       vars, board, loop, store, others

LEMMA RaisesTypes == ASSUME TypeInv, NEW i \in DOMAIN runs, ClaimRaises(i) PROVE TypeInv'
<1> USE DEF TypeInv
<1> DEFINE u == runs[i].unit
           text == ReadBy(i)
           t == Target(text, u)
           q == Claimed(text, t)
<1>1. /\ UNCHANGED loop /\ UNCHANGED store /\ UNCHANGED <<stop, wave, inbox, sent, crashes, heard, files, beat>>
      /\ runs' = RemoveAt(runs, i) /\ UNCHANGED <<exited, inflight>>
      /\ ~NothingFor(text, u)
      /\ UNCHANGED board \/ Write(q)
  BY DEF ClaimRaises, Exit, TakeTask
<1>2. u \in Unit /\ text \in Plan BY RunFacts DEF PlansOK, RestOK, ReadBy
<1>3. t \in Task BY <1>1, <1>2, TargetIsOne
<1>4. q \in Plan /\ \A s \in Task : q[s].reason = text[s].reason BY <1>2, <1>3, ClaimedFacts
<1>5. text # work => runs[i].text # <<>> BY DEF ReadBy
<1> HIDE DEF q, text, t
<1>6. "overlap" \notin Faults => text = work BY <1>5 DEF RestOK
<1>7. QueuesOK' BY <1>1 DEF QueuesOK, loop
<1>8. RestOK' BY <1>1, RunFacts DEF RestOK, loop
<1>9. CASE UNCHANGED board
  <2>1. PlansOK' BY <1>9, PlansStay
  <2> QED BY <1>1, <1>7, <1>8, <1>9, <2>1, ProcessTypes DEF board
<1>10. CASE Write(q)
  <2>1. PlansOK' BY <1>4, <1>10 DEF PlansOK, Write
  <2> QED BY <1>1, <1>4, <1>6, <1>7, <1>8, <1>10, <2>1, ProcessTypes DEF Write
<1> QED BY <1>1, <1>9, <1>10

LEMMA NextTypes == ASSUME TypeInv, [Next]_vars PROVE TypeInv'
<1>1. CASE Loop
  BY <1>1, TickTypes, DrainTgTypes, ListTypes, DrainControlTypes, ArchiveTypes, DecideTypes, HaltTypes,
     EscalateTypes, ReviewTypes, TriageTypes, DispatchTypes, RedispatchTypes, SaveTypes, RestartTypes DEF Loop
<1>2. CASE Claiming BY <1>2, RefuseTypes, ClaimTypes, RaisesTypes DEF Claiming
<1>3. CASE Human
  <2>1. PICK cmd \in Commands, t \in Task \cup {Nothing} : HandleUpdate([cmd |-> cmd, task |-> t])
    BY <1>3 DEF Human
  <2> QED BY <2>1, HandleUpdateTypes
<1>4. CASE Crash BY <1>4, CrashTypes
<1>5. CASE \E i \in DOMAIN runs : Peek(i) \/ Ending(i)
  <2>1. PICK i \in DOMAIN runs : Peek(i) \/ Ending(i) BY <1>5
  <2>2. CASE Peek(i) BY <2>2, PeekTypes
  <2>3. CASE Ending(i)
    <3>1. ASSUME NEW status \in {"in_progress", "needs_review", "malformed", "unreported"},
                 EndSession(i, status, NoReason)
          PROVE  TypeInv'
      <4>1. NoReason \in Reason \cup {NoReason} OBVIOUS
      <4> QED BY <3>1, <4>1, EndingTypes
    <3>2. ASSUME NEW reason \in Reasons, EndSession(i, "blocked", reason) PROVE TypeInv'
      <4>1. reason \in Reason \cup {NoReason} BY AutopilotAssumption
      <4> QED BY <3>2, <4>1, EndingTypes
    <3> QED BY <2>3, <3>1, <3>2 DEF Ending
  <2> QED BY <2>1, <2>2, <2>3
<1>6. CASE UNCHANGED vars BY <1>6, StutterTypes
<1> QED BY <1>1, <1>2, <1>3, <1>4, <1>5, <1>6 DEF Next

(* Whatever fails, the loop, the dispatch processes, the listener and the  *)
(* human leave every variable of the supervisor with its type: a plan on   *)
(* disk and at HEAD is a plan (control.py, tg_commands.py), a task is      *)
(* started again twice at most (supervisor.py decide), reports listed are  *)
(* there when they are taken.                                              *)
THEOREM AutopilotTypes == Spec => []TypeOK
<1>1. Init => TypeInv BY InitTypes
<1>2. TypeInv /\ [Next]_vars => TypeInv' BY NextTypes
<1>3. TypeInv => TypeOK BY TypeInvIsEnough
<1> QED BY <1>1, <1>2, <1>3, PTL DEF Spec

(* The dispatches of the last hour number less than the ceiling and the    *)
(* units together: one reading of the log lets a tick dispatch once for    *)
(* each idle unit (can_dispatch, decide), and a restart brings back a log  *)
(* that was within the bound.                                              *)
THEOREM CeilingHolds == Spec => []CeilingNearlyKept
<1>1. Init => TypeInv BY InitTypes
<1>2. TypeInv /\ [Next]_vars => TypeInv' BY NextTypes
<1>3. TypeInv => CeilingNearlyKept BY CeilingIsKept
<1> QED BY <1>1, <1>2, <1>3, PTL DEF Spec

-----------------------------------------------------------------------------
(* Ruled out is what second sessions, lost edits and skipped reviews come  *)
(* from: a silent dossier, a failed commit, a claim on a stale plan, a     *)
(* review without verdict, a crash or /wave before dispatched processes    *)
(* got to their claim, and /rework of a task that was reviewed meanwhile.  *)
(* Refused dispatches, silent sessions, the budget gate and the other      *)
(* commands stay.                                                          *)
Calm == /\ Faults \cap {"slow", "commit", "overlap", "noop", "crash"} = {}
        /\ Commands \cap {"wave", "rework"} = {}

Holding == {"claimed", "in_progress"}
(* The reports whose outcome is not on the board yet.                      *)
Live == {k \in DOMAIN files : phase = "archive" => k # Turn}
(* From the start of a tick to its last review nothing is being launched.  *)
Quiet == phase \in {"commands", "reports", "archive"} \/ (phase = "acting" /\ Does(Judge) # {})

(* A unit has at most one of: a process, a report, a launch to be made.    *)
RunUnits == {runs[i].unit : i \in DOMAIN runs}
FileUnits == {files[k].unit : k \in Live}
DeedUnits == {Owner[todo[a].task] : a \in Does(Launch)}

RunsOne == \A i, j \in DOMAIN runs : i # j => runs[i].unit # runs[j].unit
FilesOne == \A k, l \in Live : k # l => files[k].unit # files[l].unit
DeedsOne == \A a, b \in Does(Launch) : a # b => Owner[todo[a].task] # Owner[todo[b].task]
Tokens ==
  /\ RunsOne /\ FilesOne /\ DeedsOne
  /\ RunUnits \cap FileUnits = {} /\ (RunUnits \cup FileUnits) \cap DeedUnits = {}

(* Who works on a task, or has reported on it, holds it.                   *)
Owed(t) == \E k \in Live : files[k].task = t
Holders ==
  /\ \A i \in DOMAIN runs : runs[i].stage = "working" => Owner[runs[i].task] = runs[i].unit
  /\ \A k \in Live : Owner[files[k].task] = files[k].unit
  /\ \A t \in Task : Working(t) \/ Owed(t) => work[t].status \in Holding

(* A unit holds one task, and has no other under review when reviews come. *)
Lone(S) == \A s, t \in Task :
  work[s].status \in S /\ work[t].status \in S /\ Owner[s] = Owner[t] => s = t
Alone == Lone(Holding) /\ (Quiet \/ phase = "asleep" => Lone(Active))

(* When stale tasks are looked for, dispatched processes have claimed and  *)
(* the dossier of whoever worked since the tick began is fresh.            *)
Calmly ==
  /\ Quiet => \A i \in DOMAIN runs : runs[i].stage = "working"
  /\ phase \in {"commands", "reports", "archive"} => \A t \in Task : Working(t) => beat[t] = 0
  /\ phase \in {"reports", "archive"} => \A k \in DOMAIN files : k > left => beat[files[k].task] = 0

(* What waits for review is reviewed before anything is launched.          *)
Waits == \E t \in Task : work[t].status = "needs_review"
JudgedFirst == \A i, j \in DOMAIN todo : i < j /\ todo[j].do \in Judge => todo[i].do \notin Launch
Reviews ==
  /\ phase \in {"asleep", "commands"} => ~Waits
  /\ phase = "acting" /\ Waits => halting \/ Does({"review"} \cup Ender) # {}
  /\ JudgedFirst

Steady == head = work /\ ~wave /\ phase # "down"

(* The board: dependencies first, and the fields validate asks for.        *)
Begun == \A t \in Task : work[t].status # "pending" => DepsDone(work, t)
Papers ==
  /\ \A t \in Task : work[t].status = "needs_review" => work[t].evidence
  /\ \A t \in Task : work[t].status \in Active => work[t].branch
ExactOnes == \A r \in Reasons : ExactReason(r)
Reasoned ==
  ExactOnes =>
  /\ \A t \in Task : work[t].status = "blocked" => ExactReason(work[t].reason)
  /\ \A k \in DOMAIN files : files[k].status = "blocked" => ExactReason(files[k].reason)

CalmInv == Steady /\ Tokens /\ Holders /\ Alone /\ Calmly /\ Reviews /\ Begun /\ Papers /\ Reasoned

LEMMA CalmInit == ASSUME Init PROVE CalmInv
<1>1. /\ head = work /\ phase = "asleep" /\ ~wave /\ todo = <<>> /\ runs = <<>> /\ files = <<>>
      /\ \A t \in Task : work[t].status = "pending"
  BY DEF Init, NewPlan
<1>2. Does(Launch) = {} /\ Does(Judge) = {} /\ Live = {} /\ DOMAIN runs = {} /\ DOMAIN todo = {} /\ DOMAIN files = {}
  BY <1>1 DEF Does, Live
<1>3. Steady /\ Reviews BY <1>1, <1>2 DEF Steady, Reviews, Waits, JudgedFirst
<1>4. Tokens BY <1>2 DEF Tokens, RunsOne, FilesOne, DeedsOne, RunUnits, FileUnits, DeedUnits
<1>5. Holders BY <1>1, <1>2 DEF Holders, Working, Owed
<1>6. Alone BY <1>1 DEF Alone, Lone, Holding, Active
<1>7. Calmly BY <1>1, <1>2 DEF Calmly, Quiet
<1>8. Begun /\ Papers /\ Reasoned BY <1>1, <1>2 DEF Begun, Papers, Reasoned, Active
<1> QED BY <1>3, <1>4, <1>5, <1>6, <1>7, <1>8 DEF CalmInv

LEMMA CalmOneSession == ASSUME TypeInv, CalmInv PROVE OneSession
<1> SUFFICES ASSUME NEW i \in DOMAIN runs, NEW j \in DOMAIN runs, i # j,
                    runs[i].stage = "working", runs[j].stage = "working"
             PROVE  runs[i].task # runs[j].task
  BY DEF OneSession
<1> QED BY DEF CalmInv, Tokens, RunsOne, Holders

-----------------------------------------------------------------------------
(* The edits of the board.  Same: a task keeps the fields that matter.     *)
Same(s) ==
  /\ work'[s].status = work[s].status /\ work'[s].reason = work[s].reason
  /\ work'[s].branch = work[s].branch /\ work'[s].evidence = work[s].evidence
KeptEdit == \A s \in Task : Same(s)
ClaimEdit(t) ==
  /\ work[t].status = "pending" /\ DepsDone(work, t)
  /\ work'[t].status = "claimed" /\ work'[t].branch
  /\ \A s \in Task : s # t => Same(s)
ReportEdit(t) ==
  /\ work[t].status \in Holding
  /\ work'[t].branch = work[t].branch
  /\ \/ work'[t].status = "needs_review" /\ work'[t].evidence
     \/ work'[t].status = "blocked" /\ (ExactOnes => ExactReason(work'[t].reason))
  /\ \A s \in Task : s # t => Same(s)
UnblockEdit(t) ==
  /\ work[t].status = "blocked" /\ work'[t].status = "pending"
  /\ \A s \in Task : s # t => Same(s)
ReviewEdit(S) ==
  /\ \A t \in S :
       /\ work[t].status = "needs_review" /\ work'[t].status \in {"done", "in_progress"}
       /\ work'[t].branch = work[t].branch
  /\ \A s \in Task \ S : Same(s)
Edit ==
  \/ KeptEdit
  \/ \E t \in Task : ClaimEdit(t) \/ ReportEdit(t) \/ UnblockEdit(t)
  \/ \E S \in SUBSET Task : ReviewEdit(S)

(* No edit breaks the board, or undoes what is done.                       *)
LEMMA EditKeeps ==
  ASSUME Begun, Papers, Edit, work \in Plan, work' \in Plan
  PROVE  /\ Begun' /\ Papers'
         /\ \A t \in Task : work[t].status = "done" => work'[t].status = "done"
         /\ (ExactOnes => \A t \in Task : work[t].status = "blocked" => ExactReason(work[t].reason)) =>
            (ExactOnes => \A t \in Task : work'[t].status = "blocked" => ExactReason(work'[t].reason))
<1> DEFINE Exact0 == ExactOnes => \A t \in Task : work[t].status = "blocked" => ExactReason(work[t].reason)
           Exact1 == ExactOnes => \A t \in Task : work'[t].status = "blocked" => ExactReason(work'[t].reason)
           Done == \A t \in Task : work[t].status = "done" => work'[t].status = "done"
<1>0. \A t \in Task : Deps[t] \subseteq Task BY PlanAssumption
<1>1. ASSUME Done, \A t \in Task : work'[t].status # "pending" => work[t].status # "pending" \/ DepsDone(work, t)
      PROVE  Begun'
  <2> SUFFICES ASSUME NEW t \in Task, work'[t].status # "pending" PROVE Deps[t] \subseteq {s \in Task : work'[s].status = "done"}
    BY DEF Begun, DepsDone, In
  <2>1. DepsDone(work, t) BY <1>1 DEF Begun
  <2> QED BY <2>1, <1>0, <1>1 DEF DepsDone, In
<1>2. CASE KeptEdit
  <2>1. Done /\ Papers' /\ (Exact0 => Exact1) BY <1>2 DEF KeptEdit, Same, Papers, Active
  <2>2. Begun' BY <2>1, <1>1, <1>2 DEF KeptEdit, Same
  <2> QED BY <2>1, <2>2
<1>3. ASSUME NEW t \in Task, ClaimEdit(t) PROVE Begun' /\ Papers' /\ Done /\ (Exact0 => Exact1)
  <2>1. Done BY <1>3 DEF ClaimEdit, Same
  <2>2. Papers'
    <3>1. ASSUME NEW s \in Task PROVE (work'[s].status = "needs_review" => work'[s].evidence) /\ (work'[s].status \in Active => work'[s].branch)
      <4>1. CASE s = t BY <4>1, <1>3 DEF ClaimEdit
      <4>2. CASE s # t BY <4>2, <1>3 DEF ClaimEdit, Same, Papers
      <4> QED BY <4>1, <4>2
    <3> QED BY <3>1 DEF Papers
  <2>3. Exact0 => Exact1 BY <1>3 DEF ClaimEdit, Same
  <2>4. Begun' BY <2>1, <1>1, <1>3 DEF ClaimEdit, Same
  <2> QED BY <2>1, <2>2, <2>3, <2>4
<1>4. ASSUME NEW t \in Task, ReportEdit(t) PROVE Begun' /\ Papers' /\ Done /\ (Exact0 => Exact1)
  <2>1. Done BY <1>4 DEF ReportEdit, Same, Holding
  <2>2. Papers'
    <3>1. ASSUME NEW s \in Task PROVE (work'[s].status = "needs_review" => work'[s].evidence) /\ (work'[s].status \in Active => work'[s].branch)
      <4>1. CASE s = t BY <4>1, <1>4 DEF ReportEdit, Papers, Active, Holding
      <4>2. CASE s # t BY <4>2, <1>4 DEF ReportEdit, Same, Papers
      <4> QED BY <4>1, <4>2
    <3> QED BY <3>1 DEF Papers
  <2>3. Exact0 => Exact1 BY <1>4 DEF ReportEdit, Same
  <2>4. Begun' BY <2>1, <1>1, <1>4 DEF ReportEdit, Same, Holding
  <2> QED BY <2>1, <2>2, <2>3, <2>4
<1>5. ASSUME NEW t \in Task, UnblockEdit(t) PROVE Begun' /\ Papers' /\ Done /\ (Exact0 => Exact1)
  <2>1. Done BY <1>5 DEF UnblockEdit, Same
  <2>2. Papers'
    <3>1. ASSUME NEW s \in Task PROVE (work'[s].status = "needs_review" => work'[s].evidence) /\ (work'[s].status \in Active => work'[s].branch)
      <4>1. CASE s = t BY <4>1, <1>5 DEF UnblockEdit, Active
      <4>2. CASE s # t BY <4>2, <1>5 DEF UnblockEdit, Same, Papers
      <4> QED BY <4>1, <4>2
    <3> QED BY <3>1 DEF Papers
  <2>3. Exact0 => Exact1 BY <1>5 DEF UnblockEdit, Same
  <2>4. Begun' BY <2>1, <1>1, <1>5 DEF UnblockEdit, Same
  <2> QED BY <2>1, <2>2, <2>3, <2>4
<1>6. ASSUME NEW S \in SUBSET Task, ReviewEdit(S) PROVE Begun' /\ Papers' /\ Done /\ (Exact0 => Exact1)
  <2>1. Done BY <1>6 DEF ReviewEdit, Same
  <2>2. Papers'
    <3>1. ASSUME NEW s \in Task PROVE (work'[s].status = "needs_review" => work'[s].evidence) /\ (work'[s].status \in Active => work'[s].branch)
      <4>1. CASE s \in S BY <4>1, <1>6 DEF ReviewEdit, Papers, Active
      <4>2. CASE s \notin S BY <4>2, <1>6 DEF ReviewEdit, Same, Papers
      <4> QED BY <4>1, <4>2
    <3> QED BY <3>1 DEF Papers
  <2>3. Exact0 => Exact1 BY <1>6 DEF ReviewEdit, Same
  <2>4. Begun' BY <2>1, <1>1, <1>6 DEF ReviewEdit, Same
  <2> QED BY <2>1, <2>2, <2>3, <2>4
<1> QED BY <1>2, <1>3, <1>4, <1>5, <1>6 DEF Edit

-----------------------------------------------------------------------------
(* What each action is shown to do: one edit, and the rest of the          *)
(* invariant.                                                              *)
FilesExact == ExactOnes => \A k \in DOMAIN files : files[k].status = "blocked" => ExactReason(files[k].reason)
CalmStep == Edit /\ Steady' /\ Tokens' /\ Holders' /\ Alone' /\ Calmly' /\ Reviews' /\ FilesExact'

LEMMA CalmKeeps == ASSUME TypeInv, TypeInv', CalmInv, CalmStep PROVE CalmInv'
<1>1. work \in Plan /\ work' \in Plan BY DEF TypeInv, PlansOK
<1>2. Begun' /\ Papers' /\ Reasoned'
  BY <1>1, EditKeeps DEF CalmInv, CalmStep, Reasoned, FilesExact
<1> QED BY <1>2 DEF CalmInv, CalmStep

(* What is left alone.                                                     *)
LEMMA LiveStays ==
  ASSUME UNCHANGED <<files, left>>, phase' = "archive" <=> phase = "archive" PROVE Live' = Live
<1>1. Turn' = Turn BY DEF Turn, Sooner, Filed
<1> QED BY <1>1 DEF Live

LEMMA TokensStay ==
  ASSUME Tokens, UNCHANGED <<runs, files, left, todo>>, phase' = "archive" <=> phase = "archive"
  PROVE  Tokens'
<1>1. Live' = Live BY LiveStays
<1>2. Does(Launch)' = Does(Launch) BY DEF Does, Launch
<1>3. RunUnits' = RunUnits /\ FileUnits' = FileUnits /\ DeedUnits' = DeedUnits
  BY <1>1, <1>2 DEF RunUnits, FileUnits, DeedUnits
<1>4. RunsOne' /\ FilesOne' /\ DeedsOne' BY <1>1, <1>2 DEF Tokens, RunsOne, FilesOne, DeedsOne
<1> QED BY <1>3, <1>4 DEF Tokens

LEMMA TokensShrink ==
  ASSUME Tokens, RunsOne', FilesOne', DeedsOne',
         RunUnits' \subseteq RunUnits, FileUnits' \subseteq FileUnits, DeedUnits' \subseteq DeedUnits
  PROVE  Tokens'
BY DEF Tokens

LEMMA HoldersStay ==
  ASSUME Holders, UNCHANGED <<runs, files>>, Live' \subseteq Live,
         \A t \in Task : work[t].status \in Holding /\ (Working(t) \/ Owed(t)') => work'[t].status \in Holding
  PROVE  Holders'
<1>1. \A t : Owed(t)' => Owed(t) BY DEF Owed
<1>2. \A t : Working(t)' <=> Working(t) BY DEF Working
<1> QED BY <1>1, <1>2 DEF Holders, Holding

LEMMA KeptFacts ==
  ASSUME KeptEdit
  PROVE  /\ Edit
         /\ \A t \in Task : work'[t].status = work[t].status
         /\ Lone(Holding) => Lone(Holding)'
         /\ Lone(Active) => Lone(Active)'
         /\ Waits' <=> Waits
BY DEF Edit, KeptEdit, Same, Lone, Waits, Holding, Active

LEMMA UnchangedKept == ASSUME UNCHANGED work PROVE KeptEdit
BY DEF KeptEdit, Same

LEMMA TickCalm == ASSUME Calm, TypeInv, CalmInv, Tick PROVE CalmStep
<1> USE DEF CalmInv
<1>1. /\ phase = "asleep" /\ phase' = "commands" /\ ~wave /\ ~wave'
      /\ UNCHANGED <<todo, left, halting, runs, files>> /\ Elapse
  BY DEF Tick, Steady
<1>2. /\ head' = Aged(head) /\ work' = Aged(work) /\ head = work
      /\ \A i \in DOMAIN runs : runs[i].stage = "working"
  BY <1>1 DEF Elapse, Steady
<1>3. KeptEdit BY <1>2, AgedFacts DEF TypeInv, PlansOK, KeptEdit, Same
<1>4. Steady' BY <1>1, <1>2 DEF Steady
<1>5. Tokens' BY <1>1, TokensStay
<1>6. Holders'
  <2>1. Live' = Live BY <1>1, LiveStays
  <2> QED BY <1>1, <1>3, <2>1, KeptFacts, HoldersStay
<1>7. Alone' BY <1>1, <1>3, KeptFacts DEF Alone
<1>8. Calmly'
  <2>1. \A t \in Task : Working(t)' => beat'[t] = 0
    <3>1. PICK idle \in SUBSET Task :
            /\ "slow" \notin Faults => \A t \in idle : ~Working(t)
            /\ beat' = [t \in Task |-> IF Working(t) /\ t \notin idle THEN 0 ELSE Older(beat[t])]
      BY <1>1 DEF Elapse
    <3>2. "slow" \notin Faults BY DEF Calm
    <3>3. \A t : Working(t)' <=> Working(t) BY <1>1 DEF Working
    <3> QED BY <3>1, <3>2, <3>3
  <2>2. \A i \in DOMAIN runs' : runs'[i].stage = "working" BY <1>1, <1>2
  <2> QED BY <1>1, <2>1, <2>2 DEF Calmly
<1>9. Reviews'
  <2>1. todo = <<>> BY <1>1 DEF TypeInv, TodoOK
  <2>2. ~Waits' BY <1>1, <1>3, KeptFacts DEF Reviews
  <2> QED BY <1>1, <2>1, <2>2 DEF Reviews, JudgedFirst
<1>10. FilesExact' BY <1>1 DEF FilesExact, Reasoned
<1> QED BY <1>3, <1>4, <1>5, <1>6, <1>7, <1>8, <1>9, <1>10, KeptFacts DEF CalmStep

-----------------------------------------------------------------------------
(* The first deed of the list is done.                                     *)
Popping == phase = "acting" /\ phase' = "acting" /\ todo # <<>> /\ todo' = Tail(todo)

LEMMA PopFacts ==
  ASSUME TypeInv, Popping
  PROVE  /\ DOMAIN todo = 1..Len(todo) /\ Len(todo) \in Nat /\ DOMAIN todo' = 1..Len(todo) - 1
         /\ 1 \in DOMAIN todo /\ Head(todo) = todo[1] /\ DeedOK(Head(todo)) /\ Head(todo) \in DeedRec
         /\ \A k \in DOMAIN todo' : k + 1 \in DOMAIN todo /\ k + 1 # 1 /\ todo'[k] = todo[k + 1] /\ 1 < k + 1
         /\ \A k \in DOMAIN todo : k # 1 => k - 1 \in DOMAIN todo' /\ todo'[k - 1] = todo[k]
<1>1. todo \in Seq(DeedRec) /\ todo # <<>> /\ todo' = Tail(todo) BY DEF TypeInv, TodoOK, Popping
<1>2. DOMAIN todo = 1..Len(todo) /\ Len(todo) \in Nat BY <1>1, SeqFacts
<1>3. DOMAIN todo' = 1..Len(todo) - 1 /\ \A k \in 1..Len(todo) - 1 : todo'[k] = todo[k + 1] BY <1>1, TailFacts
<1>4. 1 \in DOMAIN todo /\ Head(todo) = todo[1] /\ DeedOK(Head(todo)) /\ Head(todo) \in DeedRec
  BY <1>1, HeadFacts DEF TypeInv
<1>5. \A k \in DOMAIN todo' : k + 1 \in DOMAIN todo /\ k + 1 # 1 /\ todo'[k] = todo[k + 1] /\ 1 < k + 1
  BY <1>2, <1>3
<1>6. ASSUME NEW k \in DOMAIN todo, k # 1 PROVE k - 1 \in DOMAIN todo' /\ todo'[k - 1] = todo[k]
  <2>1. k - 1 \in 1..Len(todo) - 1 /\ (k - 1) + 1 = k BY <1>2, <1>6
  <2> QED BY <2>1, <1>3
<1> QED BY <1>2, <1>3, <1>4, <1>5, <1>6

LEMMA PopLoop ==
  ASSUME TypeInv, Popping, JudgedFirst, DeedsOne
  PROVE  /\ Quiet' => Quiet /\ Head(todo).do \notin Launch
         /\ JudgedFirst' /\ DeedsOne' /\ DeedUnits' \subseteq DeedUnits
         /\ Head(todo).do \in Launch =>
              Owner[Head(todo).task] \in DeedUnits /\ Owner[Head(todo).task] \notin DeedUnits'
         /\ Head(todo).do \in Judge => Quiet
         /\ Head(todo).do \notin {"review"} \cup Ender /\ Does({"review"} \cup Ender) # {} =>
              Does({"review"} \cup Ender)' # {}
<1>1. ASSUME Quiet' PROVE Quiet /\ Head(todo).do \notin Launch
  <2>1. PICK k \in DOMAIN todo' : todo'[k].do \in Judge BY <1>1 DEF Quiet, Popping, Does
  <2>2. k + 1 \in DOMAIN todo /\ todo[k + 1].do \in Judge /\ 1 < k + 1 /\ 1 \in DOMAIN todo /\ Head(todo) = todo[1]
    BY <2>1, PopFacts
  <2> QED BY <2>2 DEF Quiet, Popping, Does, JudgedFirst
<1>2. JudgedFirst'
  <2> SUFFICES ASSUME NEW i \in DOMAIN todo', NEW j \in DOMAIN todo', i < j, todo'[j].do \in Judge
               PROVE  todo'[i].do \notin Launch
    BY DEF JudgedFirst, Judge, Launch
  <2>1. i + 1 \in DOMAIN todo /\ j + 1 \in DOMAIN todo /\ todo'[i] = todo[i + 1] /\ todo'[j] = todo[j + 1] /\ i + 1 < j + 1
    BY PopFacts
  <2> QED BY <2>1 DEF JudgedFirst
<1>3. DeedsOne'
  <2> SUFFICES ASSUME NEW a \in DOMAIN todo', NEW b \in DOMAIN todo', a # b, todo'[a].do \in Launch, todo'[b].do \in Launch
               PROVE  Owner[todo'[a].task] # Owner[todo'[b].task]
    BY DEF DeedsOne, Does, Launch
  <2>1. a + 1 \in DOMAIN todo /\ b + 1 \in DOMAIN todo /\ todo'[a] = todo[a + 1] /\ todo'[b] = todo[b + 1] /\ a + 1 # b + 1
    BY PopFacts
  <2> QED BY <2>1 DEF DeedsOne, Does
<1>4. ASSUME NEW u \in DeedUnits'
      PROVE  u \in DeedUnits /\ (Head(todo).do \in Launch => u # Owner[Head(todo).task])
  <2>1. PICK k \in DOMAIN todo' : todo'[k].do \in Launch /\ u = Owner[todo'[k].task] BY <1>4 DEF DeedUnits, Does, Launch
  <2>2. k + 1 \in DOMAIN todo /\ k + 1 # 1 /\ todo'[k] = todo[k + 1] /\ 1 \in DOMAIN todo /\ Head(todo) = todo[1] BY PopFacts
  <2> QED BY <2>1, <2>2 DEF DeedUnits, Does, DeedsOne
<1>5. Head(todo).do \in Launch => Owner[Head(todo).task] \in DeedUnits BY PopFacts DEF DeedUnits, Does
<1>6. Head(todo).do \in Judge => Quiet BY PopFacts DEF Quiet, Does, Popping
<1>7. ASSUME Head(todo).do \notin {"review"} \cup Ender, NEW k \in DOMAIN todo, todo[k].do \in {"review"} \cup Ender
      PROVE  \E l \in DOMAIN todo' : todo'[l].do \in {"review"} \cup Ender
  BY <1>7, PopFacts
<1>8. Head(todo).do \notin {"review"} \cup Ender /\ Does({"review"} \cup Ender) # {} => Does({"review"} \cup Ender)' # {}
  BY <1>7 DEF Does, Ender
<1> QED BY <1>1, <1>2, <1>3, <1>4, <1>5, <1>6, <1>8

(* A step of the loop that pops a deed and launches nothing.               *)
LEMMA PopCalm ==
  ASSUME TypeInv, CalmInv, Popping, UNCHANGED <<runs, files, left>>, UNCHANGED wave, head' = work',
         Edit, Holders', Quiet => Lone(Active)', Lone(Holding)',
         Waits' => halting' \/ (Waits /\ ~halting /\ Head(todo).do \notin {"review"} \cup Ender)
  PROVE  CalmStep
<1> USE DEF CalmInv
<1>1. phase = "acting" /\ phase' = "acting" BY DEF Popping
<1>2. /\ Quiet' => Quiet
      /\ JudgedFirst' /\ DeedsOne' /\ DeedUnits' \subseteq DeedUnits
      /\ Head(todo).do \notin {"review"} \cup Ender /\ Does({"review"} \cup Ender) # {} => Does({"review"} \cup Ender)' # {}
  BY PopLoop DEF Reviews, Tokens
<1>3. Live' = Live BY <1>1, LiveStays
<1>4. Tokens'
  <2>1. RunUnits' = RunUnits /\ FileUnits' = FileUnits BY <1>3 DEF RunUnits, FileUnits
  <2>2. RunsOne' /\ FilesOne' BY <1>3 DEF Tokens, RunsOne, FilesOne
  <2> QED BY <1>2, <2>1, <2>2, TokensShrink
<1>5. Alone' BY <1>1, <1>2 DEF Alone
<1>6. Calmly' BY <1>1, <1>2 DEF Calmly
<1>7. Reviews'
  <2>1. ASSUME Waits', ~halting' PROVE Does({"review"} \cup Ender)' # {}
    <3>1. Waits /\ ~halting /\ Head(todo).do \notin {"review"} \cup Ender BY <2>1
    <3> QED BY <3>1, <1>1, <1>2 DEF Reviews
  <2> QED BY <1>1, <1>2, <2>1 DEF Reviews
<1>8. Steady' BY <1>1 DEF Steady
<1>9. FilesExact' BY DEF FilesExact, Reasoned
<1> QED BY <1>4, <1>5, <1>6, <1>7, <1>8, <1>9 DEF CalmStep

LEMMA PopKeptCalm ==
  ASSUME TypeInv, CalmInv, Popping, UNCHANGED <<runs, files, left>>, UNCHANGED wave, UNCHANGED board,
         halting' \/ (~halting /\ Head(todo).do \notin {"review"} \cup Ender)
  PROVE  CalmStep
<1> USE DEF CalmInv
<1>1. UNCHANGED work /\ head' = work' BY DEF board, Steady
<1>2. KeptEdit BY <1>1, UnchangedKept
<1>3. Edit /\ Lone(Holding)' /\ (Quiet => Lone(Active)') /\ (Waits' => Waits) BY <1>2, KeptFacts DEF Alone
<1>4. Holders'
  <2>1. Live' = Live BY LiveStays DEF Popping
  <2> QED BY <1>1, <2>1, HoldersStay
<1> QED BY <1>1, <1>3, <1>4, PopCalm

LEMMA HaltCalm == ASSUME TypeInv, CalmInv, Halt PROVE CalmStep
<1>1. /\ Popping /\ UNCHANGED <<runs, files, left>> /\ UNCHANGED wave /\ UNCHANGED board /\ halting'
  BY DEF Halt, Next1, Popping, others
<1> QED BY <1>1, PopKeptCalm

LEMMA EscalateCalm == ASSUME TypeInv, CalmInv, Escalate PROVE CalmStep
<1>1. /\ Popping /\ UNCHANGED <<runs, files, left>> /\ UNCHANGED wave /\ UNCHANGED board /\ halting' = halting
      /\ Head(todo).do = "escalate"
  BY DEF Escalate, Next1, Popping, others
<1>2. halting \in BOOLEAN BY DEF TypeInv, RestOK
<1> QED BY <1>1, <1>2, PopKeptCalm DEF Ender

LEMMA TriageCalm == ASSUME TypeInv, CalmInv, Triage PROVE CalmStep
<1> USE DEF CalmInv
<1> DEFINE t == Head(todo).task
<1>1. /\ Popping /\ UNCHANGED <<runs, files, left>> /\ UNCHANGED wave /\ halting' = halting
      /\ Head(todo).do = "triage"
      /\ UNCHANGED board \/ (work[t].status = "blocked" /\ work' = Answered(work, t) /\ head' = work')
  BY DEF Triage, Next1, Popping, others
<1>2. halting \in BOOLEAN BY DEF TypeInv, RestOK
<1>3. t \in Task BY <1>1, PopFacts DEF DeedOK
<1>4. CASE UNCHANGED board BY <1>1, <1>2, <1>4, PopKeptCalm DEF Ender
<1>5. CASE work[t].status = "blocked" /\ work' = Answered(work, t) /\ head' = work'
  <2>1. UnblockEdit(t)
    BY <1>3, <1>5, AnsweredFacts DEF UnblockEdit, Same, TypeInv, PlansOK
  <2>2. Edit BY <1>3, <2>1 DEF Edit
  <2>3. \A s \in Task : work'[s].status = work[s].status \/ (work[s].status = "blocked" /\ work'[s].status = "pending")
    BY <2>1 DEF UnblockEdit, Same
  <2>4. /\ Lone(Holding) => Lone(Holding)'
        /\ Lone(Active) => Lone(Active)'
        /\ Waits' => Waits
    BY <2>3 DEF Lone, Waits, Holding, Active
  <2>5. Holders'
    <3>1. Live' = Live BY <1>1, LiveStays DEF Popping
    <3> QED BY <1>1, <2>3, <3>1, HoldersStay DEF Holding
  <2> QED BY <1>1, <1>2, <1>5, <2>2, <2>4, <2>5, PopCalm DEF Alone, Ender
<1> QED BY <1>1, <1>4, <1>5

LEMMA ReviewCalm == ASSUME Calm, TypeInv, CalmInv, Review PROVE CalmStep
<1> USE DEF CalmInv
<1> DEFINE t == Head(todo).task
           S == In(work, {"needs_review"}) \cap (IF Head(todo).do = "review" THEN Task ELSE {t})
<1>1. /\ Popping /\ UNCHANGED <<runs, files, left>> /\ UNCHANGED wave /\ halting' = halting
      /\ Head(todo).do \in Judge
  BY DEF Review, Next1, Popping, others, Judge
<1>2. PICK verdict \in [S -> {"done", "in_progress"}] : work' = Judged(S, verdict) /\ head' = work'
  BY DEF Review, Calm
<1>3. S \in SUBSET Task /\ \A s \in S : work[s].status = "needs_review" BY DEF In
<1>4. Head(todo).do = "review" => \A s \in Task : work[s].status = "needs_review" => s \in S BY DEF In
<1> HIDE DEF S
<1>5. ReviewEdit(S)
  <2>1. work \in Plan BY DEF TypeInv, PlansOK
  <2> QED BY <1>2, <1>3, <2>1, JudgedFacts DEF ReviewEdit, Same
<1>6. Edit BY <1>3, <1>5 DEF Edit
<1>7. ASSUME NEW s \in Task
      PROVE  \/ s \notin S /\ work'[s].status = work[s].status
             \/ s \in S /\ work[s].status = "needs_review" /\ work'[s].status \in {"done", "in_progress"}
  <2>1. CASE s \in S BY <1>5, <2>1 DEF ReviewEdit
  <2>2. CASE s \notin S
    <3>1. Same(s) BY <1>5, <2>2 DEF ReviewEdit
    <3> QED BY <2>2, <3>1 DEF Same
  <2> QED BY <2>1, <2>2
<1>8. Quiet BY <1>1, PopLoop DEF Reviews, Tokens
<1>9. Lone(Active) BY <1>8 DEF Alone
<1>10. Lone(Active)' /\ Lone(Holding)' BY <1>7, <1>9 DEF Lone, Active, Holding
<1>11. Holders'
  <2>1. Live' = Live BY <1>1, LiveStays DEF Popping
  <2> QED BY <1>1, <1>7, <2>1, HoldersStay DEF Holding
<1>12. Waits' => Waits /\ Head(todo).do # "review" BY <1>4, <1>7 DEF Waits
<1>13. halting \in BOOLEAN BY DEF TypeInv, RestOK
<1> QED BY <1>1, <1>2, <1>6, <1>10, <1>11, <1>12, <1>13, PopCalm DEF Judge, Ender

-----------------------------------------------------------------------------
(* A step that touches neither the board nor the processes.                *)
LEMMA StillFacts ==
  ASSUME CalmInv, UNCHANGED <<board, wave, runs, files>>, phase' # "down", Live' \subseteq Live
  PROVE  /\ Edit /\ Steady' /\ Holders' /\ FilesExact' /\ (Waits' <=> Waits)
         /\ Lone(Holding)' /\ (Lone(Active) => Lone(Active)')
<1> USE DEF CalmInv
<1>1. UNCHANGED work BY DEF board
<1>2. KeptEdit BY <1>1, UnchangedKept
<1>3. Edit /\ Lone(Holding)' /\ (Lone(Active) => Lone(Active)') /\ (Waits' <=> Waits) BY <1>2, KeptFacts DEF Alone
<1>4. Holders' BY <1>1, HoldersStay
<1>5. Steady' BY DEF Steady, board
<1>6. FilesExact' BY DEF FilesExact, Reasoned
<1> QED BY <1>3, <1>4, <1>5, <1>6

LEMMA ListCalm == ASSUME TypeInv, CalmInv, ListReports PROVE CalmStep
<1> USE DEF CalmInv
<1>1. /\ UNCHANGED <<board, wave, runs, files, todo, halting, beat>>
      /\ phase = "commands" /\ phase' = "reports" /\ left' = Len(files)
  BY DEF ListReports, others
<1>2. Live = DOMAIN files /\ Live' = DOMAIN files BY <1>1 DEF Live
<1>3. /\ Edit /\ Steady' /\ Holders' /\ FilesExact' /\ (Waits' <=> Waits)
      /\ Lone(Holding)' /\ (Lone(Active) => Lone(Active)')
  BY <1>1, <1>2, StillFacts
<1>4. Tokens'
  <2>1. RunUnits' = RunUnits /\ FileUnits' = FileUnits /\ DeedUnits' = DeedUnits
    BY <1>1, <1>2 DEF RunUnits, FileUnits, DeedUnits, Does, Launch
  <2>2. RunsOne' /\ FilesOne' /\ DeedsOne' BY <1>1, <1>2 DEF Tokens, RunsOne, FilesOne, DeedsOne, Does, Launch
  <2> QED BY <2>1, <2>2, TokensShrink
<1>5. Alone' BY <1>1, <1>3 DEF Alone, Quiet
<1>6. Calmly'
  <2>1. \A t : Working(t)' <=> Working(t) BY <1>1 DEF Working
  <2>2. DOMAIN files = 1..Len(files) /\ Len(files) \in Nat BY SeqFacts DEF TypeInv, QueuesOK
  <2> QED BY <1>1, <2>1, <2>2 DEF Calmly, Quiet
<1>7. Reviews' BY <1>1 DEF Reviews, JudgedFirst, Judge, Launch
<1> QED BY <1>3, <1>4, <1>5, <1>6, <1>7 DEF CalmStep

LEMMA SaveCalm == ASSUME TypeInv, CalmInv, Save PROVE CalmStep
<1> USE DEF CalmInv
<1>1. /\ UNCHANGED <<board, wave, runs, files, left, todo, halting, beat>>
      /\ phase = "acting" /\ todo = <<>> /\ phase' = IF halting THEN "halted" ELSE "asleep"
  BY DEF Save, others
<1>2. Live' = Live BY <1>1, LiveStays
<1>3. /\ Edit /\ Steady' /\ Holders' /\ FilesExact' /\ (Waits' <=> Waits)
      /\ Lone(Holding)' /\ (Lone(Active) => Lone(Active)')
  BY <1>1, <1>2, StillFacts
<1>4. Tokens' BY <1>1, TokensStay
<1>5. DOMAIN todo = {} /\ Does({"review"} \cup Ender) = {} BY <1>1 DEF Does
<1>6. phase' = "asleep" => ~Waits BY <1>1, <1>5 DEF Reviews
<1>7. Reviews' BY <1>1, <1>3, <1>5, <1>6 DEF Reviews, JudgedFirst
<1>8. Alone'
  <2>1. ASSUME ~Waits PROVE Lone(Active)'
    <3>1. \A t \in Task : work[t].status \in Active => work[t].status \in Holding
      BY <2>1 DEF Waits, Active, Holding
    <3>2. Lone(Active) BY <3>1 DEF Alone, Lone
    <3> QED BY <3>2, <1>3
  <2> QED BY <1>1, <1>3, <1>6, <2>1 DEF Alone, Quiet
<1>9. Calmly' BY <1>1 DEF Calmly, Quiet
<1> QED BY <1>3, <1>4, <1>7, <1>8, <1>9 DEF CalmStep

LEMMA HandleUpdateCalm ==
  ASSUME CalmInv, NEW c, HandleUpdate(c) PROVE CalmStep
<1> USE DEF CalmInv
<1>1. UNCHANGED <<board, wave, runs, files, left, todo, halting, beat, phase>>
  BY DEF HandleUpdate, others, loop
<1>2. Live' = Live BY <1>1, LiveStays
<1>3. /\ Edit /\ Steady' /\ Holders' /\ FilesExact' /\ (Waits' <=> Waits)
      /\ Lone(Holding)' /\ (Lone(Active) => Lone(Active)')
  BY <1>1, <1>2, StillFacts DEF Steady
<1>4. Tokens' BY <1>1, TokensStay
<1>5. Quiet' <=> Quiet BY <1>1 DEF Quiet, Does, Judge
<1>6. Alone' BY <1>1, <1>3, <1>5 DEF Alone
<1>7. Calmly'
  <2>1. \A t : Working(t)' <=> Working(t) BY <1>1 DEF Working
  <2> QED BY <1>1, <1>5, <2>1 DEF Calmly
<1>8. Reviews' BY <1>1, <1>3 DEF Reviews, JudgedFirst, Judge, Launch, Does, Ender
<1> QED BY <1>3, <1>4, <1>6, <1>7, <1>8 DEF CalmStep

LEMMA StutterCalm == ASSUME CalmInv, UNCHANGED vars PROVE CalmStep
<1> USE DEF CalmInv
<1>1. UNCHANGED <<board, wave, runs, files, left, todo, halting, beat, phase>>
  BY DEF vars, others, loop
<1>2. Live' = Live BY <1>1, LiveStays
<1>3. /\ Edit /\ Steady' /\ Holders' /\ FilesExact' /\ (Waits' <=> Waits)
      /\ Lone(Holding)' /\ (Lone(Active) => Lone(Active)')
  BY <1>1, <1>2, StillFacts DEF Steady
<1>4. Tokens' BY <1>1, TokensStay
<1>5. Quiet' <=> Quiet BY <1>1 DEF Quiet, Does, Judge
<1>6. Alone' BY <1>1, <1>3, <1>5 DEF Alone
<1>7. Calmly'
  <2>1. \A t : Working(t)' <=> Working(t) BY <1>1 DEF Working
  <2> QED BY <1>1, <1>5, <2>1 DEF Calmly
<1>8. Reviews' BY <1>1, <1>3 DEF Reviews, JudgedFirst, Judge, Launch, Does, Ender
<1> QED BY <1>3, <1>4, <1>6, <1>7, <1>8 DEF CalmStep

(* Under Calm a command answers or changes no plan.                        *)
LEMMA DrainTgCalm == ASSUME Calm, TypeInv, CalmInv, DrainTgQueue PROVE CalmStep
<1> USE DEF CalmInv
<1> DEFINE c == Head(inbox)
<1>1. /\ UNCHANGED <<runs, files, left, halting, beat, phase>>
      /\ phase = "commands" /\ inbox # <<>> /\ Handle(c)
  BY DEF DrainTgQueue, others
<1>2. c.cmd \in Commands /\ c.cmd \notin {"wave", "rework"} /\ (c.cmd = "answer" => c.task \in Task)
  <2>1. inbox \in Seq(Command) BY DEF TypeInv, QueuesOK
  <2>2. c = inbox[1] /\ c \in Command /\ 1 \in DOMAIN inbox BY <1>1, <2>1, TailFacts, SeqFacts
  <2>3. c.cmd = "answer" => c.task \in Task BY <2>2 DEF TypeInv, QueuesOK
  <2> QED BY <2>2, <2>3 DEF Command, Calm
<1> HIDE DEF c
<1>3. \A k \in DOMAIN todo : todo[k].do = "approve" BY <1>1 DEF TypeInv, TodoOK
<1>4. \A k \in DOMAIN todo' : todo'[k].do = "approve"
  <2>1. CASE UNCHANGED todo BY <1>3, <2>1
  <2>2. CASE todo' = Append(todo, [do |-> "approve", task |-> c.task])
    <3> DEFINE d == [do |-> "approve", task |-> c.task]
    <3>1. todo \in Seq(DeedRec) BY DEF TypeInv, TodoOK
    <3>2. d.do = "approve" OBVIOUS
    <3>3. todo' = Append(todo, d) BY <2>2
    <3> HIDE DEF d
    <3>4. \A k \in DOMAIN todo' : (k \in DOMAIN todo /\ todo'[k] = todo[k]) \/ todo'[k] = d BY <3>1, <3>3
    <3> QED BY <1>3, <3>2, <3>4
  <2> QED BY <1>1, <2>1, <2>2 DEF Handle, AnswerOrRework
<1>5. Live' = Live BY <1>1, LiveStays
<1>6. Tokens'
  <2>1. Does(Launch) = {} /\ Does(Launch)' = {} BY <1>3, <1>4 DEF Does, Launch
  <2>2. RunUnits' = RunUnits /\ FileUnits' = FileUnits /\ DeedUnits' = DeedUnits
    BY <1>1, <1>5, <2>1 DEF RunUnits, FileUnits, DeedUnits
  <2>3. RunsOne' /\ FilesOne' /\ DeedsOne' BY <1>1, <1>5, <2>1 DEF Tokens, RunsOne, FilesOne, DeedsOne
  <2> QED BY <2>2, <2>3, TokensShrink
<1>7. /\ Edit /\ head' = work' /\ ~wave'
      /\ \A s \in Task : work'[s].status = work[s].status \/ (work[s].status = "blocked" /\ work'[s].status = "pending")
  <2>1. CASE UNCHANGED board /\ UNCHANGED wave
    <3>1. UNCHANGED work /\ head' = work' BY <2>1 DEF board, Steady
    <3> QED BY <2>1, <3>1, UnchangedKept, KeptFacts DEF Steady
  <2>2. CASE AnswerOrRework(c)
    <3>1. c.cmd = "answer" /\ c.task \in Task BY <1>2, <2>2 DEF AnswerOrRework
    <3>2. work' = Answered(work, c.task) /\ head' = work' /\ UNCHANGED wave
      BY <2>2, <3>1 DEF AnswerOrRework, Write, Calm
    <3>3. work \in Plan BY DEF TypeInv, PlansOK
    <3>4. CASE work[c.task].status = "blocked"
      <4>1. UnblockEdit(c.task) BY <3>1, <3>2, <3>3, <3>4, AnsweredFacts DEF UnblockEdit, Same
      <4>2. Edit BY <3>1, <4>1 DEF Edit
      <4> QED BY <3>2, <4>1, <4>2 DEF UnblockEdit, Same, Steady
    <3>5. CASE work[c.task].status # "blocked"
      <4>1. KeptEdit BY <3>1, <3>2, <3>3, <3>5, AnsweredFacts DEF KeptEdit, Same
      <4> QED BY <3>2, <4>1, KeptFacts DEF Steady
    <3> QED BY <3>4, <3>5
  <2> QED BY <1>1, <1>2, <2>1, <2>2 DEF Handle
<1>8. Holders' BY <1>1, <1>5, <1>7, HoldersStay DEF Holding
<1>9. Alone' /\ ~Waits'
  <2>1. /\ Lone(Holding) => Lone(Holding)'
        /\ Lone(Active) => Lone(Active)'
        /\ Waits' => Waits
    BY <1>7 DEF Lone, Waits, Holding, Active
  <2> QED BY <1>1, <2>1 DEF Alone, Quiet, Reviews
<1>10. Calmly'
  <2>1. \A t : Working(t)' <=> Working(t) BY <1>1 DEF Working
  <2> QED BY <1>1, <2>1 DEF Calmly, Quiet
<1>11. Reviews' BY <1>1, <1>4, <1>9 DEF Reviews, JudgedFirst, Launch
<1>12. FilesExact' BY <1>1 DEF FilesExact, Reasoned
<1> QED BY <1>1, <1>6, <1>7, <1>8, <1>9, <1>10, <1>11, <1>12 DEF CalmStep, Steady

-----------------------------------------------------------------------------
(* The elements left are elements of before, each from a place of its own. *)
LEMMA RemovedFacts ==
  ASSUME NEW S, NEW s \in Seq(S), NEW i \in 1..Len(s), NEW r, r = RemoveAt(s, i)
  PROVE  \E f \in [DOMAIN r -> DOMAIN s] :
           /\ \A k \in DOMAIN r : r[k] = s[f[k]] /\ f[k] # i /\ (i <= k => f[k] = k + 1)
           /\ \A k, l \in DOMAIN r : k # l => f[k] # f[l]
<1>1. DOMAIN s = 1..Len(s) /\ Len(s) \in Nat BY SeqFacts
<1>2. DOMAIN r = 1..Len(s) - 1 /\ \A k \in 1..Len(s) - 1 : r[k] = IF k < i THEN s[k] ELSE s[k + 1]
  BY RemoveAtFacts
<1> DEFINE f == [k \in DOMAIN r |-> IF k < i THEN k ELSE k + 1]
<1>3. f \in [DOMAIN r -> DOMAIN s] BY <1>1, <1>2
<1>4. \A k \in DOMAIN r : r[k] = s[f[k]] /\ f[k] # i /\ (i <= k => f[k] = k + 1) BY <1>1, <1>2
<1>5. \A k, l \in DOMAIN r : k # l => f[k] # f[l] BY <1>1, <1>2
<1> HIDE DEF f
<1> QED BY <1>3, <1>4, <1>5

(* The report is on the board: its unit is free.                           *)
LEMMA DrainControlCalm == ASSUME Calm, TypeInv, CalmInv, DrainControl PROVE CalmStep
<1> USE DEF CalmInv
<1> DEFINE r == files[Turn]
<1>1. /\ UNCHANGED <<todo, left, halting, wave, runs, files, beat>>
      /\ phase = "reports" /\ phase' = "archive" /\ left > 0
  BY DEF DrainControl, others
<1>2. IF r.status = "unreported" THEN Unreported(r.task) /\ Write(work)
      ELSE IF Accepts(r) THEN Write(Reported(work, r)) /\ UNCHANGED <<mem, heard>>
      ELSE Notified({r.task}, mem) /\ UNCHANGED <<board, mem>>
  BY DEF DrainControl
<1>3. Turn \in DOMAIN files /\ r \in Report /\ r.task \in Task
  <2>1. files \in Seq(Report) /\ left \in 0..Len(files) BY DEF TypeInv, QueuesOK
  <2>2. Turn \in 1..Len(files) BY <1>1, <2>1, TurnIsOne, SeqFacts
  <2>3. files[Turn] \in Report /\ Turn \in DOMAIN files BY <2>1, <2>2, SeqFacts
  <2> QED BY <2>3 DEF Report
<1>4. Live = DOMAIN files /\ Live' = DOMAIN files \ {Turn}
  <2>1. Turn' = Turn BY <1>1 DEF Turn, Sooner, Filed
  <2> QED BY <1>1, <2>1 DEF Live
<1>5. Owner[r.task] = r.unit /\ work[r.task].status \in Holding BY <1>3, <1>4 DEF Holders, Owed
<1>6. r.unit \in FileUnits BY <1>3, <1>4 DEF FileUnits
<1>7. ExactOnes /\ r.status = "blocked" => ExactReason(r.reason) BY <1>3 DEF Reasoned
<1> HIDE DEF r
<1>8. (KeptEdit \/ ReportEdit(r.task)) /\ head' = work'
  <2>0. work \in Plan /\ head = work BY DEF TypeInv, PlansOK, Steady
  <2>1. CASE UNCHANGED work /\ head' = work' BY <2>1, UnchangedKept
  <2>2. CASE r.status # "unreported" /\ Accepts(r)
    <3>1. r.status \in {"in_progress", "needs_review", "blocked"} BY <1>3, <2>2 DEF Report, Accepts, ValidControl
    <3>2. work' = Reported(work, r) /\ head' = work' BY <1>2, <2>2 DEF Write, Calm
    <3>3. CASE r.status = "in_progress"
      <4>1. KeptEdit BY <1>3, <2>0, <3>1, <3>2, <3>3, ReportedFacts DEF KeptEdit, Same
      <4> QED BY <3>2, <4>1
    <3>4. CASE r.status = "needs_review"
      <4>1. ReportEdit(r.task) BY <1>3, <1>5, <2>0, <3>1, <3>2, <3>4, ReportedFacts DEF ReportEdit, Same
      <4> QED BY <3>2, <4>1
    <3>5. CASE r.status = "blocked"
      <4>1. ReportEdit(r.task) BY <1>3, <1>5, <1>7, <2>0, <3>1, <3>2, <3>5, ReportedFacts DEF ReportEdit, Same
      <4> QED BY <3>2, <4>1
    <3> QED BY <3>1, <3>3, <3>4, <3>5
  <2> QED BY <1>2, <2>0, <2>1, <2>2 DEF Write, Calm, board
<1>9. Edit BY <1>3, <1>8 DEF Edit
<1>10. ASSUME NEW s \in Task
       PROVE  \/ work'[s].status = work[s].status
              \/ s = r.task /\ work[s].status \in Holding /\ work'[s].status \in {"needs_review", "blocked"}
  BY <1>8 DEF KeptEdit, ReportEdit, Same
<1>11. \A s \in Task : work'[s].status \in Holding => work[s].status \in Holding BY <1>10 DEF Holding
<1>12. \A s \in Task : work'[s].status \in Active => work[s].status \in Active BY <1>10 DEF Active, Holding
<1>13. Alone' BY <1>1, <1>11, <1>12 DEF Alone, Lone, Quiet
<1>14. Holders'
  <2>1. Live' \subseteq Live BY <1>4
  <2>2. ASSUME NEW t \in Task, Working(t) \/ Owed(t)' PROVE t # r.task
    <3>1. CASE Working(t)
      <4>1. PICK i \in DOMAIN runs : runs[i].task = t /\ runs[i].stage = "working" BY <3>1 DEF Working
      <4>2. Owner[t] \in RunUnits BY <4>1 DEF Holders, RunUnits
      <4> QED BY <1>5, <1>6, <4>2 DEF Tokens
    <3>2. CASE Owed(t)'
      <4>1. PICK k \in DOMAIN files : k # Turn /\ files[k].task = t BY <1>1, <1>4, <3>2 DEF Owed
      <4>2. files[k].unit # r.unit BY <1>3, <1>4, <4>1 DEF Tokens, FilesOne, r
      <4>3. Owner[t] = files[k].unit BY <1>4, <4>1 DEF Holders
      <4> QED BY <1>5, <4>2, <4>3
    <3> QED BY <2>2, <3>1, <3>2
  <2> QED BY <1>1, <1>10, <2>1, <2>2, HoldersStay
<1>15. Tokens'
  <2>1. RunUnits' = RunUnits /\ FileUnits' \subseteq FileUnits /\ DeedUnits' = DeedUnits
    BY <1>1, <1>4 DEF RunUnits, FileUnits, DeedUnits, Does, Launch
  <2>2. RunsOne' /\ FilesOne' /\ DeedsOne' BY <1>1, <1>4 DEF Tokens, RunsOne, FilesOne, DeedsOne, Does, Launch
  <2> QED BY <2>1, <2>2, TokensShrink
<1>16. Calmly'
  <2>1. \A t : Working(t)' <=> Working(t) BY <1>1 DEF Working
  <2> QED BY <1>1, <2>1 DEF Calmly, Quiet
<1>17. Reviews' BY <1>1 DEF Reviews, JudgedFirst, Judge, Launch
<1>18. Steady' BY <1>1, <1>8 DEF Steady
<1>19. FilesExact' BY <1>1 DEF FilesExact, Reasoned
<1> QED BY <1>9, <1>13, <1>14, <1>15, <1>16, <1>17, <1>18, <1>19 DEF CalmStep

LEMMA ArchiveCalm == ASSUME TypeInv, CalmInv, Archive PROVE CalmStep
<1> USE DEF CalmInv
<1>1. /\ UNCHANGED <<board, todo, halting, wave, runs, beat>>
      /\ phase = "archive" /\ phase' = "reports" /\ left' = left - 1 /\ files' = RemoveAt(files, Turn)
  BY DEF Archive
<1>2. files \in Seq(Report) /\ left \in 1..Len(files) /\ Turn \in 1..left /\ Turn \in 1..Len(files) /\ DOMAIN files = 1..Len(files)
  <2>1. files \in Seq(Report) /\ left \in 0..Len(files) /\ left > 0 BY <1>1 DEF TypeInv, QueuesOK
  <2>2. Turn \in 1..left BY <2>1, TurnIsOne
  <2>3. Len(files) \in Nat /\ DOMAIN files = 1..Len(files) BY <2>1, SeqFacts
  <2> HIDE DEF Turn
  <2> QED BY <2>1, <2>2, <2>3
<1>3. Live = DOMAIN files \ {Turn} /\ Live' = DOMAIN files' BY <1>1 DEF Live
<1>4. PICK f \in [DOMAIN files' -> DOMAIN files] :
        /\ \A k \in DOMAIN files' : files'[k] = files[f[k]] /\ f[k] # Turn /\ (Turn <= k => f[k] = k + 1)
        /\ \A k, l \in DOMAIN files' : k # l => f[k] # f[l]
  BY <1>1, <1>2, RemovedFacts
<1>5. \A k \in Live' : f[k] \in Live /\ files'[k] = files[f[k]] BY <1>3, <1>4
<1>6. UNCHANGED work /\ head' = work' BY <1>1 DEF board, Steady
<1>7. KeptEdit BY <1>6, UnchangedKept
<1>8. Edit /\ Alone' BY <1>1, <1>7, KeptFacts DEF Alone, Quiet
<1>9. Holders'
  <2>1. \A t : (Owed(t)' => Owed(t)) /\ (Working(t)' <=> Working(t)) BY <1>1, <1>5 DEF Owed, Working
  <2>2. \A k \in Live' : Owner[files'[k].task] = files'[k].unit BY <1>5 DEF Holders
  <2> QED BY <1>1, <1>6, <2>1, <2>2 DEF Holders, Holding
<1>10. Tokens'
  <2>1. FilesOne' BY <1>3, <1>4, <1>5 DEF Tokens, FilesOne
  <2>2. FileUnits' \subseteq FileUnits BY <1>5 DEF FileUnits
  <2>3. RunUnits' = RunUnits /\ DeedUnits' = DeedUnits /\ RunsOne' /\ DeedsOne'
    BY <1>1 DEF Tokens, RunUnits, DeedUnits, Does, Launch, RunsOne, DeedsOne
  <2> QED BY <2>1, <2>2, <2>3, TokensShrink
<1>11. Calmly'
  <2>1. \A t : Working(t)' <=> Working(t) BY <1>1 DEF Working
  <2>2. ASSUME NEW k \in DOMAIN files', k > left' PROVE beat[files'[k].task] = 0
    <3>1. k \in Int
      <4>1. DOMAIN files' = 1..Len(files) - 1 BY <1>1, <1>2, RemoveAtFacts
      <4> QED BY <4>1
    <3>2. Turn <= k /\ k + 1 > left
      <4> HIDE DEF Turn
      <4> QED BY <1>1, <1>2, <2>2, <3>1
    <3>3. f[k] = k + 1 /\ files'[k] = files[f[k]] /\ f[k] \in DOMAIN files BY <1>4, <3>2
    <3> QED BY <1>1, <3>2, <3>3 DEF Calmly
  <2> QED BY <1>1, <2>1, <2>2 DEF Calmly, Quiet
<1>12. Reviews' BY <1>1 DEF Reviews, JudgedFirst, Judge, Launch
<1>13. Steady' BY <1>1, <1>6 DEF Steady
<1>14. FilesExact' BY <1>4 DEF FilesExact, Reasoned
<1> QED BY <1>8, <1>9, <1>10, <1>11, <1>12, <1>13, <1>14 DEF CalmStep

-----------------------------------------------------------------------------
(* A task that is launched is stale, or its unit holds nothing.            *)
StartsStale(t) == work[t].status \in Holding /\ beat[t] > Expiry
StartsNew(t) ==
  /\ work[t].status \notin Holding
  /\ \A s \in Task : work[s].status \in Holding => Owner[s] # Owner[t]
  /\ t = First(Eligible(work, Owner[t]))

(* A task is launched only where its unit has no token.                    *)
LEMMA DecideCalm == ASSUME TypeInv, CalmInv, Decide PROVE CalmStep
<1> USE DEF CalmInv
<1>1. PICK gate : todo' = todo \o Decisions(head, gate) BY DEF Decide
<1> DEFINE D == Decisions(head, gate)
           n == Len(todo)
<1>2. /\ UNCHANGED <<left, halting, wave, runs, files, beat>> /\ UNCHANGED board
      /\ phase = "reports" /\ phase' = "acting" /\ left = 0 /\ head = work
  BY DEF Decide, others, Steady, board
<1>0. head \in Plan /\ mem \in Memory BY DEF TypeInv, PlansOK, MemsOK
<1>3. DecidedOn(D, head, gate) BY <1>0, DecisionsFacts
<1>4. todo \in Seq(DeedRec) /\ \A k \in DOMAIN todo : todo[k].do = "approve"
  BY <1>2 DEF TypeInv, TodoOK
<1> HIDE DEF D
<1>5. D \in Seq(DeedRec) BY <1>3 DEF DecidedOn
<1>6. /\ DOMAIN todo' = 1..n + Len(D)
      /\ \A k \in 1..n : todo'[k] = todo[k] /\ k \in DOMAIN todo
      /\ \A k \in 1..Len(D) : todo'[n + k] = D[k]
      /\ DOMAIN D = 1..Len(D) /\ Len(D) \in Nat /\ n \in Nat
  BY <1>1, <1>4, <1>5, ConcatFacts, SeqFacts DEF D
<1> HIDE DEF n
<1>7. ASSUME NEW k \in DOMAIN todo'
      PROVE  \/ k \in DOMAIN todo /\ todo'[k] = todo[k] /\ k <= n
             \/ k - n \in DOMAIN D /\ todo'[k] = D[k - n] /\ k > n
  <2>1. CASE k <= n BY <2>1, <1>6
  <2>2. CASE ~(k <= n)
    <3>1. k - n \in DOMAIN D /\ n + (k - n) = k /\ k > n BY <2>2, <1>6
    <3> QED BY <3>1, <1>6
  <2> QED BY <2>1, <2>2
<1>8. ASSUME NEW k \in DOMAIN D
      PROVE  /\ D[k].do # "approve"
             /\ D[k].do \in Launch => D[k].task \in Task /\ (StartsStale(D[k].task) \/ StartsNew(D[k].task))
             /\ D[k].do = "review" => D[k].task \in Task /\ work[D[k].task].status = "needs_review"
  <2> DEFINE t == D[k].task
  <2>1. CASE Len(D) = 1 /\ D[1].do \in {"illegal", "stop", "digest"}
    <3>1. k = 1 BY <2>1, <1>6
    <3> QED BY <2>1, <3>1 DEF Launch
  <2>2. CASE /\ t \in Task /\ D[k].do = DeedFor(head, t)
             /\ head[t].status = "pending" => t \in Picks(head, gate)
             /\ head[t].status \notin {"pending", "needs_review", "blocked"} => t \in StaleTasks(head)
    <3> HIDE DEF t
    <3>1. CASE D[k].do = "redispatch"
      <4>1. t \in StaleTasks(head) BY <1>0, <2>2, <3>1, DeedForFacts
      <4>2. StartsStale(t) BY <1>2, <4>1 DEF StaleTasks, StartsStale, In, Holding
      <4> QED BY <2>2, <3>1, <4>2 DEF t
    <3>2. CASE D[k].do = "dispatch"
      <4>1. t \in Picks(head, gate) BY <1>0, <2>2, <3>2, DeedForFacts
      <4>2. work[t].status = "pending" /\ Held(work, Owner[t]) = {} /\ t = First(Eligible(work, Owner[t]))
        BY <1>2, <4>1, PicksFacts
      <4>3. StartsNew(t) BY <4>2 DEF StartsNew, Held, In, Holding
      <4> QED BY <2>2, <3>2, <4>3 DEF t
    <3>3. CASE D[k].do \notin Launch BY <1>0, <1>2, <2>2, <3>3, DeedForFacts DEF t
    <3> QED BY <3>1, <3>2, <3>3 DEF Launch
  <2> QED BY <2>1, <2>2, <1>3 DEF DecidedOn
<1>9. ASSUME NEW k \in DOMAIN D, NEW l \in DOMAIN D, k # l PROVE D[k].task # D[l].task
  <2>1. CASE Len(D) = 1 BY <2>1, <1>6, <1>9
  <2> QED BY <2>1, <1>3, <1>9 DEF DecidedOn
<1>10. \A k \in DOMAIN todo' : todo'[k].do \in Launch => k - n \in DOMAIN D /\ todo'[k] = D[k - n] /\ k > n
  BY <1>4, <1>7 DEF Launch
<1>11. Live = DOMAIN files /\ Live' = DOMAIN files BY <1>2 DEF Live
<1>12. /\ Edit /\ Steady' /\ Holders' /\ FilesExact' /\ (Waits' <=> Waits)
       /\ Lone(Holding)' /\ (Lone(Active) => Lone(Active)')
  BY <1>2, <1>11, StillFacts
<1>13. Alone' BY <1>2, <1>12 DEF Alone, Quiet
<1>14. Calmly' BY <1>2 DEF Calmly, Quiet
<1>15. DeedsOne'
  <2> SUFFICES ASSUME NEW a \in DOMAIN todo', NEW b \in DOMAIN todo', a # b, todo'[a].do \in Launch, todo'[b].do \in Launch,
                      Owner[todo'[a].task] = Owner[todo'[b].task]
               PROVE  FALSE
    BY DEF DeedsOne, Does, Launch
  <2>1. a - n \in DOMAIN D /\ b - n \in DOMAIN D /\ todo'[a] = D[a - n] /\ todo'[b] = D[b - n] BY <1>10
  <2>2. a - n # b - n BY <1>6
  <2> DEFINE s == todo'[a].task
             t == todo'[b].task
  <2>3. s # t /\ s \in Task /\ t \in Task /\ (StartsStale(s) \/ StartsNew(s)) /\ (StartsStale(t) \/ StartsNew(t))
    BY <2>1, <2>2, <1>8, <1>9
  <2>4. Owner[s] = Owner[t] OBVIOUS
  <2> HIDE DEF s, t
  <2>5. CASE StartsStale(s) /\ StartsStale(t) BY <2>3, <2>4, <2>5 DEF StartsStale, Alone, Lone
  <2>6. CASE StartsNew(s) /\ StartsNew(t) BY <2>3, <2>4, <2>6 DEF StartsNew
  <2>7. CASE (StartsStale(s) /\ StartsNew(t)) \/ (StartsNew(s) /\ StartsStale(t))
    BY <2>3, <2>4, <2>7 DEF StartsStale, StartsNew
  <2> QED BY <2>3, <2>5, <2>6, <2>7
<1>16. ASSUME NEW s \in Task, work[s].status \in Holding, beat[s] = 0,
              NEW k \in DOMAIN todo', todo'[k].do \in Launch, Owner[todo'[k].task] = Owner[s]
       PROVE  FALSE
  <2> DEFINE t == todo'[k].task
  <2>1. t \in Task /\ (StartsStale(t) \/ StartsNew(t)) BY <1>8, <1>10, <1>16
  <2>2. Owner[t] = Owner[s] BY <1>16
  <2> HIDE DEF t
  <2>3. CASE StartsStale(t)
    <3>1. s = t BY <1>16, <2>1, <2>2, <2>3 DEF StartsStale, Alone, Lone
    <3> QED BY <1>16, <2>3, <3>1, PlanAssumption DEF StartsStale
  <2>4. CASE StartsNew(t) BY <1>16, <2>1, <2>2, <2>4 DEF StartsNew
  <2> QED BY <2>1, <2>3, <2>4
<1>17. Tokens'
  <2>1. RunUnits' = RunUnits /\ FileUnits' = FileUnits /\ RunsOne' /\ FilesOne'
    BY <1>2, <1>11 DEF Tokens, RunUnits, FileUnits, RunsOne, FilesOne
  <2>2. ASSUME NEW u \in RunUnits PROVE u \notin DeedUnits'
    <3>1. PICK i \in DOMAIN runs : runs[i].unit = u BY <2>2 DEF RunUnits
    <3>2. runs[i].stage = "working" BY <1>2 DEF Calmly, Quiet
    <3>3. runs[i].task \in Task BY RunFacts DEF TypeInv
    <3>4. Working(runs[i].task) BY <3>2 DEF Working
    <3>5. Owner[runs[i].task] = u /\ work[runs[i].task].status \in Holding /\ beat[runs[i].task] = 0
      BY <1>2, <3>1, <3>2, <3>3, <3>4 DEF Holders, Calmly
    <3> QED BY <3>3, <3>5, <1>16 DEF DeedUnits, Does, Launch
  <2>3. ASSUME NEW u \in FileUnits PROVE u \notin DeedUnits'
    <3>1. PICK k \in DOMAIN files : files[k].unit = u BY <1>11, <2>3 DEF FileUnits
    <3>2. files \in Seq(Report) BY DEF TypeInv, QueuesOK
    <3>3. files[k].task \in Task /\ k > left
      <4>1. k \in 1..Len(files) /\ files[k] \in Report /\ Len(files) \in Nat BY <3>2, SeqFacts
      <4> QED BY <4>1, <1>2 DEF Report
    <3>4. Owed(files[k].task) BY <1>11 DEF Owed
    <3>5. Owner[files[k].task] = u /\ work[files[k].task].status \in Holding /\ beat[files[k].task] = 0
      BY <1>2, <1>11, <3>1, <3>3, <3>4 DEF Holders, Calmly
    <3> QED BY <3>3, <3>5, <1>16 DEF DeedUnits, Does, Launch
  <2> QED BY <1>15, <2>1, <2>2, <2>3 DEF Tokens
<1>18. JudgedFirst'
  <2> SUFFICES ASSUME NEW i \in DOMAIN todo', NEW j \in DOMAIN todo', i < j, todo'[j].do \in Judge, todo'[i].do \in Launch
               PROVE  FALSE
    BY DEF JudgedFirst, Judge, Launch
  <2>1. i - n \in DOMAIN D /\ todo'[i] = D[i - n] /\ i > n BY <1>10
  <2>2. j > n BY <2>1, <1>6
  <2>3. j - n \in DOMAIN D /\ todo'[j] = D[j - n] /\ i - n < j - n BY <2>1, <2>2, <1>6, <1>7
  <2>4. D[j - n].do = "review" BY <1>8, <2>3 DEF Judge
  <2>5. D[j - n].task \in Task /\ head[D[j - n].task].status = "needs_review" BY <1>2, <1>8, <2>3, <2>4
  <2>6. Len(D) # 1 BY <1>6, <2>1, <2>3
  <2>7. head[D[i - n].task].status = "needs_review" /\ D[i - n].task \in Task /\ D[i - n].do = DeedFor(head, D[i - n].task)
    BY <1>3, <2>1, <2>3, <2>5, <2>6 DEF DecidedOn
  <2>8. D[i - n].do \in {"review", "freeze"} BY <1>0, <2>7, DeedForFacts
  <2> QED BY <2>1, <2>8 DEF Launch
<1>19. Reviews'
  <2>1. ASSUME Waits PROVE \E k \in DOMAIN todo' : todo'[k].do \in {"review"} \cup Ender
    <3>1. \E k \in DOMAIN D : D[k].do \in {"review"} \cup Ender
      <4>1. CASE Len(D) = 1 /\ D[1].do \in {"illegal", "stop", "digest"} BY <1>6, <4>1 DEF Ender
      <4>2. CASE ~(Len(D) = 1 /\ D[1].do \in {"illegal", "stop", "digest"})
        <5>1. PICK t \in Task : head[t].status = "needs_review" BY <1>2, <2>1 DEF Waits
        <5>2. PICK k \in DOMAIN D : D[k].task = t BY <1>3, <4>2, <5>1 DEF DecidedOn, In
        <5>3. D[k].do = DeedFor(head, t) BY <1>3, <4>2, <5>2 DEF DecidedOn
        <5> QED BY <1>0, <5>1, <5>3, DeedForFacts DEF Ender
      <4> QED BY <4>1, <4>2
    <3>2. PICK k \in DOMAIN D : D[k].do \in {"review"} \cup Ender BY <3>1
    <3>3. n + k \in DOMAIN todo' /\ todo'[n + k] = D[k] BY <1>6
    <3> QED BY <3>2, <3>3
  <2> QED BY <1>2, <1>12, <1>18, <2>1 DEF Reviews, Does, Ender
<1> QED BY <1>12, <1>13, <1>14, <1>17, <1>19 DEF CalmStep

-----------------------------------------------------------------------------
(* The token of a unit moves from the list to a process.                   *)
LEMMA LaunchCalm ==
  ASSUME TypeInv, CalmInv, Popping, Head(todo).do \in Launch, LaunchShellBg(Head(todo).task), UNCHANGED board
  PROVE  CalmStep
<1> USE DEF CalmInv
<1> DEFINE t == Head(todo).task
           r == [unit |-> Owner[t], task |-> t, stage |-> "starting", text |-> <<>>]
           n == Len(runs)
<1>1. /\ UNCHANGED <<halting, left, wave, files, beat>> /\ runs' = Append(runs, r)
      /\ phase = "acting" /\ phase' = "acting"
  BY DEF LaunchShellBg, Popping
<1>2. r.unit = Owner[t] /\ r.stage = "starting" OBVIOUS
<1>3. /\ ~Quiet'
      /\ JudgedFirst' /\ DeedsOne' /\ DeedUnits' \subseteq DeedUnits
      /\ Owner[t] \in DeedUnits /\ Owner[t] \notin DeedUnits'
      /\ Does({"review"} \cup Ender) # {} => Does({"review"} \cup Ender)' # {}
  BY PopLoop DEF Reviews, Tokens, Launch, Ender
<1> HIDE DEF r, t
<1>4. /\ runs \in Seq(Run) /\ DOMAIN runs = 1..n /\ n \in Nat
      /\ DOMAIN runs' = 1..n + 1 /\ \A k \in 1..n : runs'[k] = runs[k]
      /\ runs'[n + 1] = r
  <2>1. runs \in Seq(Run) BY DEF TypeInv, RestOK
  <2> QED BY <1>1, <2>1
<1> HIDE DEF n
<1>5. ASSUME NEW k \in DOMAIN runs' PROVE (k \in DOMAIN runs /\ runs'[k] = runs[k]) \/ (k = n + 1 /\ runs'[k] = r)
  BY <1>4
<1>6. \A s : Working(s)' <=> Working(s)
  <2>1. \A k \in DOMAIN runs : k \in DOMAIN runs' /\ runs'[k] = runs[k] BY <1>4
  <2> QED BY <1>2, <1>5, <2>1 DEF Working
<1>7. Live' = Live BY <1>1, LiveStays
<1>8. UNCHANGED work /\ head' = work' BY DEF board, Steady
<1>9. KeptEdit BY <1>8, UnchangedKept
<1>10. Edit /\ Alone' /\ (Waits' => Waits) BY <1>1, <1>3, <1>9, KeptFacts DEF Alone
<1>11. Holders'
  <2>1. \A s : Owed(s)' <=> Owed(s) BY <1>1, <1>7 DEF Owed
  <2>2. \A i \in DOMAIN runs' : runs'[i].stage = "working" => Owner[runs'[i].task] = runs'[i].unit
    BY <1>2, <1>5 DEF Holders
  <2>3. \A k \in Live' : Owner[files'[k].task] = files'[k].unit BY <1>1, <1>7 DEF Holders
  <2> QED BY <1>6, <1>8, <2>1, <2>2, <2>3 DEF Holders, Holding
<1>12. Tokens'
  <2>1. Owner[t] \notin RunUnits /\ Owner[t] \notin FileUnits BY <1>3 DEF Tokens
  <2>2. RunUnits' \subseteq RunUnits \cup {Owner[t]} BY <1>2, <1>5 DEF RunUnits
  <2>3. RunsOne'
    <3> SUFFICES ASSUME NEW i \in DOMAIN runs', NEW j \in DOMAIN runs', i # j PROVE runs'[i].unit # runs'[j].unit
      BY DEF RunsOne
    <3>1. CASE i \in DOMAIN runs /\ j \in DOMAIN runs /\ runs'[i] = runs[i] /\ runs'[j] = runs[j]
      BY <3>1 DEF Tokens, RunsOne
    <3>2. CASE i \in DOMAIN runs /\ runs'[i] = runs[i] /\ runs'[j] = r BY <3>2, <1>2, <2>1 DEF RunUnits
    <3>3. CASE j \in DOMAIN runs /\ runs'[j] = runs[j] /\ runs'[i] = r BY <3>3, <1>2, <2>1 DEF RunUnits
    <3> QED BY <1>5, <3>1, <3>2, <3>3
  <2>4. FileUnits' = FileUnits /\ FilesOne' BY <1>1, <1>7 DEF Tokens, FileUnits, FilesOne
  <2> QED BY <1>3, <2>1, <2>2, <2>3, <2>4 DEF Tokens
<1>13. Calmly' BY <1>1, <1>3 DEF Calmly
<1>14. Reviews'
  <2>1. Waits' /\ ~halting' => Does({"review"} \cup Ender)' # {} BY <1>1, <1>3, <1>10 DEF Reviews
  <2> QED BY <1>1, <1>3, <2>1 DEF Reviews
<1>15. Steady' BY <1>1, <1>8 DEF Steady
<1>16. FilesExact' BY <1>1 DEF FilesExact, Reasoned
<1> QED BY <1>10, <1>11, <1>12, <1>13, <1>14, <1>15, <1>16 DEF CalmStep

LEMMA DispatchCalm == ASSUME TypeInv, CalmInv, Dispatch PROVE CalmStep
<1>1. Popping /\ Head(todo).do \in Launch /\ LaunchShellBg(Head(todo).task) /\ UNCHANGED board
  BY DEF Dispatch, Next1, Popping, Launch, LaunchShellBg
<1> QED BY <1>1, LaunchCalm

LEMMA RedispatchCalm == ASSUME TypeInv, CalmInv, RedispatchStale PROVE CalmStep
<1>1. Popping /\ Head(todo).do \in Launch /\ LaunchShellBg(Head(todo).task) /\ UNCHANGED board
  BY DEF RedispatchStale, Next1, Popping, Launch, LaunchShellBg
<1> QED BY <1>1, LaunchCalm

-----------------------------------------------------------------------------
(* A process ends.                                                         *)
LEMMA RunsFewer ==
  ASSUME TypeInv, CalmInv, NEW i \in DOMAIN runs, runs' = RemoveAt(runs, i)
  PROVE  /\ RunsOne' /\ RunUnits' \subseteq RunUnits \ {runs[i].unit}
         /\ \A t : Working(t)' => Working(t)
         /\ \A k \in DOMAIN runs' : \E j \in DOMAIN runs : j # i /\ runs'[k] = runs[j]
<1> USE DEF CalmInv
<1>1. runs \in Seq(Run) /\ i \in 1..Len(runs) BY SeqFacts DEF TypeInv, RestOK
<1>2. PICK f \in [DOMAIN runs' -> DOMAIN runs] :
        /\ \A k \in DOMAIN runs' : runs'[k] = runs[f[k]] /\ f[k] # i /\ (i <= k => f[k] = k + 1)
        /\ \A k, l \in DOMAIN runs' : k # l => f[k] # f[l]
  BY <1>1, RemovedFacts
<1>3. RunsOne' BY <1>2 DEF Tokens, RunsOne
<1>4. RunUnits' \subseteq RunUnits \ {runs[i].unit}
  <2> SUFFICES ASSUME NEW k \in DOMAIN runs' PROVE runs'[k].unit \in RunUnits \ {runs[i].unit} BY DEF RunUnits
  <2>1. f[k] \in DOMAIN runs /\ f[k] # i /\ runs'[k] = runs[f[k]] BY <1>2
  <2> QED BY <2>1 DEF RunUnits, Tokens, RunsOne
<1>5. \A t : Working(t)' => Working(t) BY <1>2 DEF Working
<1>6. \A k \in DOMAIN runs' : \E j \in DOMAIN runs : j # i /\ runs'[k] = runs[j] BY <1>2
<1> QED BY <1>3, <1>4, <1>5, <1>6

LEMMA ExitCalm ==
  ASSUME TypeInv, CalmInv, NEW i \in DOMAIN runs, runs' = RemoveAt(runs, i),
         UNCHANGED <<board, loop, wave, files, beat>>
  PROVE  CalmStep
<1> USE DEF CalmInv
<1>1. UNCHANGED <<phase, todo, left, halting>> /\ UNCHANGED work /\ head' = work' BY DEF loop, board, Steady
<1>2. /\ RunsOne' /\ RunUnits' \subseteq RunUnits
      /\ \A t : Working(t)' => Working(t)
      /\ \A k \in DOMAIN runs' : \E j \in DOMAIN runs : runs'[k] = runs[j]
  BY RunsFewer
<1>3. Live' = Live BY <1>1, LiveStays
<1>4. KeptEdit BY <1>1, UnchangedKept
<1>5. Quiet' <=> Quiet BY <1>1 DEF Quiet, Does, Judge
<1>6. Edit /\ Alone' /\ (Waits' <=> Waits) BY <1>1, <1>4, <1>5, KeptFacts DEF Alone
<1>7. Holders'
  <2>1. \A s : Owed(s)' <=> Owed(s) BY <1>3 DEF Owed
  <2>2. \A k \in DOMAIN runs' : runs'[k].stage = "working" => Owner[runs'[k].task] = runs'[k].unit BY <1>2 DEF Holders
  <2>3. \A k \in Live' : Owner[files'[k].task] = files'[k].unit BY <1>3 DEF Holders
  <2> QED BY <1>1, <1>2, <2>1, <2>2, <2>3 DEF Holders, Holding
<1>8. Tokens'
  <2>1. FileUnits' = FileUnits /\ FilesOne' /\ DeedUnits' = DeedUnits /\ DeedsOne'
    BY <1>1, <1>3 DEF Tokens, FileUnits, FilesOne, DeedUnits, DeedsOne, Does, Launch
  <2> QED BY <1>2, <2>1, TokensShrink
<1>9. Calmly' BY <1>1, <1>2, <1>5 DEF Calmly
<1>10. Reviews' BY <1>1, <1>6 DEF Reviews, JudgedFirst, Judge, Launch, Does, Ender
<1>11. Steady' BY <1>1 DEF Steady
<1>12. FilesExact' BY DEF FilesExact, Reasoned
<1> QED BY <1>6, <1>7, <1>8, <1>9, <1>10, <1>11, <1>12 DEF CalmStep

LEMMA RefuseCalm == ASSUME TypeInv, CalmInv, NEW i \in DOMAIN runs, Refuse(i) PROVE CalmStep
<1>1. runs' = RemoveAt(runs, i) /\ UNCHANGED <<board, loop, wave, files, beat>> BY DEF Refuse, Exit
<1> QED BY <1>1, ExitCalm

(* The token of a unit moves from a process to a report.                   *)
LEMMA EndSessionCalm ==
  ASSUME TypeInv, CalmInv, NEW i \in DOMAIN runs, NEW status, NEW reason, EndSession(i, status, reason),
         status = "blocked" => reason \in Reasons
  PROVE  CalmStep
<1> USE DEF CalmInv
<1> DEFINE r == [task |-> runs[i].task, unit |-> runs[i].unit, status |-> status, reason |-> reason]
           n == Len(files)
           Old == {k \in 1..n : phase = "archive" => k # Turn}
<1>1. /\ UNCHANGED <<phase, todo, left, halting>> /\ UNCHANGED <<head, work, wave, beat>>
      /\ files' = Append(files, r) /\ runs' = RemoveAt(runs, i) /\ runs[i].stage = "working"
  BY DEF EndSession, loop, board
<1>2. /\ RunsOne' /\ RunUnits' \subseteq RunUnits \ {runs[i].unit}
      /\ \A t : Working(t)' => Working(t)
      /\ \A k \in DOMAIN runs' : \E j \in DOMAIN runs : runs'[k] = runs[j]
  BY <1>1, RunsFewer
<1>3. r.task = runs[i].task /\ r.unit = runs[i].unit /\ (r.status = "blocked" => r.reason \in Reasons) OBVIOUS
<1> HIDE DEF r
<1>4. /\ files \in Seq(Report) /\ DOMAIN files = 1..n /\ n \in Nat /\ left \in 0..n
      /\ DOMAIN files' = 1..n + 1 /\ \A k \in 1..n : files'[k] = files[k]
      /\ files'[n + 1] = r
  <2>1. files \in Seq(Report) /\ left \in 0..Len(files) BY DEF TypeInv, QueuesOK
  <2> QED BY <1>1, <2>1
<1>5. phase = "archive" => Turn' = Turn /\ Turn \in 1..n
  <2> SUFFICES ASSUME phase = "archive" PROVE Turn' = Turn /\ Turn \in 1..n OBVIOUS
  <2>1. left > 0 /\ QueuesOK BY DEF TypeInv, QueuesOK
  <2>2. Turn \in 1..left BY <1>4, <2>1, TurnIsOne
  <2>3. \A k, l \in 1..left : Sooner(k, l)' <=> Sooner(k, l)
    <3>1. \A k \in 1..left : files'[k] = files[k] BY <1>4
    <3> QED BY <3>1 DEF Sooner, Filed
  <2>4. (1..left)' = 1..left BY <1>1
  <2> DEFINE P == {k \in 1..left : \A l \in 1..left : Sooner(k, l)}
  <2>5. \A k : (k \in 1..left /\ \A l \in 1..left : Sooner(k, l)') <=> (k \in 1..left /\ \A l \in 1..left : Sooner(k, l))
    BY <2>3
  <2>6. Turn' = CHOOSE k \in 1..left : \A l \in 1..left : Sooner(k, l)' BY <1>1 DEF Turn
  <2>7. Turn = CHOOSE k \in 1..left : \A l \in 1..left : Sooner(k, l) BY DEF Turn
  <2>8. Turn' = Turn BY <2>5, <2>6, <2>7
  <2>9. Turn \in 1..n
    <3> HIDE DEF Turn
    <3> QED BY <2>2, <1>4
  <2> QED BY <2>8, <2>9
<1> HIDE DEF n
<1>6. Live = Old /\ Live' = Old \cup {n + 1}
  <2>1. Live = Old BY <1>4 DEF Live
  <2>2. CASE phase = "archive"
    <3>1. n + 1 # Turn BY <1>4, <1>5, <2>2
    <3>2. Live' = {k \in 1..n + 1 : k # Turn} BY <1>1, <1>4, <1>5, <2>2 DEF Live
    <3>3. Old = {k \in 1..n : k # Turn} BY <2>2
    <3> HIDE DEF Turn, Old
    <3> QED BY <1>4, <2>1, <3>1, <3>2, <3>3
  <2>3. CASE phase # "archive"
    <3>1. Live' = 1..n + 1 /\ Old = 1..n BY <1>1, <1>4, <2>3 DEF Live
    <3> HIDE DEF Old
    <3> QED BY <1>4, <2>1, <3>1
  <2> QED BY <2>2, <2>3
<1>7. \A k \in Old : k \in DOMAIN files /\ files'[k] = files[k] BY <1>4
<1> HIDE DEF Old
<1>8. runs[i].task \in Task /\ Working(runs[i].task) /\ Owner[runs[i].task] = runs[i].unit
  BY <1>1, RunFacts DEF TypeInv, Working, Holders
<1>9. KeptEdit BY <1>1, UnchangedKept
<1>10. Quiet' <=> Quiet BY <1>1 DEF Quiet, Does, Judge
<1>11. Edit /\ Alone' /\ (Waits' <=> Waits) BY <1>1, <1>9, <1>10, KeptFacts DEF Alone
<1>12. Holders'
  <2>1. \A s : Owed(s)' => Owed(s) \/ s = runs[i].task BY <1>3, <1>4, <1>6, <1>7 DEF Owed
  <2>2. \A k \in DOMAIN runs' : runs'[k].stage = "working" => Owner[runs'[k].task] = runs'[k].unit BY <1>2 DEF Holders
  <2>3. \A k \in Live' : Owner[files'[k].task] = files'[k].unit BY <1>3, <1>4, <1>6, <1>7, <1>8 DEF Holders
  <2> QED BY <1>1, <1>2, <1>8, <2>1, <2>2, <2>3 DEF Holders, Holding
<1>13. Tokens'
  <2>1. runs[i].unit \in RunUnits BY DEF RunUnits
  <2>2. FileUnits' \subseteq FileUnits \cup {runs[i].unit} BY <1>3, <1>4, <1>6, <1>7 DEF FileUnits
  <2>3. FilesOne'
    <3> SUFFICES ASSUME NEW k \in Live', NEW l \in Live', k # l PROVE files'[k].unit # files'[l].unit
      BY DEF FilesOne
    <3>1. CASE k \in Old /\ l \in Old BY <3>1, <1>6, <1>7 DEF Tokens, FilesOne
    <3>2. CASE k \in Old /\ l = n + 1
      <4>1. files'[k].unit \in FileUnits BY <3>2, <1>6, <1>7 DEF FileUnits
      <4> QED BY <4>1, <3>2, <1>3, <1>4, <2>1 DEF Tokens
    <3>3. CASE l \in Old /\ k = n + 1
      <4>1. files'[l].unit \in FileUnits BY <3>3, <1>6, <1>7 DEF FileUnits
      <4> QED BY <4>1, <3>3, <1>3, <1>4, <2>1 DEF Tokens
    <3> QED BY <1>6, <3>1, <3>2, <3>3
  <2>4. DeedUnits' = DeedUnits /\ DeedsOne' BY <1>1 DEF Tokens, DeedUnits, DeedsOne, Does, Launch
  <2> QED BY <1>2, <2>1, <2>2, <2>3, <2>4 DEF Tokens
<1>14. Calmly'
  <2>1. ASSUME phase \in {"reports", "archive"}, NEW k \in DOMAIN files', k > left PROVE beat[files'[k].task] = 0
    <3>1. CASE k = n + 1 BY <3>1, <2>1, <1>3, <1>4, <1>8 DEF Calmly
    <3>2. CASE k # n + 1
      <4>1. k \in DOMAIN files /\ files'[k] = files[k] BY <3>2, <1>4
      <4> QED BY <4>1, <2>1 DEF Calmly
    <3> QED BY <3>1, <3>2
  <2> QED BY <1>1, <1>2, <1>10, <2>1 DEF Calmly
<1>15. Reviews' BY <1>1, <1>11 DEF Reviews, JudgedFirst, Judge, Launch, Does, Ender
<1>16. Steady' BY <1>1 DEF Steady
<1>17. FilesExact'
  <2> SUFFICES ASSUME ExactOnes, NEW k \in DOMAIN files', files'[k].status = "blocked" PROVE ExactReason(files'[k].reason)
    BY DEF FilesExact, ExactOnes
  <2>1. CASE k = n + 1 BY <2>1, <1>3, <1>4 DEF ExactOnes
  <2>2. CASE k # n + 1
    <3>1. k \in DOMAIN files /\ files'[k] = files[k] BY <2>2, <1>4
    <3> QED BY <3>1 DEF Reasoned
  <2> QED BY <2>1, <2>2
<1> QED BY <1>11, <1>12, <1>13, <1>14, <1>15, <1>16, <1>17 DEF CalmStep

-----------------------------------------------------------------------------
(* A claim resumes what the unit holds, or takes its only task; a session  *)
(* follows, or, if the claim raises, none.                                 *)
Session(u, t) == [unit |-> u, task |-> t, stage |-> "working", text |-> <<>>]

LEMMA TakeCalm ==
  ASSUME Calm, TypeInv, CalmInv, NEW i \in DOMAIN runs, NEW u, u = runs[i].unit,
         runs[i].stage = "starting", ~NothingFor(work, u), TakeTask(work, u),
         UNCHANGED <<loop, wave, files, beat>>,
         runs' = [runs EXCEPT ![i] = Session(u, Target(work, u))] \/ runs' = RemoveAt(runs, i)
  PROVE  CalmStep
<1> USE DEF CalmInv
<1> DEFINE t == Target(work, u)
           r == Session(u, t)
<1>a. UNCHANGED loop /\ UNCHANGED wave /\ UNCHANGED <<files, beat>> OBVIOUS
<1>b. runs' = [runs EXCEPT ![i] = r] \/ runs' = RemoveAt(runs, i) OBVIOUS
<1>0. work \in Plan /\ head = work BY DEF TypeInv, PlansOK, Steady
<1>c. u \in Unit BY RunFacts DEF TypeInv
<1>1. /\ t \in Task /\ Owner[t] = u
      /\ Resumes(work, u) => t \in Held(work, u)
      /\ ~Resumes(work, u) => t \in Eligible(work, u)
  BY <1>0, <1>c, TargetIsOne
<1>2. r.unit = u /\ r.task = t /\ r.stage = "working" BY DEF Session
<1>3. IF Resumes(work, u) THEN UNCHANGED board ELSE Write(Claimed(work, t)) BY DEF TakeTask
<1> HIDE DEF r, t
<1>4. /\ RunsOne' /\ RunUnits' \subseteq RunUnits
      /\ \A s : Working(s)' => Working(s) \/ s = t
      /\ \A k \in DOMAIN runs' : runs'[k].stage = "working" => Owner[runs'[k].task] = runs'[k].unit
  <2>1. CASE runs' = [runs EXCEPT ![i] = r]
    <3>1. /\ DOMAIN runs' = DOMAIN runs /\ runs'[i] = r
          /\ \A k \in DOMAIN runs : k # i => runs'[k] = runs[k]
      <4>1. runs \in Seq(Run) BY DEF TypeInv, RestOK
      <4> QED BY <2>1, <4>1
    <3>2. \A k \in DOMAIN runs : runs'[k].unit = runs[k].unit BY <1>2, <3>1
    <3>3. RunUnits' \subseteq RunUnits BY <3>1, <3>2 DEF RunUnits
    <3>4. RunsOne' BY <3>1, <3>2 DEF Tokens, RunsOne
    <3>5. \A s : Working(s)' => Working(s) \/ s = t BY <1>2, <3>1 DEF Working
    <3>6. \A k \in DOMAIN runs' : runs'[k].stage = "working" => Owner[runs'[k].task] = runs'[k].unit
      BY <1>1, <1>2, <3>1 DEF Holders
    <3> QED BY <3>3, <3>4, <3>5, <3>6
  <2>2. CASE runs' = RemoveAt(runs, i)
    <3>1. /\ RunsOne' /\ RunUnits' \subseteq RunUnits
          /\ \A s : Working(s)' => Working(s)
          /\ \A k \in DOMAIN runs' : \E j \in DOMAIN runs : runs'[k] = runs[j]
      BY <2>2, RunsFewer
    <3> QED BY <3>1 DEF Holders
  <2> QED BY <1>b, <2>1, <2>2
<1>6. /\ UNCHANGED <<phase, todo, left, halting>>
      /\ ~Quiet /\ ~Quiet' /\ phase \notin {"commands", "reports", "archive"}
  <2>1. UNCHANGED <<phase, todo, left, halting>> BY <1>a DEF loop
  <2>2. ~Quiet BY DEF Calmly
  <2> QED BY <2>1, <2>2 DEF Quiet, Does, Judge
<1>7. Live' = Live BY <1>a, <1>6, LiveStays
<1>8. /\ Edit /\ head' = work'
      /\ work'[t].status \in Holding
      /\ \A s \in Task : s # t => work'[s].status = work[s].status
      /\ work'[t].status = work[t].status \/ \A s \in Task : work[s].status \in Holding => Owner[s] # u
  <2>1. CASE Resumes(work, u)
    <3>1. UNCHANGED work /\ head' = work' BY <1>0, <1>3, <2>1 DEF board
    <3>2. work[t].status \in Holding BY <1>1, <2>1 DEF Held, In, Holding
    <3> QED BY <3>1, <3>2, UnchangedKept, KeptFacts
  <2>2. CASE ~Resumes(work, u)
    <3>1. work' = Claimed(work, t) /\ head' = work' BY <1>3, <2>2 DEF Write, Calm
    <3>2. t \in Eligible(work, u) BY <1>1, <2>2
    <3>3. ClaimEdit(t) BY <1>0, <1>1, <3>1, <3>2, ClaimedFacts DEF ClaimEdit, Same, Eligible, In
    <3>4. Edit BY <1>1, <3>3 DEF Edit
    <3>5. \A s \in Task : work[s].status \in Holding => Owner[s] # u
      BY <2>2 DEF Resumes, Held, In, Holding
    <3> QED BY <3>1, <3>3, <3>4, <3>5 DEF ClaimEdit, Same, Holding
  <2> QED BY <2>1, <2>2
<1>9. Waits' => Waits BY <1>1, <1>8 DEF Waits, Holding
<1>10. Lone(Holding)'
  <2> SUFFICES ASSUME NEW a \in Task, NEW b \in Task, work'[a].status \in Holding, work'[b].status \in Holding,
                      Owner[a] = Owner[b]
               PROVE  a = b
    BY DEF Lone, Holding
  <2>1. CASE work'[t].status = work[t].status
    <3>1. work[a].status \in Holding /\ work[b].status \in Holding BY <1>8, <2>1
    <3> QED BY <3>1 DEF Alone, Lone
  <2>2. CASE \A s \in Task : work[s].status \in Holding => Owner[s] # u
    <3>1. \A s \in Task : s # t /\ work'[s].status \in Holding => work[s].status \in Holding /\ Owner[s] # Owner[t]
      BY <1>1, <1>8, <2>2
    <3>2. a # t /\ b # t => a = b BY <3>1 DEF Alone, Lone
    <3> QED BY <3>1, <3>2
  <2> QED BY <1>8, <2>1, <2>2
<1>11. Alone'
  <2> SUFFICES ASSUME phase = "asleep" PROVE Lone(Active)' BY <1>6, <1>10 DEF Alone
  <2>1. ~Waits' BY <1>9 DEF Reviews
  <2>2. \A s \in Task : work'[s].status \in Active => work'[s].status \in Holding BY <2>1 DEF Waits, Active, Holding
  <2> QED BY <1>10, <2>2 DEF Lone, Active, Holding
<1>12. Holders'
  <2>1. \A s : Owed(s)' <=> Owed(s) BY <1>a, <1>7 DEF Owed
  <2>2. \A k \in Live' : Owner[files'[k].task] = files'[k].unit BY <1>a, <1>7 DEF Holders
  <2>3. \A s \in Task : Working(s)' \/ Owed(s)' => work'[s].status \in Holding
    BY <1>4, <1>8, <2>1 DEF Holders
  <2> QED BY <1>4, <2>2, <2>3 DEF Holders, Holding
<1>13. Tokens'
  <2>1. FileUnits' = FileUnits /\ FilesOne' /\ DeedUnits' = DeedUnits /\ DeedsOne'
    BY <1>a, <1>6, <1>7 DEF Tokens, FileUnits, FilesOne, DeedUnits, DeedsOne, Does, Launch
  <2> QED BY <1>4, <2>1, TokensShrink
<1>14. Calmly' BY <1>6 DEF Calmly
<1>15. Reviews' BY <1>6, <1>9 DEF Reviews, JudgedFirst, Judge, Launch, Does, Ender
<1>16. Steady' BY <1>a, <1>6, <1>8 DEF Steady
<1>17. FilesExact' BY <1>a DEF FilesExact, Reasoned
<1> QED BY <1>8, <1>11, <1>12, <1>13, <1>14, <1>15, <1>16, <1>17 DEF CalmStep

LEMMA ClaimCalm == ASSUME Calm, TypeInv, CalmInv, NEW i \in DOMAIN runs, ClaimForUnit(i) PROVE CalmStep
<1> DEFINE u == runs[i].unit
<1>1. runs[i].stage = "starting" /\ ReadBy(i) = work
  BY DEF ClaimForUnit, AtClaim, ReadBy, TypeInv, RestOK, Calm
<1>2. /\ UNCHANGED <<loop, wave, files, beat>>
      /\ IF NothingFor(work, u) THEN runs' = RemoveAt(runs, i) /\ UNCHANGED board
         ELSE TakeTask(work, u) /\ runs' = [runs EXCEPT ![i] = Session(u, Target(work, u))]
  BY <1>1 DEF ClaimForUnit, Exit, Session
<1>3. CASE NothingFor(work, u)
  <2>1. runs' = RemoveAt(runs, i) /\ UNCHANGED <<board, loop, wave, files, beat>> BY <1>2, <1>3
  <2> QED BY <2>1, ExitCalm
<1>4. CASE ~NothingFor(work, u) BY <1>1, <1>2, <1>4, TakeCalm
<1> QED BY <1>3, <1>4

LEMMA RaisesCalm == ASSUME Calm, TypeInv, CalmInv, NEW i \in DOMAIN runs, ClaimRaises(i) PROVE CalmStep
<1> DEFINE u == runs[i].unit
<1>1. runs[i].stage = "starting" /\ ReadBy(i) = work
  BY DEF ClaimRaises, AtClaim, ReadBy, TypeInv, RestOK, Calm
<1>2. /\ UNCHANGED <<loop, wave, files, beat>> /\ runs' = RemoveAt(runs, i)
      /\ ~NothingFor(work, u)
      /\ UNCHANGED board \/ TakeTask(work, u)
  BY <1>1 DEF ClaimRaises, Exit
<1>3. CASE UNCHANGED board
  <2>1. UNCHANGED <<board, loop, wave, files, beat>> BY <1>2, <1>3
  <2> QED BY <1>2, <2>1, ExitCalm
<1>4. CASE TakeTask(work, u) BY <1>1, <1>2, <1>4, TakeCalm
<1> QED BY <1>2, <1>3, <1>4

LEMMA CalmNext == ASSUME Calm, TypeInv, CalmInv, [Next]_vars PROVE CalmStep
<1>1. CASE Loop
  <2>1. ~Restart BY DEF Restart, CalmInv, Steady
  <2> QED BY <1>1, <2>1, TickCalm, DrainTgCalm, ListCalm, DrainControlCalm, ArchiveCalm, DecideCalm, HaltCalm,
       EscalateCalm, ReviewCalm, TriageCalm, DispatchCalm, RedispatchCalm, SaveCalm DEF Loop
<1>2. CASE Claiming BY <1>2, RefuseCalm, ClaimCalm, RaisesCalm DEF Claiming
<1>3. CASE Human BY <1>3, HandleUpdateCalm DEF Human
<1>4. ~Crash BY DEF Crash, Calm
<1>5. CASE \E i \in DOMAIN runs : Peek(i) \/ Ending(i)
  <2>1. PICK i \in DOMAIN runs : Peek(i) \/ Ending(i) BY <1>5
  <2>2. ~Peek(i) BY DEF Peek, Calm
  <2>3. ASSUME NEW status \in {"in_progress", "needs_review", "malformed", "unreported"},
               EndSession(i, status, NoReason)
        PROVE  CalmStep
    BY <2>3, EndSessionCalm
  <2>4. ASSUME NEW reason \in Reasons, EndSession(i, "blocked", reason) PROVE CalmStep
    BY <2>4, EndSessionCalm
  <2> QED BY <2>1, <2>2, <2>3, <2>4 DEF Ending
<1>6. CASE UNCHANGED vars BY <1>6, StutterCalm
<1> QED BY <1>1, <1>2, <1>3, <1>4, <1>5, <1>6 DEF Next

LEMMA CalmAlways == ASSUME Calm PROVE Spec => [](TypeInv /\ CalmInv)
<1>1. Init => TypeInv /\ CalmInv BY InitTypes, CalmInit
<1>2. TypeInv /\ CalmInv /\ [Next]_vars => (TypeInv /\ CalmInv)'
  BY NextTypes, CalmNext, CalmKeeps
<1> QED BY <1>1, <1>2, PTL DEF Spec

(* No task is ever worked on by two sessions at once, for any plan and any *)
(* number of units: stale tasks are started again (decide,                 *)
(* RedispatchStale) only after their session and its report are gone.      *)
THEOREM OneSessionHolds == ASSUME Calm PROVE Spec => []OneSession
<1>1. TypeInv /\ CalmInv => OneSession BY CalmOneSession
<1> QED BY <1>1, CalmAlways, PTL

-----------------------------------------------------------------------------
(* The tasks a task depends on, directly or through others, and what the   *)
(* protocol asks of whoever assigns territory (COORDINATION_PROTOCOL 4):   *)
(* tasks that share it are in sequence through Depends_On.                 *)
Before(t) ==
  {s \in Task : \A S \in SUBSET Task : Deps[t] \subseteq S /\ (\A x \in S : Deps[x] \subseteq S) => s \in S}
Sequenced == \A a, b \in Task : Clash(a, b) => a \in Before(b) \/ b \in Before(a)

LEMMA BegunBefore ==
  ASSUME Begun, NEW t \in Task, work[t].status # "pending", NEW s \in Before(t)
  PROVE  work[s].status = "done"
<1> DEFINE S == {x \in Task : work[x].status = "done"}
<1>1. Deps[t] \subseteq S BY DEF Begun, DepsDone, In
<1>2. \A x \in S : Deps[x] \subseteq S BY DEF Begun, DepsDone, In
<1> QED BY <1>1, <1>2 DEF Before

LEMMA CalmIsLegal == ASSUME CalmInv, ExactOnes, Sequenced PROVE BoardStaysLegal
<1> USE DEF CalmInv
<1>1. \A t \in In(work, {"blocked"}) : ExactReason(work[t].reason) BY DEF Reasoned, In
<1>2. \A t \in In(work, {"needs_review"}) : work[t].evidence BY DEF Papers, In
<1>3. \A t \in In(work, Active) : work[t].branch BY DEF Papers, In
<1>4. ASSUME NEW a \in In(work, Active), NEW b \in In(work, Active), Clash(a, b) PROVE FALSE
  <2>1. a \in Task /\ b \in Task /\ work[a].status \in Active /\ work[b].status \in Active BY DEF In
  <2>2. work[a].status \notin {"pending", "done"} /\ work[b].status \notin {"pending", "done"} BY <2>1 DEF Active
  <2>3. a \in Before(b) \/ b \in Before(a) BY <1>4, <2>1 DEF Sequenced
  <2> QED BY <2>1, <2>2, <2>3, BegunBefore
<1>5. Legal(work) BY <1>1, <1>2, <1>3, <1>4 DEF Legal
<1> QED BY <1>5 DEF BoardStaysLegal, Steady

(* PLAN.md at HEAD stays legal for validate_plan.py: reasons and evidence  *)
(* where they are due, a branch on what is active, no two active tasks in  *)
(* one territory. Builders give exact reasons (control.py only looks at    *)
(* how a reason starts), and tasks that share territory are in sequence.   *)
THEOREM BoardHolds == ASSUME Calm, ExactOnes, Sequenced PROVE Spec => []BoardStaysLegal
<1>1. TypeInv /\ CalmInv => BoardStaysLegal BY CalmIsLegal
<1> QED BY <1>1, CalmAlways, PTL

-----------------------------------------------------------------------------
(* What the abstract life cycle sees of the board.                         *)
Statuses == [t \in Task |-> head[t].status]

LEMMA EditLives ==
  ASSUME TypeInv, TypeInv', CalmInv, CalmInv', Edit
  PROVE  [Life!Next]_Statuses
<1> DEFINE st == Statuses
           st1 == Statuses'
<1>0. head = work /\ head' = work' BY DEF CalmInv, Steady
<1>1. /\ st = [t \in Task |-> work[t].status]
      /\ st1 = [t \in Task |-> work'[t].status]
  BY <1>0 DEF Statuses
<1>2. CASE KeptEdit
  <2>1. st1 = st BY <1>1, <1>2 DEF KeptEdit, Same
  <2> QED BY <2>1
<1>3. ASSUME NEW t \in Task, NEW s \in Status, work'[t].status = s, \A x \in Task : x # t => Same(x)
      PROVE  st1 = [st EXCEPT ![t] = s]
  BY <1>1, <1>3 DEF Same
<1>4. ASSUME NEW t \in Task, ClaimEdit(t) PROVE Life!Claim(t)
  <2>1. st1 = [st EXCEPT ![t] = "claimed"] BY <1>3, <1>4 DEF ClaimEdit, Status
  <2>2. work[t].status = "pending" /\ \A d \in Deps[t] : d \in Task /\ work[d].status = "done"
    BY <1>4 DEF ClaimEdit, DepsDone, In
  <2> QED BY <1>1, <2>1, <2>2 DEF Life!Claim, Life!Go, Statuses
<1>5. ASSUME NEW t \in Task, ReportEdit(t) PROVE Life!Report(t)
  <2>1. st1 = [st EXCEPT ![t] = "needs_review"] \/ st1 = [st EXCEPT ![t] = "blocked"]
    BY <1>3, <1>5 DEF ReportEdit, Status
  <2>2. work[t].status \in {"claimed", "in_progress"} BY <1>5 DEF ReportEdit, Holding
  <2> QED BY <1>1, <2>1, <2>2 DEF Life!Report, Life!Go, Statuses
<1>6. ASSUME NEW t \in Task, UnblockEdit(t) PROVE Life!Unblock(t)
  <2>1. st1 = [st EXCEPT ![t] = "pending"] BY <1>3, <1>6 DEF UnblockEdit, Status
  <2>2. work[t].status = "blocked" BY <1>6 DEF UnblockEdit
  <2> QED BY <1>1, <2>1, <2>2 DEF Life!Unblock, Life!Go, Statuses
<1>7. ASSUME NEW S \in SUBSET Task, ReviewEdit(S) PROVE Life!Review
  <2> DEFINE W == {t \in Task : st[t] = "needs_review"}
             v == [t \in W |-> work'[t].status]
  <2>1. ASSUME NEW t \in Task
        PROVE  \/ t \in W /\ work'[t].status \in {"done", "in_progress", "needs_review"}
               \/ t \notin W /\ work'[t].status = st[t]
    <3>1. CASE t \in S BY <1>1, <1>7, <3>1 DEF ReviewEdit
    <3>2. CASE t \notin S
      <4>1. Same(t) BY <1>7, <3>2 DEF ReviewEdit
      <4> QED BY <1>1, <4>1 DEF Same
    <3> QED BY <3>1, <3>2
  <2>2. v \in [W -> {"done", "in_progress", "needs_review"}] BY <2>1
  <2>3. st1 = [t \in Task |-> IF t \in DOMAIN v THEN v[t] ELSE st[t]] BY <1>1, <2>1
  <2> HIDE DEF v
  <2> QED BY <2>2, <2>3 DEF Life!Review, Statuses
<1> QED BY <1>2, <1>4, <1>5, <1>6, <1>7 DEF Edit, Life!Next

(* What the supervisor, the claims, the reports, the reviews and the human *)
(* commit to PLAN.md are the transitions of Lifecycle, one at a time:      *)
(* those of COORDINATION_PROTOCOL 2, and claimed to needs_review, which it *)
(* does not list.                                                          *)
THEOREM LifecycleHolds == ASSUME Calm PROVE Spec => ImplementsLifecycle
<1>1. Init => Life!Init BY DEF Init, NewPlan, Life!Init
<1>2. TypeInv /\ CalmInv /\ (TypeInv /\ CalmInv)' /\ [Next]_vars => [Life!Next]_Statuses
  BY CalmNext, EditLives DEF CalmStep
<1> QED BY <1>1, <1>2, CalmAlways, PTL DEF Spec, ImplementsLifecycle, Life!Spec, Statuses
=============================================================================
