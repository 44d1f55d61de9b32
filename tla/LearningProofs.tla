--------------------------- MODULE LearningProofs ---------------------------
(***************************************************************************)
(* Proofs about Learning, for every number of reviews, failures and        *)
(* crashes: the marker passes over no finding but a late one, one that     *)
(* counts twice has a failure to thank for it, a second audit task of a    *)
(* day follows a marker that was not written, and an instinct is retired   *)
(* from probation.                                                         *)
(***************************************************************************)
EXTENDS Learning, SequenceTheorems, WellFoundedInduction, TLAPS

Running == {"calling", "merged"}
Setbacks == failures + crashes

(* A run has counted what it read; a finding it did not read, and one that *)
(* is new when no run is under way, owes its counts to failures.           *)
Tally ==
  /\ batch <= Len(review) /\ Len(review) <= MaxReview
  /\ \A k \in 1..Len(review) :
       /\ counted[k] <= 1 + Setbacks
       /\ IsNew(marker, review[k]) /\ at \notin Running => counted[k] <= Setbacks
       /\ k > batch /\ at \in Running => counted[k] <= Setbacks
  /\ \A k \in 1..MaxReview : k > Len(review) => counted[k] = 0
  /\ at \in Running =>
       /\ since \in {0, marker}
       /\ \A k \in 1..batch : IsNew(since, review[k]) => counted[k] >= 1

(* Some finding that has counted is no earlier than t, or has no time.     *)
CountedBy(lines, cs, n, t) ==
  \E j \in 1..n : cs[j] > 0 /\ (lines[j].time >= t \/ lines[j].time = 0)

(* The marker itself is the time of one that counted; so whoever is passed *)
(* over came later into the file.                                          *)
Missed ==
  /\ marker # 0 => CountedBy(review, counted, Len(review), marker)
  /\ \A k \in 1..Len(review) :
       Passed(review[k]) /\ counted[k] = 0 => CountedBy(review, counted, k - 1, review[k].time)

(* A task is filed ahead of its marker, or the day is done.                *)
Night ==
  /\ filed <= 1 + unmarked
  /\ at # "filed" /\ ~audited => filed <= unmarked
  /\ at = "filed" => ~audited

LearnInv == TypeOK /\ Tally /\ Missed /\ Night

LEMMA Bounds ==
  MaxReview \in Nat /\ MaxFail \in Nat /\ MaxCrash \in Nat /\ MaxTime \in Nat
  BY LearningAssumption, InstinctsAssumption

LEMMA InitLearn == Init => LearnInv
<1> SUFFICES ASSUME Init PROVE LearnInv OBVIOUS
<1> USE Bounds DEF Init
<1>1. TypeOK
  <2>1. late \in BOOLEAN /\ audited \in BOOLEAN /\ blind \in BOOLEAN OBVIOUS
  <2>2. review \in Seq(Finding) /\ counted \in [1..MaxReview -> Nat] OBVIOUS
  <2> QED BY <2>1, <2>2 DEF TypeOK, Where, Time
<1>2. Tally BY DEF Tally, Running, Setbacks
<1>3. Missed BY DEF Missed
<1>4. Night BY DEF Night
<1> QED BY <1>1, <1>2, <1>3, <1>4 DEF LearnInv

LEMMA SetbacksType == ASSUME TypeOK PROVE Setbacks \in Nat
  BY DEF TypeOK, Setbacks

LEMMA LineTypes ==
  ASSUME TypeOK
  PROVE  /\ Len(review) \in Nat
         /\ \A k \in 1..Len(review) : review[k] \in Finding /\ review[k].time \in Nat
         /\ marker \in Nat /\ since \in Nat
<1>1. \A k \in 1..Len(review) : review[k] \in Finding BY DEF TypeOK
<1>2. \A f \in Finding : f.time \in Nat BY Bounds DEF Finding
<1> QED BY <1>1, <1>2, Bounds DEF TypeOK, Time

(* Steps that leave the findings alone, within a run or outside of one.    *)
LEMMA SameTally ==
  ASSUME TypeOK, Tally, Missed, UNCHANGED <<review, marker, counted>>,
         Setbacks' \in Nat, Setbacks <= Setbacks',
         at' \in Running => at \in Running /\ UNCHANGED <<since, batch>>,
         at \in Running => at' \in Running \/ Setbacks' = Setbacks + 1,
         batch' \in {0, batch}
  PROVE  Tally' /\ Missed'
<1>1. \A k \in 1..Len(review) : k \in 1..MaxReview BY LearningAssumption, LineTypes DEF Tally
<1>2. \A k \in 1..Len(review) : counted[k] \in Nat BY <1>1 DEF TypeOK
<1>3. Setbacks \in Nat BY SetbacksType
<1>4. Missed' BY DEF Missed, CountedBy, Passed
<1>5. Tally'
  <2>1. \A k \in 1..Len(review) : counted[k] <= 1 + Setbacks' BY <1>2, <1>3 DEF Tally
  <2>2. ASSUME NEW k \in 1..Len(review), IsNew(marker, review[k]), at' \notin Running
        PROVE  counted[k] <= Setbacks'
    BY <1>2, <1>3, <2>2 DEF Tally
  <2>3. ASSUME NEW k \in 1..Len(review), k > batch', at' \in Running
        PROVE  counted[k] <= Setbacks'
    BY <1>2, <1>3, <2>3 DEF Tally
  <2>4. batch' <= Len(review) BY LineTypes DEF Tally
  <2> QED BY <2>1, <2>2, <2>3, <2>4 DEF Tally, IsNew
<1> QED BY <1>4, <1>5

(* What happens outside of a run.                                          *)
LEMMA NightStep ==
  ASSUME LearnInv, Wake \/ Audit \/ SkipDistill \/ Save \/ Restart
  PROVE  LearnInv'
<1> USE DEF LearnInv
<1>0. /\ at \notin Running /\ at' \notin Running
      /\ UNCHANGED <<review, marker, since, batch, blind, counted, failures, crashes, torn>>
  BY DEF Wake, Audit, RunAudit, MarkDoneDaily, SkipAudit, SkipDistill, Save, Restart, Step, learning, Running
<1>1. Tally' /\ Missed' BY <1>0, SetbacksType, SameTally DEF Setbacks
<1>2. at' \in Where
  BY DEF Wake, Audit, RunAudit, MarkDoneDaily, SkipAudit, SkipDistill, Save, Restart, Step, Where
<1>3. reviews' \in Nat /\ saved' \in Nat
  BY DEF Wake, Audit, RunAudit, MarkDoneDaily, SkipAudit, SkipDistill, Save, Restart, learning, TypeOK
<1>4. late' \in BOOLEAN /\ audited' \in BOOLEAN /\ filed' \in Nat /\ unmarked' \in Nat /\ Night'
  <2>1. CASE Wake
    <3>1. late' \in BOOLEAN /\ audited' \in BOOLEAN BY <2>1, Zenon DEF TypeOK, nightly, Wake
    <3>2. filed' \in Nat /\ unmarked' \in Nat BY <2>1 DEF TypeOK, nightly, Wake
    <3>3. Night' BY <2>1 DEF Night, TypeOK, nightly, Wake, Step
    <3> QED BY <3>1, <3>2, <3>3
  <2>2. CASE RunAudit
    <3>1. late' \in BOOLEAN /\ audited' \in BOOLEAN BY <2>2, Zenon DEF TypeOK, RunAudit
    <3>2. filed' \in Nat /\ unmarked' \in Nat BY <2>2 DEF TypeOK, RunAudit
    <3>3. Night' BY <2>2 DEF Night, TypeOK, RunAudit, Step, Due
    <3> QED BY <3>1, <3>2, <3>3
  <2>3. CASE MarkDoneDaily
    <3>1. late' \in BOOLEAN /\ audited' \in BOOLEAN BY <2>3, Zenon DEF TypeOK, MarkDoneDaily
    <3>2. filed' \in Nat /\ unmarked' \in Nat BY <2>3 DEF TypeOK, MarkDoneDaily
    <3>3. Night' BY <2>3 DEF Night, TypeOK, MarkDoneDaily, Step
    <3> QED BY <3>1, <3>2, <3>3
  <2>4. CASE SkipAudit \/ SkipDistill
    <3>1. late' \in BOOLEAN /\ audited' \in BOOLEAN BY <2>4, Zenon DEF TypeOK, SkipAudit, SkipDistill, nightly
    <3> QED BY <2>4, <3>1 DEF TypeOK, SkipAudit, SkipDistill, nightly, Night, Step
  <2>5. CASE Save \/ Restart
    <3>1. late' \in BOOLEAN /\ audited' \in BOOLEAN BY <2>5, Zenon DEF TypeOK, Save, Restart, nightly
    <3> QED BY <2>5, <3>1 DEF TypeOK, Save, Restart, nightly, Night, Step
  <2> QED BY <2>1, <2>2, <2>3, <2>4, <2>5 DEF Audit
<1>5. TypeOK' BY <1>0, <1>2, <1>3, <1>4, Zenon DEF TypeOK
<1> QED BY <1>1, <1>4, <1>5

LEMMA SetbacksGrow ==
  ASSUME TypeOK, NEW f \in Nat, failures' = f, f >= failures, UNCHANGED crashes
  PROVE  /\ Setbacks \in Nat /\ Setbacks' \in Nat /\ Setbacks' >= Setbacks
         /\ f > failures => Setbacks' >= Setbacks + 1
  BY DEF TypeOK, Setbacks

(* A run starts: what is new to it is counted once more, and if it read    *)
(* less than there is, something has failed.                               *)
LEMMA ReadStep ==
  ASSUME LearnInv, NEW mark \in {0, marker}, NEW known, Read(mark, known),
         NEW f \in Nat, failures' = f, blind' \in BOOLEAN,
         f >= failures, mark = marker \/ f > failures
  PROVE  LearnInv'
<1> USE Bounds DEF LearnInv
<1>1. /\ at = "distill" /\ at' = "calling" /\ batch' = Len(review) /\ since' = mark
      /\ UNCHANGED <<review, marker, reviews, saved, late, audited, filed, unmarked, crashes, torn>>
  BY DEF Read, Step, nightly
<1>2. counted' = [k \in DOMAIN counted |->
                    IF k \in NewUpTo(mark, Len(review)) THEN counted[k] + 1 ELSE counted[k]]
  BY DEF Read, CountFindings
<1>3. counted' \in [1..MaxReview -> Nat]
      /\ \A k \in 1..MaxReview :
           counted'[k] = IF k <= Len(review) /\ IsNew(mark, review[k]) THEN counted[k] + 1 ELSE counted[k]
  BY <1>2, LineTypes DEF TypeOK, NewUpTo
<1>4. TypeOK' BY <1>1, <1>3 DEF TypeOK, Where, Time
<1>5. \A k \in 1..Len(review) : k \in 1..MaxReview /\ counted[k] \in Nat BY LineTypes DEF Tally, TypeOK
<1>6. \A k \in 1..Len(review) : counted'[k] >= counted[k] /\ counted'[k] \in Nat BY <1>3, <1>5
<1>7. Missed'
  <2>1. \A n \in 0..Len(review), t \in Nat :
          CountedBy(review, counted, n, t) => CountedBy(review, counted', n, t)
    BY <1>5, <1>6 DEF CountedBy
  <2>2. \A k \in 1..Len(review) : k - 1 \in 0..Len(review) /\ review[k].time \in Nat BY LineTypes
  <2>3. \A k \in 1..Len(review) : counted'[k] = 0 => counted[k] = 0 BY <1>5, <1>6
  <2>4. marker \in Nat /\ Len(review) \in 0..Len(review) BY LineTypes
  <2>5. marker # 0 => CountedBy(review, counted', Len(review), marker) BY <2>1, <2>4 DEF Missed
  <2>6. ASSUME NEW k \in 1..Len(review), Passed(review[k]), counted'[k] = 0
        PROVE  CountedBy(review, counted', k - 1, review[k].time)
    BY <2>1, <2>2, <2>3, <2>6 DEF Missed
  <2> QED BY <1>1, <2>5, <2>6 DEF Missed, Passed
<1>8. Tally'
  <2>1. Setbacks \in Nat /\ Setbacks' \in Nat /\ Setbacks' >= Setbacks
        /\ (mark = marker \/ Setbacks' >= Setbacks + 1)
    BY <1>1, SetbacksGrow
  <2>2. ASSUME NEW k \in 1..Len(review) PROVE counted'[k] <= 1 + Setbacks'
    <3>1. counted[k] <= 1 + Setbacks /\ (IsNew(marker, review[k]) => counted[k] <= Setbacks)
      BY <1>1 DEF Tally, Running
    <3>2. counted[k] \in Nat /\ counted'[k] = IF IsNew(mark, review[k]) THEN counted[k] + 1 ELSE counted[k]
      BY <1>3, <1>5
    <3> QED BY <2>1, <3>1, <3>2
  <2>3. \A k \in 1..Len(review) : IsNew(mark, review[k]) => counted'[k] >= 1 BY <1>3, <1>5
  <2> QED BY <1>1, <1>3, <2>1, <2>2, <2>3, LineTypes DEF Tally, Running
<1>9. Night' BY <1>1 DEF Night
<1> QED BY <1>4, <1>7, <1>8, <1>9

LEMMA StartStep ==
  ASSUME LearnInv, Start
  PROVE  LearnInv'
<1>1. CASE StartDistill
  BY <1>1, ReadStep DEF StartDistill, LearnInv, TypeOK
<1>2. CASE StartUnmarked
  BY <1>2, ReadStep DEF StartUnmarked, Failing, LearnInv, TypeOK
<1>3. CASE StartBlind
  BY <1>3, ReadStep DEF StartBlind, Failing, LearnInv, TypeOK
<1> QED BY <1>1, <1>2, <1>3 DEF Start

(* A marker that is emptied makes everything new, at the price of a        *)
(* setback.                                                                *)
LEMMA SetbackStep ==
  ASSUME LearnInv, at' \in Where \ Running, UNCHANGED <<review, counted>>, marker' \in {0, marker},
         batch' = 0, Setbacks' = Setbacks + 1
  PROVE  Tally' /\ Missed'
<1> USE Bounds DEF LearnInv
<1>1. \A k \in 1..Len(review) : k \in 1..MaxReview /\ counted[k] \in Nat BY LineTypes DEF Tally, TypeOK
<1>2. Setbacks \in Nat BY SetbacksType
<1>3. Missed' BY DEF Missed, CountedBy, Passed
<1>4. Tally' BY <1>1, <1>2, LineTypes DEF Tally
<1> QED BY <1>3, <1>4

(* A run fails: a setback more for what it counted.                        *)
LEMMA FailStep ==
  ASSUME LearnInv, RunFails
  PROVE  LearnInv'
<1> USE Bounds DEF LearnInv
<1>1. /\ at \in {"distill", "calling", "merged"} /\ at' = "acting" /\ batch' = 0 /\ since' = 0
      /\ blind' = FALSE /\ failures' = failures + 1 /\ marker' \in {0, marker}
      /\ UNCHANGED <<review, reviews, saved, counted, late, audited, filed, unmarked, crashes, torn>>
  BY DEF RunFails, SaveFails, ModelFails, MarkerFails, Emptied, FailOpen, Failing, EndRun, nightly
<1>2. TypeOK'
  <2>1. blind' \in BOOLEAN /\ late' \in BOOLEAN /\ audited' \in BOOLEAN BY <1>1, Zenon DEF TypeOK
  <2> QED BY <1>1, <2>1 DEF TypeOK, Where, Time
<1>3. Tally' /\ Missed' BY <1>1, SetbackStep DEF Setbacks, TypeOK, Where, Running
<1>4. Night' BY <1>1 DEF Night
<1> QED BY <1>2, <1>3, <1>4

LEMMA AnswerStep ==
  ASSUME LearnInv, ModelAnswers
  PROVE  LearnInv'
<1> USE DEF LearnInv
<1>1. /\ at = "calling" /\ at' = "merged"
      /\ UNCHANGED <<review, marker, reviews, saved, since, batch, blind, counted, failures, late, audited, filed,
                     unmarked, crashes, torn>>
  BY DEF ModelAnswers, NoProposal, NewProposal, Update, Answered, Step, nightly, learning
<1>2. TypeOK' BY <1>1 DEF TypeOK, Where
<1>3. Tally' /\ Missed' BY <1>1, SetbacksType, SameTally DEF Setbacks, Running
<1>4. Night' BY <1>1 DEF Night
<1> QED BY <1>2, <1>3, <1>4

(* The marker moves to the latest time the run has read, which is that of  *)
(* a finding above all that came since.                                    *)
LEMMA MarkerStep ==
  ASSUME LearnInv, WriteMarker
  PROVE  LearnInv'
<1> USE Bounds DEF LearnInv
<1>1. /\ at = "merged" /\ at' = "marking"
      /\ UNCHANGED <<review, reviews, saved, since, batch, blind, counted, failures, late, audited, filed,
                     unmarked, crashes, torn>>
  BY DEF WriteMarker, Step, nightly
<1>2. PICK latest \in Times :
        /\ \A t \in Times : t <= latest
        /\ \/ latest > 0 /\ marker' = latest
           \/ latest = 0 /\ marker' \in Time \ {0}
  BY DEF WriteMarker
<1>3. batch \in Nat /\ batch <= Len(review) /\ Setbacks \in Nat BY SetbacksType DEF TypeOK, Tally
<1>4. \A k \in 1..batch : k \in 1..Len(review) BY <1>3, LineTypes
<1>5. PICK j \in 1..batch : IsNew(since, review[j]) /\ latest = review[j].time
  BY DEF Times, NewUpTo
<1>6. /\ latest \in Nat /\ j \in 1..Len(review) /\ counted[j] >= 1
      /\ since \in Nat /\ marker \in Nat /\ since \in {0, marker}
  BY <1>1, <1>4, <1>5, LineTypes DEF Tally, Running
<1>7. marker' \in Nat /\ marker' # 0 /\ (latest # 0 => marker' = latest) BY <1>2, <1>6 DEF Time
<1>8. \A k \in 1..batch : IsNew(since, review[k]) => review[k].time <= latest
  BY <1>2 DEF Times, NewUpTo
<1>9. \A k \in 1..Len(review) : k \in 1..MaxReview /\ counted[k] \in Nat /\ review[k].time \in Nat
  BY LineTypes DEF Tally, TypeOK
<1>10. TypeOK'
  <2>1. \A f \in Finding : f.time \in Time BY DEF Finding, Time
  <2>2. marker' \in Time BY <1>2, <1>5, <1>6, <2>1, LineTypes
  <2> QED BY <1>1, <2>2 DEF TypeOK, Where
<1>11. Missed'
  <2>1. ASSUME NEW n \in Nat, n >= batch, NEW t \in Nat, t <= marker'
        PROVE  CountedBy(review, counted, n, t)
    <3>1. j \in 1..n BY <1>3, <2>1
    <3>2. review[j].time >= t \/ review[j].time = 0 BY <1>5, <1>6, <1>7, <2>1
    <3>3. counted[j] > 0 BY <1>6, <1>9
    <3> QED BY <3>1, <3>2, <3>3 DEF CountedBy
  <2>2. CountedBy(review, counted, Len(review), marker') BY <1>3, <1>7, <2>1, LineTypes
  <2>3. ASSUME NEW k \in 1..Len(review), review[k].time <= marker', counted[k] = 0
        PROVE  CountedBy(review, counted, k - 1, review[k].time)
    <3>1. CASE k <= batch
      <4>1. ~IsNew(since, review[k]) BY <1>1, <1>3, <2>3, <3>1 DEF Tally, Running
      <4>2. Passed(review[k]) BY <4>1, <1>6, <1>9 DEF IsNew, Passed
      <4> QED BY <2>3, <4>2 DEF Missed
    <3>2. CASE k > batch
      <4>1. k - 1 \in Nat /\ k - 1 >= batch BY <1>3, <3>2, LineTypes
      <4> QED BY <1>9, <2>1, <2>3, <4>1
    <3> QED BY <1>3, <3>1, <3>2, LineTypes
  <2> QED BY <1>1, <2>2, <2>3 DEF Missed, Passed
<1>12. Tally'
  <2>1. ASSUME NEW k \in 1..Len(review), IsNew(marker', review[k])
        PROVE  counted[k] <= Setbacks
    <3>1. review[k].time > marker' BY <1>7, <2>1 DEF IsNew
    <3>2. CASE k <= batch
      <4>1. k \in 1..batch BY <1>3, <3>2
      <4>2. review[k].time \in Nat BY <1>9
      <4>3. ~IsNew(since, review[k])
        <5>1. SUFFICES ASSUME IsNew(since, review[k]) PROVE FALSE OBVIOUS
        <5>2. review[k].time <= latest BY <1>8, <4>1, <5>1
        <5> QED BY <1>6, <1>7, <3>1, <4>2, <5>2
      <4>4. since # 0 /\ review[k].time <= since BY <1>6, <4>2, <4>3 DEF IsNew
      <4>5. latest > since BY <1>5, <4>4 DEF IsNew
      <4> QED BY <1>6, <1>7, <3>1, <4>2, <4>4, <4>5
    <3>3. CASE k > batch BY <1>1, <3>3 DEF Tally, Running
    <3> QED BY <1>3, <3>2, <3>3
  <2>2. \A k \in 1..Len(review) : counted[k] <= 1 + Setbacks BY DEF Tally
  <2>3. Setbacks' = Setbacks BY <1>1 DEF Setbacks
  <2>4. \A k \in 1..MaxReview : k > Len(review) => counted[k] = 0 BY DEF Tally
  <2>5. Len(review) <= MaxReview BY DEF Tally
  <2>6. at' \notin Running BY <1>1 DEF Running
  <2> QED BY <1>1, <1>3, <2>1, <2>2, <2>3, <2>4, <2>5, <2>6 DEF Tally
<1>13. Night' BY <1>1 DEF Night
<1> QED BY <1>10, <1>11, <1>12, <1>13

LEMMA ResetStep ==
  ASSUME LearnInv, ResetReviews
  PROVE  LearnInv'
<1> USE DEF LearnInv
<1>1. /\ at = "marking" /\ at' = "acting" /\ since' = 0 /\ batch' = 0 /\ blind' = FALSE /\ reviews' = 0
      /\ UNCHANGED <<review, marker, saved, counted, failures, late, audited, filed, unmarked, crashes, torn>>
  BY DEF ResetReviews, EndRun, nightly
<1>2. TypeOK'
  <2>1. blind' \in BOOLEAN /\ late' \in BOOLEAN /\ audited' \in BOOLEAN BY <1>1, Zenon DEF TypeOK
  <2> QED BY <1>1, <2>1, Bounds DEF TypeOK, Where, Time
<1>3. Tally' /\ Missed' BY <1>1, SetbacksType, SameTally DEF Setbacks, Running
<1>4. Night' BY <1>1 DEF Night
<1> QED BY <1>2, <1>3, <1>4

(* A finding is written at any time, beside a run too, with any time on it:*)
(* if the marker is past it, what the marker was set to counted above.     *)
LEMMA NotedStep ==
  ASSUME LearnInv, NEW f \in Finding, Noted(f),
         UNCHANGED <<at, marker, saved, since, batch, blind, counted, failures, late, audited, filed, unmarked,
                     crashes, torn>>,
         reviews' \in Nat
  PROVE  LearnInv'
<1> USE Bounds DEF LearnInv
<1>1. /\ review' \in Seq(Finding) /\ Len(review') = Len(review) + 1 /\ Len(review) < MaxReview /\ Len(review) \in Nat
      /\ \A k \in 1..Len(review) : review'[k] = review[k]
      /\ review'[Len(review) + 1] = f
  BY DEF Noted, TypeOK
<1>2. TypeOK' BY <1>1 DEF TypeOK
<1>3. counted[Len(review) + 1] = 0 BY <1>1 DEF Tally
<1>4. \A k \in 1..Len(review') : k \in 1..Len(review) \/ k = Len(review) + 1 BY <1>1
<1>5. Setbacks' = Setbacks /\ Setbacks \in Nat BY SetbacksType DEF Setbacks
<1>6. Tally'
  <2>1. batch <= Len(review) /\ batch \in Nat BY DEF Tally, TypeOK
  <2>2. \A k \in 1..Len(review') : counted[k] <= 1 + Setbacks BY <1>3, <1>4, <1>5 DEF Tally
  <2>3. \A k \in 1..Len(review') : IsNew(marker, review'[k]) /\ at \notin Running => counted[k] <= Setbacks
    BY <1>1, <1>3, <1>4, <1>5 DEF Tally
  <2>4. \A k \in 1..Len(review') : k > batch /\ at \in Running => counted[k] <= Setbacks
    BY <1>3, <1>4, <1>5 DEF Tally
  <2>5. \A k \in 1..batch : k \in 1..Len(review) /\ review'[k] = review[k] BY <1>1, <2>1
  <2>6. \A k \in 1..MaxReview : k > Len(review') => counted[k] = 0 BY <1>1 DEF Tally
  <2>7. at \in Running =>
          /\ since \in {0, marker}
          /\ \A k \in 1..batch : IsNew(since, review'[k]) => counted[k] >= 1
    BY <2>5 DEF Tally
  <2>8. batch <= Len(review') /\ Len(review') <= MaxReview BY <1>1, <2>1
  <2> QED BY <1>5, <2>2, <2>3, <2>4, <2>6, <2>7, <2>8 DEF Tally
<1>7. Missed'
  <2>1. \A n \in 0..Len(review), t \in Nat :
          CountedBy(review, counted, n, t) => CountedBy(review', counted, n, t)
    BY <1>1 DEF CountedBy
  <2>2. marker \in Nat /\ \A k \in 1..Len(review) : review[k].time \in Nat BY LineTypes
  <2>3. ASSUME marker # 0 PROVE CountedBy(review', counted, Len(review'), marker)
    <3>1. CountedBy(review', counted, Len(review), marker) BY <1>1, <2>1, <2>2, <2>3 DEF Missed
    <3> QED BY <1>1, <3>1 DEF CountedBy
  <2>4. ASSUME NEW k \in 1..Len(review'), marker # 0, review'[k].time <= marker, counted[k] = 0
        PROVE  CountedBy(review', counted, k - 1, review'[k].time)
    <3>1. CASE k \in 1..Len(review)
      <4>1. CountedBy(review, counted, k - 1, review[k].time) BY <1>1, <2>4, <3>1 DEF Missed, Passed
      <4>2. k - 1 \in 0..Len(review) BY <1>1, <3>1
      <4> QED BY <1>1, <2>1, <2>2, <3>1, <4>1, <4>2
    <3>2. CASE k = Len(review) + 1
      <4>1. CountedBy(review, counted, Len(review), marker) BY <2>4 DEF Missed
      <4>2. f.time \in Nat /\ f.time <= marker BY <1>1, <2>4, <3>2 DEF Finding
      <4>3. CountedBy(review, counted, Len(review), f.time) BY <2>2, <4>1, <4>2 DEF CountedBy
      <4>4. CountedBy(review', counted, Len(review), f.time) BY <1>1, <2>1, <4>2, <4>3
      <4>5. k - 1 = Len(review) BY <1>1, <3>2
      <4> QED BY <1>1, <3>2, <4>4, <4>5
    <3> QED BY <1>4, <3>1, <3>2
  <2> QED BY <2>3, <2>4 DEF Missed, Passed
<1>8. Night' BY DEF Night
<1> QED BY <1>2, <1>6, <1>7, <1>8

(* The process dies: a setback more, in the run or on the day.             *)
LEMMA CrashStep ==
  ASSUME LearnInv, Crash
  PROVE  LearnInv'
<1> USE Bounds DEF LearnInv
<1>1. /\ at' = "down" /\ crashes' = crashes + 1 /\ since' = 0 /\ batch' = 0 /\ blind' = FALSE /\ reviews' = 0
      /\ unmarked' = (IF at = "filed" THEN unmarked + 1 ELSE unmarked)
      /\ marker' \in {0, marker} /\ saved' \in {0, saved} /\ torn' \in {torn, torn + 1}
      /\ UNCHANGED <<review, counted, failures, late, audited, filed>>
  BY DEF Crash, Emptied
<1>2. TypeOK'
  <2>1. blind' \in BOOLEAN /\ late' \in BOOLEAN /\ audited' \in BOOLEAN BY <1>1, Zenon DEF TypeOK
  <2> QED BY <1>1, <2>1 DEF TypeOK, Where, Time
<1>3. Tally' /\ Missed' BY <1>1, SetbackStep DEF Setbacks, TypeOK, Where, Running
<1>4. Night' BY <1>1 DEF Night, TypeOK
<1> QED BY <1>2, <1>3, <1>4

LEMMA NextLearn == LearnInv /\ [Next]_vars => LearnInv'
<1> SUFFICES ASSUME LearnInv, [Next]_vars PROVE LearnInv' OBVIOUS
<1>1. CASE Loop
  BY <1>1, NightStep, StartStep, FailStep, AnswerStep, MarkerStep, ResetStep DEF Loop, Distill
<1>2. CASE Review
  <2>1. PICK f \in Finding : Noted(f) BY <1>2 DEF Review
  <2>2. reviews' \in Nat BY <1>2 DEF Review, LearnInv, TypeOK
  <2> QED BY <1>2, <2>1, <2>2, NotedStep DEF Review, nightly
<1>3. CASE OwnReview
  <2>1. PICK f \in Finding : Noted(f) BY <1>3 DEF OwnReview
  <2>2. reviews' \in Nat BY <1>3 DEF OwnReview, LearnInv, TypeOK
  <2> QED BY <1>3, <2>1, <2>2, NotedStep DEF OwnReview, nightly
<1>4. CASE Crash BY <1>4, CrashStep
<1>5. CASE UNCHANGED vars
  <2>1. UNCHANGED <<at, review, marker, reviews, saved, since, batch, blind, counted, failures, late, audited, filed,
                    unmarked, crashes, torn>>
    BY <1>5 DEF vars, learning, nightly
  <2> QED BY <2>1 DEF LearnInv, TypeOK, Tally, Missed, CountedBy, Passed, Night, Setbacks, Running
<1> QED BY <1>1, <1>2, <1>3, <1>4, <1>5 DEF Next

(* The counters, the markers and what they count.                          *)
THEOREM LearningInvariant == Spec => []LearnInv
  BY InitLearn, NextLearn, PTL DEF Spec

THEOREM LearningTypes == Spec => []TypeOK
  BY LearningInvariant, PTL DEF LearnInv

(* A finding the marker has passed over without its counting came into the *)
(* file below one that counted and whose time is not before its own, or    *)
(* that has none; and none has counted more often than once and once for   *)
(* each failure or crash, for any number of findings with any times and    *)
(* however they come in (distiller.run, extract_new_findings, latest_ts).  *)
THEOREM FindingsCount == Spec => []OnlyLateFindingsMissed
<1>1. LearnInv => OnlyLateFindingsMissed
  <2> SUFFICES ASSUME LearnInv, NEW k \in 1..Len(review)
               PROVE  /\ Passed(review[k]) /\ counted[k] = 0 => CountedBy(review, counted, k - 1, review[k].time)
                      /\ counted[k] <= 1 + failures + crashes
    BY DEF OnlyLateFindingsMissed, CountedBy
  <2>1. counted[k] <= 1 + Setbacks BY DEF LearnInv, Tally
  <2>2. k \in 1..MaxReview BY Bounds DEF LearnInv, Tally, TypeOK
  <2>3. counted[k] \in Nat /\ failures \in Nat /\ crashes \in Nat BY <2>2 DEF LearnInv, TypeOK
  <2>4. counted[k] <= 1 + failures + crashes BY <2>1, <2>3 DEF Setbacks
  <2> QED BY <2>4 DEF LearnInv, Missed
<1> QED BY <1>1, LearningInvariant, PTL

(* One task a night, and one for each time the marker was not written      *)
(* after it, by a crash or an error (run_nightly_audit, mark_done_daily).  *)
THEOREM TasksAreCounted == Spec => []OneTaskPerMark
  BY LearningInvariant, PTL DEF LearnInv, Night, OneTaskPerMark

-----------------------------------------------------------------------------
(* Induction over the numbers, for a set of them.                          *)
LEMMA EveryNumber ==
  ASSUME NEW P \in SUBSET Nat, 0 \in P, \A k \in P : k + 1 \in P
  PROVE  P = Nat
<1> SUFFICES ASSUME Nat \ P # {} PROVE FALSE OBVIOUS
<1> DEFINE R == OpToRel(<, Nat)
<1>1. IsWellFoundedOn(R, Nat) BY NatLessThanWellFounded
<1>2. \A x, y \in Nat : <<x, y>> \in R <=> x < y BY DEF OpToRel
<1> HIDE DEF R
<1>3. PICK m \in Nat \ P : \A n \in Nat \ P : ~(<<n, m>> \in R)
  <2>1. Nat \ P \in SUBSET Nat OBVIOUS
  <2> QED BY <1>1, <2>1, WFMin
<1>4. m \in Nat /\ m # 0 OBVIOUS
<1>5. m - 1 \in Nat /\ m - 1 < m /\ (m - 1) + 1 = m BY <1>4
<1>6. m - 1 \in P BY <1>2, <1>3, <1>5
<1> QED BY <1>5, <1>6

-----------------------------------------------------------------------------
(* The fold of apply_lifecycle as the recursion it stands for: of the      *)
(* findings at a set of places the last one is taught last.                *)
LastOf(T) == Max(T)
Heard(s, i, f) == IF IsNew(s, f) THEN Taught(i, f) ELSE i
Recursion(s, i, fs, n, g) ==
  g = [T \in SUBSET (1..n) |-> IF T = {} THEN i ELSE Heard(s, g[T \ {LastOf(T)}], fs[LastOf(T)])]
Lessons(s, i, fs, n) == CHOOSE g : Recursion(s, i, fs, n, g)
AfterAll(s, i, fs) == LET Hear(a, f) == IF IsNew(s, f) THEN Taught(a, f) ELSE a IN FoldLeft(Hear, i, fs)

LEMMA FoldIsLessons ==
  ASSUME NEW s, NEW i, NEW fs \in Seq(Finding)
  PROVE  AfterAll(s, i, fs) = Lessons(s, i, fs, Len(fs))[1..Len(fs)]
<1>1. DOMAIN fs = 1..Len(fs) OBVIOUS
<1> DEFINE D == DOMAIN fs
<1>2. AfterAll(s, i, fs) =
        (CHOOSE g : g = [T \in SUBSET D |-> IF T = {} THEN i ELSE Heard(s, g[T \ {LastOf(T)}], fs[LastOf(T)])])[D]
  BY DEF AfterAll, FoldLeft, MapThenFoldSet, LastOf, Heard
<1>3. Lessons(s, i, fs, Len(fs)) =
        (CHOOSE g : g = [T \in SUBSET D |-> IF T = {} THEN i ELSE Heard(s, g[T \ {LastOf(T)}], fs[LastOf(T)])])
  BY <1>1 DEF Lessons, Recursion
<1> HIDE DEF D
<1> QED BY <1>1, <1>2, <1>3 DEF D

LEMMA LastIsTop ==
  ASSUME NEW n \in Nat, NEW T \in SUBSET (1..n + 1), n + 1 \in T
  PROVE  LastOf(T) = n + 1
<1>1. \A x \in T : x \in Nat /\ n + 1 >= x OBVIOUS
<1>2. \A x \in T : (\A y \in T : x >= y) => x = n + 1 BY <1>1
<1> QED BY <1>1, <1>2 DEF LastOf, Max

(* The recursion has a solution for the first places, however many.        *)
LEMMA RecursionMore ==
  ASSUME NEW s, NEW i, NEW fs, NEW n \in Nat, NEW g, Recursion(s, i, fs, n, g)
  PROVE  \E h : Recursion(s, i, fs, n + 1, h)
<1> DEFINE h == [T \in SUBSET (1..n + 1) |->
                   IF n + 1 \in T THEN Heard(s, g[T \ {n + 1}], fs[n + 1]) ELSE g[T]]
<1>1. \A T \in SUBSET (1..n) : g[T] = IF T = {} THEN i ELSE Heard(s, g[T \ {LastOf(T)}], fs[LastOf(T)])
  BY DEF Recursion
<1>2. \A T \in SUBSET (1..n) : T \in SUBSET (1..n + 1) /\ n + 1 \notin T OBVIOUS
<1>3. \A T \in SUBSET (1..n) : h[T] = g[T] BY <1>2
<1> DEFINE e(T) == IF T = {} THEN i ELSE Heard(s, h[T \ {LastOf(T)}], fs[LastOf(T)])
<1>4. ASSUME NEW T \in SUBSET (1..n + 1) PROVE h[T] = e(T)
  <2>1. CASE n + 1 \in T
    <3>1. LastOf(T) = n + 1 BY <2>1, LastIsTop
    <3>2. T \ {n + 1} \in SUBSET (1..n) OBVIOUS
    <3>3. h[T \ {n + 1}] = g[T \ {n + 1}] BY <3>2, <1>3
    <3>4. h[T] = Heard(s, g[T \ {n + 1}], fs[n + 1]) BY <2>1
    <3> HIDE DEF h
    <3> QED BY <2>1, <3>1, <3>3, <3>4
  <2>2. CASE n + 1 \notin T
    <3>1. T \in SUBSET (1..n) BY <2>2
    <3>2. T \ {LastOf(T)} \in SUBSET (1..n) BY <3>1
    <3>3. h[T] = g[T] /\ h[T \ {LastOf(T)}] = g[T \ {LastOf(T)}] BY <3>1, <3>2, <1>3
    <3> HIDE DEF h
    <3> QED BY <3>1, <3>3, <1>1
  <2> QED BY <2>1, <2>2
<1>5. h = [T \in SUBSET (1..n + 1) |-> h[T]] OBVIOUS
<1> HIDE DEF h
<1>6. h = [T \in SUBSET (1..n + 1) |-> e(T)] BY <1>4, <1>5
<1>7. Recursion(s, i, fs, n + 1, h) BY <1>6 DEF Recursion
<1> QED BY <1>7

LEMMA LessonsExist ==
  ASSUME NEW s, NEW i, NEW fs, NEW n \in Nat
  PROVE  Recursion(s, i, fs, n, Lessons(s, i, fs, n))
<1> DEFINE P == {k \in Nat : \E g : Recursion(s, i, fs, k, g)}
<1>1. 0 \in P
  <2> DEFINE g == [T \in SUBSET (1..0) |-> i]
  <2>1. \A T \in SUBSET (1..0) : T = {} OBVIOUS
  <2>2. Recursion(s, i, fs, 0, g) BY <2>1 DEF Recursion
  <2> QED BY <2>2
<1>2. \A k \in P : k + 1 \in P BY RecursionMore
<1>3. P \in SUBSET Nat OBVIOUS
<1> HIDE DEF P
<1>4. n \in P BY <1>1, <1>2, <1>3, EveryNumber
<1> QED BY <1>4 DEF P, Lessons

(* What every finding leaves true of an instinct is true after all of them.*)
LEMMA LessonsKeep ==
  ASSUME NEW s, NEW S, NEW i \in S, NEW fs \in Seq(Finding),
         \A j \in S, f \in Finding : Heard(s, j, f) \in S
  PROVE  AfterAll(s, i, fs) \in S
<1> DEFINE n == Len(fs)
           g == Lessons(s, i, fs, n)
           P == {k \in Nat : k <= n => \A T \in SUBSET (1..k) : g[T] \in S}
<1>1. n \in Nat OBVIOUS
<1>2. \A T \in SUBSET (1..n) : g[T] = IF T = {} THEN i ELSE Heard(s, g[T \ {LastOf(T)}], fs[LastOf(T)])
  <2>1. Recursion(s, i, fs, n, g) BY <1>1, LessonsExist
  <2> HIDE DEF g
  <2> QED BY <2>1 DEF Recursion
<1> HIDE DEF g
<1>3. 0 \in P
  <2>1. \A T \in SUBSET (1..0) : T = {} /\ T \in SUBSET (1..n) OBVIOUS
  <2> QED BY <2>1, <1>2
<1>4. ASSUME NEW k \in P PROVE k + 1 \in P
  <2> SUFFICES ASSUME k + 1 <= n, NEW T \in SUBSET (1..k + 1) PROVE g[T] \in S OBVIOUS
  <2>1. \A U \in SUBSET (1..k) : g[U] \in S BY <1>1
  <2>2. CASE k + 1 \in T
    <3>1. LastOf(T) = k + 1 BY <2>2, LastIsTop
    <3>2. T \in SUBSET (1..n) /\ T # {} BY <2>2, <1>1
    <3>3. g[T \ {k + 1}] \in S
      <4>1. T \ {k + 1} \in SUBSET (1..k) OBVIOUS
      <4> QED BY <4>1, <2>1
    <3>4. fs[k + 1] \in Finding OBVIOUS
    <3>5. g[T] = Heard(s, g[T \ {k + 1}], fs[k + 1]) BY <3>1, <3>2, <1>2
    <3> QED BY <3>3, <3>4, <3>5
  <2>3. CASE k + 1 \notin T
    <3>1. T \in SUBSET (1..k) BY <2>3
    <3> QED BY <3>1, <2>1
  <2> QED BY <2>2, <2>3
<1>5. P \in SUBSET Nat /\ \A k \in P : k + 1 \in P BY <1>4
<1> HIDE DEF P
<1>6. n \in P BY <1>1, <1>3, <1>5, EveryNumber
<1>7. g[1..n] \in S BY <1>1, <1>6 DEF P
<1> QED BY <1>7, FoldIsLessons DEF g

-----------------------------------------------------------------------------
(* An instinct in memory has a clean streak besides.                       *)
Lesson == [zone : Zone, conf : 0..Cap, rung : Rungs, streak : Nat]

LEMMA Numbers ==
  /\ Seed \in Nat /\ BumpBy \in Nat /\ Cap \in Nat /\ DecayBy \in Nat
  /\ Streak \in Nat /\ Probation \in Nat /\ Retire \in Nat /\ Seed <= Cap
  BY InstinctsAssumption

LEMMA RungsAre == Rungs = {1, 2, 3}
  BY DEF Rungs, InstinctStatus

LEMMA LoadedType ==
  ASSUME NEW i \in Instinct
  PROVE  /\ Loaded(i) \in Lesson
         /\ Loaded(i).rung = i.rung /\ Loaded(i).conf = i.conf /\ Loaded(i).zone = i.zone
         /\ Saved(Loaded(i)) = i
  BY DEF Loaded, Instinct, Lesson, Saved

LEMMA SavedType ==
  ASSUME NEW l \in Lesson
  PROVE  Saved(l) \in Instinct /\ Saved(l).rung = l.rung /\ Saved(l).conf = l.conf
  BY DEF Instinct, Lesson, Saved

(* No finding changes a status, whatever it does to the confidence.        *)
LEMMA TaughtKeepsRung ==
  ASSUME NEW r, NEW l \in Lesson, l.rung = r, NEW f \in Finding
  PROVE  Taught(l, f) \in Lesson /\ Taught(l, f).rung = r
<1>1. l.conf \in 0..Cap /\ l.streak \in Nat BY DEF Lesson
<1>2. Raised(l.conf) \in 0..Cap /\ Lowered(l.conf) \in 0..Cap BY <1>1, Numbers DEF Raised, Lowered
<1>3. \A c \in 0..Cap, k \in Nat :
        [l EXCEPT !.conf = c, !.streak = k] \in Lesson /\ [l EXCEPT !.conf = c, !.streak = k].rung = r
  BY DEF Lesson
<1>4. BumpConfidence(l) = [l EXCEPT !.conf = Raised(l.conf), !.streak = 0] BY DEF BumpConfidence
<1>5. DecayConfidence(l) = [l EXCEPT !.conf = Lowered(l.conf), !.streak = 0] BY DEF DecayConfidence
<1>6. [l EXCEPT !.streak = @ + 1] \in Lesson /\ [l EXCEPT !.streak = @ + 1].rung = r BY <1>1 DEF Lesson
<1>7. 0 \in Nat OBVIOUS
<1> QED BY <1>2, <1>3, <1>4, <1>5, <1>6, <1>7 DEF Taught, RegisterCleanPass

LEMMA FoldKeepsRung ==
  ASSUME NEW s, NEW l \in Lesson, NEW fs \in Seq(Finding)
  PROVE  AfterAll(s, l, fs) \in Lesson /\ AfterAll(s, l, fs).rung = l.rung
<1> DEFINE S == {m \in Lesson : m.rung = l.rung}
<1>1. \A m \in S, f \in Finding : Heard(s, m, f) \in S BY TaughtKeepsRung DEF Heard
<1>2. l \in S OBVIOUS
<1> HIDE DEF S
<1>3. AfterAll(s, l, fs) \in S BY <1>1, <1>2, LessonsKeep
<1> QED BY <1>3 DEF S

(* A step forward in status is to probation, or from probation.            *)
Earned(old, new) ==
  /\ old.rung = 3 => new.rung = 3
  /\ old.rung # 3 /\ new.rung = 3 => old.rung = 2 /\ new.conf < Retire

Judgement(l) == [l EXCEPT !.rung = ProposedStatus(l)]

LEMMA JudgedEarns ==
  ASSUME NEW old, NEW l \in Lesson, l.rung = old.rung
  PROVE  Judgement(l) \in Lesson /\ Earned(old, Judgement(l))
  BY RungsAre DEF Judgement, ProposedStatus, Lesson, Earned

LEMMA MergeEarns ==
  ASSUME NEW l \in Lesson, NEW sources \in 0..MaxSources, NEW rung \in Rungs
  PROVE  Merge(l, sources, rung) \in Lesson /\ Earned(l, Merge(l, sources, rung))
<1> DEFINE b == Sourced(l, sources)
<1>1. b \in Lesson /\ b.rung = l.rung
  <2>1. l.conf \in 0..Cap BY DEF Lesson
  <2>2. sources * BumpBy \in Nat BY Numbers, LearningAssumption
  <2>3. (IF l.conf + sources * BumpBy > Cap THEN Cap ELSE l.conf + sources * BumpBy) \in 0..Cap
    BY <2>1, <2>2, Numbers
  <2> QED BY <2>3 DEF Sourced, Lesson
<1>2. Merge(l, sources, rung) = [b EXCEPT !.rung = IF rung > @ /\ (rung = 3 => MayRetire(b)) THEN rung ELSE @]
  BY DEF Merge
<1> HIDE DEF b
<1> QED BY <1>1, <1>2, RungsAre DEF Lesson, Earned, MayRetire

-----------------------------------------------------------------------------
(* The file is made of instincts; while a run that could read it is under  *)
(* way it holds what the run has in memory.                                *)
FileInv ==
  /\ file \in Seq(Instinct) /\ work \in Seq(Lesson)
  /\ at \in Running /\ ~blind => file = SaveAtomic(work)
  /\ at = "calling" /\ blind => work = <<>>
  /\ blind => at \in {"calling", "merged", "marking"}

LEMMA SaveTypes ==
  ASSUME NEW w \in Seq(Lesson)
  PROVE  /\ SaveAtomic(w) \in Seq(Instinct)
         /\ DOMAIN SaveAtomic(w) = DOMAIN w
         /\ \A n \in DOMAIN w : SaveAtomic(w)[n] = Saved(w[n]) /\ w[n] \in Lesson
<1>1. \A n \in 1..Len(w) : w[n] \in Lesson /\ Saved(w[n]) \in Instinct BY SavedType
<1>2. SaveAtomic(w) = [n \in 1..Len(w) |-> Saved(w[n])] BY DEF SaveAtomic
<1>3. SaveAtomic(w) \in [1..Len(w) -> Instinct] BY <1>1, <1>2
<1> QED BY <1>1, <1>2, <1>3

LEMMA LifecycleEarns ==
  ASSUME NEW known \in Seq(Instinct), NEW fs \in Seq(Finding), NEW s,
         NEW w, w = ApplyLifecycle(LoadInstincts(known), fs, s)
  PROVE  /\ w \in Seq(Lesson) /\ DOMAIN w = DOMAIN known
         /\ \A n \in DOMAIN known : Earned(known[n], w[n])
<1> DEFINE ld == LoadInstincts(known)
<1>1. DOMAIN ld = 1..Len(known) /\ DOMAIN known = 1..Len(known) /\ Len(known) \in Nat BY DEF LoadInstincts
<1>2. \A n \in 1..Len(known) : ld[n] \in Lesson /\ ld[n].rung = known[n].rung
  BY LoadedType DEF LoadInstincts
<1>3. w = [n \in DOMAIN ld |-> Judgement(AfterAll(s, ld[n], fs))] BY DEF ApplyLifecycle, Judgement, AfterAll
<1> HIDE DEF ld
<1>4. \A n \in 1..Len(known) : w[n] = Judgement(AfterAll(s, ld[n], fs)) BY <1>1, <1>3
<1>5. ASSUME NEW n \in 1..Len(known) PROVE w[n] \in Lesson /\ Earned(known[n], w[n])
  <2>1. AfterAll(s, ld[n], fs) \in Lesson /\ AfterAll(s, ld[n], fs).rung = known[n].rung
    BY <1>2, FoldKeepsRung
  <2> QED BY <1>4, <2>1, JudgedEarns
<1>6. DOMAIN w = 1..Len(known) BY <1>1, <1>3
<1>7. w \in [1..Len(known) -> Lesson] BY <1>1, <1>3, <1>5, <1>6
<1> QED BY <1>1, <1>5, <1>6, <1>7

(* What every step does to the file, that of a blind run excepted.         *)
EarnsAll == \A n \in DOMAIN file : n \in DOMAIN file' /\ Earned(file[n], file'[n])
Replaced == blind /\ \A n \in DOMAIN file' : file'[n].rung = 1

LEMMA NewType ==
  ASSUME NEW z \in Zone
  PROVE  NewInstinct(z) \in Lesson /\ NewInstinct(z).rung = 1
<1>1. [zone |-> z, conf |-> Seed, rung |-> 1] \in Instinct BY Numbers, RungsAre DEF Instinct
<1> QED BY <1>1, LoadedType DEF NewInstinct

LEMMA AnswersEarn ==
  ASSUME FileInv, NewProposal \/ Update, ~blind
  PROVE  /\ work' \in Seq(Lesson) /\ file' = SaveAtomic(work') /\ at = "calling"
         /\ DOMAIN work \subseteq DOMAIN work'
         /\ \A n \in DOMAIN work : Earned(work[n], work'[n])
<1>0. work \in Seq(Lesson) /\ DOMAIN work = 1..Len(work) /\ \A n \in DOMAIN work : work[n] \in Lesson
  BY DEF FileInv
<1>1. CASE NewProposal
  <2>1. PICK z \in Zone : Answered(Append(work, NewInstinct(z))) BY <1>1 DEF NewProposal
  <2>2. NewInstinct(z) \in Lesson BY NewType
  <2>3. work' = Append(work, NewInstinct(z)) /\ file' = SaveAtomic(work') /\ at = "calling"
    BY <2>1 DEF Answered, Step
  <2> QED BY <1>0, <2>2, <2>3 DEF Earned
<1>2. CASE Update
  <2>1. PICK n \in DOMAIN work, sources \in 0..MaxSources, rung \in Rungs :
          Answered([work EXCEPT ![n] = Merge(@, sources, rung)])
    BY <1>2 DEF Update
  <2>2. work' = [work EXCEPT ![n] = Merge(work[n], sources, rung)] /\ file' = SaveAtomic(work') /\ at = "calling"
    BY <2>1 DEF Answered, Step
  <2>3. Merge(work[n], sources, rung) \in Lesson /\ Earned(work[n], Merge(work[n], sources, rung))
    BY <1>0, <2>1, MergeEarns
  <2>4. \A m \in DOMAIN work : work'[m] = IF m = n THEN Merge(work[n], sources, rung) ELSE work[m] BY <2>2
  <2>5. DOMAIN work' = DOMAIN work BY <2>2
  <2>6. \A m \in DOMAIN work : work'[m] \in Lesson /\ Earned(work[m], work'[m])
    BY <1>0, <2>3, <2>4 DEF Earned
  <2>7. work' \in Seq(Lesson)
    <3>1. work' \in [1..Len(work) -> Lesson] BY <1>0, <2>2, <2>5, <2>6
    <3> QED BY <1>0, <3>1
  <2> QED BY <2>2, <2>5, <2>6, <2>7
<1> QED BY <1>1, <1>2

(* A run that could not read the file has nothing to update; what it adds  *)
(* is all there is.                                                        *)
LEMMA BlindReplaces ==
  ASSUME FileInv, NewProposal \/ Update, blind
  PROVE  FileInv' /\ Replaced
<1>1. at = "calling"
  <2>1. CASE NewProposal BY <2>1 DEF NewProposal, Answered, Step
  <2>2. CASE Update BY <2>2 DEF Update, Answered, Step
  <2> QED BY <2>1, <2>2
<1>2. work = <<>> BY <1>1 DEF FileInv
<1>3. NewProposal BY <1>2 DEF Update
<1>4. PICK z \in Zone : Answered(Append(work, NewInstinct(z))) BY <1>3 DEF NewProposal
<1>5. /\ work' = Append(<<>>, NewInstinct(z)) /\ file' = SaveAtomic(work') /\ at' = "merged"
      /\ UNCHANGED blind
  BY <1>2, <1>4 DEF Answered, Step
<1>6. NewInstinct(z) \in Lesson /\ NewInstinct(z).rung = 1 BY NewType
<1>7. work' \in Seq(Lesson) /\ \A n \in DOMAIN work' : work'[n] = NewInstinct(z)
  <2>1. <<>> \in Seq(Lesson) /\ Len(<<>>) = 0 OBVIOUS
  <2> QED BY <1>5, <1>6, <2>1
<1>8. file' \in Seq(Instinct) /\ DOMAIN file' = DOMAIN work' /\ \A n \in DOMAIN file' : file'[n].rung = 1
  <2>1. /\ file' \in Seq(Instinct) /\ DOMAIN file' = DOMAIN work'
        /\ \A n \in DOMAIN work' : file'[n] = Saved(work'[n])
    BY <1>5, <1>7, SaveTypes
  <2>2. Saved(NewInstinct(z)).rung = 1 BY <1>6, SavedType
  <2> QED BY <1>7, <2>1, <2>2
<1> QED BY <1>5, <1>7, <1>8 DEF FileInv, Replaced

LEMMA NextFile ==
  ASSUME TypeOK, FileInv, [Next]_vars
  PROVE  FileInv' /\ (Replaced \/ EarnsAll)
<1>0. work \in Seq(Lesson) /\ file \in Seq(Instinct) /\ <<>> \in Seq(Lesson) /\ <<>> \in Seq(Instinct)
      /\ review \in Seq(Finding)
  BY DEF FileInv, TypeOK
<1>1. ASSUME NEW mark, Read(mark, file), file' = SaveAtomic(work'), at' = "calling", at = "distill", UNCHANGED blind
      PROVE  FileInv' /\ EarnsAll
  <2>1. work' = ApplyLifecycle(LoadInstincts(file), review, mark) BY <1>1 DEF Read
  <2>2. /\ work' \in Seq(Lesson) /\ DOMAIN work' = DOMAIN file
        /\ \A n \in DOMAIN file : Earned(file[n], work'[n])
    BY <1>0, <2>1, LifecycleEarns
  <2>3. \A n \in DOMAIN file : n \in DOMAIN file' /\ file'[n] = Saved(work'[n]) /\ work'[n] \in Lesson
    BY <1>1, <2>2, SaveTypes
  <2>4. EarnsAll BY <2>2, <2>3, SavedType DEF Earned, EarnsAll
  <2>5. ~blind BY <1>1 DEF FileInv
  <2>6. FileInv' BY <1>1, <2>2, <2>5, SaveTypes DEF FileInv
  <2> QED BY <2>4, <2>6
<1>2. CASE StartDistill \/ StartUnmarked
  BY <1>1, <1>2 DEF StartDistill, StartUnmarked, Read, Step
<1>3. CASE StartBlind
  <2>1. work' = ApplyLifecycle(LoadInstincts(<<>>), review, marker) /\ file' = file /\ blind' = TRUE /\ at' = "calling"
    BY <1>3 DEF StartBlind, Read, Step
  <2>2. work' \in Seq(Lesson) /\ DOMAIN work' = DOMAIN <<>> BY <1>0, <2>1, LifecycleEarns, Zenon
  <2>3. work' = <<>> BY <2>2
  <2> QED BY <1>0, <2>1, <2>3 DEF FileInv, EarnsAll, Earned
<1>4. CASE NewProposal \/ Update
  <2>1. CASE blind BY <1>4, <2>1, BlindReplaces
  <2>2. CASE ~blind
    <3>0. UNCHANGED blind /\ at' = "merged"
      BY <1>4 DEF NewProposal, Update, Answered, Step
    <3>1. /\ work' \in Seq(Lesson) /\ file' = SaveAtomic(work') /\ file = SaveAtomic(work)
          /\ DOMAIN work \subseteq DOMAIN work'
          /\ \A n \in DOMAIN work : Earned(work[n], work'[n])
      BY <1>4, <2>2, AnswersEarn DEF FileInv, Running
    <3>2. FileInv' BY <2>2, <3>0, <3>1, SaveTypes DEF FileInv
    <3>3. \A n \in DOMAIN file :
            /\ n \in DOMAIN work /\ n \in DOMAIN file' /\ file'[n] = Saved(work'[n]) /\ work'[n] \in Lesson
            /\ file[n] = Saved(work[n]) /\ work[n] \in Lesson
      BY <1>0, <3>1, SaveTypes
    <3>4. EarnsAll BY <3>1, <3>3, SavedType DEF Earned, EarnsAll
    <3> QED BY <3>2, <3>4
  <2> QED BY <2>1, <2>2
<1>5. CASE /\ UNCHANGED file
           /\ \/ at' \notin Running /\ ~blind' /\ (work' = work \/ work' = <<>>)
              \/ /\ UNCHANGED <<work, blind>>
                 /\ blind => at' \in {"calling", "merged", "marking"}
                 /\ at' # "calling" \/ UNCHANGED at
                 /\ at' \in Running => at \in Running
  <2>1. EarnsAll BY <1>0, <1>5 DEF Earned, EarnsAll
  <2>2. FileInv'
    <3>1. CASE at' \notin Running /\ ~blind' /\ (work' = work \/ work' = <<>>)
      BY <1>0, <1>5, <3>1 DEF FileInv, Running
    <3>2. CASE /\ UNCHANGED <<work, blind>>
               /\ blind => at' \in {"calling", "merged", "marking"}
               /\ at' # "calling" \/ UNCHANGED at
               /\ at' \in Running => at \in Running
      BY <1>0, <1>5, <3>2 DEF FileInv, Running
    <3> QED BY <1>5, <3>1, <3>2
  <2> QED BY <2>1, <2>2
<1>6. CASE Wake \/ Audit \/ SkipDistill \/ Save \/ Restart
  BY <1>5, <1>6 DEF FileInv, Wake, Audit, RunAudit, MarkDoneDaily, SkipAudit, SkipDistill, Save, Restart, Step, learning, Running
<1>7. CASE RunFails \/ ResetReviews \/ Crash
  BY <1>5, <1>7 DEF RunFails, SaveFails, ModelFails, MarkerFails, ResetReviews, FailOpen, EndRun, Crash, Running
<1>8. CASE NoProposal \/ WriteMarker \/ Review \/ OwnReview
  BY <1>5, <1>8 DEF FileInv, NoProposal, WriteMarker, Review, OwnReview, Step, learning, Running
<1>9. CASE UNCHANGED vars
  BY <1>5, <1>9 DEF FileInv, vars, learning
<1> QED BY <1>2, <1>3, <1>4, <1>6, <1>7, <1>8, <1>9 DEF Next, Loop, Distill, Start, ModelAnswers

LEMMA InitFile == Init => FileInv
  BY LearningAssumption DEF Init, FileInv, Running

LEMMA FileInvariant == Spec => [](LearnInv /\ FileInv)
<1>1. Init => LearnInv /\ FileInv BY InitLearn, InitFile
<1>2. (LearnInv /\ FileInv) /\ [Next]_vars => (LearnInv /\ FileInv)'
  BY NextLearn, NextFile DEF LearnInv
<1> QED BY <1>1, <1>2, PTL DEF Spec

(* Only an instinct on probation is retired, with too little confidence,   *)
(* and for good, for any findings in any number and whatever the model     *)
(* proposes (apply_lifecycle, and what distiller._run does with proposals),*)
(* but for a run whose INSTINCTS.md could not be read (instincts.load).    *)
THEOREM RetirementEarned == Spec => RetirementIsEarned
<1>1. TypeOK /\ FileInv /\ [Next]_vars =>
        [\/ blind /\ \A n \in DOMAIN file' : file'[n].rung = 1
         \/ \A n \in DOMAIN file :
              /\ n \in DOMAIN file'
              /\ file[n].rung = 3 => file'[n].rung = 3
              /\ file[n].rung # 3 /\ file'[n].rung = 3 => file[n].rung = 2 /\ file'[n].conf < Retire]_vars
  BY NextFile DEF EarnsAll, Earned, Replaced
<1> QED BY <1>1, LearningTypes, FileInvariant, PTL DEF Spec, RetirementIsEarned
=============================================================================
