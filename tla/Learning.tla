----------------------------- MODULE Learning -----------------------------
(***************************************************************************)
(* What the supervisor does in a tick before it decides, beside draining   *)
(* its queues: the nightly self-audit (scripts/maintenance.py, scripts/    *)
(* scheduling.py) and the distillation of review findings into instincts   *)
(* (scripts/distiller.py).  Both leave a marker on disk when they are      *)
(* through, both write other files before; a file may be unreadable or not *)
(* be written, and the process may die at any point between; people review *)
(* beside the supervisor, with whatever time they put on a line.           *)
(***************************************************************************)
EXTENDS Instincts

CONSTANTS
  Known,        \* INSTINCTS.md at the start
  EveryReviews, \* distill_every_n_reviews
  MinNew,       \* min_new_findings
  MaxSources,   \* bound: new sources of a proposal
  MaxReview,    \* bound: lines of REVIEW.md
  MaxInst,      \* bound: instincts
  MaxFail,      \* bound: reads, calls of the model or writes that fail
  MaxCrash      \* bound: crashes

ASSUME LearningAssumption ==
  /\ Known \in Seq(Instinct)
  /\ {EveryReviews, MinNew} \subseteq Nat \ {0}
  /\ {MaxSources, MaxReview, MaxInst, MaxFail, MaxCrash} \subseteq Nat

VARIABLES
  at,        \* where the tick is
  review,    \* REVIEW.md: findings in the order they were written
  marker,    \* last_distill.txt: the time up to which findings are distilled
  file,      \* INSTINCTS.md
  reviews,   \* reviews_since_distill
  saved,     \* the same in .autopilot_state.json
  since,     \* the marker the run under way has read
  batch,     \* how far it has read REVIEW.md
  work,      \* its instincts in memory
  blind,     \* it could not read INSTINCTS.md
  late,      \* the hour of the audit has come today
  audited,   \* last_audit_date.txt holds the date of today
  filed,     \* TASK-MAINT blocks of this day in PLAN.md
  counted,   \* history: how often each finding moved the instincts
  failures,  \* history: what failed in runs
  crashes,   \* history: crashes
  unmarked,  \* history: audits of this day that filed a task and left no marker
  torn       \* history: saves of the supervisor's state that a crash cut short

learning == <<review, marker, file, reviews, saved, since, batch, work, blind, counted, failures>>
nightly == <<late, audited, filed, unmarked>>
vars == <<at, learning, nightly, crashes, torn>>

Where == {"asleep", "audit", "filed", "distill", "calling", "merged", "marking", "acting", "down"}
Time == 0..MaxTime

(* Of file and work only what the actions say of them.                     *)
TypeOK ==
  /\ at \in Where
  /\ review \in Seq(Finding) /\ marker \in Time /\ since \in Time /\ batch \in Nat
  /\ reviews \in Nat /\ saved \in Nat
  /\ blind \in BOOLEAN /\ late \in BOOLEAN /\ audited \in BOOLEAN
  /\ filed \in Nat /\ unmarked \in Nat /\ torn \in Nat
  /\ counted \in [1..MaxReview -> Nat] /\ failures \in Nat /\ crashes \in Nat

Init ==
  /\ at = "asleep"
  /\ review = <<>> /\ marker = 0 /\ since = 0 /\ batch = 0
  /\ file = Known /\ work = <<>> /\ blind = FALSE
  /\ reviews = 0 /\ saved = 0
  /\ late = FALSE /\ audited = FALSE
  /\ filed = 0 /\ unmarked = 0 /\ torn = 0
  /\ counted = [k \in 1..MaxReview |-> 0] /\ failures = 0 /\ crashes = 0

Step(from, to) == at = from /\ at' = to
Failing == failures < MaxFail /\ failures' = failures + 1

-----------------------------------------------------------------------------
(* Time passes between ticks: the hour of the audit comes, or midnight.    *)
Wake ==
  /\ Step("asleep", "audit")
  /\ \/ UNCHANGED nightly
     \/ late' = TRUE /\ UNCHANGED <<audited, filed, unmarked>>
     \/ late' \in BOOLEAN /\ audited' = FALSE /\ filed' = 0 /\ unmarked' = 0
  /\ UNCHANGED <<learning, crashes, torn>>

(* should_run_daily.  (Mutant: the date in the marker is not looked at.)   *)
DueByHour == late
Due == late /\ ~audited

(* run_nightly_audit: six steps, and a task in PLAN.md if one failed; then *)
(* the marker, which may not be written: the supervisor goes on, the audit *)
(* is due again.                                                           *)
RunAudit ==
  /\ Due
  /\ \/ Step("audit", "distill") /\ audited' \in BOOLEAN /\ UNCHANGED filed
     \/ Step("audit", "filed") /\ filed' = filed + 1 /\ UNCHANGED audited
  /\ UNCHANGED <<learning, late, unmarked, crashes, torn>>

MarkDoneDaily ==
  /\ Step("filed", "distill")
  /\ \/ audited' = TRUE /\ UNCHANGED unmarked
     \/ unmarked < MaxFail /\ unmarked' = unmarked + 1 /\ UNCHANGED audited
  /\ UNCHANGED <<learning, late, filed, crashes, torn>>

SkipAudit ==
  /\ ~Due /\ Step("audit", "distill")
  /\ UNCHANGED <<learning, nightly, crashes, torn>>

-----------------------------------------------------------------------------
(* maybe_distill waits for reviews, the run itself for findings that are   *)
(* newer than the marker.                                                  *)
NewUpTo(mark, n) == {k \in 1..n : IsNew(mark, review[k])}
Ready(mark) == reviews >= EveryReviews /\ Cardinality(NewUpTo(mark, Len(review))) >= MinNew

SkipDistill ==
  /\ ~Ready(marker) /\ Step("distill", "acting")
  /\ UNCHANGED <<learning, nightly, crashes, torn>>

(* run is fail-open: the tick goes on, what was in memory is dropped and   *)
(* nothing is reset.  (Mutant: a failed run clears the count of reviews.)  *)
EndRun == at' = "acting" /\ since' = 0 /\ batch' = 0 /\ work' = <<>> /\ blind' = FALSE
FailOpenReset == Failing /\ EndRun /\ reviews' = 0
FailOpen == Failing /\ EndRun /\ UNCHANGED reviews

CountFindings(mark) ==
  counted' = [k \in DOMAIN counted |->
                IF k \in NewUpTo(mark, Len(review)) THEN counted[k] + 1 ELSE counted[k]]

(* The lifecycle comes first and is saved before the model is called.      *)
(* Read(mark, known): what the run read of the marker and of INSTINCTS.md. *)
Read(mark, known) ==
  /\ Ready(mark) /\ Step("distill", "calling")
  /\ since' = mark /\ batch' = Len(review)
  /\ work' = ApplyLifecycle(LoadInstincts(known), review, mark)
  /\ CountFindings(mark)
  /\ UNCHANGED <<review, marker, reviews, saved, nightly, crashes, torn>>

StartDistill ==
  /\ Read(marker, file)
  /\ file' = SaveAtomic(work')
  /\ UNCHANGED <<blind, failures>>

(* A marker or an INSTINCTS.md that cannot be read counts as empty.        *)
StartUnmarked ==
  /\ Failing /\ Read(0, file)
  /\ file' = SaveAtomic(work')
  /\ UNCHANGED blind

StartBlind ==
  /\ Failing /\ Read(marker, <<>>)
  /\ blind' = TRUE
  /\ UNCHANGED file

(* REVIEW.md cannot be read, or the lifecycle not be saved.                *)
SaveFails ==
  /\ at = "distill" /\ Ready(marker) /\ FailOpen
  /\ UNCHANGED <<review, marker, file, saved, counted, nightly, crashes, torn>>

(* The call fails, or what it answered cannot be saved.                    *)
ModelFails ==
  /\ at = "calling" /\ FailOpen
  /\ UNCHANGED <<review, marker, file, saved, counted, nightly, crashes, torn>>

(* The answer: nothing, a new instinct, or news about one.  Its number is  *)
(* the next one, whatever the model wrote.                                 *)
Answered(w) ==
  /\ Step("calling", "merged")
  /\ work' = w
  /\ file' = SaveAtomic(w)
  /\ UNCHANGED <<review, marker, reviews, saved, since, batch, blind, counted, failures, nightly, crashes, torn>>

NoProposal ==
  /\ Step("calling", "merged")
  /\ UNCHANGED <<learning, nightly, crashes, torn>>

NewProposal == Len(work) < MaxInst /\ \E z \in Zone : Answered(Append(work, NewInstinct(z)))
Update == \E n \in DOMAIN work, sources \in 0..MaxSources, rung \in Rungs :
            Answered([work EXCEPT ![n] = Merge(@, sources, rung)])

(* The marker is set to the latest time of the findings that were read, or *)
(* to the present when none has a time.  (Mutant: of the findings there    *)
(* are by now.)                                                            *)
TimesInFile == {review[k].time : k \in NewUpTo(since, Len(review))}
Times == {review[k].time : k \in NewUpTo(since, batch)}

WriteMarker ==
  /\ Step("merged", "marking")
  /\ \E latest \in Times :
       /\ \A t \in Times : t <= latest
       /\ \/ latest > 0 /\ marker' = latest
          \/ latest = 0 /\ marker' \in Time \ {0}
  /\ UNCHANGED <<review, file, reviews, saved, since, batch, work, blind, counted, failures, nightly, crashes, torn>>

(* A file is emptied before it is written.                                 *)
Emptied(f) == f' \in {f, 0}

(* An amendment or the marker cannot be written.                           *)
MarkerFails ==
  /\ at = "merged" /\ FailOpen /\ Emptied(marker)
  /\ UNCHANGED <<review, file, saved, counted, nightly, crashes, torn>>

ResetReviews ==
  /\ at = "marking" /\ EndRun
  /\ reviews' = 0
  /\ UNCHANGED <<review, marker, file, saved, counted, failures, nightly, crashes, torn>>

-----------------------------------------------------------------------------
(* execute: a review session writes its findings; it counts when it ends   *)
(* well.                                                                   *)
Noted(f) == Len(review) < MaxReview /\ review' = Append(review, f)

Review ==
  /\ at = "acting"
  /\ \E f \in Finding : Noted(f)
  /\ reviews' = reviews + 1 \/ UNCHANGED reviews
  /\ UNCHANGED <<at, marker, file, saved, since, batch, work, blind, counted, failures, nightly, crashes, torn>>

(* state.save, and to sleep.                                               *)
Save ==
  /\ Step("acting", "asleep")
  /\ saved' = reviews
  /\ UNCHANGED <<review, marker, file, reviews, since, batch, work, blind, counted, failures, nightly, crashes, torn>>

(* A person reviews in a session of their own.                             *)
OwnReview ==
  /\ \E f \in Finding : Noted(f)
  /\ UNCHANGED <<at, marker, file, reviews, saved, since, batch, work, blind, counted, failures, nightly, crashes, torn>>

(* The process dies, perhaps with the marker or its state emptied.         *)
Crash ==
  /\ at # "down" /\ crashes < MaxCrash
  /\ at' = "down" /\ crashes' = crashes + 1
  /\ unmarked' = IF at = "filed" THEN unmarked + 1 ELSE unmarked
  /\ IF at = "merged" THEN Emptied(marker) ELSE UNCHANGED marker
  /\ \/ UNCHANGED <<saved, torn>>
     \/ at = "acting" /\ saved' = 0 /\ torn' = torn + 1
  /\ reviews' = 0 /\ since' = 0 /\ batch' = 0 /\ work' = <<>> /\ blind' = FALSE
  /\ UNCHANGED <<review, file, counted, failures, late, audited, filed>>

Restart ==
  /\ Step("down", "asleep")
  /\ reviews' = saved
  /\ UNCHANGED <<review, marker, file, saved, since, batch, work, blind, counted, failures, nightly, crashes, torn>>

-----------------------------------------------------------------------------
Audit == RunAudit \/ MarkDoneDaily \/ SkipAudit
Start == StartDistill \/ StartUnmarked \/ StartBlind
RunFails == SaveFails \/ ModelFails \/ MarkerFails
ModelAnswers == NoProposal \/ NewProposal \/ Update
Distill == SkipDistill \/ Start \/ RunFails \/ ModelAnswers \/ WriteMarker \/ ResetReviews
Loop == Wake \/ Audit \/ Distill \/ Save \/ Restart

Next == Loop \/ Review \/ OwnReview \/ Crash

Spec == Init /\ [][Next]_vars

(* The loop is one thread; it never waits but between ticks.               *)
FairSpec == Spec /\ WF_vars(Loop)

-----------------------------------------------------------------------------
Passed(f) == marker # 0 /\ f.time <= marker

(* Which findings the instincts never hear of: whatever is written beside  *)
(* a run, fails or dies, the marker passes over a finding only if a line   *)
(* above it has counted and has a time that is not before its own, or none *)
(* at all; who writes below all the others with a later time is heard.     *)
(* And one that counts again owes it to something that failed or died.     *)
OnlyLateFindingsMissed ==
  \A k \in 1..Len(review) :
    /\ Passed(review[k]) /\ counted[k] = 0 =>
         \E j \in 1..k - 1 : counted[j] > 0 /\ (review[j].time >= review[k].time \/ review[j].time = 0)
    /\ counted[k] <= 1 + failures + crashes

(* An instinct is retired only by one that was on probation in the file,   *)
(* with too little confidence left, whoever proposes it, and for good; but *)
(* a run that cannot read INSTINCTS.md replaces it by its own new ones.    *)
RetirementIsEarned ==
  [][\/ blind /\ \A n \in DOMAIN file' : file'[n].rung = 1
     \/ \A n \in DOMAIN file :
          /\ n \in DOMAIN file'
          /\ file[n].rung = 3 => file'[n].rung = 3
          /\ file[n].rung # 3 /\ file'[n].rung = 3 => file[n].rung = 2 /\ file'[n].conf < Retire]_vars

(* Once the count that is saved asks for it and the findings are there,    *)
(* they are distilled some day, past failed reads, calls and writes and    *)
(* crashes, unless a crash cuts a save of the count itself short.          *)
BatchIsLearned ==
  \A m \in Time :
    (at = "asleep" /\ saved >= EveryReviews /\ Cardinality(NewUpTo(m, Len(review))) >= MinNew /\ marker = m)
      ~> (marker > m \/ torn > 0)

(* The audit of a day files one task, however often the supervisor ticks   *)
(* or is started again on that day, and one more for each time the marker  *)
(* was not written after the task, by a crash or an error.                 *)
OneTaskPerMark == filed <= 1 + unmarked
=============================================================================
