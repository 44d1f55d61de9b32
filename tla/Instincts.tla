----------------------------- MODULE Instincts -----------------------------
(***************************************************************************)
(* The instincts of the learning loop (scripts/instincts.py) and what a    *)
(* batch of review findings does to them (scripts/distiller.py).           *)
(* Confidence is counted in twentieths; an instinct's number is its place  *)
(* in INSTINCTS.md.                                                        *)
(***************************************************************************)
EXTENDS Integers, SequencesExt

CONSTANTS
  Zone,       \* territories
  Seed,       \* SEED_CONFIDENCE, and so on
  BumpBy, Cap, DecayBy, Streak, Probation, Retire,
  MaxTime     \* bound: the last timestamp

ASSUME InstinctsAssumption ==
  /\ {Seed, BumpBy, Cap, DecayBy, Streak, Probation, Retire, MaxTime} \subseteq Nat \ {0}
  /\ Seed <= Cap /\ Retire <= Probation /\ Probation <= Seed

InstinctStatus == <<"active", "probation", "retired">>
Rungs == DOMAIN InstinctStatus

(* The file keeps everything of an instinct but the clean streak.          *)
Instinct == [zone: Zone, conf: 0..Cap, rung: Rungs]
Loaded(i) == [zone |-> i.zone, conf |-> i.conf, rung |-> i.rung, streak |-> 0]
Saved(i) == [zone |-> i.zone, conf |-> i.conf, rung |-> i.rung]
LoadInstincts(file) == [n \in DOMAIN file |-> Loaded(file[n])]
SaveAtomic(work) == [n \in DOMAIN work |-> Saved(work[n])]

NewInstinct(z) == Loaded([zone |-> z, conf |-> Seed, rung |-> 1])

-----------------------------------------------------------------------------
Raised(c) == IF c + BumpBy > Cap THEN Cap ELSE c + BumpBy
Lowered(c) == IF c < DecayBy THEN 0 ELSE c - DecayBy

BumpConfidence(i) == [i EXCEPT !.conf = Raised(@), !.streak = 0]
DecayConfidence(i) == [i EXCEPT !.conf = Lowered(@), !.streak = 0]
RegisterCleanPass(i) ==
  IF i.streak + 1 >= Streak THEN DecayConfidence(i) ELSE [i EXCEPT !.streak = @ + 1]

ProposedStatus(i) ==
  IF i.rung = 2 /\ i.conf < Retire THEN 3
  ELSE IF i.rung = 1 /\ i.conf < Probation THEN 2
  ELSE i.rung

(* A line of REVIEW.md: rework or a clean pass, in which territory, and    *)
(* its timestamp, which whoever writes the line makes up; 0 is none.       *)
Finding == [zone: Zone, rework: BOOLEAN, time: 0..MaxTime]

(* extract_new_findings: newer than the marker, or all when there is none. *)
IsNew(since, f) == since = 0 \/ f.time > since

(* apply_lifecycle: an instinct on probation is bumped, never decayed; one *)
(* change of status at the end of the batch.                               *)
Taught(i, f) ==
  IF i.rung = 3 \/ i.zone # f.zone THEN i
  ELSE IF f.rework THEN BumpConfidence(i)
  ELSE IF i.rung = 1 THEN RegisterCleanPass(i)
  ELSE i

ApplyLifecycle(work, review, since) ==
  LET Heard(i, f) == IF IsNew(since, f) THEN Taught(i, f) ELSE i
      Judged(i) == [i EXCEPT !.rung = ProposedStatus(i)]
  IN  [n \in DOMAIN work |-> Judged(FoldLeft(Heard, work[n], review))]

(* The model's proposals about an instinct: a bump for each new source,    *)
(* and a step forward in status, to retired only for one that has earned   *)
(* it.  (Mutant: a proposal is taken at its word.)                         *)
Sourced(i, sources) == [i EXCEPT !.conf = IF @ + sources * BumpBy > Cap THEN Cap ELSE @ + sources * BumpBy]
MergeTrusting(i, sources, rung) == [Sourced(i, sources) EXCEPT !.rung = IF rung > @ THEN rung ELSE @]

MayRetire(i) == i.rung = 2 /\ i.conf < Retire
Merge(i, sources, rung) ==
  LET bumped == Sourced(i, sources)
  IN  [bumped EXCEPT !.rung = IF rung > @ /\ (rung = 3 => MayRetire(bumped)) THEN rung ELSE @]
=============================================================================
