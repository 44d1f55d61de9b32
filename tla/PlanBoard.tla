----------------------------- MODULE PlanBoard -----------------------------
(***************************************************************************)
(* PLAN.md as the scripts of the development supervisor read and edit it:  *)
(* what makes it legal (scripts/validate_plan.py), the edits of one task   *)
(* block (control.py, tg_commands.py) and what a unit may take from it.    *)
(* A plan maps each task to the fields those scripts decide on; Branch and *)
(* Started_At are written together, Test_Evidence once.                    *)
(***************************************************************************)
EXTENDS Integers, Sequences, FiniteSets, SequencesExt

CONSTANTS
  Task,     \* task numbers: plan order and the order of the ids
  Unit,     \* the active builders
  Owner,    \* Assigned_To
  Deps,     \* Depends_On
  Rank,     \* Priority, 0 for critical
  Owned,    \* the territory its Owned_Paths cover
  Expiry    \* stale_minutes in ticks

ASSUME PlanAssumption ==
  /\ Task \subseteq Nat /\ IsFiniteSet(Task) /\ IsFiniteSet(Unit) /\ Unit # {}
  /\ Owner \in [Task -> Unit] /\ Deps \in [Task -> SUBSET Task] /\ Rank \in [Task -> Nat]
  /\ DOMAIN Owned = Task
  /\ Expiry \in Nat

Status == {"pending", "claimed", "in_progress", "needs_review", "done", "blocked"}
Active == {"claimed", "in_progress", "needs_review"}
Term == {"SPEC_AMBIGUITY", "MISSING_DEPENDENCY", "OWNERSHIP_CONFLICT", "SYNC_MISMATCH",
         "TOOLING_FAILURE", "OTHER"}

(* A blocked reason: the term it starts with, and whether text follows.    *)
Reason == [term: Term, text: BOOLEAN]
NoReason == [term |-> "none", text |-> FALSE]

(* age is the time since Updated_At of a task somebody holds, up to the    *)
(* point where it is stale; nobody reads it of the others.                 *)
Entry == [status: Status, reason: Reason \cup {NoReason}, branch: BOOLEAN,
          evidence: BOOLEAN, age: 0..Expiry + 1]
Plan == [Task -> Entry]

NewPlan == [t \in Task |-> [status |-> "pending", reason |-> NoReason, branch |-> FALSE,
                            evidence |-> FALSE, age |-> 0]]

In(p, s) == {t \in Task : p[t].status \in s}
Older(n) == IF n > Expiry THEN n ELSE n + 1
Aged(p) == [t \in Task |-> IF p[t].status \in {"claimed", "in_progress"}
                            THEN [p[t] EXCEPT !.age = Older(@)] ELSE p[t]]

-----------------------------------------------------------------------------
(* validate: a reason is exactly a term of the vocabulary, or OTHER:<text>. *)
ExactReason(r) == r # NoReason /\ (r.term = "OTHER" <=> r.text)

(* globs_intersect.                                                        *)
Clash(a, b) == a # b /\ Owned[a] \cap Owned[b] # {}

Legal(p) ==
  /\ \A t \in In(p, {"blocked"}) : ExactReason(p[t].reason)
  /\ \A t \in In(p, {"needs_review"}) : p[t].evidence
  /\ \A t \in In(p, Active) : p[t].branch
  /\ ~\E a, b \in In(p, Active) : Clash(a, b)

(* Mutant: work under review counts as done.                               *)
DepsStarted(p, t) == Deps[t] \subseteq In(p, {"needs_review", "done"})
DepsDone(p, t) == Deps[t] \subseteq In(p, {"done"})

Held(p, u) == {t \in In(p, {"claimed", "in_progress"}) : Owner[t] = u}
Eligible(p, u) == {t \in In(p, {"pending"}) : Owner[t] = u /\ DepsDone(p, t)}
First(S) == CHOOSE t \in S :
              \A s \in S : Rank[t] < Rank[s] \/ (Rank[t] = Rank[s] /\ t <= s)

-----------------------------------------------------------------------------
(* Every edit sets fields of one task block, Updated_At among them, and    *)
(* leaves the other blocks alone (_task_span, _set_field).                 *)
SetFields(p, t, block) == [p EXCEPT ![t] = [block EXCEPT !.age = 0]]

(* claim_for_unit: resume what the unit holds, or claim the best task it   *)
(* may start.                                                              *)
Resumes(p, u) == Held(p, u) # {}
NothingFor(p, u) == Held(p, u) = {} /\ Eligible(p, u) = {}
Target(p, u) == IF Resumes(p, u)
                  THEN CHOOSE t \in Held(p, u) : \A s \in Held(p, u) : t <= s
                  ELSE First(Eligible(p, u))
Claimed(p, t) == SetFields(p, t, [p[t] EXCEPT !.status = "claimed", !.branch = TRUE])

(* validate_control: the task is the one the unit was launched for and the *)
(* report is well formed; a reason only has to start with a term.          *)
ValidControl(r, expected) == r.task = expected /\ r.status # "malformed"

(* apply_control_to_plan: a checkpoint leaves the status alone, the others *)
(* set it, whatever it is by now.                                          *)
Reported(p, r) ==
  SetFields(p, r.task,
    CASE r.status = "in_progress"  -> p[r.task]
      [] r.status = "needs_review" -> [p[r.task] EXCEPT !.status = "needs_review", !.evidence = TRUE]
      [] r.status = "blocked"      -> [p[r.task] EXCEPT !.status = "blocked", !.reason = r.reason])

(* apply_answer, apply_rework: the first looks at the status, the second   *)
(* does not.                                                               *)
Answered(p, t) ==
  SetFields(p, t, IF p[t].status = "blocked"
                    THEN [p[t] EXCEPT !.status = "pending", !.reason = NoReason] ELSE p[t])
Reworked(p, t) == SetFields(p, t, [p[t] EXCEPT !.status = "in_progress"])
=============================================================================
