----------------------------- MODULE Lifecycle -----------------------------
(***************************************************************************)
(* The life of a task when the supervisor reports for the builders         *)
(* (control.mode=strict): a task is started once its dependencies are      *)
(* done, only a review finishes it or sends it back, and what is done      *)
(* stays done.  These are the transitions of COORDINATION_PROTOCOL 2 and   *)
(* one more, claimed to needs_review, which the protocol does not list: an *)
(* in_progress report leaves the status alone, so that every first report  *)
(* of a finished task makes it.                                            *)
(***************************************************************************)
CONSTANTS Task, Deps

VARIABLE state   \* of each task

Init == state = [t \in Task |-> "pending"]

Go(t, s) == state' = [state EXCEPT ![t] = s]

Claim(t) ==
  /\ state[t] = "pending" /\ \A d \in Deps[t] : state[d] = "done"
  /\ Go(t, "claimed")

Report(t) ==
  /\ state[t] \in {"claimed", "in_progress"}   \* needs_review: listed from in_progress only
  /\ Go(t, "needs_review") \/ Go(t, "blocked")

Unblock(t) ==
  /\ state[t] = "blocked"
  /\ Go(t, "pending") \/ Go(t, "in_progress")

(* One review session may go through everything that waits.                *)
Review ==
  \E verdict \in [{t \in Task : state[t] = "needs_review"} -> {"done", "in_progress", "needs_review"}] :
    state' = [t \in Task |-> IF t \in DOMAIN verdict THEN verdict[t] ELSE state[t]]

Next == Review \/ \E t \in Task : Claim(t) \/ Report(t) \/ Unblock(t)
Spec == Init /\ [][Next]_state
=============================================================================
