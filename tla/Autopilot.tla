----------------------------- MODULE Autopilot -----------------------------
(***************************************************************************)
(* The development supervisor (scripts/supervisor.py) in the control mode  *)
(* in which it alone writes PLAN.md, with the processes around it: the     *)
(* dispatch script of each builder it launched, which claims a task and    *)
(* queues what the session reports (control.py), the Telegram listener     *)
(* (tg_listener.py) and the review and triage sessions it waits for.       *)
(*                                                                         *)
(* One tick of the loop is a sequence of steps: drain the commands, drain  *)
(* the reports, refresh and decide, act, save.  Dispatch processes, the    *)
(* listener and a crash come in between.  Faults names what may go wrong:  *)
(*   "slow"    a session at work writes no dossier entry for stale_minutes *)
(*   "commit"  a git commit of PLAN.md fails                               *)
(*   "overlap" PLAN.md changes between a claim's reading and writing it    *)
(*   "refuse"  the dispatch script fails before it launches the builder    *)
(*   "claim"   a claim raises, which the script takes for nothing to do    *)
(*   "silent"  a session ends without a report, or with a malformed one    *)
(*   "noop"    a review session ends without a verdict, or with an error   *)
(*   "crash"   the supervisor dies and is started again, MaxCrash times    *)
(*   "gate"    quiet hours, or a provider whose usage window is nearly used *)
(***************************************************************************)
EXTENDS PlanBoard

CONSTANTS
  Faults,
  Reasons,      \* what builders give as the reason when they are blocked
  Commands,     \* the Telegram commands in use
  MaxRework,    \* max_rework
  Ceiling,      \* max_dispatches_per_hour
  Hour,         \* an hour in ticks
  MaxRuns,      \* bound: dispatch processes alive at once
  MaxSent,      \* bound: commands sent
  MaxCrash

ASSUME AutopilotAssumption ==
  /\ Faults \subseteq {"slow", "commit", "overlap", "refuse", "claim", "silent", "noop", "crash", "gate"}
  /\ Reasons \subseteq Reason
  /\ MaxRework \in Nat /\ Ceiling \in Nat /\ Hour \in Nat \ {0}
  /\ MaxRuns \in Nat \ {0} /\ MaxSent \in Nat /\ MaxCrash \in Nat

Nothing == 0
ASSUME NothingIsNoTask == Nothing \notin Task

VARIABLES
  head,      \* PLAN.md at HEAD
  work,      \* PLAN.md on disk
  phase,     \* where the main loop is
  todo,      \* the actions of this tick that are left
  left,      \* how many of the queued reports this tick has listed
  halting,   \* an action asked for the loop to stop
  mem,       \* RuntimeState
  saved,     \* .autopilot_state.json
  stop,      \* the STOP file
  wave,      \* wave_event
  inbox,     \* the queue between the listener and the loop
  runs,      \* dispatch processes
  exited,    \* of each unit: the task of a process that exited nonzero, unreaped
  inflight,  \* .devteam/inflight: the task each unit was launched for
  files,     \* .devteam/control, oldest first
  beat,      \* time since the dossier of a task was written
  sent,      \* commands so far
  crashes,   \* crashes so far
  heard      \* history: tasks the human was notified of

board == <<head, work>>
loop == <<phase, todo, left, halting>>
store == <<mem, saved>>
others == <<runs, exited, inflight, files, beat>>
vars == <<board, loop, store, stop, wave, inbox, others, sent, crashes, heard>>

Phase == {"asleep", "commands", "reports", "archive", "acting", "halted", "down"}
Deed == {"freeze", "review", "approve", "escalate", "triage", "redispatch", "dispatch",
         "illegal", "stop", "digest"}
Report == [task: Task, unit: Unit, status: {"in_progress", "needs_review", "blocked", "malformed", "unreported"},
           reason: Reason \cup {NoReason}]
Run == [unit: Unit, task: Task, stage: {"starting", "working"}, text: Plan \cup {<<>>}]
Command == [cmd: Commands, task: Task \cup {Nothing}]
Fresh == [rework |-> [t \in Task |-> 0], stale |-> [t \in Task |-> 0],
          conflict |-> [t \in Task |-> 0], unreported |-> [t \in Task |-> 0],
          log |-> <<>>, mute |-> 0]

(* The triage of a conflict is tried once, unless a late claim brings back *)
(* the block of a task that was unblocked.                                 *)
Memory == [rework: [Task -> Nat], stale: [Task -> 0..2],
           conflict: [Task -> IF "overlap" \in Faults THEN Nat ELSE 0..1],
           unreported: [Task -> 0..1], log: Seq(0..Hour - 1), mute: 0..1]

TypeOK ==
  /\ head \in Plan /\ work \in Plan
  /\ phase \in Phase /\ halting \in BOOLEAN /\ stop \in BOOLEAN /\ wave \in BOOLEAN
  /\ todo \in Seq([do: Deed, task: Task \cup {Nothing}])
  /\ files \in Seq(Report) /\ left \in 0..Len(files)
  /\ mem \in Memory /\ saved \in Memory
  /\ inbox \in Seq(Command)
  /\ runs \in Seq(Run)
  /\ exited \in [Unit -> Task \cup {Nothing}] /\ inflight \in [Unit -> Task \cup {Nothing}]
  /\ beat \in [Task -> 0..Expiry + 1]
  /\ sent \in 0..MaxSent /\ crashes \in 0..MaxCrash
  /\ heard \subseteq Task

Init ==
  /\ head = NewPlan /\ work = head
  /\ phase = "asleep" /\ todo = <<>> /\ left = 0 /\ halting = FALSE
  /\ mem = Fresh /\ saved = Fresh
  /\ stop = FALSE /\ wave = FALSE /\ inbox = <<>>
  /\ runs = <<>> /\ files = <<>>
  /\ exited = [u \in Unit |-> Nothing] /\ inflight = exited
  /\ beat = [t \in Task |-> Expiry + 1]
  /\ sent = 0 /\ crashes = 0 /\ heard = {}

-----------------------------------------------------------------------------
(* Write the file, git_commit_and_push: a commit that fails leaves the     *)
(* edit on disk only.                                                      *)
Write(p) ==
  /\ work' = p
  /\ head' = p \/ ("commit" \in Faults /\ UNCHANGED head)

Bump(counter, t) == mem' = [mem EXCEPT ![counter][t] = @ + 1]
Notified(S, m) == heard' = IF m.mute > 0 THEN heard ELSE heard \cup S
Working(t) == \E i \in DOMAIN runs : runs[i].task = t /\ runs[i].stage = "working"

-----------------------------------------------------------------------------
(* wave_event.wait: the interval passes.  Dispatch processes get to their  *)
(* claim within it; sessions at work keep their dossier up to date.  The   *)
(* log has its oldest dispatch first, and those of the last hour count.    *)
Pruned(log) == LET gone == {i \in DOMAIN log : log[i] + 1 >= Hour}
               IN  [i \in 1..Len(log) - Cardinality(gone) |-> log[i + Cardinality(gone)] + 1]
Later(m) == [m EXCEPT !.log = Pruned(@), !.mute = 0]
Elapse ==
  /\ \A i \in DOMAIN runs : runs[i].stage = "working"
  /\ head' = Aged(head) /\ work' = Aged(work)
  /\ \E idle \in SUBSET Task :
       /\ "slow" \notin Faults => \A t \in idle : ~Working(t)
       /\ beat' = [t \in Task |-> IF Working(t) /\ t \notin idle THEN 0 ELSE Older(beat[t])]
  /\ mem' = Later(mem)
  /\ saved' = Later(saved)

(* The wait ends, at once after a /wave, and a tick starts: reap_inflight. *)
Tick ==
  /\ phase = "asleep"
  /\ IF wave THEN UNCHANGED <<board, store, beat>> ELSE Elapse
  /\ wave' = FALSE
  /\ phase' = "commands"
  /\ exited' = [u \in Unit |-> Nothing]
  /\ Notified({exited[u] : u \in Unit} \cap Task, mem')
  /\ UNCHANGED <<todo, left, halting, stop, inbox, runs, inflight, files, sent, crashes>>

-----------------------------------------------------------------------------
(* An answer or a request for rework edits the task's block and commits.   *)
AnswerOrRework(c) ==
  /\ c.cmd \in {"answer", "rework"}
  /\ Write(IF c.cmd = "answer" THEN Answered(work, c.task) ELSE Reworked(work, c.task))
  /\ UNCHANGED <<todo, stop, wave, mem>>

(* The other commands.  A mute lasts to the next tick.                     *)
Handle(c) ==
  \/ AnswerOrRework(c)
  \/ /\ c.cmd = "approve"
     /\ todo' = Append(todo, [do |-> "approve", task |-> c.task])
     /\ UNCHANGED <<board, stop, wave, mem>>
  \/ /\ c.cmd \in {"stop", "resume"}
     /\ stop' = (c.cmd = "stop")
     /\ UNCHANGED <<board, todo, wave, mem>>
  \/ /\ c.cmd = "wave"
     /\ wave' = TRUE
     /\ UNCHANGED <<board, todo, stop, mem>>
  \/ /\ c.cmd = "mute"
     /\ mem' = [mem EXCEPT !.mute = 1]
     /\ UNCHANGED <<board, todo, stop, wave>>

(* drain_tg_queue, one command at a time.                                  *)
DrainTgQueue ==
  /\ phase = "commands" /\ inbox # <<>>
  /\ Handle(Head(inbox))
  /\ inbox' = Tail(inbox)
  /\ UNCHANGED <<phase, left, halting, saved, others, sent, crashes, heard>>

ListReports ==
  /\ phase = "commands" /\ inbox = <<>>
  /\ phase' = "reports" /\ left' = Len(files)
  /\ UNCHANGED <<board, todo, halting, store, stop, wave, inbox, others, sent, crashes, heard>>

-----------------------------------------------------------------------------
(* drain_control_queue, drain_unreported_queue.  The task a report must be *)
(* about is the one on record for its unit, or its own without a record.   *)
Expected(r) == IF inflight[r.unit] = Nothing THEN r.task ELSE inflight[r.unit]
Accepts(r) == ValidControl(r, Expected(r))

(* Two runs of a task without a report are one too many.                   *)
Unreported(t) ==
  IF mem.unreported[t] = 0
    THEN Bump("unreported", t) /\ UNCHANGED heard
    ELSE mem' = [mem EXCEPT !.unreported[t] = 0] /\ Notified({t}, mem)

(* The files are taken in the order of their names, <task>-<time>, and the *)
(* markers of runs without a report after the others.                      *)
Filed(r) == <<IF r.status = "unreported" THEN 1 ELSE 0, r.task>>
Sooner(i, j) ==
  LET a == Filed(files[i])
      b == Filed(files[j])
  IN  a[1] < b[1] \/ (a[1] = b[1] /\ (a[2] < b[2] \/ (a[2] = b[2] /\ i <= j)))
Turn == CHOOSE i \in 1..left : \A j \in 1..left : Sooner(i, j)

DrainControl ==
  LET r == files[Turn]
  IN  /\ phase = "reports" /\ left > 0
      /\ IF r.status = "unreported" THEN Unreported(r.task) /\ Write(work)
         ELSE IF Accepts(r) THEN Write(Reported(work, r)) /\ UNCHANGED <<mem, heard>>
         ELSE Notified({r.task}, mem) /\ UNCHANGED <<board, mem>>
      /\ phase' = "archive"
      /\ UNCHANGED <<todo, left, halting, saved, stop, wave, inbox, others, sent, crashes>>

(* The file is moved away whatever came of it.                             *)
Archive ==
  /\ phase = "archive"
  /\ files' = RemoveAt(files, Turn) /\ left' = left - 1 /\ phase' = "reports"
  /\ UNCHANGED <<board, todo, halting, store, stop, wave, inbox, runs, exited, inflight, beat, sent, crashes, heard>>

-----------------------------------------------------------------------------
(* decide: what to do about a task that waits, is stuck or may start.      *)
(* (Mutant: a stale task is started again one time too many.)              *)
DeedForStale(p, t) ==
  CASE p[t].status = "needs_review" -> IF mem.rework[t] >= MaxRework THEN "freeze" ELSE "review"
    [] p[t].status = "blocked" ->
         IF p[t].reason.term = "OWNERSHIP_CONFLICT" /\ mem.conflict[t] = 0 THEN "triage" ELSE "escalate"
    [] p[t].status = "pending" -> "dispatch"
    [] OTHER -> IF mem.stale[t] > 2 THEN "escalate" ELSE "redispatch"
DeedFor(p, t) ==
  CASE p[t].status = "needs_review" -> IF mem.rework[t] >= MaxRework THEN "freeze" ELSE "review"
    [] p[t].status = "blocked" ->
         (CASE p[t].reason.term = "OWNERSHIP_CONFLICT" -> IF mem.conflict[t] >= 1 THEN "escalate" ELSE "triage"
            [] p[t].reason.term = "MISSING_DEPENDENCY" -> "triage"
            [] p[t].reason.term = "TOOLING_FAILURE" -> IF mem.stale[t] >= 1 THEN "escalate" ELSE "triage"
            [] OTHER -> "escalate")
    [] p[t].status = "pending" -> "dispatch"
    [] OTHER -> IF mem.stale[t] >= 2 THEN "escalate" ELSE "redispatch"

StaleTasks(p) == {t \in In(p, {"claimed", "in_progress"}) : p[t].age > Expiry /\ beat[t] > Expiry}

(* can_dispatch, can_dispatch_usage: the budget is looked at before any of *)
(* this tick's dispatches is logged; quiet hours stop all of them, a used  *)
(* up window those of its units that are not critical.                     *)
Gate == [quiet: BOOLEAN, used: SUBSET Unit]
Open == [quiet |-> FALSE, used |-> {}]
(* Mutant: a unit at work is looked at too.                                *)
IdleOrNot(p) == {u \in Unit : Eligible(p, u) # {}}
Idle(p) == {u \in Unit : Held(p, u) = {} /\ Eligible(p, u) # {}}
(* Mutant: the ceiling itself is let through.                              *)
PicksAtCeiling(p, gate) ==
  IF gate.quiet \/ Len(mem.log) > Ceiling THEN {}
  ELSE {t \in {First(Eligible(p, u)) : u \in Idle(p)} : Owner[t] \notin gate.used \/ Rank[t] = 0}
Picks(p, gate) ==
  IF gate.quiet \/ Len(mem.log) >= Ceiling THEN {}
  ELSE {t \in {First(Eligible(p, u)) : u \in Idle(p)} : Owner[t] \notin gate.used \/ Rank[t] = 0}

(* The tasks of a plan are gone through in its order.                      *)
InOrder(S) == CHOOSE s \in [1..Cardinality(S) -> S] : \A i, j \in DOMAIN s : i < j => s[i] < s[j]
Deeds(p, S) == [i \in 1..Cardinality(S) |-> [do |-> DeedFor(p, InOrder(S)[i]), task |-> InOrder(S)[i]]]
Single(d) == <<[do |-> d, task |-> Nothing]>>

Decisions(p, gate) ==
  IF stop THEN Single("stop")
  ELSE IF ~Legal(p) THEN Single("illegal")
  ELSE IF In(p, {"done"}) = Task THEN Single("digest")
  ELSE Deeds(p, In(p, {"needs_review"})) \o Deeds(p, In(p, {"blocked"}))
         \o Deeds(p, StaleTasks(p)) \o Deeds(p, Picks(p, gate))

(* refresh_plan_from_head throws away what was not committed.              *)
Decide ==
  /\ phase = "reports" /\ left = 0
  /\ work' = head
  /\ \E gate \in (IF "gate" \in Faults THEN Gate ELSE {Open}) : todo' = todo \o Decisions(head, gate)
  /\ phase' = "acting"
  /\ UNCHANGED <<head, left, halting, store, stop, wave, inbox, others, sent, crashes, heard>>

-----------------------------------------------------------------------------
(* execute, one action at a time.                                          *)
Next1(d) == phase = "acting" /\ todo # <<>> /\ Head(todo).do \in d /\ todo' = Tail(todo)

(* HALT, ESCALATE_P1 and DIGEST: the rest of the list is still done.       *)
Halt ==
  /\ Next1({"freeze", "illegal", "stop", "digest"})
  /\ halting' = TRUE
  /\ heard' = heard \cup ({Head(todo).task} \cap Task)
  /\ UNCHANGED <<board, phase, left, store, stop, wave, inbox, others, sent, crashes>>

Escalate ==
  /\ Next1({"escalate"})
  /\ Notified({Head(todo).task}, mem)
  /\ UNCHANGED <<board, phase, left, halting, store, stop, wave, inbox, others, sent, crashes>>

(* The verdicts of a review session, which commits them itself; a task it  *)
(* leaves in progress counts as sent back, whoever did that.               *)
Judged(S, verdict) == [t \in Task |-> IF t \in S THEN [work[t] EXCEPT !.status = verdict[t], !.age = 0] ELSE work[t]]
Review ==
  LET t == Head(todo).task
      waiting == In(work, {"needs_review"}) \cap (IF Head(todo).do = "review" THEN Task ELSE {t})
  IN  /\ Next1({"review", "approve"})
      /\ \/ \E verdict \in [waiting -> {"done", "in_progress"}] :
              /\ work' = Judged(waiting, verdict) /\ head' = work'
         \/ "noop" \in Faults /\ UNCHANGED board
      /\ \/ work'[t].status = "in_progress" /\ Bump("rework", t)
         \/ /\ work'[t].status # "in_progress" \/ "noop" \in Faults
            /\ UNCHANGED mem
      /\ UNCHANGED <<phase, left, halting, saved, stop, wave, inbox, others, sent, crashes, heard>>

Triage ==
  LET t == Head(todo).task
  IN  /\ Next1({"triage"})
      /\ \/ UNCHANGED board
         \/ /\ work[t].status = "blocked"
            /\ work' = Answered(work, t) /\ head' = work'
      /\ IF work[t].reason.term = "OWNERSHIP_CONFLICT" THEN Bump("conflict", t) ELSE UNCHANGED mem
      /\ UNCHANGED <<phase, left, halting, saved, stop, wave, inbox, others, sent, crashes, heard>>

(* launch_shell_bg: the handle of an earlier process of the unit is lost.  *)
LaunchShellBg(t) ==
  /\ Len(runs) < MaxRuns
  /\ runs' = Append(runs, [unit |-> Owner[t], task |-> t, stage |-> "starting", text |-> <<>>])
  /\ exited' = [exited EXCEPT ![Owner[t]] = Nothing]
  /\ UNCHANGED <<phase, left, halting, saved, stop, wave, inbox, inflight, files, beat, sent, crashes, heard>>

Dispatch ==
  /\ Next1({"dispatch"})
  /\ LaunchShellBg(Head(todo).task)
  /\ mem' = [mem EXCEPT !.log = Append(@, 0)]
  /\ UNCHANGED board

(* A stale task keeps its status: the builder resumes it.  (Mutant: it     *)
(* goes back to pending.)                                                  *)
RedispatchReset ==
  /\ Next1({"redispatch"})
  /\ LaunchShellBg(Head(todo).task)
  /\ Bump("stale", Head(todo).task)
  /\ Write([work EXCEPT ![Head(todo).task].status = "pending"])
RedispatchStale ==
  /\ Next1({"redispatch"})
  /\ LaunchShellBg(Head(todo).task)
  /\ Bump("stale", Head(todo).task)
  /\ UNCHANGED board

(* state.save, then sleep or leave the loop.                               *)
Save ==
  /\ phase = "acting" /\ todo = <<>>
  /\ saved' = mem
  /\ phase' = IF halting THEN "halted" ELSE "asleep"
  /\ UNCHANGED <<board, todo, left, halting, mem, stop, wave, inbox, others, sent, crashes, heard>>

-----------------------------------------------------------------------------
(* dispatch.sh: a process that exits before it launches anything.          *)
Exit(i, code) ==
  /\ runs' = RemoveAt(runs, i)
  /\ exited' = IF code = 0 THEN exited ELSE [exited EXCEPT ![runs[i].unit] = runs[i].task]
  /\ UNCHANGED <<inflight, files, beat>>

(* The plan is illegal, the worktree is foreign, git fails: a nonzero exit.*)
Refuse(i) ==
  /\ runs[i].stage = "starting"
  /\ "refuse" \in Faults \/ ~Legal(work)
  /\ Exit(i, 1)
  /\ UNCHANGED <<board, loop, store, stop, wave, inbox, sent, crashes, heard>>

(* claim_for_unit reads PLAN.md, then pulls, then writes what it read.     *)
Peek(i) ==
  /\ "overlap" \in Faults
  /\ runs[i].stage = "starting" /\ runs[i].text = <<>>
  /\ runs' = [runs EXCEPT ![i].text = work]
  /\ UNCHANGED <<board, loop, store, stop, wave, inbox, exited, inflight, files, beat, sent, crashes, heard>>

ReadBy(i) == IF runs[i].text = <<>> THEN work ELSE runs[i].text
AtClaim(i) == runs[i].stage = "starting" /\ (Legal(work) \/ runs[i].text # <<>>)
TakeTask(text, u) ==
  IF Resumes(text, u) THEN UNCHANGED board ELSE Write(Claimed(text, Target(text, u)))

ClaimForUnit(i) ==
  LET u == runs[i].unit
      text == ReadBy(i)
      t == Target(text, u)
  IN  /\ AtClaim(i)
      /\ IF NothingFor(text, u) THEN Exit(i, 0) /\ UNCHANGED board
         ELSE /\ TakeTask(text, u)
              /\ runs' = [runs EXCEPT ![i] = [unit |-> u, task |-> t, stage |-> "working", text |-> <<>>]]
              /\ inflight' = [inflight EXCEPT ![u] = t]
              /\ UNCHANGED <<exited, files, beat>>
      /\ UNCHANGED <<loop, store, stop, wave, inbox, sent, crashes, heard>>

(* An exception in a claim, before PLAN.md is written or after: main prints*)
(* NONE: and returns 0, and the script exits 0 without a session.          *)
ClaimRaises(i) ==
  /\ "claim" \in Faults
  /\ AtClaim(i) /\ ~NothingFor(ReadBy(i), runs[i].unit)
  /\ UNCHANGED board \/ TakeTask(ReadBy(i), runs[i].unit)
  /\ Exit(i, 0)
  /\ UNCHANGED <<loop, store, stop, wave, inbox, sent, crashes, heard>>

(* The session ends; extract_from_log queues what it printed last.         *)
EndSession(i, status, reason) ==
  /\ runs[i].stage = "working"
  /\ status \in {"malformed", "unreported"} => "silent" \in Faults
  /\ (status = "blocked") = (reason # NoReason)
  /\ files' = Append(files, [task |-> runs[i].task, unit |-> runs[i].unit, status |-> status, reason |-> reason])
  /\ runs' = RemoveAt(runs, i)
  /\ UNCHANGED <<board, loop, store, stop, wave, inbox, exited, inflight, beat, sent, crashes, heard>>

-----------------------------------------------------------------------------
(* The human: answers what is blocked, has reviewed or sends back what     *)
(* waits for review, as the plan shows it when the command is sent.        *)
Sensible(c) ==
  CASE c.cmd = "answer" -> c.task # Nothing /\ head[c.task].status = "blocked"
    [] c.cmd \in {"approve", "rework"} -> c.task # Nothing /\ head[c.task].status = "needs_review"
    [] OTHER -> c.task = Nothing

(* _handle_update: the offset is stored first, then the command queued.    *)
HandleUpdate(c) ==
  /\ phase \notin {"down", "halted"} /\ sent < MaxSent /\ Sensible(c)
  /\ sent' = sent + 1
  /\ inbox' = Append(inbox, c)
  /\ UNCHANGED <<board, loop, store, stop, wave, others, crashes, heard>>

(* The process dies: what is in memory is gone, dispatched processes stay. *)
(* RuntimeState.save writes in place: a file cut short is not JSON, and    *)
(* load starts from nothing.                                               *)
Crash ==
  /\ "crash" \in Faults /\ crashes < MaxCrash /\ phase \notin {"down", "halted"}
  /\ phase' = "down" /\ todo' = <<>> /\ left' = 0 /\ halting' = FALSE
  /\ wave' = FALSE /\ inbox' = <<>> /\ mem' = Fresh
  /\ exited' = [u \in Unit |-> Nothing]
  /\ saved' \in (IF phase = "acting" /\ todo = <<>> THEN {saved, Fresh} ELSE {saved})
  /\ crashes' = crashes + 1
  /\ UNCHANGED <<board, stop, runs, inflight, files, beat, sent, heard>>

(* RuntimeState.load; the first tick does not wait for the interval.       *)
Restart ==
  /\ phase = "down"
  /\ phase' = "commands"
  /\ \A i \in DOMAIN runs : runs[i].stage = "working"
  /\ mem' = saved
  /\ UNCHANGED <<board, todo, left, halting, saved, stop, wave, inbox, others, sent, crashes, heard>>

-----------------------------------------------------------------------------
Loop == Tick \/ DrainTgQueue \/ ListReports \/ DrainControl \/ Archive \/ Decide \/ Halt \/ Escalate \/ Review \/ Triage \/ Dispatch \/ RedispatchStale \/ Save \/ Restart
Claiming == \E i \in DOMAIN runs : Refuse(i) \/ ClaimForUnit(i) \/ ClaimRaises(i)
Ending(i) ==
  i \in DOMAIN runs /\
    \/ \E status \in {"in_progress", "needs_review", "malformed", "unreported"} : EndSession(i, status, NoReason)
    \/ \E reason \in Reasons : EndSession(i, "blocked", reason)
Human == \E cmd \in Commands, t \in Task \cup {Nothing} : HandleUpdate([cmd |-> cmd, task |-> t])

Next ==
  \/ Loop \/ Claiming \/ Human \/ Crash
  \/ \E i \in DOMAIN runs : Peek(i) \/ Ending(i)

Spec == Init /\ [][Next]_vars

(* The loop is one thread that never waits but between ticks; a dispatched *)
(* process gets to its claim, and a session ends some day.                 *)
FairSpec == Spec /\ WF_vars(Loop) /\ WF_vars(Claiming) /\ WF_vars(Ending(1))

-----------------------------------------------------------------------------
(* However reports, claims, reviews, answers and triage follow each other, *)
(* no mix of them makes PLAN.md illegal, which would stop every lane:      *)
(* tasks that share territory stay in sequence (protocol 4).               *)
BoardStaysLegal == Legal(head)

(* A session runs for minutes to hours and a dispatch takes only seconds   *)
(* to claim: no task is ever worked on by two sessions.                    *)
OneSession ==
  \A i, j \in DOMAIN runs :
    i # j /\ runs[i].stage = "working" /\ runs[j].stage = "working" => runs[i].task # runs[j].task

(* All idle builders pass the budget on one reading of the log, so a tick  *)
(* may overrun the hourly ceiling, but by no more than the other units.    *)
CeilingNearlyKept == Len(mem.log) < Ceiling + Cardinality(Unit)

(* What the supervisor and its processes commit are the transitions that   *)
(* COORDINATION_PROTOCOL 2 lists, and claimed to needs_review, which it    *)
(* does not list (Lifecycle).                                              *)
Life == INSTANCE Lifecycle WITH state <- [t \in Task |-> head[t].status]
ImplementsLifecycle == Life!Spec

(* The table of COORDINATION_PROTOCOL 2 to the letter ("any other          *)
(* transition is a protocol violation"), which no run checks: the first    *)
(* report of a task that is done breaks it (README, known disagreements).  *)
Listed == {<<"pending", "claimed">>, <<"claimed", "in_progress">>, <<"in_progress", "needs_review">>,
           <<"in_progress", "blocked">>, <<"claimed", "blocked">>, <<"needs_review", "done">>,
           <<"needs_review", "in_progress">>, <<"blocked", "pending">>, <<"blocked", "in_progress">>}
OnlyListed ==
  [][\A t \in Task : head'[t].status # head[t].status => <<head[t].status, head'[t].status>> \in Listed]_head

(* Two attempts that fail are counted nowhere and announced to nobody: a   *)
(* claim that raises, and the triage of a missing dependency or of a       *)
(* tooling failure.                                                        *)
RaisesUnseen == \E i \in DOMAIN runs : ClaimRaises(i)
TriageUnseen == Triage /\ work[Head(todo).task].reason.term # "OWNERSHIP_CONFLICT"

(* If these two do not go on for ever, every task is done some day, or the *)
(* human is notified of it or of what it waits for (a dependency, or the   *)
(* task that holds its builder), or the loop stops: nothing else is stuck  *)
(* in silence (AUTOPILOT: silence means health).                           *)
Told(t) == heard \cap ({t} \cup Deps[t] \cup Held(head, Owner[t])) # {}
=============================================================================
