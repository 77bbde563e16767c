--------------------------- MODULE TaskScheduler ---------------------------
(***************************************************************************)
(* Scheduled tasks of one site: the scheduler goroutine that finds the due *)
(* tasks and dispatches them (brain/scheduler.go), the runs it records in  *)
(* task_runs, the command channel and the worker that executes them        *)
(* (executeScheduledTask, finalizeTaskRun), and the owner and the tools    *)
(* that edit the schedules meanwhile (server/admin/sitetasks.go,           *)
(* tools/scheduler.go).                                                    *)
(*                                                                         *)
(* A cron expression is its period: cron.NextTime(c, t) is t + c here (the *)
(* module Cron is about NextTime itself); 0 stands for an absent           *)
(* expression, interval or time.  The runs of a deleted task stay: the     *)
(* SQLite driver does not enforce the foreign key.                         *)
(***************************************************************************)
EXTENDS Integers, Sequences, FiniteSets, SequencesExt

CONSTANTS
  Tasks,        \* ids of scheduled tasks
  Crons,        \* periods of cron expressions
  Intervals,    \* values of interval_seconds
  AnHour,       \* the hour manage_scheduler falls back on
  QueueCap,     \* capacity of the command channel
  MaxTime,      \* bound: the clock
  MaxEdits,     \* bound: edits of tasks by the owner and the tools
  MaxTroubles   \* bound: stops of the worker, crashes of the process and
                \* statements that fail (a SELECT of the scheduler that fails
                \* only leaves everything to the next tick or start)

ASSUME SchedulerAssumption ==
  /\ Tasks \subseteq Nat
  /\ Crons \subseteq Nat \ {0} /\ Intervals \subseteq Nat \ {0}
  /\ AnHour \in Nat \ {0} /\ QueueCap \in Nat \ {0}
  /\ {MaxTime, MaxEdits, MaxTroubles} \subseteq Nat /\ MaxTime # 0

VARIABLES
  now,      \* the clock
  tasks,    \* scheduled_tasks
  runs,     \* task_runs: the task and the status, and for the properties the
            \* tick that started it and whether the task then had a schedule
  sched,    \* the scheduler goroutine: where it is, the tick's time, the due
            \* tasks as it read them, the one it is at, the run's id, and
            \* whether the command was sent
  queue,    \* w.commands: scheduled_task commands
  handle,   \* whether the manager has a worker for the site
  alive,    \* whether that worker's goroutine runs
  busy,     \* the command the worker executes
  leaving,  \* commands still being executed by stopped workers
  lost,     \* history: runs whose command ended with its worker, or whose
            \* closing UPDATE failed
  missed,   \* history: tasks that a tick could neither record nor send
  unset,    \* history: tasks whose next_run was not written as it should
  updating, \* updates that have changed a schedule and not yet next_run
  edits, troubles, crashes

counts == <<updating, edits, troubles, crashes>>
worker == <<queue, handle, alive, busy, leaving, lost>>
past   == <<missed, unset>>
vars   == <<now, tasks, runs, sched, worker, past, counts>>

Schedule == [cron : Crons \cup {0}, interval : Intervals \cup {0}]

\* The time after t that a schedule asks for (0: none): the cron expression
\* has precedence.
NextRunNow(s, t) == IF s.cron > 0 THEN t ELSE IF s.interval > 0 THEN t + s.interval ELSE 0
NextRun(s, t) == IF s.cron > 0 THEN t + s.cron ELSE IF s.interval > 0 THEN t + s.interval ELSE 0

Idle == [pc |-> "idle", at |-> 0, due |-> {}, task |-> 0, run |-> 0, sent |-> FALSE]
None == [run |-> 0, task |-> 0]

Init ==
  /\ now = 1
  /\ tasks = [t \in Tasks |-> [row |-> "none", enabled |-> TRUE, next |-> 0,
                               schedule |-> [cron |-> 0, interval |-> 0]]]
  /\ runs = <<>>
  /\ sched = [Idle EXCEPT !.pc = "start"]
  /\ queue = <<>> /\ handle = TRUE /\ alive = TRUE
  /\ busy = None /\ leaving = {} /\ lost = {} /\ missed = {} /\ unset = {}
  /\ updating = {} /\ edits = 0 /\ troubles = 0 /\ crashes = 0

\* Something goes wrong, or nothing does.
Trouble == troubles < MaxTroubles /\ troubles' = troubles + 1
Fine    == UNCHANGED troubles

Clock ==
  /\ now < MaxTime
  /\ now' = now + 1
  /\ UNCHANGED <<tasks, runs, sched, worker, past, counts>>

-----------------------------------------------------------------------------
(* The scheduler.                                                          *)

Periodic(t) == NextRun(tasks[t].schedule, now) # 0

\* initializeNextRun: enabled tasks that have a schedule and no next_run.
InitializeNextRun ==
  /\ sched.pc = "start"
  /\ LET left == {t \in Tasks : tasks[t].row = "live" /\ tasks[t].next = 0 /\ Periodic(t)}
         due  == {t \in left : tasks[t].enabled}
     IN  \E done \in SUBSET due :
           /\ Trouble \/ (done = due /\ Fine)
           /\ tasks' = [t \in Tasks |->
                IF t \in done
                THEN [tasks[t] EXCEPT !.next = NextRun(tasks[t].schedule, now)]
                ELSE tasks[t]]
           /\ unset' = unset \cup (left \ done)
  /\ sched' = Idle
  /\ UNCHANGED <<now, runs, worker, missed, updating, edits, crashes>>

DueWithSchedule(t) ==
  /\ tasks[t].row = "live" /\ tasks[t].enabled /\ Periodic(t)
  /\ tasks[t].next # 0 /\ tasks[t].next <= now
Due(t) ==
  tasks[t].row = "live" /\ tasks[t].enabled /\ tasks[t].next # 0 /\ tasks[t].next <= now

\* checkDueTasksForSite reads the due tasks with their schedules ...
CheckDueTasks ==
  /\ sched.pc = "idle"
  /\ \E t \in Tasks : Due(t)
  /\ sched' = [Idle EXCEPT !.pc = "insert", !.at = now,
                 !.due = {[task |-> t, schedule |-> tasks[t].schedule] : t \in {u \in Tasks : Due(u)}}]
  /\ UNCHANGED <<now, tasks, runs, worker, past, counts>>

\* ... and, for each of them: records a run ...
InsertRun ==
  /\ sched.pc = "insert"
  /\ \E d \in sched.due :
       \/ /\ runs' = Append(runs, [task |-> d.task, at |-> sched.at, status |-> "running",
                                  periodic |-> NextRun(d.schedule, sched.at) # 0])
          /\ sched' = [sched EXCEPT !.pc = "send", !.task = d.task, !.run = Len(runs) + 1,
                                    !.sent = FALSE]
          /\ Fine
       \/ /\ Trouble
          /\ sched' = [sched EXCEPT !.pc = "send", !.task = d.task, !.run = 0,
                                    !.sent = FALSE]
          /\ UNCHANGED runs
  /\ UNCHANGED <<now, tasks, worker, past, updating, edits, crashes>>

\* ... sends the command to the worker, whose goroutine need not run any more ...
Dispatch ==
  /\ sched.pc = "send"
  /\ handle /\ Len(queue) < QueueCap
  /\ queue' = Append(queue, [run |-> sched.run, task |-> sched.task])
  /\ sched' = [sched EXCEPT !.pc = "next", !.sent = TRUE]
  /\ lost' = lost \cup (IF alive THEN {} ELSE {sched.run} \ {0})
  /\ UNCHANGED <<now, tasks, runs, handle, alive, busy, leaving, past, counts>>

\* The UPDATE that closes a run; its error is logged or dropped.
Settle(r, status) ==
  \/ /\ runs' = IF r > 0 THEN [runs EXCEPT ![r].status = status] ELSE runs
     /\ UNCHANGED lost /\ Fine
  \/ Trouble /\ UNCHANGED runs /\ lost' = lost \cup ({r} \ {0})

\* ... or closes the run as failed when there is no worker, or no room ...
DispatchFailsSilently ==
  /\ sched.pc = "send"
  /\ ~(handle /\ Len(queue) < QueueCap)
  /\ sched' = [sched EXCEPT !.pc = "next"]
  /\ UNCHANGED <<now, tasks, runs, worker, past, counts>>
DispatchFails ==
  /\ sched.pc = "send"
  /\ ~(handle /\ Len(queue) < QueueCap)
  /\ Settle(sched.run, "failed")
  /\ sched' = [sched EXCEPT !.pc = "next"]
  /\ missed' = missed \cup (IF sched.run = 0 THEN {sched.task} ELSE {})
  /\ UNCHANGED <<now, tasks, queue, handle, alive, busy, leaving, unset,
                 updating, edits, crashes>>

\* ... and sets next_run from the schedule it read, or disables the task.
UpdateNextRun ==
  /\ sched.pc = "next"
  /\ LET d    == CHOOSE e \in sched.due : e.task = sched.task
         next == NextRun(d.schedule, sched.at)
         left == sched.due \ {d}
     IN  /\ \/ /\ tasks' = IF next # 0 THEN [tasks EXCEPT ![d.task].next = next]
                                    ELSE [tasks EXCEPT ![d.task].enabled = FALSE]
               /\ UNCHANGED unset /\ Fine
            \/ Trouble /\ UNCHANGED tasks /\ unset' = unset \cup {d.task}
         /\ sched' = IF left = {} THEN Idle
                     ELSE [sched EXCEPT !.pc = "insert", !.due = left]
  /\ UNCHANGED <<now, runs, worker, missed, updating, edits, crashes>>

-----------------------------------------------------------------------------
(* The worker.                                                             *)

\* The worker's loop takes the next command from the channel.
TakeTask ==
  /\ handle /\ alive /\ busy = None /\ queue # <<>>
  /\ busy' = Head(queue) /\ queue' = Tail(queue)
  /\ UNCHANGED <<now, tasks, runs, sched, handle, alive, leaving, lost, past, counts>>

\* executeScheduledTask ends, well or not, and finalizeTaskRun records it.
TaskEndsForgetsErrors ==
  /\ busy # None
  /\ Settle(busy.run, "completed") \/ (UNCHANGED <<runs, lost>> /\ Fine)
  /\ busy' = None
  /\ UNCHANGED <<now, tasks, sched, queue, handle, alive, leaving, past,
                 updating, edits, crashes>>
TaskEnds ==
  /\ busy # None
  /\ \E status \in {"completed", "failed"} : Settle(busy.run, status)
  /\ busy' = None
  /\ UNCHANGED <<now, tasks, sched, queue, handle, alive, leaving, past,
                 updating, edits, crashes>>

\* The same in a worker that has been stopped: the LLM call is cancelled, or
\* was done already.
LeavingTaskEnds ==
  /\ \E c \in leaving, status \in {"completed", "failed"} :
       Settle(c.run, status) /\ leaving' = leaving \ {c}
  /\ UNCHANGED <<now, tasks, sched, queue, handle, alive, busy, past,
                 updating, edits, crashes>>

QueuedRuns == {c.run : c \in Range(queue)} \ {0}

\* Run returns because it cannot load the site or the pipeline's row: the
\* manager keeps its handle.
WorkerReturns ==
  /\ Trouble
  /\ handle /\ alive /\ busy = None
  /\ alive' = FALSE /\ lost' = lost \cup QueuedRuns
  /\ UNCHANGED <<now, tasks, runs, sched, queue, handle, busy, leaving, past,
                 updating, edits, crashes>>

\* StopSite: the commands in the channel go with the worker.
StopSite ==
  /\ handle /\ Trouble
  /\ handle' = FALSE /\ queue' = <<>> /\ lost' = lost \cup QueuedRuns
  /\ leaving' = leaving \cup ({busy} \ {None}) /\ busy' = None
  /\ UNCHANGED <<now, tasks, runs, sched, alive, past, updating, edits, crashes>>

StartSite ==
  /\ ~handle
  /\ handle' = TRUE /\ alive' = TRUE
  /\ UNCHANGED <<now, tasks, runs, sched, queue, busy, leaving, lost, past, counts>>

\* The process dies and starts again: runs in progress are not looked at.
Crash ==
  /\ Trouble
  /\ crashes' = crashes + 1
  /\ lost' = lost \cup {r \in DOMAIN runs : runs[r].status = "running"}
  /\ sched' = [Idle EXCEPT !.pc = "start"]
  /\ queue' = <<>> /\ handle' = TRUE /\ alive' = TRUE /\ busy' = None /\ leaving' = {}
  /\ updating' = {}
  /\ UNCHANGED <<now, tasks, runs, past, edits>>

-----------------------------------------------------------------------------
(* Edits by the owner (admin API) and by the brain (manage_scheduler).     *)

Edit(t, task) ==
  /\ edits < MaxEdits
  /\ edits' = edits + 1
  /\ tasks' = [tasks EXCEPT ![t] = task]
  /\ UNCHANGED <<now, runs, sched, worker, past, troubles, crashes>>

\* The id of a new row is the next one.
Create(t) ==
  /\ tasks[t].row = "none"
  /\ \A u \in Tasks : u < t => tasks[u].row # "none"
  /\ \E s \in Schedule :
       Edit(t, [row |-> "live", enabled |-> TRUE, schedule |-> s, next |-> NextRun(s, now)])
  /\ UNCHANGED updating

Delete(t) ==
  /\ tasks[t].row = "live"
  /\ Edit(t, [tasks[t] EXCEPT !.row = "deleted"])
  /\ UNCHANGED updating

Toggle(t) ==
  /\ tasks[t].row = "live"
  /\ Edit(t, [tasks[t] EXCEPT !.enabled = ~@])
  /\ UNCHANGED updating

\* Update of the cron expression, the interval or both: one statement saves
\* the fields the request has ...
Update(t) ==
  /\ tasks[t].row = "live"
  /\ \E s \in Schedule, fields \in {{"cron"}, {"interval"}, {"cron", "interval"}} :
       LET given(f) == f \in fields
       IN  /\ Edit(t, [tasks[t] EXCEPT !.schedule = [f \in {"cron", "interval"} |->
                                          IF given(f) THEN s[f] ELSE @[f]]])
           /\ updating' = updating \cup
                {[task |-> t, asked |-> [f \in {"cron", "interval"} |->
                                          IF given(f) THEN s[f] ELSE 0]]}

\* ... and another sets next_run, from what the request said and not from what
\* the task has come to be.  Without a schedule the admin API leaves next_run,
\* the tool falls back on an hour.  Neither looks whether it succeeds.
SetNextRun ==
  /\ \E u \in updating :
       /\ updating' = updating \ {u}
       /\ \E next \in IF NextRun(u.asked, now) # 0 THEN {NextRun(u.asked, now)}
                       ELSE {tasks[u.task].next, now + AnHour} :
            \/ tasks' = [tasks EXCEPT ![u.task].next = next] /\ UNCHANGED unset /\ Fine
            \/ Trouble /\ UNCHANGED tasks /\ unset' = unset \cup {u.task}
  /\ UNCHANGED <<now, runs, sched, worker, missed, edits, crashes>>

-----------------------------------------------------------------------------
SchedulerStep ==
  \/ InitializeNextRun \/ CheckDueTasks \/ InsertRun \/ Dispatch
  \/ DispatchFails \/ UpdateNextRun

WorkerStep == TakeTask \/ TaskEnds \/ LeavingTaskEnds

Next ==
  \/ Clock \/ SchedulerStep \/ WorkerStep \/ WorkerReturns
  \/ StopSite \/ StartSite \/ Crash \/ SetNextRun
  \/ \E t \in Tasks : Create(t) \/ Delete(t) \/ Toggle(t) \/ Update(t)

Spec == Init /\ [][Next]_vars

\* The ticker keeps ticking, LLM calls and builds end, so a worker whose
\* goroutine runs takes its commands; nobody need edit, stop or crash.
Fairness ==
  /\ WF_vars(SchedulerStep)
  /\ WF_vars(TakeTask) /\ WF_vars(TaskEnds) /\ WF_vars(LeavingTaskEnds)

FairSpec == Spec /\ Fairness

-----------------------------------------------------------------------------
(* Properties.                                                             *)

\* Every variable stays in its type; the channel holds no more commands than
\* its capacity.
TypeOK ==
  /\ now \in 1..MaxTime
  /\ \A t \in Tasks :
       /\ tasks[t].row \in {"none", "live", "deleted"} /\ tasks[t].enabled \in BOOLEAN
       /\ tasks[t].next \in Nat /\ tasks[t].schedule \in Schedule
  /\ \A r \in DOMAIN runs : runs[r].status \in {"running", "completed", "failed"}
  /\ Len(queue) <= QueueCap
  /\ sched.pc \in {"start", "idle", "insert", "send", "next"}
  /\ handle \in BOOLEAN /\ alive \in BOOLEAN /\ lost \subseteq DOMAIN runs

\* The runs somebody still has to deal with.
Dispatching == IF sched.pc = "send" /\ sched.run > 0 THEN {sched.run} ELSE {}
Executing   == {c.run : c \in leaving \cup {busy}} \ {0}

\* A run is in progress exactly while somebody has to deal with it: it is about
\* to be sent, it waits in the channel, or it executes.  Only a worker that ends
\* with commands in its channel, a crash, or the UPDATE that closes the run,
\* when it fails, leaves a run that nobody will close.
RunsAccountedFor ==
  \A r \in DOMAIN runs :
    /\ runs[r].status = "running" => r \in Dispatching \cup QueuedRuns \cup Executing \cup lost
    /\ r \in Dispatching \cup QueuedRuns \cup Executing => runs[r].status = "running"

\* A run is dealt with by one party: the scheduler, the channel, or a worker.
OneHolder ==
  /\ Dispatching \cap QueuedRuns = {} /\ Dispatching \cap Executing = {}
  /\ QueuedRuns \cap Executing = {}
  /\ \A i, j \in DOMAIN queue : i # j /\ queue[i].run > 0 => queue[i].run # queue[j].run

InUpdate(t) == \E u \in updating : u.task = t

\* A task with a schedule keeps coming again: it has a next_run, whatever was
\* edited and whether or not the last tick could start it, unless an UPDATE of
\* next_run failed or a crash cut an edit short of it while it was disabled.
KeepsComing ==
  \A t \in Tasks :
    tasks[t].row = "live" /\ tasks[t].enabled /\ Periodic(t) /\ tasks[t].next = 0
      => InUpdate(t) \/ t \in unset \/ sched.pc = "start"

\* A task that has a schedule is started once per time unit (the minute of its
\* cron expression), whatever is edited, unless its next_run could not be
\* written or the process died between recording a run and setting next_run.
\* (A task without a schedule is disabled when it runs, and due again at once
\* when it is enabled again.)
OneRunPerTick ==
  crashes = 0 =>
    \A i, j \in DOMAIN runs :
      i < j /\ runs[i].task = runs[j].task /\ runs[i].periodic /\ runs[i].task \notin unset
        => runs[i].at # runs[j].at

Overdue(t) == tasks[t].row = "live" /\ tasks[t].enabled /\ tasks[t].next \in 1..now

\* The tick that is at the task has sent its command or recorded a run for it.
Started(t) == sched.pc = "next" /\ sched.task = t /\ (sched.sent \/ sched.run # 0)

\* A task whose time has come is sent to the worker, or at least recorded as a
\* run that failed, unless tasks are edited meanwhile, although stops and
\* crashes come between.  Only a tick whose INSERT fails and that finds no worker
\* or no room passes it over (with a schedule it comes again: KeepsComing).
DueTasksStart ==
  \A t \in Tasks, e \in 0..MaxEdits :
    Overdue(t) /\ edits = e ~> (Started(t) \/ edits > e \/ InUpdate(t) \/ t \in missed)

\* Every run is closed in the end, but for those whose worker ended before them,
\* by a stop, a crash or a failing read, and those whose closing UPDATE failed:
\* the clock and the edits come to an end here, and from then on no other run
\* stays in progress.
RunsEnd == <>[](\A r \in DOMAIN runs : runs[r].status = "running" => r \in lost)

\* The books of the scheduler, which every step has to keep together.
SchedulerInv == TypeOK /\ RunsAccountedFor /\ OneHolder /\ KeepsComing
=============================================================================
