------------------------ MODULE TaskScheduler_proofs ------------------------
(***************************************************************************)
(* For any set of tasks and schedules, any channel and any number of       *)
(* edits, stops, crashes and failing statements: every run is accounted    *)
(* for and held by one party, a task with a schedule keeps a next_run, and *)
(* without a crash it runs once per tick.  For any calendar, any zone and  *)
(* any fields, the time a cron expression gives is its first firing.       *)
(***************************************************************************)
EXTENDS TaskScheduler, Cron, SequenceTheorems, TLAPS

TaskRow == [row : {"none", "live", "deleted"}, enabled : BOOLEAN, next : Nat, schedule : Schedule]
Run     == [task : Tasks, at : Nat, status : {"running", "completed", "failed"}, periodic : BOOLEAN]
Command == [run : Nat, task : Tasks \cup {0}]
Entry   == [task : Tasks, schedule : Schedule]
Tick    == [pc : {"start", "idle", "insert", "send", "next"}, at : Nat, due : SUBSET Entry,
            task : Tasks \cup {0}, run : Nat, sent : BOOLEAN]

Types ==
  /\ now \in 1..MaxTime /\ crashes \in Nat
  /\ tasks \in [Tasks -> TaskRow]
  /\ runs \in Seq(Run)
  /\ sched \in Tick
  /\ queue \in Seq(Command) /\ Len(queue) <= QueueCap
  /\ handle \in BOOLEAN /\ alive \in BOOLEAN /\ busy \in Command /\ leaving \subseteq Command
  /\ lost \subseteq DOMAIN runs
  /\ updating \subseteq [task : Tasks, asked : Schedule]

\* A task is due once, and the one the scheduler is at is among the due ones.
DueOnce ==
  /\ \A d, e \in sched.due : d.task = e.task => d = e
  /\ sched.pc \in {"send", "next"} => \E d \in sched.due : d.task = sched.task

\* What is held has been recorded.
HeldRecorded == Dispatching \cup QueuedRuns \cup Executing \subseteq DOMAIN runs

\* What OneHolder does not say: workers that execute at once execute different runs.
OneExecutor ==
  /\ \A c, d \in leaving : c.run = d.run /\ c.run > 0 => c = d
  /\ \A c \in leaving : c.run > 0 => c.run # busy.run

BooksIInv == Types /\ DueOnce /\ HeldRecorded /\ RunsAccountedFor /\ OneHolder /\ OneExecutor

\* Why a task with a schedule runs once per tick.  Its periodic runs are in the past
\* of its next_run, but for the one the scheduler is about to set it for, and an
\* entry the scheduler has not come to has no run of this tick.
InTick == sched.pc \in {"insert", "send", "next"}
At(d) == sched.pc \in {"send", "next"} /\ d.task = sched.task
PeriodicRuns == {i \in DOMAIN runs : runs[i].periodic}

RunsInPast == \A i \in DOMAIN runs : runs[i].at <= (IF InTick THEN sched.at ELSE now)
NextAhead ==
  \A i \in PeriodicRuns :
    LET next == tasks[runs[i].task].next
    IN  \/ next = 0 \/ next > runs[i].at \/ runs[i].task \in unset
        \/ \E d \in sched.due : /\ InTick /\ At(d) /\ d.task = runs[i].task
                                /\ runs[i].at = sched.at /\ NextRun(d.schedule, sched.at) # 0
EntriesNew ==
  InTick => \A d \in sched.due, i \in PeriodicRuns :
              ~At(d) /\ d.task = runs[i].task => runs[i].at # sched.at \/ d.task \in unset

TickIInv ==
  /\ InTick => sched.at <= now
  /\ crashes = 0 => RunsInPast /\ NextAhead /\ EntriesNew /\ OneRunPerTick

RunsIInv == BooksIInv /\ TickIInv

\* Why a task with a schedule keeps coming: an update that will set its next_run is not
\* done, the scheduler has yet to start, or an UPDATE of next_run was lost.
Asked(t) == \E u \in updating : u.task = t /\ NextRun(u.asked, now) # 0
ComingIInv ==
  \A t \in Tasks :
    tasks[t].row = "live" /\ Periodic(t) /\ tasks[t].next = 0
      => Asked(t) \/ t \in unset \/ sched.pc = "start"

SchedulerIInv == RunsIInv /\ ComingIInv

-----------------------------------------------------------------------------
(* Facts about the operators of the model.                                 *)

\* A schedule asks for no time, or for one that is still to come.
LEMMA NextRunLater ==
  ASSUME NEW s \in Schedule, NEW t \in Nat
  PROVE  NextRun(s, t) \in Nat /\ (NextRun(s, t) = 0 \/ NextRun(s, t) > t)
<1>1. s.cron \in Nat /\ s.interval \in Nat
  <2>1. s.cron \in Crons \cup {0} /\ s.interval \in Intervals \cup {0}
    BY DEF Schedule
  <2>2. (\A c \in Crons \cup {0} : c \in Nat) /\ (\A i \in Intervals \cup {0} : i \in Nat)
    BY SchedulerAssumption
  <2> QED
    BY <2>1, <2>2, Zenon
<1> QED
  BY <1>1 DEF NextRun

\* Closing a run changes its status and nothing else, or the run is lost.
LEMMA Settled ==
  ASSUME runs \in Seq(Run), lost \subseteq DOMAIN runs, NEW r \in {0} \cup DOMAIN runs,
         NEW status \in {"completed", "failed"}, Settle(r, status)
  PROVE  /\ runs' \in Seq(Run) /\ DOMAIN runs' = DOMAIN runs
         /\ lost \subseteq lost' /\ lost' \subseteq DOMAIN runs
         /\ \A i \in DOMAIN runs : i # r => runs'[i] = runs[i]
         /\ \A i \in DOMAIN runs : i = r => runs'[i].status = status \/ r \in lost'
         /\ \A i \in DOMAIN runs : /\ runs'[i].task = runs[i].task /\ runs'[i].at = runs[i].at
                                   /\ runs'[i].periodic = runs[i].periodic
<1>1. CASE UNCHANGED runs /\ lost' = lost \cup ({r} \ {0})
  BY <1>1
<1>2. CASE /\ runs' = IF r > 0 THEN [runs EXCEPT ![r].status = status] ELSE runs
           /\ UNCHANGED lost
  <2>1. CASE r = 0
    BY <1>2, <2>1
  <2>2. CASE r # 0
    <3>1. r \in DOMAIN runs /\ r > 0 /\ runs[r] \in Run
      BY <2>2
    <3>2. runs' = [runs EXCEPT ![r] = [runs[r] EXCEPT !.status = status]]
      BY <1>2, <3>1
    <3>3. [runs[r] EXCEPT !.status = status] \in Run
      BY <3>1 DEF Run
    <3> QED
      BY <1>2, <3>1, <3>2, <3>3 DEF Run
  <2> QED
    BY <2>1, <2>2
<1> QED
  BY <1>1, <1>2 DEF Settle

\* The runs in the channel, by their places.
LEMMA Queued ==
  ASSUME NEW q \in Seq(Command)
  PROVE  \A r : r \in {c.run : c \in Range(q)} \ {0} <=> r # 0 /\ \E i \in 1..Len(q) : q[i].run = r
  BY DEF Range

\* The fields of the scheduler's record.
LEMMA SchedFields ==
  ASSUME Types
  PROVE  /\ sched.pc \in {"start", "idle", "insert", "send", "next"} /\ sched.at \in Nat
         /\ sched.due \subseteq Entry /\ sched.task \in Tasks \cup {0} /\ sched.run \in Nat
  BY DEF Types, Tick

\* The runs that are held are the same as long as no command moves.
LEMMA BooksSame ==
  ASSUME BooksIInv, Dispatching' = Dispatching, UNCHANGED <<runs, queue, busy, leaving>>,
         lost \subseteq lost'
  PROVE  HeldRecorded' /\ RunsAccountedFor' /\ OneHolder' /\ OneExecutor'
<1>1. QueuedRuns' = QueuedRuns /\ Executing' = Executing
  BY DEF QueuedRuns, Executing
<1> QED
  BY <1>1 DEF BooksIInv, HeldRecorded, RunsAccountedFor, OneHolder, OneExecutor

-----------------------------------------------------------------------------
(* The books.                                                              *)

LEMMA InitBooks == Init => BooksIInv
<1> SUFFICES ASSUME Init PROVE BooksIInv
  OBVIOUS
<1> USE SchedulerAssumption
<1>1. runs = <<>> /\ queue = <<>> /\ leaving = {} /\ busy.run = 0 /\ busy \in Command
  BY DEF Init, None, Command
<1>2. sched.pc = "start" /\ sched.due = {}
  BY DEF Init, Idle
<1>3. Types
  <2>1. [cron |-> 0, interval |-> 0] \in Schedule
    BY DEF Schedule
  <2>2. tasks \in [Tasks -> TaskRow]
    BY <2>1 DEF Init, TaskRow
  <2>3. sched \in Tick
    BY DEF Init, Idle, Tick
  <2>4. now \in 1..MaxTime /\ Len(queue) <= QueueCap /\ runs \in Seq(Run) /\ queue \in Seq(Command)
    BY <1>1 DEF Init
  <2> QED
    BY <1>1, <2>2, <2>3, <2>4 DEF Init, Types
<1>4. Dispatching = {} /\ QueuedRuns = {} /\ Executing = {}
  BY <1>1, <1>2 DEF Dispatching, QueuedRuns, Executing, Range
<1> QED
  BY <1>1, <1>2, <1>3, <1>4
     DEF BooksIInv, DueOnce, HeldRecorded, RunsAccountedFor, OneHolder, OneExecutor

LEMMA InitializeNextRunBooks == BooksIInv /\ InitializeNextRun => BooksIInv'
<1> SUFFICES ASSUME BooksIInv, InitializeNextRun PROVE BooksIInv'
  OBVIOUS
<1>1. UNCHANGED <<now, runs, queue, handle, alive, busy, leaving, lost, updating, crashes>>
  BY DEF InitializeNextRun, worker
<1>2. tasks' \in [Tasks -> TaskRow]
  <2>1. \A t \in Tasks : NextRun(tasks[t].schedule, now) \in Nat
    <3>1. \A t \in Tasks : tasks[t].schedule \in Schedule
      BY DEF BooksIInv, Types, TaskRow
    <3>2. now \in Nat
      BY DEF BooksIInv, Types
    <3> QED
      BY <3>1, <3>2, NextRunLater
  <2> QED
    <3>1. PICK done \in SUBSET Tasks :
            tasks' = [t \in Tasks |-> IF t \in done
                                     THEN [tasks[t] EXCEPT !.next = NextRun(tasks[t].schedule, now)]
                                     ELSE tasks[t]]
      BY DEF InitializeNextRun
    <3> QED
      BY <2>1, <3>1 DEF BooksIInv, Types, TaskRow
<1>3. sched' = Idle /\ sched'.pc = "idle" /\ sched'.due = {} /\ sched.pc = "start"
  BY DEF InitializeNextRun, Idle
<1>4. Types'
  BY <1>1, <1>2, <1>3 DEF BooksIInv, Types, Idle, Tick
<1>5. Dispatching' = Dispatching
  BY <1>3 DEF Dispatching
<1> QED
  BY <1>1, <1>3, <1>4, <1>5, BooksSame DEF BooksIInv, DueOnce

LEMMA CheckDueTasksBooks == BooksIInv /\ CheckDueTasks => BooksIInv'
<1> SUFFICES ASSUME BooksIInv, CheckDueTasks PROVE BooksIInv'
  OBVIOUS
<1> DEFINE due == {[task |-> t, schedule |-> tasks[t].schedule] : t \in {u \in Tasks : Due(u)}}
<1>1. UNCHANGED <<now, tasks, runs, queue, handle, alive, busy, leaving, lost, updating, crashes>>
  BY DEF CheckDueTasks, worker, counts
<1>2. due \subseteq Entry /\ \A d, e \in due : d.task = e.task => d = e
  BY DEF Entry, BooksIInv, Types, TaskRow
<1>3. sched' = [pc |-> "insert", at |-> now, due |-> due, task |-> 0, run |-> 0, sent |-> FALSE]
  BY DEF CheckDueTasks, Idle
<1> HIDE DEF due
<1>4. Types'
  BY <1>1, <1>2, <1>3 DEF BooksIInv, Types, Tick
<1>5. Dispatching' = Dispatching
  BY <1>3 DEF Dispatching, CheckDueTasks
<1> QED
  BY <1>1, <1>2, <1>3, <1>4, <1>5, BooksSame DEF BooksIInv, DueOnce

\* A run that is recorded is held by the scheduler, and by nobody else.
LEMMA InsertRunBooks == BooksIInv /\ InsertRun => BooksIInv'
<1> SUFFICES ASSUME BooksIInv, InsertRun PROVE BooksIInv'
  OBVIOUS
<1>1. UNCHANGED <<now, tasks, queue, handle, alive, busy, leaving, lost, updating, crashes>>
  BY DEF InsertRun, worker
<1>2. PICK d \in sched.due :
        \/ /\ runs' = Append(runs, [task |-> d.task, at |-> sched.at, status |-> "running",
                                   periodic |-> NextRun(d.schedule, sched.at) # 0])
           /\ sched' = [sched EXCEPT !.pc = "send", !.task = d.task, !.run = Len(runs) + 1, !.sent = FALSE]
        \/ /\ sched' = [sched EXCEPT !.pc = "send", !.task = d.task, !.run = 0, !.sent = FALSE]
           /\ UNCHANGED runs
  BY Zenon DEF InsertRun
<1>3. Types /\ d \in Entry /\ d.task \in Tasks /\ sched.at \in Nat /\ sched.pc = "insert"
  BY SchedFields DEF BooksIInv, Entry, InsertRun
<1>4. QueuedRuns' = QueuedRuns /\ Executing' = Executing /\ Dispatching = {}
  BY <1>1, <1>3 DEF QueuedRuns, Executing, Dispatching
<1>5. CASE UNCHANGED runs /\ sched' = [sched EXCEPT !.pc = "send", !.task = d.task, !.run = 0, !.sent = FALSE]
  <2>1. Types' /\ sched'.pc = "send" /\ sched'.run = 0 /\ sched'.due = sched.due /\ sched'.task = d.task
    BY <1>1, <1>3, <1>5 DEF Types, Tick
  <2>2. Dispatching' = Dispatching
    BY <1>4, <2>1 DEF Dispatching
  <2> QED
    BY <1>1, <1>5, <2>1, <2>2, BooksSame DEF BooksIInv, DueOnce
<1>6. CASE /\ runs' = Append(runs, [task |-> d.task, at |-> sched.at, status |-> "running",
                                    periodic |-> NextRun(d.schedule, sched.at) # 0])
           /\ sched' = [sched EXCEPT !.pc = "send", !.task = d.task, !.run = Len(runs) + 1, !.sent = FALSE]
  <2> DEFINE n == Len(runs) + 1
             run == [task |-> d.task, at |-> sched.at, status |-> "running",
                     periodic |-> NextRun(d.schedule, sched.at) # 0]
  <2>1. run \in Run /\ run.status = "running" /\ runs \in Seq(Run) /\ n \in Nat \ {0}
    BY <1>3 DEF Run, Types
  <2> HIDE DEF run
  <2>2. runs' = Append(runs, run)
    BY <1>6 DEF run
  <2>3. /\ runs' \in Seq(Run) /\ DOMAIN runs = 1..Len(runs) /\ DOMAIN runs' = 1..n
        /\ \A i \in DOMAIN runs : runs'[i] = runs[i]
        /\ runs'[n] = run
    BY <2>1, <2>2
  <2>4. /\ sched'.pc = "send" /\ sched'.run = n /\ sched'.due = sched.due /\ sched'.task = d.task
        /\ sched' \in Tick
    BY <1>3, <1>6, <2>1 DEF Types, Tick
  <2>5. Types'
    BY <1>1, <1>3, <2>3, <2>4 DEF Types
  <2>6. Dispatching' = {n}
    BY <2>1, <2>4 DEF Dispatching
  <2>7. QueuedRuns \subseteq DOMAIN runs /\ Executing \subseteq DOMAIN runs /\ n \notin DOMAIN runs
    BY <2>1, <2>3 DEF BooksIInv, HeldRecorded
  <2> HIDE DEF n
  <2>8. HeldRecorded'
    BY <1>4, <2>3, <2>6, <2>7 DEF HeldRecorded, n
  <2>9. RunsAccountedFor'
    <3>1. \A i \in DOMAIN runs' : i = n \/ i \in DOMAIN runs
      BY <2>1, <2>3 DEF n
    <3> QED
      BY <1>1, <1>4, <2>1, <2>3, <2>6, <2>7, <3>1 DEF BooksIInv, RunsAccountedFor
  <2>10. OneHolder' /\ OneExecutor'
    BY <1>1, <1>4, <2>6, <2>7 DEF BooksIInv, OneHolder, OneExecutor
  <2>11. DueOnce'
    BY <2>4 DEF BooksIInv, DueOnce
  <2> QED
    BY <2>5, <2>8, <2>9, <2>10, <2>11 DEF BooksIInv
<1> QED
  BY <1>2, <1>5, <1>6

\* The run passes from the scheduler to the channel.
LEMMA DispatchBooks == BooksIInv /\ Dispatch => BooksIInv'
<1> SUFFICES ASSUME BooksIInv, Dispatch PROVE BooksIInv'
  OBVIOUS
<1> DEFINE command == [run |-> sched.run, task |-> sched.task]
           n == Len(queue) + 1
<1>1. /\ UNCHANGED <<now, tasks, runs, handle, alive, busy, leaving, updating, crashes>>
      /\ lost \subseteq lost' /\ lost' \subseteq lost \cup ({sched.run} \ {0})
  BY DEF Dispatch, counts
<1>2. Types /\ sched.pc = "send" /\ queue \in Seq(Command) /\ Len(queue) < QueueCap
  BY DEF BooksIInv, Types, Dispatch
<1>3. command \in Command /\ command.run = sched.run
  BY <1>2, SchedFields DEF Command
<1>4. queue' = Append(queue, command) /\ sched' = [sched EXCEPT !.pc = "next", !.sent = TRUE]
  BY DEF Dispatch
<1> HIDE DEF command
<1>5. /\ queue' \in Seq(Command) /\ Len(queue') = n /\ n \in Nat /\ n <= QueueCap /\ queue'[n] = command
      /\ \A i \in 1..Len(queue) : queue'[i] = queue[i]
      /\ DOMAIN queue = 1..Len(queue) /\ DOMAIN queue' = 1..n
  BY <1>2, <1>3, <1>4, SchedulerAssumption
<1>6. /\ sched'.pc = "next" /\ sched'.due = sched.due /\ sched'.task = sched.task
      /\ sched' \in Tick
  BY <1>2, <1>4 DEF Types, Tick
<1>7. Types'
  <2>1. lost' \subseteq DOMAIN runs
    <3>1. {sched.run} \ {0} \subseteq DOMAIN runs
      BY <1>2, SchedFields DEF BooksIInv, HeldRecorded, Dispatching
    <3> QED
      BY <1>1, <1>2, <3>1 DEF Types
  <2> QED
    BY <1>1, <1>2, <1>5, <1>6, <2>1 DEF Types
<1>8. Dispatching' = {} /\ Dispatching = {sched.run} \ {0}
  BY <1>2, <1>6, SchedFields DEF Dispatching
<1>9. QueuedRuns' = QueuedRuns \cup ({sched.run} \ {0})
  <2>1. \A r : r \in QueuedRuns' <=> r # 0 /\ \E i \in 1..n : queue'[i].run = r
    BY <1>5 DEF QueuedRuns, Range
  <2>2. \A r : r \in QueuedRuns <=> r # 0 /\ \E i \in 1..Len(queue) : queue[i].run = r
    BY <1>2, Queued DEF QueuedRuns
  <2>3. \A i : i \in 1..n <=> i \in 1..Len(queue) \/ i = n
    BY <1>2
  <2> HIDE DEF n
  <2> QED
    BY <1>3, <1>5, <2>1, <2>2, <2>3
<1>10. Executing' = Executing
  BY <1>1 DEF Executing
<1>11. HeldRecorded'
  BY <1>1, <1>8, <1>9, <1>10 DEF BooksIInv, HeldRecorded
<1>12. RunsAccountedFor'
  BY <1>1, <1>8, <1>9, <1>10 DEF BooksIInv, RunsAccountedFor
<1>13. OneHolder'
  <2>1. Dispatching' \cap QueuedRuns' = {} /\ Dispatching' \cap Executing' = {} /\ QueuedRuns' \cap Executing' = {}
    BY <1>8, <1>9, <1>10 DEF BooksIInv, OneHolder
  <2>2. \A i \in 1..Len(queue) : queue[i].run > 0 => queue[i].run \in QueuedRuns
    <3>1. \A r : r \in QueuedRuns <=> r # 0 /\ \E i \in 1..Len(queue) : queue[i].run = r
      BY <1>2, Queued DEF QueuedRuns
    <3>2. \A i \in 1..Len(queue) : queue[i].run > 0 => queue[i].run # 0
      OBVIOUS
    <3> QED
      BY <3>1, <3>2
  <2>3. sched.run > 0 => sched.run \notin QueuedRuns
    BY <1>2, <1>8, SchedFields DEF BooksIInv, OneHolder
  <2>4. \A i, j \in 1..Len(queue) : i # j /\ queue[i].run > 0 => queue[i].run # queue[j].run
    BY <1>5 DEF BooksIInv, OneHolder
  <2>5. \A i : i \in 1..n <=> i \in 1..Len(queue) \/ i = n
    BY <1>2
  <2> HIDE DEF n
  <2>6. \A i, j \in 1..n : i # j /\ queue'[i].run > 0 => queue'[i].run # queue'[j].run
    BY <1>3, <1>5, <2>2, <2>3, <2>4, <2>5
  <2> QED
    BY <1>5, <2>1, <2>6 DEF OneHolder
<1>14. OneExecutor' /\ DueOnce'
  BY <1>1, <1>2, <1>6 DEF BooksIInv, OneExecutor, DueOnce
<1> QED
  BY <1>7, <1>11, <1>12, <1>13, <1>14 DEF BooksIInv

LEMMA DispatchFailsBooks == BooksIInv /\ DispatchFails => BooksIInv'
<1> SUFFICES ASSUME BooksIInv, DispatchFails PROVE BooksIInv'
  OBVIOUS
<1>1. UNCHANGED <<now, tasks, queue, handle, alive, busy, leaving, updating, crashes>>
  BY DEF DispatchFails
<1>2. Types /\ sched.pc = "send" /\ runs \in Seq(Run) /\ sched.run \in Nat
  BY SchedFields DEF BooksIInv, Types, DispatchFails
<1>3. Dispatching = {sched.run} \ {0} /\ sched.run \in {0} \cup DOMAIN runs
  BY <1>2 DEF Dispatching, BooksIInv, HeldRecorded
<1>4. /\ runs' \in Seq(Run) /\ DOMAIN runs' = DOMAIN runs
      /\ \A i \in DOMAIN runs : i # sched.run => runs'[i] = runs[i]
      /\ \A i \in DOMAIN runs : i = sched.run => runs'[i].status = "failed" \/ sched.run \in lost'
      /\ \A i \in DOMAIN runs : runs'[i].status = "failed" => runs'[i].status # "running"
      /\ lost \subseteq lost' /\ lost' \subseteq DOMAIN runs
  <2>1. lost \subseteq DOMAIN runs /\ Settle(sched.run, "failed")
    BY <1>2 DEF Types, DispatchFails
  <2> QED
    BY <1>2, <1>3, <2>1, Settled
<1>5. /\ sched'.pc = "next" /\ sched'.due = sched.due /\ sched'.task = sched.task
      /\ sched' \in Tick
  BY <1>2 DEF Types, Tick, DispatchFails
<1>6. Types'
  BY <1>1, <1>2, <1>4, <1>5 DEF Types
<1>7. Dispatching' = {} /\ QueuedRuns' = QueuedRuns /\ Executing' = Executing
  BY <1>1, <1>5 DEF Dispatching, QueuedRuns, Executing
<1>8. HeldRecorded' /\ OneHolder' /\ OneExecutor' /\ DueOnce'
  BY <1>1, <1>2, <1>4, <1>5, <1>7 DEF BooksIInv, HeldRecorded, OneHolder, OneExecutor, DueOnce
<1>9. RunsAccountedFor'
  <2> SUFFICES ASSUME NEW r \in DOMAIN runs
               PROVE  /\ runs'[r].status = "running" => r \in QueuedRuns \cup Executing \cup lost'
                      /\ r \in QueuedRuns \cup Executing => runs'[r].status = "running"
    BY <1>1, <1>4, <1>7 DEF RunsAccountedFor
  <2>1. CASE r = sched.run
    <3>1. r \notin QueuedRuns \cup Executing
      BY <1>2, <1>3, <2>1 DEF BooksIInv, OneHolder
    <3> QED
      BY <1>4, <2>1, <3>1
  <2>2. CASE r # sched.run
    BY <1>3, <1>4, <2>2 DEF BooksIInv, RunsAccountedFor
  <2> QED
    BY <2>1, <2>2
<1> QED
  BY <1>6, <1>8, <1>9 DEF BooksIInv

\* The entry that UpdateNextRun ends.
LEMMA EntryOfTask ==
  ASSUME BooksIInv, sched.pc \in {"send", "next"}
  PROVE  LET d == CHOOSE e \in sched.due : e.task = sched.task
         IN  d \in sched.due /\ d.task = sched.task /\ d.task \in Tasks /\ d.schedule \in Schedule
<1>1. \E e \in sched.due : e.task = sched.task
  BY DEF BooksIInv, DueOnce
<1>2. sched.due \subseteq Entry
  BY SchedFields DEF BooksIInv
<1> DEFINE d == CHOOSE e \in sched.due : e.task = sched.task
<1>3. d \in sched.due /\ d.task = sched.task
  BY <1>1
<1> HIDE DEF d
<1>4. d.task \in Tasks /\ d.schedule \in Schedule
  BY <1>2, <1>3 DEF Entry
<1> QED
  BY <1>3, <1>4 DEF d

LEMMA UpdateNextRunBooks == BooksIInv /\ UpdateNextRun => BooksIInv'
<1> SUFFICES ASSUME BooksIInv, UpdateNextRun PROVE BooksIInv'
  OBVIOUS
<1> DEFINE d == CHOOSE e \in sched.due : e.task = sched.task
           next == NextRun(d.schedule, sched.at)
           left == sched.due \ {d}
<1>1. UNCHANGED <<now, runs, queue, handle, alive, busy, leaving, lost, updating, crashes>>
  BY DEF UpdateNextRun, worker
<1>2. /\ Types /\ sched.pc = "next" /\ sched.at \in Nat /\ sched.due \subseteq Entry
      /\ d \in sched.due /\ d.task \in Tasks /\ d.schedule \in Schedule
  BY SchedFields, EntryOfTask DEF BooksIInv, UpdateNextRun
<1>3. /\ \/ tasks' = IF next # 0 THEN [tasks EXCEPT ![d.task].next = next]
                                 ELSE [tasks EXCEPT ![d.task].enabled = FALSE]
         \/ UNCHANGED tasks
      /\ sched' = IF left = {} THEN Idle ELSE [sched EXCEPT !.pc = "insert", !.due = left]
  BY DEF UpdateNextRun
<1> HIDE DEF d
<1>4. next \in Nat
  BY <1>2, NextRunLater
<1> HIDE DEF next, left
<1>5. tasks' \in [Tasks -> TaskRow]
  <2>1. tasks[d.task] \in TaskRow /\ tasks \in [Tasks -> TaskRow]
    BY <1>2 DEF Types
  <2>2. [tasks[d.task] EXCEPT !.next = next] \in TaskRow /\ [tasks[d.task] EXCEPT !.enabled = FALSE] \in TaskRow
    BY <1>4, <2>1 DEF TaskRow
  <2>3. \/ tasks' = [tasks EXCEPT ![d.task] = [tasks[d.task] EXCEPT !.next = next]]
        \/ tasks' = [tasks EXCEPT ![d.task] = [tasks[d.task] EXCEPT !.enabled = FALSE]]
        \/ tasks' = tasks
    BY <1>3
  <2> QED
    BY <1>2, <2>1, <2>2, <2>3
<1>6. /\ sched'.pc \in {"idle", "insert"} /\ sched'.due \subseteq sched.due
      /\ sched' \in Tick
  <2>1. left \subseteq sched.due
    BY DEF left
  <2> QED
    BY <1>2, <1>3, <2>1 DEF Types, Tick, Idle
<1>7. Types'
  BY <1>1, <1>2, <1>5, <1>6 DEF Types
<1>8. Dispatching' = Dispatching
  BY <1>2, <1>6 DEF Dispatching
<1>9. DueOnce'
  BY <1>6 DEF BooksIInv, DueOnce
<1> QED
  BY <1>1, <1>7, <1>8, <1>9, BooksSame DEF BooksIInv

\* The run passes from the channel to the worker.
LEMMA TakeTaskBooks == BooksIInv /\ TakeTask => BooksIInv'
<1> SUFFICES ASSUME BooksIInv, TakeTask PROVE BooksIInv'
  OBVIOUS
<1>1. UNCHANGED <<now, tasks, runs, sched, handle, alive, leaving, lost, updating, crashes>>
  BY DEF TakeTask, counts
<1>2. Types /\ queue \in Seq(Command) /\ queue # <<>> /\ Len(queue) <= QueueCap
  BY DEF BooksIInv, Types, TakeTask
<1>3. /\ Len(queue) >= 1 /\ busy' = queue[1] /\ queue' = Tail(queue)
      /\ queue' \in Seq(Command) /\ Len(queue') = Len(queue) - 1
      /\ \A i \in 1..Len(queue') : queue'[i] = queue[i + 1]
      /\ DOMAIN queue = 1..Len(queue) /\ DOMAIN queue' = 1..Len(queue')
  BY <1>2 DEF TakeTask
<1>4. busy' \in Command /\ queue[1].run \in Nat /\ Len(queue') <= QueueCap
  <2>1. queue[1] \in Command /\ Len(queue') <= QueueCap
    BY <1>2, <1>3, SchedulerAssumption
  <2> QED
    BY <1>3, <2>1 DEF Command
<1>5. Types'
  BY <1>1, <1>2, <1>3, <1>4 DEF Types
<1>6. Dispatching' = Dispatching
  BY <1>1 DEF Dispatching
<1>7. \A i \in 1..Len(queue) : i = 1 \/ (i - 1 \in 1..Len(queue') /\ queue'[i - 1] = queue[i])
  BY <1>2, <1>3
<1>8. /\ \A r : r \in QueuedRuns' <=> r # 0 /\ \E i \in 1..Len(queue') : queue'[i].run = r
      /\ \A r : r \in QueuedRuns <=> r # 0 /\ \E i \in 1..Len(queue) : queue[i].run = r
  <2>1. queue' \in Seq(Command)
    BY <1>3
  <2> QED
    BY <1>2, <2>1, Queued DEF QueuedRuns
<1>9. QueuedRuns = QueuedRuns' \cup ({queue[1].run} \ {0})
  <2>1. \A i \in 1..Len(queue') : i + 1 \in 1..Len(queue)
    BY <1>2, <1>3
  <2>2. ASSUME NEW r \in QueuedRuns PROVE r \in QueuedRuns' \/ r = queue[1].run
    BY <1>7, <1>8
  <2>3. ASSUME NEW r \in QueuedRuns' PROVE r \in QueuedRuns
    BY <1>3, <1>8, <2>1
  <2>4. 0 \notin QueuedRuns /\ (queue[1].run # 0 => queue[1].run \in QueuedRuns)
    <3>1. 1 \in 1..Len(queue)
      BY <1>2, <1>3
    <3> QED
      BY <1>8, <3>1
  <2> QED
    BY <2>2, <2>3, <2>4
<1>10. queue[1].run \notin QueuedRuns'
  <2>1. \A i, j \in 1..Len(queue) : i # j /\ queue[i].run > 0 => queue[i].run # queue[j].run
    BY <1>3 DEF BooksIInv, OneHolder
  <2>2. \A i \in 1..Len(queue') : i + 1 \in 1..Len(queue) /\ i + 1 # 1 /\ 1 \in 1..Len(queue)
    BY <1>2, <1>3
  <2> QED
    BY <1>3, <1>4, <1>8, <2>1, <2>2
<1>11. Executing' = Executing \cup ({queue[1].run} \ {0})
  <2>1. busy.run = 0
    BY DEF TakeTask, None
  <2> QED
    BY <1>1, <1>3, <2>1 DEF Executing
<1>12. HeldRecorded' /\ RunsAccountedFor'
  BY <1>1, <1>6, <1>9, <1>11 DEF BooksIInv, HeldRecorded, RunsAccountedFor
<1>13. OneHolder'
  <2>1. Dispatching' \cap QueuedRuns' = {} /\ Dispatching' \cap Executing' = {} /\ QueuedRuns' \cap Executing' = {}
    BY <1>6, <1>9, <1>10, <1>11 DEF BooksIInv, OneHolder
  <2>2. \A i, j \in 1..Len(queue) : i # j /\ queue[i].run > 0 => queue[i].run # queue[j].run
    BY <1>3 DEF BooksIInv, OneHolder
  <2>3. \A i \in 1..Len(queue') : i + 1 \in 1..Len(queue)
    BY <1>2, <1>3
  <2>4. \A i, j \in 1..Len(queue') : i # j => i + 1 # j + 1
    OBVIOUS
  <2>5. \A i, j \in 1..Len(queue') : i # j /\ queue'[i].run > 0 => queue'[i].run # queue'[j].run
    BY <1>3, <2>2, <2>3, <2>4
  <2> QED
    BY <1>3, <2>1, <2>5 DEF OneHolder
<1>14. OneExecutor'
  <2>1. \A c \in leaving : c.run > 0 => c.run \in Executing
    BY <1>2 DEF Executing, Types, Command
  <2>2. queue[1].run > 0 => queue[1].run \in QueuedRuns
    BY <1>4, <1>9
  <2> QED
    BY <1>1, <1>3, <2>1, <2>2 DEF BooksIInv, OneExecutor, OneHolder
<1>15. DueOnce'
  BY <1>1 DEF BooksIInv, DueOnce
<1> QED
  BY <1>5, <1>12, <1>13, <1>14, <1>15 DEF BooksIInv

\* Closing a run that executes and that nobody else has.
LEMMA ExecutionEnds ==
  ASSUME BooksIInv, NEW r \in Nat, NEW status \in {"completed", "failed"}, Settle(r, status),
         busy' \in Command, leaving' \subseteq leaving, OneExecutor',
         r = 0 \/ r \in Executing, Executing' = Executing \ {r},
         UNCHANGED <<now, tasks, sched, queue, handle, alive, updating, crashes>>
  PROVE  BooksIInv'
<1>1. Types /\ runs \in Seq(Run) /\ lost \subseteq DOMAIN runs /\ r \in {0} \cup DOMAIN runs
  BY DEF BooksIInv, Types, HeldRecorded
<1>2. /\ runs' \in Seq(Run) /\ DOMAIN runs' = DOMAIN runs
      /\ \A i \in DOMAIN runs : i # r => runs'[i] = runs[i]
      /\ \A i \in DOMAIN runs : i = r => runs'[i].status = status \/ r \in lost'
      /\ lost \subseteq lost' /\ lost' \subseteq DOMAIN runs /\ status # "running"
  BY <1>1, Settled
<1>3. Types'
  BY <1>1, <1>2 DEF Types
<1>4. Dispatching' = Dispatching /\ QueuedRuns' = QueuedRuns
  BY DEF Dispatching, QueuedRuns
<1>5. HeldRecorded' /\ OneHolder' /\ DueOnce'
  BY <1>2, <1>4 DEF BooksIInv, HeldRecorded, OneHolder, DueOnce
<1>6. RunsAccountedFor'
  <2> SUFFICES ASSUME NEW i \in DOMAIN runs
               PROVE  /\ runs'[i].status = "running" =>
                           i \in Dispatching \cup QueuedRuns \cup (Executing \ {r}) \cup lost'
                      /\ i \in Dispatching \cup QueuedRuns \cup (Executing \ {r}) =>
                           runs'[i].status = "running"
    BY <1>2, <1>4 DEF RunsAccountedFor
  <2>1. CASE i = r
    <3>1. r # 0 /\ r \in Executing
      BY <1>1, <2>1
    <3>2. r \notin Dispatching \cup QueuedRuns
      BY <3>1 DEF BooksIInv, OneHolder
    <3> QED
      BY <1>2, <2>1, <3>2
  <2>2. CASE i # r
    BY <1>2, <2>2 DEF BooksIInv, RunsAccountedFor
  <2> QED
    BY <2>1, <2>2
<1> QED
  BY <1>3, <1>5, <1>6 DEF BooksIInv

LEMMA TaskEndsBooks == BooksIInv /\ TaskEnds => BooksIInv'
<1> SUFFICES ASSUME BooksIInv, TaskEnds PROVE BooksIInv'
  OBVIOUS
<1>1. UNCHANGED <<now, tasks, sched, queue, handle, alive, leaving, updating, crashes>>
  BY DEF TaskEnds
<1>2. PICK status \in {"completed", "failed"} : Settle(busy.run, status)
  BY DEF TaskEnds
<1>3. Types /\ busy.run \in Nat /\ \A c \in leaving : c.run \in Nat
  BY DEF BooksIInv, Types, Command
<1>4. busy' = None /\ busy' \in Command /\ busy'.run = 0
  BY DEF TaskEnds, None, Command
<1>5. busy.run = 0 \/ busy.run \in Executing
  BY DEF Executing
<1>6. \A c \in leaving : c.run > 0 => c.run # busy.run
  BY DEF BooksIInv, OneExecutor
<1>7. Executing' = Executing \ {busy.run}
  BY <1>1, <1>3, <1>4, <1>6 DEF Executing
<1>8. OneExecutor'
  BY <1>1, <1>4 DEF BooksIInv, OneExecutor
<1> QED
  BY <1>1, <1>2, <1>3, <1>4, <1>5, <1>7, <1>8, ExecutionEnds

LEMMA LeavingTaskEndsBooks == BooksIInv /\ LeavingTaskEnds => BooksIInv'
<1> SUFFICES ASSUME BooksIInv, LeavingTaskEnds PROVE BooksIInv'
  OBVIOUS
<1>1. UNCHANGED <<now, tasks, sched, queue, handle, alive, busy, updating, crashes>>
  BY DEF LeavingTaskEnds
<1>2. PICK c \in leaving, status \in {"completed", "failed"} :
        Settle(c.run, status) /\ leaving' = leaving \ {c}
  BY DEF LeavingTaskEnds
<1>3. busy' \in Command /\ \A b \in leaving : b.run \in Nat
  BY <1>1 DEF BooksIInv, Types, Command
<1>4. c.run \in Nat /\ (c.run = 0 \/ c.run \in Executing)
  BY <1>2, <1>3 DEF Executing
<1>5. /\ \A b \in leaving' : b.run > 0 => b.run # c.run
      /\ c.run > 0 => c.run # busy.run
  BY <1>2 DEF BooksIInv, OneExecutor
<1>6. Executing' = Executing \ {c.run}
  BY <1>1, <1>2, <1>3, <1>5 DEF Executing
<1>7. OneExecutor' /\ leaving' \subseteq leaving
  BY <1>1, <1>2 DEF BooksIInv, OneExecutor
<1> QED
  BY <1>1, <1>2, <1>3, <1>4, <1>6, <1>7, ExecutionEnds

\* What was in the channel is lost, what executes goes on.
LEMMA StopSiteBooks == BooksIInv /\ StopSite => BooksIInv'
<1> SUFFICES ASSUME BooksIInv, StopSite PROVE BooksIInv'
  OBVIOUS
<1>1. /\ UNCHANGED <<now, tasks, runs, sched, alive, updating, crashes>>
      /\ queue' = <<>> /\ lost' = lost \cup QueuedRuns /\ handle' = FALSE
      /\ leaving' = leaving \cup ({busy} \ {None}) /\ busy' = None
  BY DEF StopSite
<1>2. QueuedRuns' = {} /\ Dispatching' = Dispatching
  BY <1>1 DEF QueuedRuns, Range, Dispatching
<1>3. None \in Command /\ None.run = 0
  BY DEF None, Command
<1>4. Executing' = Executing
  BY <1>1, <1>3 DEF Executing
<1>5. Types'
  <2>1. lost' \subseteq DOMAIN runs'
    BY <1>1 DEF BooksIInv, Types, HeldRecorded
  <2>2. queue' \in Seq(Command) /\ Len(queue') <= QueueCap
    BY <1>1, SchedulerAssumption
  <2> QED
    BY <1>1, <1>3, <2>1, <2>2 DEF BooksIInv, Types
<1>6. HeldRecorded' /\ RunsAccountedFor'
  BY <1>1, <1>2, <1>4 DEF BooksIInv, HeldRecorded, RunsAccountedFor
<1>7. OneHolder' /\ DueOnce'
  BY <1>1, <1>2, <1>4 DEF BooksIInv, OneHolder, DueOnce
<1>8. OneExecutor'
  BY <1>1, <1>3 DEF BooksIInv, OneExecutor
<1> QED
  BY <1>5, <1>6, <1>7, <1>8 DEF BooksIInv

\* The worker's goroutine ends: what is in the channel is lost and stays there.
LEMMA WorkerReturnsBooks == BooksIInv /\ WorkerReturns => BooksIInv'
<1> SUFFICES ASSUME BooksIInv, WorkerReturns PROVE BooksIInv'
  OBVIOUS
<1>1. /\ UNCHANGED <<now, tasks, runs, sched, queue, handle, busy, leaving, updating, crashes>>
      /\ alive' = FALSE /\ lost' = lost \cup QueuedRuns
  BY DEF WorkerReturns
<1>2. lost' \subseteq DOMAIN runs' /\ lost \subseteq lost'
  BY <1>1 DEF BooksIInv, Types, HeldRecorded
<1>3. Types' /\ DueOnce'
  BY <1>1, <1>2 DEF BooksIInv, Types, DueOnce
<1>4. Dispatching' = Dispatching
  BY <1>1 DEF Dispatching
<1> QED
  BY <1>1, <1>2, <1>3, <1>4, BooksSame DEF BooksIInv

LEMMA CrashBooks == BooksIInv /\ Crash => BooksIInv'
<1> SUFFICES ASSUME BooksIInv, Crash PROVE BooksIInv'
  OBVIOUS
<1>1. /\ UNCHANGED <<now, tasks, runs>> /\ crashes' = crashes + 1 /\ updating' = {}
      /\ queue' = <<>> /\ lost' = lost \cup {r \in DOMAIN runs : runs[r].status = "running"}
      /\ handle' = TRUE /\ alive' = TRUE /\ leaving' = {} /\ busy' = None
      /\ sched' = [pc |-> "start", at |-> 0, due |-> {}, task |-> 0, run |-> 0, sent |-> FALSE]
  BY DEF Crash, Idle
<1>2. None \in Command /\ None.run = 0
  BY DEF None, Command
<1>3. QueuedRuns' = {} /\ Dispatching' = {} /\ Executing' = {}
  BY <1>1, <1>2 DEF QueuedRuns, Range, Dispatching, Executing
<1>4. Types'
  <2>1. queue' \in Seq(Command) /\ Len(queue') <= QueueCap
    BY <1>1, SchedulerAssumption
  <2> QED
    BY <1>1, <1>2, <2>1 DEF BooksIInv, Types, Tick
<1>5. HeldRecorded' /\ RunsAccountedFor'
  BY <1>1, <1>3 DEF BooksIInv, HeldRecorded, RunsAccountedFor
<1>6. OneHolder' /\ DueOnce' /\ OneExecutor'
  BY <1>1, <1>3 DEF BooksIInv, OneHolder, DueOnce, OneExecutor
<1> QED
  BY <1>4, <1>5, <1>6 DEF BooksIInv

-----------------------------------------------------------------------------
(* Edits.                                                                  *)

\* A step that leaves the runs, the scheduler and the commands alone keeps the books.
LEMMA OthersBooks ==
  ASSUME BooksIInv, tasks' \in [Tasks -> TaskRow], handle' \in BOOLEAN, alive' \in BOOLEAN, now' \in 1..MaxTime,
         updating' \subseteq [task : Tasks, asked : Schedule],
         UNCHANGED <<runs, sched, queue, busy, leaving, lost, crashes>>
  PROVE  BooksIInv'
<1>1. Dispatching' = Dispatching
  BY DEF Dispatching
<1>2. Types' /\ DueOnce'
  BY DEF BooksIInv, Types, DueOnce
<1> QED
  BY <1>1, <1>2, BooksSame DEF BooksIInv

\* What an edit of a task leaves, and when the task is due after it: when it was, not at
\* all, or later than now.
Edited(t) ==
  /\ tasks' \in [Tasks -> TaskRow]
  /\ \A u \in Tasks \ {t} : tasks'[u] = tasks[u]
  /\ tasks'[t].next \in {tasks[t].next, 0} \/ tasks'[t].next > now
  /\ updating' \subseteq [task : Tasks, asked : Schedule]
  /\ unset \subseteq unset' /\ UNCHANGED <<now, runs, sched, worker, crashes>>

LEMMA EditedRow ==
  ASSUME BooksIInv, NEW t \in Tasks, NEW task \in TaskRow, tasks' = [tasks EXCEPT ![t] = task],
         task.next \in {tasks[t].next, 0} \/ task.next > now,
         updating' \subseteq [task : Tasks, asked : Schedule],
         unset \subseteq unset', UNCHANGED <<now, runs, sched, worker, crashes>>
  PROVE  Edited(t)
  BY DEF BooksIInv, Types, Edited

LEMMA CreateEdits ==
  ASSUME BooksIInv, NEW t \in Tasks, Create(t)
  PROVE  Edited(t)
<1>1. PICK s \in Schedule :
        Edit(t, [row |-> "live", enabled |-> TRUE, schedule |-> s, next |-> NextRun(s, now)])
  BY DEF Create
<1>2. now \in Nat /\ updating \subseteq [task : Tasks, asked : Schedule]
  BY DEF BooksIInv, Types
<1>3. NextRun(s, now) \in Nat /\ (NextRun(s, now) = 0 \/ NextRun(s, now) > now)
  BY <1>2, NextRunLater
<1> DEFINE task == [row |-> "live", enabled |-> TRUE, schedule |-> s, next |-> NextRun(s, now)]
<1>4. task \in TaskRow /\ (task.next = 0 \/ task.next > now)
  BY <1>3 DEF TaskRow
<1>5. tasks' = [tasks EXCEPT ![t] = task] /\ UNCHANGED <<now, runs, sched, worker, unset, crashes, updating>>
  BY <1>1 DEF Edit, Create, past
<1> HIDE DEF task
<1> QED
  BY <1>2, <1>4, <1>5, EditedRow

LEMMA DeleteToggleEdits ==
  ASSUME BooksIInv, NEW t \in Tasks, Delete(t) \/ Toggle(t)
  PROVE  Edited(t)
<1>1. tasks[t] \in TaskRow
  BY DEF BooksIInv, Types
<1>2. PICK task \in TaskRow : task.next = tasks[t].next /\ Edit(t, task)
  <2>1. [tasks[t] EXCEPT !.row = "deleted"] \in TaskRow /\ [tasks[t] EXCEPT !.row = "deleted"].next = tasks[t].next
    BY <1>1 DEF TaskRow
  <2>2. /\ [tasks[t] EXCEPT !.enabled = ~tasks[t].enabled] \in TaskRow
        /\ [tasks[t] EXCEPT !.enabled = ~tasks[t].enabled].next = tasks[t].next
    BY <1>1 DEF TaskRow
  <2>3. \/ Edit(t, [tasks[t] EXCEPT !.row = "deleted"])
        \/ Edit(t, [tasks[t] EXCEPT !.enabled = ~tasks[t].enabled])
    BY DEF Delete, Toggle
  <2> QED
    BY <2>1, <2>2, <2>3
<1>3. tasks' = [tasks EXCEPT ![t] = task] /\ UNCHANGED <<now, runs, sched, worker, unset, crashes, updating>>
  BY <1>2 DEF Edit, Delete, Toggle, past
<1>4. updating \subseteq [task : Tasks, asked : Schedule]
  BY DEF BooksIInv, Types
<1> QED
  BY <1>2, <1>3, <1>4, EditedRow

\* A schedule made of columns of schedules is one.
LEMMA MixedSchedule ==
  ASSUME NEW s \in Schedule, NEW old \in Schedule, NEW columns
  PROVE  /\ [f \in {"cron", "interval"} |-> IF f \in columns THEN s[f] ELSE old[f]] \in Schedule
         /\ [f \in {"cron", "interval"} |-> IF f \in columns THEN s[f] ELSE 0] \in Schedule
  BY DEF Schedule

LEMMA UpdateEdits ==
  ASSUME BooksIInv, NEW t \in Tasks, Update(t)
  PROVE  Edited(t)
<1>1. tasks[t] \in TaskRow /\ tasks[t].schedule \in Schedule
  BY DEF BooksIInv, Types, TaskRow
<1>2. PICK s \in Schedule, columns \in {{"cron"}, {"interval"}, {"cron", "interval"}} :
        /\ Edit(t, [tasks[t] EXCEPT !.schedule = [f \in {"cron", "interval"} |->
                       IF f \in columns THEN s[f] ELSE tasks[t].schedule[f]]])
        /\ updating' = updating \cup
             {[task |-> t, asked |-> [f \in {"cron", "interval"} |-> IF f \in columns THEN s[f] ELSE 0]]}
  BY DEF Update
<1> DEFINE new == [f \in {"cron", "interval"} |-> IF f \in columns THEN s[f] ELSE tasks[t].schedule[f]]
           asked == [f \in {"cron", "interval"} |-> IF f \in columns THEN s[f] ELSE 0]
<1>3. new \in Schedule /\ asked \in Schedule
  BY <1>1, MixedSchedule
<1>4. Edit(t, [tasks[t] EXCEPT !.schedule = new]) /\ updating' = updating \cup {[task |-> t, asked |-> asked]}
  BY <1>2
<1> HIDE DEF new, asked
<1>5. [tasks[t] EXCEPT !.schedule = new] \in TaskRow /\ [tasks[t] EXCEPT !.schedule = new].next = tasks[t].next
  BY <1>1, <1>3 DEF TaskRow
<1>6. updating' \subseteq [task : Tasks, asked : Schedule]
  BY <1>3, <1>4 DEF BooksIInv, Types
<1>7. /\ tasks' = [tasks EXCEPT ![t] = [tasks[t] EXCEPT !.schedule = new]]
      /\ UNCHANGED <<now, runs, sched, worker, unset, crashes>>
  BY <1>4 DEF Edit, past
<1> QED
  BY <1>5, <1>6, <1>7, EditedRow

LEMMA SetNextRunEdits ==
  ASSUME BooksIInv, SetNextRun
  PROVE  \E t \in Tasks : Edited(t)
<1>1. PICK u \in updating :
        /\ updating' = updating \ {u}
        /\ \E next \in IF NextRun(u.asked, now) # 0 THEN {NextRun(u.asked, now)}
                        ELSE {tasks[u.task].next, now + AnHour} :
             tasks' = [tasks EXCEPT ![u.task].next = next] \/ UNCHANGED tasks
  BY Zenon DEF SetNextRun
<1>2. /\ u.task \in Tasks /\ u.asked \in Schedule /\ tasks[u.task] \in TaskRow /\ now \in Nat
      /\ updating' \subseteq [task : Tasks, asked : Schedule]
  BY <1>1 DEF BooksIInv, Types
<1>3. NextRun(u.asked, now) \in Nat /\ (NextRun(u.asked, now) = 0 \/ NextRun(u.asked, now) > now)
  BY <1>2, NextRunLater
<1>4. PICK next : /\ tasks' = [tasks EXCEPT ![u.task].next = next] \/ UNCHANGED tasks
                  /\ next \in Nat /\ (next = tasks[u.task].next \/ next > now)
  <2>1. tasks[u.task].next \in Nat /\ now + AnHour \in Nat /\ now + AnHour > now
    BY <1>2, SchedulerAssumption DEF TaskRow
  <2> QED
    BY <1>1, <1>3, <2>1
<1>5. [tasks[u.task] EXCEPT !.next = next] \in TaskRow /\ [tasks[u.task] EXCEPT !.next = next].next = next
  BY <1>2, <1>4 DEF TaskRow
<1>6. \/ tasks' = [tasks EXCEPT ![u.task] = [tasks[u.task] EXCEPT !.next = next]]
      \/ tasks' = [tasks EXCEPT ![u.task] = tasks[u.task]]
  BY <1>2, <1>4 DEF BooksIInv, Types
<1>7. unset \subseteq unset' /\ UNCHANGED <<now, runs, sched, worker, crashes>>
  BY DEF SetNextRun
<1> QED
  BY <1>2, <1>4, <1>5, <1>6, <1>7, EditedRow

-----------------------------------------------------------------------------
(* One run per tick.                                                       *)

\* Runs and times are numbers.
LEMMA TickTypes ==
  ASSUME BooksIInv
  PROVE  /\ now \in Nat /\ sched.at \in Nat
         /\ \A i \in DOMAIN runs : runs[i].at \in Nat /\ runs[i].task \in Tasks
         /\ \A t \in Tasks : tasks[t].next \in Nat
<1>1. \A i \in DOMAIN runs : runs[i] \in Run
  BY DEF BooksIInv, Types
<1>2. \A t \in Tasks : tasks[t] \in TaskRow
  BY DEF BooksIInv, Types
<1>3. now \in Nat /\ sched.at \in Nat
  BY DEF BooksIInv, Types, Tick
<1> QED
  BY <1>1, <1>2, <1>3 DEF Run, TaskRow

\* A step that starts no run and ends no entry may move next_run into the future only.
LEMMA TickSame ==
  ASSUME RunsIInv, BooksIInv', crashes' = crashes, now' >= now, unset \subseteq unset',
         DOMAIN runs' = DOMAIN runs,
         \A i \in DOMAIN runs : /\ runs'[i].task = runs[i].task /\ runs'[i].at = runs[i].at
                                /\ runs'[i].periodic = runs[i].periodic,
         \A t \in Tasks : tasks'[t].next \in {tasks[t].next, 0} \/ tasks'[t].next > now,
         InTick' <=> InTick,
         InTick => /\ sched'.at = sched.at /\ sched'.due = sched.due
                   /\ \A d \in sched.due : At(d)' <=> At(d)
  PROVE  RunsIInv'
<1>1. /\ now \in Nat /\ now' \in Nat /\ sched.at \in Nat
      /\ \A i \in DOMAIN runs : runs[i].at \in Nat /\ runs[i].task \in Tasks
      /\ \A t \in Tasks : tasks[t].next \in Nat /\ tasks'[t].next \in Nat
  <2>1. now' \in Nat /\ \A t \in Tasks : tasks'[t].next \in Nat
    BY DEF BooksIInv, Types, TaskRow
  <2> QED
    BY <2>1, TickTypes DEF RunsIInv
<1>2. InTick' => sched'.at <= now'
  BY <1>1 DEF RunsIInv, TickIInv
<1>3. SUFFICES ASSUME crashes = 0 PROVE RunsInPast' /\ NextAhead' /\ EntriesNew' /\ OneRunPerTick'
  BY <1>2 DEF RunsIInv, TickIInv
<1>4. RunsInPast /\ NextAhead /\ EntriesNew /\ OneRunPerTick /\ (InTick => sched.at <= now)
  BY <1>3 DEF RunsIInv, TickIInv
<1>5. \A i \in DOMAIN runs : runs[i].at <= now
  BY <1>1, <1>4 DEF RunsInPast
<1>6. PeriodicRuns' = PeriodicRuns /\ PeriodicRuns \subseteq DOMAIN runs
  BY DEF PeriodicRuns
<1>7. RunsInPast'
  BY <1>1, <1>4 DEF RunsInPast
<1>8. NextAhead'
  <2> SUFFICES ASSUME NEW i \in PeriodicRuns
               PROVE  \/ tasks'[runs[i].task].next = 0 \/ tasks'[runs[i].task].next > runs[i].at
                      \/ runs[i].task \in unset'
                      \/ \E d \in sched'.due : /\ InTick' /\ At(d)' /\ d.task = runs[i].task
                                               /\ runs[i].at = sched'.at /\ NextRun(d.schedule, sched'.at) # 0
    BY <1>6 DEF NextAhead
  <2>1. i \in DOMAIN runs /\ runs[i].task \in Tasks /\ runs[i].at \in Nat
    BY <1>1, <1>6
  <2>2. CASE tasks'[runs[i].task].next > now
    BY <1>1, <1>5, <2>1, <2>2
  <2>3. CASE tasks'[runs[i].task].next = tasks[runs[i].task].next
    BY <1>4, <2>1, <2>3 DEF NextAhead
  <2> QED
    BY <2>1, <2>2, <2>3
<1>9. EntriesNew'
  BY <1>4, <1>6 DEF EntriesNew
<1>10. OneRunPerTick'
  BY <1>3, <1>4 DEF OneRunPerTick
<1> QED
  BY <1>7, <1>8, <1>9, <1>10

\* A task that is due has no periodic run of this time: its next_run would be later.
LEMMA CheckDueTasksTick == RunsIInv /\ CheckDueTasks => RunsIInv'
<1> SUFFICES ASSUME RunsIInv, CheckDueTasks PROVE RunsIInv'
  OBVIOUS
<1> DEFINE due == {[task |-> t, schedule |-> tasks[t].schedule] : t \in {u \in Tasks : Due(u)}}
<1>1. UNCHANGED <<now, tasks, runs, unset, crashes>> /\ sched.pc = "idle"
  BY DEF CheckDueTasks, past, counts
<1>2. sched' = [pc |-> "insert", at |-> now, due |-> due, task |-> 0, run |-> 0, sent |-> FALSE]
  BY DEF CheckDueTasks, Idle
<1>3. \A d \in due : d.task \in Tasks /\ Due(d.task)
  OBVIOUS
<1> HIDE DEF due
<1>4. sched'.pc = "insert" /\ sched'.at = now /\ sched'.due = due /\ InTick' /\ ~InTick
  BY <1>1, <1>2 DEF InTick
<1>5. BooksIInv'
  BY CheckDueTasksBooks DEF RunsIInv
<1>6. /\ now \in Nat /\ \A i \in DOMAIN runs : runs[i].at \in Nat /\ runs[i].task \in Tasks
      /\ \A t \in Tasks : tasks[t].next \in Nat
  BY TickTypes DEF RunsIInv
<1>7. SUFFICES ASSUME crashes = 0 PROVE RunsInPast' /\ NextAhead' /\ EntriesNew' /\ OneRunPerTick'
  BY <1>1, <1>4, <1>5, <1>6 DEF RunsIInv, TickIInv
<1>8. RunsInPast /\ NextAhead /\ OneRunPerTick
  BY <1>7 DEF RunsIInv, TickIInv
<1>9. PeriodicRuns' = PeriodicRuns /\ PeriodicRuns \subseteq DOMAIN runs
  BY <1>1 DEF PeriodicRuns
<1>10. \A i \in PeriodicRuns : tasks[runs[i].task].next = 0 \/ tasks[runs[i].task].next > runs[i].at
                               \/ runs[i].task \in unset
  BY <1>4, <1>8 DEF NextAhead
<1>11. RunsInPast'
  BY <1>1, <1>4, <1>8 DEF RunsInPast
<1>12. NextAhead'
  BY <1>1, <1>9, <1>10 DEF NextAhead
<1>13. EntriesNew'
  <2>1. \A d \in due : tasks[d.task].next # 0 /\ tasks[d.task].next <= now
    BY <1>3 DEF Due
  <2>2. \A d \in due, i \in PeriodicRuns : d.task = runs[i].task => runs[i].at # now \/ d.task \in unset
    BY <1>3, <1>6, <1>9, <1>10, <2>1
  <2> QED
    BY <1>1, <1>4, <1>9, <2>2 DEF EntriesNew
<1>14. OneRunPerTick'
  BY <1>1, <1>7, <1>8 DEF OneRunPerTick
<1> QED
  BY <1>11, <1>12, <1>13, <1>14

\* The run that is recorded is the first one of its task in this tick.
LEMMA InsertRunTick == RunsIInv /\ InsertRun => RunsIInv'
<1> SUFFICES ASSUME RunsIInv, InsertRun PROVE RunsIInv'
  OBVIOUS
<1>1. UNCHANGED <<now, tasks, unset, crashes>> /\ sched.pc = "insert"
  BY DEF InsertRun, past
<1>2. BooksIInv' /\ BooksIInv /\ Types
  BY InsertRunBooks DEF RunsIInv, BooksIInv
<1>3. PICK d \in sched.due :
        \/ /\ runs' = Append(runs, [task |-> d.task, at |-> sched.at, status |-> "running",
                                   periodic |-> NextRun(d.schedule, sched.at) # 0])
           /\ sched' = [sched EXCEPT !.pc = "send", !.task = d.task, !.run = Len(runs) + 1, !.sent = FALSE]
        \/ /\ sched' = [sched EXCEPT !.pc = "send", !.task = d.task, !.run = 0, !.sent = FALSE]
           /\ UNCHANGED runs
  BY Zenon DEF InsertRun
<1>4. /\ sched'.pc = "send" /\ sched'.at = sched.at /\ sched'.due = sched.due /\ sched'.task = d.task
      /\ InTick /\ InTick' /\ \A e \in sched.due : ~At(e) /\ (At(e)' <=> e.task = d.task)
  BY <1>1, <1>2, <1>3 DEF Types, Tick, InTick, At
<1>5. /\ now \in Nat /\ sched.at \in Nat /\ sched.at <= now
      /\ \A i \in DOMAIN runs : runs[i].at \in Nat /\ runs[i].task \in Tasks
  BY <1>2, <1>4, TickTypes DEF RunsIInv, TickIInv
<1>6. SUFFICES ASSUME crashes = 0 PROVE RunsInPast' /\ NextAhead' /\ EntriesNew' /\ OneRunPerTick'
  BY <1>1, <1>2, <1>4, <1>5 DEF RunsIInv, TickIInv
<1>7. RunsInPast /\ NextAhead /\ EntriesNew /\ OneRunPerTick
  BY <1>6 DEF RunsIInv, TickIInv
<1>8. \A i \in PeriodicRuns : tasks[runs[i].task].next = 0 \/ tasks[runs[i].task].next > runs[i].at
                              \/ runs[i].task \in unset
  BY <1>4, <1>7 DEF NextAhead
<1>9. \A e \in sched.due, i \in PeriodicRuns : e.task = runs[i].task =>
         runs[i].at # sched.at \/ e.task \in unset
  BY <1>4, <1>7 DEF EntriesNew
<1>10. CASE UNCHANGED runs
  <2>1. PeriodicRuns' = PeriodicRuns
    BY <1>10 DEF PeriodicRuns
  <2>2. RunsInPast' /\ OneRunPerTick'
    BY <1>1, <1>4, <1>6, <1>7, <1>10 DEF RunsInPast, OneRunPerTick
  <2>3. NextAhead' /\ EntriesNew'
    BY <1>1, <1>4, <1>8, <1>9, <1>10, <2>1 DEF NextAhead, EntriesNew
  <2> QED
    BY <2>2, <2>3
<1>11. CASE runs' = Append(runs, [task |-> d.task, at |-> sched.at, status |-> "running",
                                  periodic |-> NextRun(d.schedule, sched.at) # 0])
  <2> DEFINE n == Len(runs) + 1
             run == [task |-> d.task, at |-> sched.at, status |-> "running",
                     periodic |-> NextRun(d.schedule, sched.at) # 0]
  <2>1. /\ run.task = d.task /\ run.at = sched.at
        /\ run.periodic <=> NextRun(d.schedule, sched.at) # 0
    OBVIOUS
  <2>2. /\ DOMAIN runs = 1..Len(runs) /\ DOMAIN runs' = 1..n /\ Len(runs) \in Nat
        /\ \A i \in DOMAIN runs : runs'[i] = runs[i]
        /\ runs'[n] = run
    BY <1>2, <1>11 DEF Types
  <2> HIDE DEF run
  <2>3. \A i \in DOMAIN runs' : i = n \/ i \in DOMAIN runs
    BY <2>2
  <2>4. \A i \in PeriodicRuns' : i = n \/ (i \in PeriodicRuns /\ runs'[i] = runs[i])
    BY <2>2, <2>3 DEF PeriodicRuns
  <2>5. n \in PeriodicRuns' => NextRun(d.schedule, sched.at) # 0
    BY <2>1, <2>2 DEF PeriodicRuns
  <2>6. RunsInPast'
    BY <1>4, <1>5, <1>7, <2>1, <2>2, <2>3 DEF RunsInPast
  <2>7. NextAhead'
    <3> SUFFICES ASSUME NEW i \in PeriodicRuns'
                 PROVE  \/ tasks[runs'[i].task].next = 0 \/ tasks[runs'[i].task].next > runs'[i].at
                        \/ runs'[i].task \in unset
                        \/ \E e \in sched.due : /\ At(e)' /\ e.task = runs'[i].task
                                                /\ runs'[i].at = sched.at /\ NextRun(e.schedule, sched.at) # 0
      BY <1>1, <1>4 DEF NextAhead
    <3>1. CASE i = n
      BY <1>4, <2>1, <2>2, <2>5, <3>1
    <3>2. CASE i \in PeriodicRuns /\ runs'[i] = runs[i]
      BY <1>8, <3>2
    <3> QED
      BY <2>4, <3>1, <3>2
  <2>8. EntriesNew'
    <3>1. \A e \in sched.due, i \in PeriodicRuns' :
            e.task # d.task /\ e.task = runs'[i].task =>
              runs'[i].at # sched.at \/ e.task \in unset
      BY <1>9, <2>1, <2>2, <2>4
    <3> QED
      BY <1>1, <1>4, <3>1 DEF EntriesNew
  <2>9. OneRunPerTick'
    <3> SUFFICES ASSUME NEW i \in DOMAIN runs', NEW j \in DOMAIN runs', i < j,
                        runs'[i].task = runs'[j].task, runs'[i].periodic,
                        runs'[i].task \notin unset
                 PROVE  runs'[i].at # runs'[j].at
      BY <1>1 DEF OneRunPerTick
    <3>1. i \in DOMAIN runs /\ i \in PeriodicRuns
      BY <2>2, <2>3 DEF PeriodicRuns
    <3>2. CASE j = n
      BY <1>9, <2>1, <2>2, <3>1, <3>2
    <3>3. CASE j \in DOMAIN runs
      BY <1>6, <1>7, <2>2, <3>1, <3>3 DEF OneRunPerTick
    <3> QED
      BY <2>3, <3>2, <3>3
  <2> QED
    BY <2>6, <2>7, <2>8, <2>9
<1> QED
  BY <1>3, <1>10, <1>11

\* The entry ends with next_run after this tick, or with a task that is disabled and
\* had no schedule.
LEMMA UpdateNextRunTick == RunsIInv /\ UpdateNextRun => RunsIInv'
<1> SUFFICES ASSUME RunsIInv, UpdateNextRun PROVE RunsIInv'
  OBVIOUS
<1> DEFINE d == CHOOSE e \in sched.due : e.task = sched.task
           next == NextRun(d.schedule, sched.at)
           left == sched.due \ {d}
<1>1. UNCHANGED <<now, runs, crashes>> /\ unset \subseteq unset' /\ sched.pc = "next"
  BY DEF UpdateNextRun
<1>2. BooksIInv' /\ BooksIInv /\ Types
  BY UpdateNextRunBooks DEF RunsIInv, BooksIInv
<1>3. d \in sched.due /\ d.task = sched.task /\ d.task \in Tasks /\ d.schedule \in Schedule
  BY <1>1, <1>2, EntryOfTask
<1>4. /\ \/ tasks' = IF next # 0 THEN [tasks EXCEPT ![d.task].next = next]
                                 ELSE [tasks EXCEPT ![d.task].enabled = FALSE]
         \/ UNCHANGED tasks /\ d.task \in unset'
      /\ sched' = IF left = {} THEN Idle ELSE [sched EXCEPT !.pc = "insert", !.due = left]
  BY DEF UpdateNextRun
<1> HIDE DEF d
<1>5. /\ now \in Nat /\ sched.at \in Nat
      /\ \A i \in DOMAIN runs : runs[i].at \in Nat /\ runs[i].task \in Tasks
      /\ \A t \in Tasks : tasks[t].next \in Nat
  BY <1>2, TickTypes
<1>6. next \in Nat /\ (next = 0 \/ next > sched.at)
  BY <1>3, <1>5, NextRunLater
<1> HIDE DEF next
<1>7. /\ InTick /\ sched.at <= now
      /\ \A e \in sched.due : At(e) <=> e = d
  BY <1>1, <1>2, <1>3 DEF InTick, At, RunsIInv, TickIInv, BooksIInv, DueOnce
<1>8. /\ InTick' => sched'.at = sched.at /\ sched'.due = left
      /\ sched'.pc \in {"idle", "insert"}
      /\ \A e : ~At(e)'
  <2>1. CASE left = {}
    BY <1>4, <2>1 DEF Idle, InTick, At
  <2>2. CASE left # {}
    BY <1>2, <1>4, <2>2 DEF Types, InTick, At
  <2> QED
    BY <2>1, <2>2
<1>9. /\ \A t \in Tasks : t # d.task => tasks'[t].next = tasks[t].next
      /\ next # 0 => tasks'[d.task].next = next \/ d.task \in unset'
      /\ next = 0 => tasks'[d.task].next = tasks[d.task].next
  <2>1. tasks \in [Tasks -> TaskRow] /\ tasks[d.task] \in TaskRow
    BY <1>2, <1>3 DEF Types
  <2> QED
    BY <1>3, <1>4, <2>1 DEF TaskRow
<1>10. SUFFICES ASSUME crashes = 0 PROVE RunsInPast' /\ NextAhead' /\ EntriesNew' /\ OneRunPerTick'
  BY <1>1, <1>2, <1>7, <1>8 DEF RunsIInv, TickIInv
<1>11. RunsInPast /\ NextAhead /\ EntriesNew /\ OneRunPerTick
  BY <1>10 DEF RunsIInv, TickIInv
<1>12. PeriodicRuns' = PeriodicRuns /\ PeriodicRuns \subseteq DOMAIN runs
  BY <1>1 DEF PeriodicRuns
<1>13. \A i \in DOMAIN runs : runs[i].at <= sched.at /\ runs[i].at <= now
  BY <1>5, <1>7, <1>11 DEF RunsInPast
<1>14. RunsInPast'
  BY <1>1, <1>8, <1>13 DEF RunsInPast
<1>15. NextAhead'
  <2> SUFFICES ASSUME NEW i \in PeriodicRuns
               PROVE  \/ tasks'[runs[i].task].next = 0 \/ tasks'[runs[i].task].next > runs[i].at
                      \/ runs[i].task \in unset'
    BY <1>1, <1>12 DEF NextAhead
  <2>1. runs[i].task \in Tasks /\ runs[i].at \in Nat /\ runs[i].at <= sched.at
    BY <1>5, <1>12, <1>13
  <2>2. CASE runs[i].task # d.task
    BY <1>1, <1>7, <1>9, <1>11, <2>1, <2>2 DEF NextAhead
  <2>3. CASE runs[i].task = d.task /\ next # 0
    BY <1>5, <1>6, <1>9, <2>1, <2>3
  <2>4. CASE runs[i].task = d.task /\ next = 0
    <3>1. tasks[d.task].next = 0 \/ tasks[d.task].next > runs[i].at \/ d.task \in unset
      BY <1>7, <1>11, <2>4 DEF NextAhead, next
    <3> QED
      BY <1>1, <1>9, <2>4, <3>1
  <2> QED
    BY <2>2, <2>3, <2>4
<1>16. EntriesNew'
  BY <1>1, <1>7, <1>8, <1>11, <1>12 DEF EntriesNew
<1>17. OneRunPerTick'
  BY <1>1, <1>10, <1>11 DEF OneRunPerTick
<1> QED
  BY <1>14, <1>15, <1>16, <1>17

-----------------------------------------------------------------------------
LEMMA InitTick == Init => RunsIInv
<1> SUFFICES ASSUME Init PROVE RunsIInv
  OBVIOUS
<1>1. BooksIInv
  BY InitBooks
<1>2. DOMAIN runs = {} /\ sched.pc = "start"
  BY DEF Init, Idle
<1> QED
  BY <1>1, <1>2 DEF RunsIInv, TickIInv, InTick, RunsInPast, NextAhead, EntriesNew,
                    OneRunPerTick, PeriodicRuns

\* The steps of the scheduler that are left, and those of the worker.
LEMMA RunningTick ==
  ASSUME RunsIInv,
         Dispatch \/ DispatchFails \/ InitializeNextRun \/ TakeTask \/ TaskEnds \/ LeavingTaskEnds
         \/ StopSite \/ WorkerReturns
  PROVE  RunsIInv'
<1>1. BooksIInv /\ Types /\ lost \subseteq DOMAIN runs /\ now \in Nat /\ sched.run \in Nat
  BY SchedFields, TickTypes DEF RunsIInv, BooksIInv, Types
<1>2. BooksIInv' /\ now' = now /\ crashes' = crashes /\ unset \subseteq unset'
  BY <1>1, DispatchBooks, DispatchFailsBooks, InitializeNextRunBooks, TakeTaskBooks, TaskEndsBooks,
     LeavingTaskEndsBooks, StopSiteBooks, WorkerReturnsBooks
     DEF Dispatch, DispatchFails, InitializeNextRun, TakeTask, TaskEnds, LeavingTaskEnds, StopSite, WorkerReturns,
         counts, past
<1>3. /\ DOMAIN runs' = DOMAIN runs
      /\ \A i \in DOMAIN runs : /\ runs'[i].task = runs[i].task /\ runs'[i].at = runs[i].at
                                /\ runs'[i].periodic = runs[i].periodic
  <2>1. CASE UNCHANGED runs
    BY <2>1
  <2>2. CASE \E r \in {0} \cup DOMAIN runs, status \in {"completed", "failed"} : Settle(r, status)
    BY <1>1, <2>2, Settled DEF Types
  <2>3. \A r \in Executing \cup Dispatching \cup {0} : r \in {0} \cup DOMAIN runs
    BY <1>1 DEF BooksIInv, HeldRecorded
  <2>4. CASE DispatchFails
    <3>1. sched.run \in Dispatching \cup {0} /\ Settle(sched.run, "failed")
      BY <1>1, <2>4 DEF DispatchFails, Dispatching
    <3> QED
      BY <2>2, <2>3, <3>1
  <2>5. CASE TaskEnds
    <3>1. busy.run \in Executing \cup {0}
      BY DEF Executing
    <3> QED
      BY <2>2, <2>3, <2>5, <3>1 DEF TaskEnds
  <2>6. CASE LeavingTaskEnds
    <3>1. \A c \in leaving : c.run \in Executing \cup {0}
      BY DEF Executing
    <3> QED
      BY <2>2, <2>3, <2>6, <3>1 DEF LeavingTaskEnds
  <2> QED
    BY <2>1, <2>4, <2>5, <2>6 DEF Dispatch, InitializeNextRun, TakeTask, StopSite, WorkerReturns
<1>4. /\ InTick' <=> InTick
      /\ InTick => /\ sched'.at = sched.at /\ sched'.due = sched.due
                   /\ \A e \in sched.due : At(e)' <=> At(e)
  <2>1. CASE Dispatch \/ DispatchFails
    <3>1. /\ sched.pc = "send"
          /\ \/ sched' = [sched EXCEPT !.pc = "next"]
             \/ sched' = [sched EXCEPT !.pc = "next", !.sent = TRUE]
      BY <2>1 DEF Dispatch, DispatchFails
    <3> QED
      BY <1>1, <3>1 DEF Types, Tick, InTick, At
  <2>2. CASE InitializeNextRun
    BY <2>2 DEF InitializeNextRun, Idle, InTick
  <2>3. CASE UNCHANGED sched
    BY <2>3 DEF InTick, At
  <2> QED
    BY <2>1, <2>2, <2>3 DEF TakeTask, TaskEnds, LeavingTaskEnds, StopSite, WorkerReturns
<1>5. \A t \in Tasks : tasks'[t].next \in {tasks[t].next, 0} \/ tasks'[t].next > now
  <2>1. CASE InitializeNextRun
    <3> SUFFICES ASSUME NEW t \in Tasks
                 PROVE  tasks'[t].next \in {tasks[t].next, 0} \/ tasks'[t].next > now
      OBVIOUS
    <3> DEFINE next == NextRun(tasks[t].schedule, now)
    <3>1. tasks[t] \in TaskRow /\ tasks[t].schedule \in Schedule
      BY <1>1 DEF Types, TaskRow
    <3>2. next = 0 \/ next > now
      BY <1>1, <3>1, NextRunLater
    <3>3. tasks'[t] = tasks[t] \/ tasks'[t] = [tasks[t] EXCEPT !.next = next]
      BY <2>1 DEF InitializeNextRun
    <3> HIDE DEF next
    <3>4. [tasks[t] EXCEPT !.next = next].next = next
      BY <3>1 DEF TaskRow
    <3> QED
      BY <3>2, <3>3, <3>4
  <2> QED
    BY <2>1 DEF Dispatch, DispatchFails, TakeTask, TaskEnds, LeavingTaskEnds, StopSite, WorkerReturns
<1> QED
  BY <1>1, <1>2, <1>3, <1>4, <1>5, TickSame

\* Edits, the clock and the start of a worker.
LEMMA OthersTick ==
  ASSUME RunsIInv,
         Clock \/ StartSite \/ UNCHANGED vars \/ \E t \in Tasks : Edited(t)
  PROVE  RunsIInv'
<1>1. BooksIInv /\ Types /\ now \in Nat
  BY TickTypes DEF RunsIInv, BooksIInv
<1>2. /\ UNCHANGED <<runs, sched, queue, busy, leaving, lost, crashes>>
      /\ unset \subseteq unset' /\ handle' \in BOOLEAN /\ alive' \in BOOLEAN /\ now' \in 1..MaxTime /\ now' >= now
      /\ updating' \subseteq [task : Tasks, asked : Schedule]
  <2>1. CASE Clock
    BY <1>1, <2>1, SchedulerAssumption DEF Clock, worker, past, counts, Types
  <2>2. CASE StartSite
    BY <1>1, <2>2 DEF StartSite, past, counts, Types
  <2>3. CASE UNCHANGED vars
    BY <1>1, <2>3 DEF vars, worker, past, counts, Types
  <2>4. CASE \E t \in Tasks : Edited(t)
    BY <1>1, <2>4 DEF Edited, worker, Types
  <2> QED
    BY <2>1, <2>2, <2>3, <2>4
<1>3. /\ tasks' \in [Tasks -> TaskRow]
      /\ \A t \in Tasks : tasks'[t].next \in {tasks[t].next, 0} \/ tasks'[t].next > now
  <2>1. CASE UNCHANGED tasks
    BY <1>1, <2>1 DEF Types
  <2>2. CASE \E t \in Tasks : Edited(t)
    BY <2>2 DEF Edited
  <2> QED
    BY <2>1, <2>2 DEF Clock, StartSite, vars
<1>4. BooksIInv'
  BY <1>1, <1>2, <1>3, OthersBooks
<1>5. InTick' = InTick /\ \A d \in sched.due : At(d)' <=> At(d)
  BY <1>2 DEF InTick, At
<1> QED
  BY <1>2, <1>3, <1>4, <1>5, TickSame

LEMMA CrashTick == RunsIInv /\ Crash => RunsIInv'
<1> SUFFICES ASSUME RunsIInv, Crash PROVE RunsIInv'
  OBVIOUS
<1>1. BooksIInv'
  BY CrashBooks DEF RunsIInv
<1>2. crashes' # 0 /\ sched'.pc = "start"
  BY DEF Crash, Idle, RunsIInv, BooksIInv, Types
<1> QED
  BY <1>1, <1>2 DEF RunsIInv, TickIInv, InTick

LEMMA TickKeeps == RunsIInv /\ [Next]_vars => RunsIInv'
<1> SUFFICES ASSUME RunsIInv, [Next]_vars PROVE RunsIInv'
  OBVIOUS
<1>1. CASE SchedulerStep
  BY <1>1, CheckDueTasksTick, InsertRunTick, UpdateNextRunTick, RunningTick DEF SchedulerStep
<1>2. CASE WorkerStep \/ StopSite \/ WorkerReturns
  BY <1>2, RunningTick DEF WorkerStep
<1>3. CASE Clock \/ StartSite \/ UNCHANGED vars
  BY <1>3, OthersTick
<1>4. CASE SetNextRun \/ \E t \in Tasks : Create(t) \/ Delete(t) \/ Toggle(t) \/ Update(t)
  <2>1. BooksIInv
    BY DEF RunsIInv
  <2>2. \E t \in Tasks : Edited(t)
    BY <1>4, <2>1, SetNextRunEdits, CreateEdits, DeleteToggleEdits, UpdateEdits
  <2> QED
    BY <2>2, OthersTick
<1>5. CASE Crash
  BY <1>5, CrashTick
<1> QED
  BY <1>1, <1>2, <1>3, <1>4, <1>5 DEF Next

-----------------------------------------------------------------------------
(* Tasks keep coming.                                                      *)

\* Whether a schedule asks for a time does not depend on when it is asked.
LEMMA NextRunAlways ==
  ASSUME NEW s \in Schedule, NEW t \in Nat, NEW u \in Nat
  PROVE  NextRun(s, t) = 0 <=> NextRun(s, u) = 0
<1>1. s.cron \in Crons \cup {0} /\ s.interval \in Intervals \cup {0}
  BY DEF Schedule
<1>2. (\A c \in Crons \cup {0} : c \in Nat) /\ (\A i \in Intervals \cup {0} : i \in Nat)
  BY SchedulerAssumption
<1>3. s.cron \in Nat /\ s.interval \in Nat
  BY <1>1, <1>2, Zenon
<1> QED
  BY <1>3 DEF NextRun

\* A task that has a schedule and no next_run.
Stranded(t) == tasks[t].row = "live" /\ Periodic(t) /\ tasks[t].next = 0

\* A step that strands no task and withdraws no reason for being stranded.
LEMMA ComingSame ==
  ASSUME BooksIInv, BooksIInv', ComingIInv, \A t \in Tasks : Stranded(t)' => Stranded(t),
         updating \subseteq updating', unset \subseteq unset',
         sched.pc = "start" => sched'.pc = "start"
  PROVE  ComingIInv'
<1> SUFFICES ASSUME NEW t \in Tasks, Stranded(t)'
             PROVE  Asked(t)' \/ t \in unset' \/ sched'.pc = "start"
  BY DEF ComingIInv, Stranded
<1>1. Asked(t) \/ t \in unset \/ sched.pc = "start"
  BY DEF ComingIInv, Stranded
<1>2. ASSUME Asked(t) PROVE Asked(t)'
  <2>1. PICK u \in updating : u.task = t /\ NextRun(u.asked, now) # 0
    BY <1>2 DEF Asked
  <2>2. u.asked \in Schedule /\ now \in Nat /\ now' \in Nat
    BY <2>1 DEF BooksIInv, Types
  <2> QED
    BY <2>1, <2>2, NextRunAlways DEF Asked
<1> QED
  BY <1>1, <1>2

\* A task is as stranded as its row, whatever the time.
LEMMA StrandedSame ==
  ASSUME BooksIInv, BooksIInv', NEW t \in Tasks, Stranded(t)',
         tasks[t].row = "live", tasks[t].schedule = tasks'[t].schedule, tasks[t].next = tasks'[t].next
  PROVE  Stranded(t)
<1>1. tasks[t].schedule \in Schedule /\ now \in Nat /\ now' \in Nat
  BY DEF BooksIInv, Types, TaskRow
<1> QED
  BY <1>1, NextRunAlways DEF Stranded, Periodic

LEMMA UnchangedTasksComing ==
  ASSUME BooksIInv, BooksIInv', ComingIInv, UNCHANGED tasks,
         updating \subseteq updating', unset \subseteq unset', sched.pc = "start" => sched'.pc = "start"
  PROVE  ComingIInv'
<1>1. ASSUME NEW t \in Tasks, Stranded(t)' PROVE Stranded(t)
  <2>1. tasks[t].row = "live"
    BY <1>1 DEF Stranded
  <2> QED
    BY <1>1, <2>1, StrandedSame
<1> QED
  BY <1>1, ComingSame

LEMMA InitializeNextRunComing ==
  ASSUME BooksIInv, BooksIInv', ComingIInv, InitializeNextRun
  PROVE  ComingIInv'
<1> SUFFICES ASSUME NEW t \in Tasks, Stranded(t)'
             PROVE  t \in unset'
  BY DEF ComingIInv, Stranded
<1> DEFINE left == {u \in Tasks : tasks[u].row = "live" /\ tasks[u].next = 0 /\ Periodic(u)}
<1>1. PICK done \in SUBSET left :
        /\ tasks' = [u \in Tasks |-> IF u \in done
                                      THEN [tasks[u] EXCEPT !.next = NextRun(tasks[u].schedule, now)]
                                      ELSE tasks[u]]
        /\ unset' = unset \cup (left \ done)
  BY Zenon DEF InitializeNextRun
<1>2. tasks[t] \in TaskRow /\ now' = now
  BY DEF BooksIInv, Types, InitializeNextRun
<1>3. t \notin done
  <2> SUFFICES ASSUME t \in done PROVE FALSE
    OBVIOUS
  <2>1. tasks'[t] = [tasks[t] EXCEPT !.next = NextRun(tasks[t].schedule, now)] /\ Periodic(t)
    BY <1>1
  <2>2. tasks'[t].next = NextRun(tasks[t].schedule, now)
    BY <1>2, <2>1 DEF TaskRow
  <2> QED
    BY <2>1, <2>2 DEF Stranded, Periodic
<1>4. Stranded(t)
  BY <1>1, <1>2, <1>3 DEF Stranded, Periodic
<1> QED
  BY <1>1, <1>3, <1>4 DEF Stranded

LEMMA UpdateNextRunComing ==
  ASSUME BooksIInv, BooksIInv', ComingIInv, UpdateNextRun
  PROVE  ComingIInv'
<1> DEFINE d == CHOOSE e \in sched.due : e.task = sched.task
           next == NextRun(d.schedule, sched.at)
<1>1. sched.pc = "next" /\ UNCHANGED <<now, updating>> /\ unset \subseteq unset'
  BY DEF UpdateNextRun
<1>2. \/ tasks' = IF next # 0 THEN [tasks EXCEPT ![d.task].next = next]
                              ELSE [tasks EXCEPT ![d.task].enabled = FALSE]
      \/ UNCHANGED tasks
  BY DEF UpdateNextRun
<1>3. d.task \in Tasks
  BY <1>1, EntryOfTask
<1> HIDE DEF next, d
<1>4. ASSUME NEW t \in Tasks, Stranded(t)' PROVE Stranded(t)
  <2>1. tasks \in [Tasks -> TaskRow] /\ tasks[t] \in TaskRow /\ tasks[d.task] \in TaskRow
    BY <1>3 DEF BooksIInv, Types
  <2>2. tasks'[t].row = tasks[t].row /\ tasks'[t].schedule = tasks[t].schedule
    BY <1>2, <1>3, <2>1 DEF TaskRow
  <2>3. tasks'[t].next = tasks[t].next \/ tasks'[t].next # 0
    BY <1>2, <1>3, <2>1 DEF TaskRow
  <2> QED
    BY <1>4, <2>2, <2>3, StrandedSame DEF Stranded
<1> QED
  BY <1>1, <1>4, ComingSame

LEMMA EditComing ==
  ASSUME BooksIInv, BooksIInv', ComingIInv, NEW t \in Tasks, Create(t) \/ Delete(t) \/ Toggle(t)
  PROVE  ComingIInv'
<1>1. tasks \in [Tasks -> TaskRow] /\ tasks[t] \in TaskRow
  BY DEF BooksIInv, Types
<1>2. UNCHANGED <<now, sched, updating, unset>>
  BY DEF Create, Delete, Toggle, Edit, past
<1>3. \A u \in Tasks \ {t} : tasks'[u] = tasks[u]
  BY <1>1 DEF Create, Delete, Toggle, Edit
<1>4. ASSUME Stranded(t)' PROVE Stranded(t)
  <2>1. CASE Create(t)
    <3>1. PICK s \in Schedule :
            tasks'[t] = [row |-> "live", enabled |-> TRUE, schedule |-> s, next |-> NextRun(s, now)]
      BY <1>1, <2>1 DEF Create, Edit
    <3> QED
      BY <1>2, <1>4, <3>1 DEF Stranded, Periodic
  <2>2. CASE Delete(t)
    <3>1. tasks'[t] = [tasks[t] EXCEPT !.row = "deleted"]
      BY <1>1, <2>2 DEF Delete, Edit
    <3> QED
      BY <1>1, <1>4, <3>1 DEF Stranded, TaskRow
  <2>3. CASE Toggle(t)
    <3>1. tasks'[t] = [tasks[t] EXCEPT !.enabled = ~tasks[t].enabled] /\ tasks[t].row = "live"
      BY <1>1, <2>3 DEF Toggle, Edit
    <3>2. tasks'[t].schedule = tasks[t].schedule /\ tasks'[t].next = tasks[t].next
      BY <1>1, <3>1 DEF TaskRow
    <3> QED
      BY <1>4, <3>1, <3>2, StrandedSame
  <2> QED
    BY <2>1, <2>2, <2>3
<1>5. ASSUME NEW u \in Tasks, Stranded(u)' PROVE Stranded(u)
  <2>1. CASE u # t
    <3>1. tasks'[u] = tasks[u]
      BY <1>3, <2>1
    <3>2. tasks[u].row = "live"
      BY <1>5, <3>1 DEF Stranded
    <3> QED
      BY <1>5, <3>1, <3>2, StrandedSame
  <2> QED
    BY <1>4, <1>5, <2>1
<1> QED
  BY <1>2, <1>5, ComingSame

\* An update that gives the task a schedule has yet to set its next_run.
LEMMA UpdateComing ==
  ASSUME BooksIInv, BooksIInv', ComingIInv, NEW t \in Tasks, Update(t)
  PROVE  ComingIInv'
<1>1. /\ tasks \in [Tasks -> TaskRow] /\ tasks[t] \in TaskRow /\ tasks[t].schedule \in Schedule
      /\ now \in Nat
  BY DEF BooksIInv, Types, TaskRow
<1>2. PICK s \in Schedule, columns \in {{"cron"}, {"interval"}, {"cron", "interval"}} :
        /\ Edit(t, [tasks[t] EXCEPT !.schedule = [f \in {"cron", "interval"} |->
                       IF f \in columns THEN s[f] ELSE tasks[t].schedule[f]]])
        /\ updating' = updating \cup
             {[task |-> t, asked |-> [f \in {"cron", "interval"} |-> IF f \in columns THEN s[f] ELSE 0]]}
  BY DEF Update
<1> DEFINE new == [f \in {"cron", "interval"} |-> IF f \in columns THEN s[f] ELSE tasks[t].schedule[f]]
           asked == [f \in {"cron", "interval"} |-> IF f \in columns THEN s[f] ELSE 0]
<1>3. new \in Schedule /\ asked \in Schedule
  BY <1>1, MixedSchedule
<1>4. /\ tasks' = [tasks EXCEPT ![t] = [tasks[t] EXCEPT !.schedule = new]]
      /\ updating' = updating \cup {[task |-> t, asked |-> asked]}
      /\ UNCHANGED <<now, sched, unset>> /\ tasks[t].row = "live"
  BY <1>2 DEF Edit, Update, past
<1>5. NextRun(asked, now) # 0 \/ NextRun(new, now) = 0 \/ NextRun(tasks[t].schedule, now) # 0
  <2>1. \A r \in Schedule : r.cron \in Nat /\ r.interval \in Nat
    <3> TAKE r \in Schedule
    <3>1. r.cron \in Crons \cup {0} /\ r.interval \in Intervals \cup {0}
      BY DEF Schedule
    <3>2. (\A c \in Crons \cup {0} : c \in Nat) /\ (\A i \in Intervals \cup {0} : i \in Nat)
      BY SchedulerAssumption
    <3> QED
      BY <3>1, <3>2, Zenon
  <2>2. \A r \in Schedule : NextRun(r, now) = 0 <=> r.cron = 0 /\ r.interval = 0
    BY <1>1, <2>1 DEF NextRun
  <2>3. /\ new.cron \in {asked.cron, tasks[t].schedule.cron}
        /\ new.interval \in {asked.interval, tasks[t].schedule.interval}
    OBVIOUS
  <2> HIDE DEF new, asked
  <2> QED
    BY <1>1, <1>3, <2>2, <2>3
<1> HIDE DEF new, asked
<1>6. SUFFICES ASSUME NEW u \in Tasks, Stranded(u)'
               PROVE  Asked(u)' \/ u \in unset' \/ sched'.pc = "start"
  BY DEF ComingIInv, Stranded
<1>7. Stranded(u) \/ (u = t /\ NextRun(asked, now) # 0)
  <2>1. CASE u = t
    <3>1. tasks'[t].schedule = new /\ tasks'[t].next = tasks[t].next
      BY <1>1, <1>4 DEF TaskRow
    <3>2. NextRun(new, now) # 0 /\ tasks[t].next = 0
      BY <1>4, <1>6, <2>1, <3>1 DEF Stranded, Periodic
    <3> QED
      BY <1>4, <1>5, <2>1, <3>2 DEF Stranded, Periodic
  <2>2. CASE u # t
    <3>1. tasks'[u] = tasks[u]
      BY <1>1, <1>4, <2>2
    <3> QED
      BY <1>4, <1>6, <3>1 DEF Stranded, Periodic
  <2> QED
    BY <2>1, <2>2
<1>8. CASE Stranded(u)
  <2>1. Asked(u) \/ u \in unset \/ sched.pc = "start"
    BY <1>8 DEF ComingIInv, Stranded
  <2>2. Asked(u) => Asked(u)'
    BY <1>4 DEF Asked
  <2> QED
    BY <1>4, <2>1, <2>2
<1>9. CASE u = t /\ NextRun(asked, now) # 0
  <2>1. PICK w \in updating' : w.task = t /\ w.asked = asked
    <3> DEFINE w == [task |-> t, asked |-> asked]
    <3>1. w.task = t /\ w.asked = asked
      OBVIOUS
    <3>2. w \in updating'
      BY <1>4
    <3> HIDE DEF w
    <3> QED
      BY <3>1, <3>2
  <2> QED
    BY <1>4, <1>9, <2>1, Zenon DEF Asked
<1> QED
  BY <1>7, <1>8, <1>9

\* An update that ends has set next_run if it was asked for a schedule, or has lost it.
LEMMA SetNextRunComing ==
  ASSUME BooksIInv, BooksIInv', ComingIInv, SetNextRun
  PROVE  ComingIInv'
<1>1. PICK u \in updating :
        /\ updating' = updating \ {u}
        /\ \E next \in IF NextRun(u.asked, now) # 0 THEN {NextRun(u.asked, now)}
                        ELSE {tasks[u.task].next, now + AnHour} :
             \/ tasks' = [tasks EXCEPT ![u.task].next = next] /\ UNCHANGED unset
             \/ UNCHANGED tasks /\ unset' = unset \cup {u.task}
  BY Zenon DEF SetNextRun
<1>2. UNCHANGED <<now, sched>> /\ unset \subseteq unset'
  BY DEF SetNextRun
<1>3. /\ tasks \in [Tasks -> TaskRow] /\ u.task \in Tasks /\ tasks[u.task] \in TaskRow /\ now \in Nat
      /\ AnHour # 0 /\ now + AnHour # 0
  BY <1>1, SchedulerAssumption DEF BooksIInv, Types
<1>4. PICK next :
        /\ \/ tasks' = [tasks EXCEPT ![u.task].next = next]
           \/ UNCHANGED tasks /\ u.task \in unset'
        /\ next # 0 \/ (NextRun(u.asked, now) = 0 /\ next = tasks[u.task].next)
  BY <1>1, <1>3
<1> SUFFICES ASSUME NEW t \in Tasks, Stranded(t)'
             PROVE  Asked(t)' \/ t \in unset' \/ sched'.pc = "start"
  BY DEF ComingIInv, Stranded
<1>5. CASE u.task # t
  <2>1. tasks'[t] = tasks[t]
    BY <1>3, <1>4, <1>5
  <2>2. Stranded(t)
    BY <1>2, <2>1 DEF Stranded, Periodic
  <2>3. Asked(t) \/ t \in unset \/ sched.pc = "start"
    BY <2>2 DEF ComingIInv, Stranded
  <2>4. Asked(t) => Asked(t)'
    BY <1>1, <1>2, <1>5 DEF Asked
  <2> QED
    BY <1>2, <2>3, <2>4
<1>6. CASE u.task = t /\ t \notin unset'
  <2>1. tasks' = [tasks EXCEPT ![t].next = next]
    BY <1>4, <1>6
  <2>2. tasks'[t].next = next /\ tasks'[t].row = tasks[t].row /\ tasks'[t].schedule = tasks[t].schedule
    BY <1>3, <1>6, <2>1 DEF TaskRow
  <2>3. next = 0 /\ NextRun(u.asked, now) = 0 /\ tasks[t].next = 0
    BY <1>4, <1>6, <2>2 DEF Stranded
  <2>4. Stranded(t)
    BY <1>2, <2>2, <2>3 DEF Stranded, Periodic
  <2>5. Asked(t) \/ t \in unset \/ sched.pc = "start"
    BY <2>4 DEF ComingIInv, Stranded
  <2>6. Asked(t) => Asked(t)'
    BY <1>1, <1>2, <2>3 DEF Asked
  <2> QED
    BY <1>2, <2>5, <2>6
<1> QED
  BY <1>5, <1>6

LEMMA ComingKeeps ==
  ASSUME BooksIInv, BooksIInv', ComingIInv, [Next]_vars
  PROVE  ComingIInv'
<1>1. CASE CheckDueTasks \/ InsertRun \/ Dispatch \/ DispatchFails
  <2>1. UNCHANGED <<tasks, updating, unset>> /\ sched.pc # "start"
    <3>1. CASE InsertRun
      BY <3>1, Zenon DEF InsertRun, past
    <3> QED
      BY <1>1, <3>1 DEF CheckDueTasks, Dispatch, DispatchFails, past, counts
  <2> QED
    BY <2>1, UnchangedTasksComing
<1>2. CASE WorkerStep \/ StopSite \/ StartSite \/ WorkerReturns \/ Clock \/ UNCHANGED vars
  BY <1>2, UnchangedTasksComing
     DEF WorkerStep, TakeTask, TaskEnds, LeavingTaskEnds, StopSite, StartSite, WorkerReturns, Clock, vars, past, counts
<1>3. CASE Crash
  <2>1. sched'.pc = "start"
    BY <1>3 DEF Crash, Idle
  <2> QED
    BY <2>1 DEF ComingIInv
<1> QED
  BY <1>1, <1>2, <1>3, InitializeNextRunComing, UpdateNextRunComing, SetNextRunComing, EditComing, UpdateComing
     DEF Next, SchedulerStep

-----------------------------------------------------------------------------
LEMMA InitInv == Init => SchedulerIInv
<1>1. Init => ComingIInv
  BY DEF Init, ComingIInv, Idle
<1> QED
  BY <1>1, InitTick DEF SchedulerIInv

LEMMA StepKeeps == SchedulerIInv /\ [Next]_vars => SchedulerIInv'
  BY TickKeeps, ComingKeeps DEF SchedulerIInv, RunsIInv

\* The inductive invariant: the books of the runs, where the runs of a task stand with
\* respect to its next_run, and what will set the next_run a task has not got.
THEOREM SchedulerInvariant == Spec => []SchedulerIInv
  BY InitInv, StepKeeps, PTL DEF Spec

\* Every run in progress is held by exactly one of the scheduler, the channel and a
\* worker, or was lost with its worker, in a crash or by an UPDATE that failed, and what
\* is held is in progress; a task with a schedule has a next_run, or an update that will
\* set it, unless an UPDATE of it was lost (scheduler.go dispatch, manager.go SendCommand,
\* pipeline.go executeScheduledTask, finalizeTaskRun, sitetasks.go Update).
THEOREM RunsAreAccountedFor == Spec => []SchedulerInv
<1>1. SchedulerIInv => SchedulerInv
  <2> SUFFICES ASSUME SchedulerIInv PROVE SchedulerInv
    OBVIOUS
  <2>1. Types /\ RunsAccountedFor /\ OneHolder
    BY DEF SchedulerIInv, RunsIInv, BooksIInv
  <2>2. \A t \in Tasks : tasks[t] \in TaskRow
    BY <2>1 DEF Types
  <2>3. \A r \in DOMAIN runs : runs[r] \in Run
    BY <2>1 DEF Types
  <2>4. TypeOK
    BY <2>1, <2>2, <2>3, SchedFields DEF Types, TypeOK, TaskRow, Run
  <2>5. KeepsComing
    <3>1. \A t \in Tasks : Asked(t) => InUpdate(t)
      BY DEF Asked, InUpdate
    <3> QED
      BY <3>1 DEF SchedulerIInv, ComingIInv, KeepsComing
  <2> QED
    BY <2>1, <2>4, <2>5 DEF SchedulerInv
<1> QED
  BY <1>1, SchedulerInvariant, PTL

\* Whatever is edited while the scheduler goes through the due tasks, and however the
\* worker is stopped and started, a task with a schedule is started once per tick, unless
\* an UPDATE of its next_run failed (scheduler.go checkDueTasksForSite).
THEOREM RunsOncePerTick == Spec => []OneRunPerTick
<1>1. SchedulerIInv => OneRunPerTick
  BY DEF SchedulerIInv, RunsIInv, TickIInv, OneRunPerTick
<1> QED
  BY <1>1, SchedulerInvariant, PTL

-----------------------------------------------------------------------------
(* Cron: division                                                          *)

LEMMA DivMod ==
  ASSUME NEW a \in Int, NEW b \in Nat \ {0}
  PROVE  /\ a \div b \in Int /\ a % b \in 0..(b - 1) /\ a % b = a - b * (a \div b)
         /\ b * (a \div b) <= a /\ a < b * (a \div b) + b
<1>1. a \div b \in Int /\ a % b \in Int /\ a % b = a - b * (a \div b)
  OBVIOUS
<1>2. a % b >= 0 /\ a % b < b
  OBVIOUS
<1>3. b * (a \div b) <= a /\ a < b * (a \div b) + b
  OBVIOUS
<1> QED
  BY <1>1, <1>2, <1>3

LEMMA Times ==
  ASSUME NEW b \in Nat \ {0}, NEW x \in Int
  PROVE  /\ b * x \in Int /\ x * b = b * x /\ b * (x + 1) = b * x + b
         /\ \A y \in Int : x <= y => b * x <= b * y
         /\ \A y \in Int : b * (x + y) = b * x + b * y
<1>1. b * x \in Int /\ x * b = b * x /\ b * (x + 1) = b * x + b
  OBVIOUS
<1>2. ASSUME NEW y \in Int, x <= y PROVE b * x <= b * y
  BY <1>2
<1>3. ASSUME NEW y \in Int PROVE b * (x + y) = b * x + b * y
  OBVIOUS
<1> QED
  BY <1>1, <1>2, <1>3

\* The quotient is the only number with its bounds.
LEMMA DivUnique ==
  ASSUME NEW a \in Int, NEW b \in Nat \ {0}, NEW q \in Int, b * q <= a, a < b * (q + 1)
  PROVE  a \div b = q
<1> DEFINE d == a \div b
<1>1. d \in Int /\ b * d <= a /\ a < b * d + b
  BY DivMod
<1> HIDE DEF d
<1>2. CASE d + 1 <= q
  BY <1>1, <1>2, Times
<1>3. CASE q + 1 <= d
  BY <1>1, <1>3, Times
<1> QED
  BY <1>1, <1>2, <1>3 DEF d

\* The quotient stays until the next multiple.
LEMMA DivSame ==
  ASSUME NEW a \in Int, NEW c \in Int, NEW b \in Nat \ {0}, a <= c, c < b * (a \div b + 1)
  PROVE  c \div b = a \div b
<1>1. a \div b \in Int /\ b * (a \div b) <= a /\ b * (a \div b) \in Int
  BY DivMod, Times
<1>2. b * (a \div b) <= c
  BY <1>1
<1> QED
  BY <1>1, <1>2, DivUnique

LEMMA DivMono ==
  ASSUME NEW a \in Int, NEW c \in Int, NEW b \in Nat \ {0}, a <= c
  PROVE  a \div b <= c \div b
<1>1. a \div b \in Int /\ c \div b \in Int /\ b * (a \div b) <= a /\ c < b * (c \div b) + b
  BY DivMod
<1>2. CASE c \div b + 1 <= a \div b
  BY <1>1, <1>2, Times
<1> QED
  BY <1>1, <1>2

\* A multiple that is added is added to the quotient.
LEMMA DivShift ==
  ASSUME NEW a \in Int, NEW m \in Int, NEW b \in Nat \ {0}, m % b = 0
  PROVE  (a + m) \div b = a \div b + m \div b
<1> DEFINE d == a \div b
           k == m \div b
<1>1. d \in Int /\ k \in Int /\ b * d <= a /\ a < b * d + b /\ m = b * k
  <2>1. m \div b \in Int /\ 0 = m - b * (m \div b) /\ b * (m \div b) \in Int
    BY DivMod, Times
  <2> QED
    BY <2>1, DivMod
<1> HIDE DEF d, k
<1>2. b * (d + k) = b * d + b * k /\ b * ((d + k) + 1) = b * (d + k) + b /\ b * d \in Int /\ b * k \in Int
  BY <1>1, Times
<1>3. b * (d + k) <= a + m /\ a + m < b * ((d + k) + 1) /\ a + m \in Int /\ d + k \in Int
  BY <1>1, <1>2
<1>4. (a + m) \div b = d + k
  BY <1>3, DivUnique
<1> QED
  BY <1>4 DEF d, k

-----------------------------------------------------------------------------
(* Cron: the fields                                                        *)

LEMMA Bounds ==
  ASSUME NEW i \in Position
  PROVE  Low[i] \in Int /\ High[i] \in Int /\ Low[i] <= High[i]
<1>1. /\ MinutesPerHour \in Nat \ {0} /\ HoursPerDay \in Nat \ {0} /\ DaysPerMonth \in Nat \ {0}
      /\ MonthsPerYear \in Nat \ {0} /\ DaysPerWeek \in Nat \ {0}
  BY CalendarAssumption
<1>2. i = 1 \/ i = 2 \/ i = 3 \/ i = 4 \/ i = 5
  BY DEF Position
<1> QED
  BY <1>1, <1>2 DEF Low, High

\* What a part says, without the parser.
AdmitsPart(p, i, v) ==
  LET from == CASE p.form = "all" -> Low[i] [] OTHER -> p.a
      to   == CASE p.form = "range" -> p.b
                [] p.form = "value" /\ p.step = NoStep -> p.a
                [] OTHER -> High[i]
  IN  /\ from <= v /\ v <= to
      /\ p.step = NoStep \/ (v - from) % p.step = 0

\* The parser says of a valid part what it says itself, and finds a value.
LEMMA PartParsed ==
  ASSUME NEW i \in Position, NEW p \in Part, ValidPart(p, i)
  PROVE  /\ \A v \in Int : v \in ParsePart(p, i) <=> AdmitsPart(p, i, v)
         /\ ParsePart(p, i) # {} /\ ParsePart(p, i) \subseteq Int
<1>1. Low[i] \in Int /\ High[i] \in Int /\ Low[i] <= High[i]
  BY Bounds
<1>2. p.a \in Int /\ p.b \in Int /\ p.step \in Nat /\ p.form \in {"all", "value", "range"}
  BY DEF Part, ValidPart
<1>3. \A v \in Int : v % 1 = 0
  BY DivMod
<1>4. \A n \in Nat \ {0} : 0 % n = 0
  <2> TAKE n \in Nat \ {0}
  <2>1. n * 0 = 0 /\ n * (0 + 1) = n
    OBVIOUS
  <2>2. 0 \div n = 0
    BY <2>1, DivUnique
  <2> QED
    BY <2>1, <2>2, DivMod
<1>5. \A a, b \in Int, n \in Nat \ {0} : a <= b => a \in Every(a, b, n) /\ Every(a, b, n) \subseteq Int
  BY <1>4 DEF Every
<1>6. CASE p.form = "all"
  <2>1. CASE p.step = NoStep
    <3>1. ParsePart(p, i) = Every(Low[i], High[i], 1)
      BY <1>6, <2>1 DEF ParsePart
    <3>2. \A v \in Int : AdmitsPart(p, i, v) <=> Low[i] <= v /\ v <= High[i]
      BY <1>6, <2>1 DEF AdmitsPart
    <3> QED
      BY <1>1, <1>3, <1>5, <3>1, <3>2 DEF Every
  <2>2. CASE p.step # NoStep
    <3>1. ParsePart(p, i) = Every(Low[i], High[i], p.step) /\ p.step \in Nat \ {0}
      BY <1>2, <1>6, <2>2 DEF ParsePart, NoStep
    <3>2. \A v \in Int : AdmitsPart(p, i, v) <=> Low[i] <= v /\ v <= High[i] /\ (v - Low[i]) % p.step = 0
      BY <1>6, <2>2 DEF AdmitsPart
    <3> QED
      BY <1>1, <1>5, <3>1, <3>2 DEF Every
  <2> QED
    BY <2>1, <2>2
<1>7. CASE p.form = "range"
  <2>1. p.a <= p.b
    BY <1>7 DEF ValidPart
  <2>2. CASE p.step = NoStep
    <3>1. ParsePart(p, i) = Every(p.a, p.b, 1)
      BY <1>7, <2>2 DEF ParsePart
    <3>2. \A v \in Int : AdmitsPart(p, i, v) <=> p.a <= v /\ v <= p.b
      BY <1>7, <2>2 DEF AdmitsPart
    <3> QED
      BY <1>2, <1>3, <1>5, <2>1, <3>1, <3>2 DEF Every
  <2>3. CASE p.step # NoStep
    <3>1. ParsePart(p, i) = Every(p.a, p.b, p.step) /\ p.step \in Nat \ {0}
      BY <1>2, <1>7, <2>3 DEF ParsePart, NoStep
    <3>2. \A v \in Int : AdmitsPart(p, i, v) <=> p.a <= v /\ v <= p.b /\ (v - p.a) % p.step = 0
      BY <1>7, <2>3 DEF AdmitsPart
    <3> QED
      BY <1>2, <1>5, <2>1, <3>1, <3>2 DEF Every
  <2> QED
    BY <2>2, <2>3
<1>8. CASE p.form = "value"
  <2>1. p.a \in Low[i]..High[i]
    BY <1>8 DEF ValidPart
  <2>2. CASE p.step = NoStep
    <3>1. ParsePart(p, i) = {p.a}
      BY <1>8, <2>1, <2>2 DEF ParsePart
    <3>2. \A v \in Int : AdmitsPart(p, i, v) <=> p.a <= v /\ v <= p.a
      BY <1>8, <2>2 DEF AdmitsPart
    <3> QED
      BY <1>2, <3>1, <3>2
  <2>3. CASE p.step # NoStep
    <3>1. ParsePart(p, i) = Every(p.a, High[i], p.step) /\ p.step \in Nat \ {0}
      BY <1>2, <1>8, <2>3 DEF ParsePart, NoStep
    <3>2. \A v \in Int : AdmitsPart(p, i, v) <=> p.a <= v /\ v <= High[i] /\ (v - p.a) % p.step = 0
      BY <1>8, <2>3 DEF AdmitsPart
    <3> QED
      BY <1>1, <1>2, <1>5, <2>1, <3>1, <3>2 DEF Every
  <2> QED
    BY <2>2, <2>3
<1> QED
  BY <1>2, <1>6, <1>7, <1>8

\* The parser says of a valid field what the field says.
LEMMA FieldParsed ==
  ASSUME NEW i \in Position, fields[i] \in SUBSET Part, fields[i] # {}, \A p \in fields[i] : ValidPart(p, i),
         NEW v \in Int
  PROVE  v \in ParseField(i) <=> Admits(i, v)
<1> DEFINE set == UNION {ParsePart(p, i) : p \in fields[i]}
<1>1. \A p \in fields[i] : ParsePart(p, i) # {} /\ (v \in ParsePart(p, i) <=> AdmitsPart(p, i, v))
  BY PartParsed
<1>2. set # {}
  BY <1>1
<1>3. v \in set <=> \E p \in fields[i] : AdmitsPart(p, i, v)
  BY <1>1
<1>4. ParseField(i) = set
  BY <1>2 DEF ParseField
<1>5. Admits(i, v) <=> \E p \in fields[i] : AdmitsPart(p, i, v)
  BY DEF Admits, AdmitsPart
<1> QED
  BY <1>3, <1>4, <1>5

-----------------------------------------------------------------------------
(* Cron: the calendar                                                      *)

LEMMA CalendarFacts ==
  /\ MinutesPerHour \in Nat \ {0} /\ MinutesPerDay \in Nat \ {0} /\ HoursPerDay \in Nat \ {0}
  /\ DaysPerMonth \in Nat \ {0} /\ MonthsPerYear \in Nat \ {0} /\ DaysPerWeek \in Nat \ {0}
  /\ HorizonDays \in Nat /\ Offsets \subseteq Nat
<1>1. /\ MinutesPerHour \in Nat \ {0} /\ HoursPerDay \in Nat \ {0} /\ DaysPerMonth \in Nat \ {0}
      /\ MonthsPerYear \in Nat \ {0} /\ DaysPerWeek \in Nat \ {0} /\ Offsets \subseteq Nat /\ HorizonDays \in Nat
  BY CalendarAssumption
<1>2. MinutesPerHour * HoursPerDay \in Nat \ {0}
  BY <1>1
<1> QED
  BY <1>1, <1>2 DEF MinutesPerDay

LEMMA ClockTypes ==
  ASSUME offset \in Nat, NEW t \in Int
  PROVE  Day(t) \in Int /\ Minute(t) \in Int /\ Hour(t) \in Int /\ MonthDay(t) \in Int /\ Month(t) \in Int
         /\ Weekday(t) \in Int
<1>1. t + offset \in Int
  BY CalendarFacts
<1>2. Day(t) \in Int /\ (t + offset) \div MinutesPerHour \in Int
  BY <1>1, CalendarFacts, DivMod DEF Day
<1>3. Day(t) \div DaysPerMonth \in Int
  BY <1>2, CalendarFacts, DivMod
<1> QED
  BY <1>1, <1>2, <1>3, CalendarFacts DEF Minute, Hour, MonthDay, Month, Weekday

\* The minutes before midnight of a day are of earlier days.
LEMMA BeforeMidnight ==
  ASSUME offset \in Nat, NEW t \in Int, NEW d \in Int
  PROVE  /\ t < Midnight(d) <=> Day(t) < d
         /\ Midnight(d) \in Int
<1> DEFINE n == MinutesPerDay
           u == t + offset
<1>1. n \in Nat \ {0} /\ u \in Int /\ offset \in Nat
  BY CalendarFacts
<1>2. Midnight(d) = n * d - offset /\ n * d \in Int
  BY <1>1, Times DEF Midnight
<1>3. Day(t) = u \div n
  BY DEF Day
<1> HIDE DEF n, u
<1>4. u \div n \in Int /\ n * (u \div n) <= u /\ u < n * (u \div n) + n /\ n * (u \div n) \in Int
  BY <1>1, DivMod, Times
<1>5. ASSUME u \div n < d PROVE u < n * d
  <2>1. n * (u \div n + 1) <= n * d /\ n * (u \div n + 1) = n * (u \div n) + n
    BY <1>1, <1>4, <1>5, Times
  <2> QED
    BY <1>1, <1>2, <1>4, <2>1
<1>6. ASSUME d <= u \div n PROVE n * d <= u
  <2>1. n * d <= n * (u \div n)
    BY <1>1, <1>4, <1>6, Times
  <2> QED
    BY <1>1, <1>2, <1>4, <2>1
<1>7. u < n * d <=> u \div n < d
  BY <1>1, <1>2, <1>4, <1>5, <1>6
<1>8. t < n * d - offset <=> u < n * d
  BY <1>1, <1>2 DEF u
<1> QED
  BY <1>1, <1>2, <1>3, <1>7, <1>8

LEMMA DaysPass ==
  ASSUME offset \in Nat, NEW c \in Int, NEW t \in Int, c <= t
  PROVE  Day(c) <= Day(t)
  BY CalendarFacts, DivMono DEF Day

\* What a jump jumps over is of the same month, day or hour.
LEMMA MonthJump ==
  ASSUME offset \in Nat, NEW c \in Int
  PROVE  /\ NextMonth(c) \in Int /\ c < NextMonth(c)
         /\ \A t \in Int : c <= t /\ t < NextMonth(c) => Month(t) = Month(c)
<1> DEFINE n == DaysPerMonth
           m == Day(c) \div n
           d == (m + 1) * n
<1>1. Day(c) \in Int /\ n \in Nat \ {0}
  BY ClockTypes, CalendarFacts
<1>2. m \in Int /\ Day(c) < n * m + n /\ n * (m + 1) = n * m + n /\ d = n * (m + 1) /\ d \in Int
  <2>1. m \in Int /\ Day(c) < n * m + n
    BY <1>1, DivMod
  <2> HIDE DEF m, n
  <2> QED
    BY <1>1, <2>1, Times
<1>3. NextMonth(c) = Midnight(d)
  BY DEF NextMonth
<1>4. NextMonth(c) \in Int /\ c < NextMonth(c)
  <2> HIDE DEF d, m, n
  <2> QED
    BY <1>1, <1>2, <1>3, BeforeMidnight
<1>5. ASSUME NEW t \in Int, c <= t, t < NextMonth(c) PROVE Month(t) = Month(c)
  <2>1. Day(t) < d /\ Day(c) <= Day(t) /\ Day(t) \in Int
    <3> HIDE DEF d, m, n
    <3> QED
      BY <1>2, <1>3, <1>5, BeforeMidnight, DaysPass, ClockTypes
  <2>2. Day(t) < n * (Day(c) \div n + 1)
    BY <1>2, <2>1
  <2>3. Day(t) \div n = Day(c) \div n
    BY <1>1, <2>1, <2>2, DivSame
  <2> QED
    BY <2>3 DEF Month
<1> QED
  BY <1>4, <1>5

LEMMA DayJump ==
  ASSUME offset \in Nat, NEW c \in Int
  PROVE  /\ NextDay(c) \in Int /\ c < NextDay(c)
         /\ \A t \in Int : c <= t /\ t < NextDay(c) => MonthDay(t) = MonthDay(c) /\ Weekday(t) = Weekday(c)
<1>1. Day(c) \in Int /\ Day(c) + 1 \in Int
  BY ClockTypes
<1>2. NextDay(c) \in Int /\ c < NextDay(c)
  BY <1>1, BeforeMidnight DEF NextDay
<1>3. ASSUME NEW t \in Int, c <= t, t < NextDay(c) PROVE Day(t) = Day(c)
  <2>1. Day(t) \in Int /\ Day(c) <= Day(t)
    BY <1>3, DaysPass, ClockTypes
  <2>2. Day(t) < Day(c) + 1
    BY <1>1, <1>3, BeforeMidnight DEF NextDay
  <2> QED
    BY <1>1, <2>1, <2>2
<1> QED
  BY <1>2, <1>3 DEF MonthDay, Weekday

\* What a jump over an hour jumps over is of the same hour, or of the first minutes of
\* the next one.
LEMMA HourJump ==
  ASSUME offset \in Nat, NEW c \in Int
  PROVE  /\ NextHour(c) \in Int /\ c < NextHour(c)
         /\ \A t \in Int : c <= t /\ t < NextHour(c) /\ Clear(t) => Hour(t) = Hour(c)
<1> DEFINE n == MinutesPerHour
           h == c \div n
           o == offset % n
           m == offset - o
<1>1. n \in Nat \ {0} /\ offset \in Int
  BY CalendarFacts
<1>2. h \in Int /\ n * h <= c /\ c < n * h + n /\ n * h \in Int /\ n * (h + 1) = n * h + n /\ (h + 1) * n = n * (h + 1)
  <2>1. h \in Int /\ n * h <= c /\ c < n * h + n
    BY <1>1, DivMod
  <2> HIDE DEF h, n
  <2> QED
    BY <1>1, <2>1, Times
<1>3. NextHour(c) = n * (h + 1) /\ NextHour(c) \in Int /\ c < NextHour(c)
  BY <1>1, <1>2 DEF NextHour
<1>4. o \in 0..(n - 1) /\ m \in Int /\ m = n * (offset \div n) /\ offset \div n \in Int /\ offset = m + o
  BY <1>1, DivMod
<1>5. ASSUME NEW t \in Int, c <= t, t < NextHour(c) PROVE t \div n = h
  BY <1>1, <1>3, <1>5, DivSame
\* The wall clock is a whole number of hours and o minutes ahead: a time of the hour h has
\* o minutes less of the wall clock's hour, or is in the first o minutes of the next.
<1>6. ASSUME NEW t \in Int, t \div n = h
      PROVE  /\ t + offset < n * (h + offset \div n + 1) => (t + offset) \div n = h + offset \div n
             /\ t + offset >= n * (h + offset \div n + 1) => Minute(t) < o
  <2> DEFINE k == offset \div n
             u == t + offset
  <2>1. n * h <= t /\ t < n * h + n /\ n * h \in Int /\ t \in Int /\ h \in Int
    BY <1>1, <1>6, DivMod, Times
  <2>2. k \in Int /\ n * k \in Int /\ offset = n * k + o /\ n * (h + k) = n * h + n * k
        /\ n * ((h + k) + 1) = n * (h + k) + n /\ h + k \in Int
        /\ n * ((h + k + 1) + 1) = n * (h + k + 1) + n /\ o \in 0..(n - 1)
    <3>1. k \in Int /\ offset = n * k + o /\ o \in 0..(n - 1) /\ n * k \in Int
      BY <1>1, <1>4, Times
    <3> HIDE DEF k, o, n, h
    <3>2. h + k \in Int /\ h + k + 1 \in Int
      BY <1>2, <3>1
    <3>3. n * (h + k) = n * h + n * k /\ n * ((h + k) + 1) = n * (h + k) + n
          /\ n * ((h + k + 1) + 1) = n * (h + k + 1) + n
      BY <1>1, <1>2, <3>1, <3>2, Times
    <3> QED
      BY <3>1, <3>2, <3>3
  <2>3. u = t + n * k + o /\ u \in Int
    BY <1>1, <2>2
  <2> HIDE DEF k, o, n, h, u
  <2>4. ASSUME u < n * (h + k + 1) PROVE u \div n = h + k
    <3>1. n * (h + k) <= u
      BY <1>1, <2>1, <2>2, <2>3
    <3> QED
      BY <1>1, <2>2, <2>3, <2>4, <3>1, DivUnique
  <2>5. ASSUME u >= n * (h + k + 1) PROVE u % n < o
    <3>1. n * (h + k + 1) <= u /\ u < n * ((h + k + 1) + 1) /\ h + k + 1 \in Int
      BY <1>1, <2>1, <2>2, <2>3, <2>5
    <3>2. u \div n = h + k + 1
      BY <1>1, <2>3, <3>1, DivUnique
    <3>3. u % n = u - n * (h + k + 1)
      BY <1>1, <2>3, <3>2, DivMod
    <3> QED
      BY <1>1, <2>1, <2>2, <2>3, <3>3
  <2> QED
    BY <2>4, <2>5 DEF Minute, u, n, o, k
<1>7. ASSUME NEW t \in Int, c <= t, t < NextHour(c), Clear(t) PROVE Hour(t) = Hour(c)
  <2> DEFINE x == n * (h + offset \div n + 1)
  <2>1. h + offset \div n + 1 \in Int
    BY <1>2, <1>4
  <2>2. x \in Int
    <3> HIDE DEF n, h
    <3> QED
      BY <1>1, <2>1, Times
  <2>3. Minute(t) \in Int /\ o \in Int /\ Minute(t) >= o
    BY <1>4, <1>7, ClockTypes DEF Clear
  <2>4. ~(t + offset >= x)
    BY <1>5, <1>6, <1>7, <2>3
  <2>5. t + offset < x /\ c + offset < x
    <3> HIDE DEF x
    <3> QED
      BY <1>1, <1>7, <2>2, <2>4
  <2>6. c \div n = h
    OBVIOUS
  <2>7. (t + offset) \div n = h + offset \div n /\ (c + offset) \div n = h + offset \div n
    BY <1>5, <1>6, <1>7, <2>5, <2>6
  <2> QED
    BY <2>7 DEF Hour
<1> QED
  BY <1>3, <1>7

-----------------------------------------------------------------------------
(* Cron: the scan                                                          *)

\* The firings that NextTime may not pass over.
Sure(t) == Fires(t) /\ Clear(t)

\* The scan has left no such firing behind.
CronIInv ==
  /\ pc \in {"validate", "rejected", "scan", "done"}
  /\ \A i \in Position : fields[i] \in SUBSET Part /\ fields[i] # {}
  /\ offset \in Nat /\ after \in Nat /\ candidate \in Int
  /\ pc = "scan" => /\ Validate /\ after < candidate
                    /\ \A t \in (after + 1)..(candidate - 1) : ~Sure(t)
  /\ NextTimeExact

\* What the scan looks at is what the fields say.
LEMMA Matches ==
  ASSUME CronIInv, Validate, NEW t \in Int
  PROVE  Fires(t) <=> /\ Month(t) \in ParseField(4)
                      /\ MonthDay(t) \in ParseField(3) /\ Weekday(t) \in ParseField(5)
                      /\ Hour(t) \in ParseField(2) /\ Minute(t) \in ParseField(1)
<1>1. \A i \in Position, v \in Int : v \in ParseField(i) <=> Admits(i, v)
  BY FieldParsed DEF CronIInv, Validate
<1>2. 1 \in Position /\ 2 \in Position /\ 3 \in Position /\ 4 \in Position /\ 5 \in Position
  BY DEF Position
<1>3. offset \in Nat
  BY DEF CronIInv
<1> QED
  BY <1>1, <1>2, <1>3, ClockTypes DEF Fires

LEMMA CronStarts == CronInit => CronIInv
<1> SUFFICES ASSUME CronInit PROVE CronIInv
  OBVIOUS
<1>1. PICK minute \in Fields[1], hour \in Fields[2], dom \in Fields[3], month \in Fields[4], dow \in Fields[5] :
         fields = <<minute, hour, dom, month, dow>>
  BY DEF CronInit
<1>2. \A i \in Position : fields[i] \in Fields[i]
  <2>1. \A i \in Position : i = 1 \/ i = 2 \/ i = 3 \/ i = 4 \/ i = 5
    BY DEF Position
  <2> QED
    BY <1>1, <2>1
<1>3. \A i \in Position : fields[i] \in SUBSET Part /\ fields[i] # {}
  <2>1. \A i \in Position : Fields[i] \in SUBSET ((SUBSET Part) \ {{}})
    BY FieldsAssumption
  <2>2. ASSUME NEW i \in Position PROVE fields[i] \in (SUBSET Part) \ {{}}
    BY <1>2, <2>1
  <2> QED
    BY <2>2
<1>4. pc = "validate" /\ offset \in Nat /\ after \in Nat /\ candidate = 0
  BY CalendarAssumption DEF CronInit
<1> QED
  BY <1>3, <1>4 DEF CronIInv, NextTimeExact

\* No firing in two ranges of minutes that meet is none in both together.
LEMMA NoneOn ==
  ASSUME NEW from \in Int, NEW mid \in Int, NEW to \in Int,
         \A t \in from..(mid - 1) : ~Sure(t), \A t \in mid..(to - 1) : ~Sure(t)
  PROVE  \A t \in from..(to - 1) : ~Sure(t)
<1> SUFFICES ASSUME NEW t \in from..(to - 1) PROVE ~Sure(t)
  OBVIOUS
<1>1. t \in from..(mid - 1) \/ t \in mid..(to - 1)
  OBVIOUS
<1> QED
  BY <1>1

LEMMA SkipKeeps ==
  ASSUME CronIInv, Skip
  PROVE  CronIInv'
<1>1. /\ pc = "scan" /\ UNCHANGED <<offset, pc, fields, after, result>> /\ offset \in Nat /\ Validate /\ after \in Nat /\ candidate \in Int
      /\ after < candidate /\ \A t \in (after + 1)..(candidate - 1) : ~Sure(t)
  BY DEF Skip, Scan, CronIInv
<1>2. /\ candidate' \in Int /\ candidate < candidate'
      /\ \A t \in candidate..(candidate' - 1) : ~Sure(t)
  <2>1. CASE ~InMonth /\ candidate' = NextMonth(candidate)
    <3>1. \A t \in candidate..(candidate' - 1) : Month(t) = Month(candidate)
      BY <1>1, <2>1, MonthJump
    <3> QED
      BY <1>1, <2>1, <3>1, MonthJump, Matches DEF InMonth, Sure
  <2>2. CASE InMonth /\ ~InDay /\ candidate' = NextDay(candidate)
    <3>1. \A t \in candidate..(candidate' - 1) :
             MonthDay(t) = MonthDay(candidate) /\ Weekday(t) = Weekday(candidate)
      BY <1>1, <2>2, DayJump
    <3> QED
      BY <1>1, <2>2, <3>1, DayJump, Matches DEF InDay, Sure
  <2>3. CASE InMonth /\ InDay /\ ~InHour /\ candidate' = NextHour(candidate)
    <3>1. \A t \in candidate..(candidate' - 1) : Clear(t) => Hour(t) = Hour(candidate)
      BY <1>1, <2>3, HourJump
    <3> QED
      BY <1>1, <2>3, <3>1, HourJump, Matches DEF InHour, Sure
  <2>4. CASE InMonth /\ InDay /\ InHour /\ ~InMinute /\ candidate' = candidate + 1
    <3>1. \A t \in candidate..(candidate' - 1) : t = candidate
      BY <1>1, <2>4
    <3> QED
      BY <1>1, <2>4, <3>1, Matches DEF InMinute, Sure
  <2> QED
    BY <2>1, <2>2, <2>3, <2>4 DEF Skip
<1>3. \A t \in (after + 1)..(candidate' - 1) : ~Sure(t)
  <2> DEFINE from == after + 1
             to == candidate'
  <2>1. from \in Int /\ to \in Int /\ candidate \in Int
    BY <1>1, <1>2
  <2>2. \A t \in from..(candidate - 1) : ~Sure(t)
    BY <1>1
  <2>3. \A t \in candidate..(to - 1) : ~Sure(t)
    BY <1>2
  <2> HIDE DEF from, to
  <2>4. \A t \in from..(to - 1) : ~Sure(t)
    BY <2>1, <2>2, <2>3, NoneOn
  <2> QED
    BY <2>4 DEF from, to
<1>4. \A t \in (after + 1)..(candidate' - 1) : ~Sure(t)'
  BY <1>1, <1>3 DEF Sure, Fires, Admits, Clear, Minute, Hour, Day, MonthDay, Month, Weekday
<1> QED
  <2>1. Validate'
    BY <1>1 DEF Validate
  <2>2. after' < candidate'
    BY <1>1, <1>2
  <2>3. NextTimeExact'
    BY <1>1 DEF NextTimeExact
  <2> QED
    BY <1>1, <1>2, <1>4, <2>1, <2>2, <2>3 DEF CronIInv

\* The firings before the limit, and the clear ones among them.
Firings == {t \in after + 1 .. Limit - 1 : Fires(t)}

LEMMA CronKeeps ==
  ASSUME CronIInv, [CronNext]_cronVars
  PROVE  CronIInv'
<1>1. offset \in Nat /\ after \in Nat /\ candidate \in Int /\ Limit \in Int
  <2>1. HorizonDays * MinutesPerDay \in Int
    BY CalendarFacts
  <2> QED
    BY <2>1 DEF CronIInv, Limit
<1>2. ASSUME UNCHANGED <<offset, fields, after>>
      PROVE  (\A t : Sure(t)' = Sure(t)) /\ (\A t : Clear(t)' = Clear(t)) /\ Firings' = Firings
  BY <1>2 DEF Firings, Sure, Fires, Admits, Limit, Clear, Minute, Hour, Day, MonthDay, Month, Weekday
<1>3. CASE Start
  <2>1. CASE Validate
    <3>1. pc' = "scan" /\ candidate' = after + 1 /\ UNCHANGED <<offset, fields, after>>
      BY <1>3, <2>1 DEF Start
    <3>2. (after + 1)..(candidate' - 1) = {}
      BY <1>1, <3>1
    <3> QED
      BY <1>1, <2>1, <3>1, <3>2 DEF CronIInv, Validate, NextTimeExact
  <2>2. CASE ~Validate
    BY <1>3, <2>2 DEF Start, CronIInv, NextTimeExact
  <2> QED
    BY <2>1, <2>2
<1>4. CASE Found
  <2>1. /\ pc = "scan" /\ candidate < Limit /\ pc' = "done" /\ result' = candidate
        /\ UNCHANGED <<offset, fields, after, candidate>> /\ Fires(candidate)
    BY <1>1, <1>4, Matches DEF Found, Scan, InMonth, InDay, InHour, InMinute, CronIInv
  <2>2. candidate \in Firings /\ \A t \in Firings : Clear(t) => candidate <= t
    BY <1>1, <2>1 DEF CronIInv, Sure, Firings
  <2>3. NextTimeExact'
    BY <1>2, <2>1, <2>2 DEF NextTimeExact, Firings
  <2> QED
    BY <2>1, <2>3 DEF CronIInv
<1>5. CASE Skip
  BY <1>5, SkipKeeps
<1>6. CASE GiveUp
  <2>1. /\ pc = "scan" /\ candidate >= Limit /\ pc' = "done" /\ result' = after + MinutesPerHour
        /\ UNCHANGED <<offset, fields, after, candidate>>
    BY <1>6 DEF GiveUp
  <2>2. \A t \in Firings : ~Clear(t)
    BY <1>1, <2>1 DEF CronIInv, Sure, Firings
  <2>3. NextTimeExact'
    BY <1>2, <2>1, <2>2 DEF NextTimeExact, Firings
  <2> QED
    BY <2>1, <2>3 DEF CronIInv
<1>7. CASE UNCHANGED cronVars
  <2>1. UNCHANGED <<offset, pc, fields, after, candidate, result>>
    BY <1>7 DEF cronVars
  <2>2. NextTimeExact'
    BY <1>2, <2>1 DEF NextTimeExact, Firings, CronIInv
  <2> QED
    BY <1>2, <2>1, <2>2 DEF CronIInv, Validate
<1> QED
  BY <1>3, <1>4, <1>5, <1>6, <1>7 DEF CronNext

\* For every calendar, every zone, every set of fields that Validate accepts and every
\* argument, NextTime returns a minute before its limit at which the expression fires and
\* passes over none before it, in zones of whole hours; in the others it may pass over
\* those in the first minutes of an hour, as many as the zone is ahead of a whole hour
\* (internal/cron/cron.go NextTime).
THEOREM FirstFiring == CronSpec => []NextTimeExact
<1>1. CronIInv => NextTimeExact
  BY DEF CronIInv
<1> QED
  BY CronStarts, CronKeeps, <1>1, PTL DEF CronSpec
=============================================================================
