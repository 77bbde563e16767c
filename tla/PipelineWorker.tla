--------------------------- MODULE PipelineWorker ---------------------------
(***************************************************************************)
(* The brain of one site: the pipeline worker goroutine (brain/pipeline.go,*)
(* brain/stages.go), the pipeline_state row it drives (brain/plan.go), the *)
(* command channel it reads, and the goroutines that race with it: admin   *)
(* requests that answer questions or change the mode, and tool calls of    *)
(* chat sessions and of the BUILD stage that ask for the owner's approval. *)
(*                                                                         *)
(* An action is one database statement, or one piece of code that touches  *)
(* no state another goroutine reads.  LLM calls are abstracted to their    *)
(* outcome.  StartSite is taken only after the previous goroutine returned *)
(* (a worker that is stopped and replaced while it runs: BrainManager).    *)
(***************************************************************************)
EXTENDS Integers, Sequences, FiniteSets

CONSTANTS
  Handlers,         \* goroutines outside the worker: HTTP requests, tool calls
  Requests,         \* the kinds of requests those goroutines make
  MaxStageRetries,  \* maxStageRetries (3 in the code)
  QueueCap,         \* capacity of the command channel (16 in the code)
  MaxQuestions,     \* bound: rows ever inserted in the questions table
  MaxAsked,         \* bound: questions one plan response asks
  MaxCrashes,       \* bound: crashes of the process
  Faults            \* the kinds of database statements that may fail

Statements == {"read", "write", "advance"}   \* "advance": AdvanceStage's

RequestKinds == {"answer", "mode", "set_mode", "approval", "ask",
                 "chat", "task", "update", "stop"}

ASSUME ConstantsAssumption ==
  /\ Requests \subseteq RequestKinds
  /\ MaxStageRetries \in Nat \ {0}
  /\ QueueCap \in Nat \ {0}
  /\ MaxQuestions \in Nat
  /\ MaxAsked \in Nat
  /\ MaxCrashes \in Nat
  /\ Faults \subseteq Statements

VARIABLES
  mode,         \* sites.mode, in the global database
  row,          \* the singleton pipeline_state row
  questions,    \* the questions table: kind and status, indexed by id
  queue,        \* w.commands
  handle,       \* whether the manager holds a handle for the site
  cancelled,    \* whether the worker's context is cancelled
  pc,           \* where the worker goroutine is
  state,        \* w.state
  stage,        \* the local variable stage of runBuildPipeline
  retries,      \* the local variable stageRetries of runBuildPipeline
  toAsk,        \* questions runPlan has still to insert
  hs,           \* what each goroutine outside the worker is doing
  crashes,      \* number of crashes so far
  gaveUp,       \* history: runBuildPipeline gave up, no command restarted it
  miscounted,   \* history: a failure was not written to error_count, or
                \* autoRecover could not read it
  wakeLost      \* history: the wake of an answer was given up, or autoRecover
                \* refused to look whether one is due

db     == <<mode, row, questions>>
loop   == <<state, stage, retries, toAsk>>
worker == <<pc, loop>>
life   == <<handle, cancelled, crashes>>
past   == <<gaveUp, miscounted, wakeLost>>
vars   == <<db, queue, worker, hs, life, past>>

Modes  == {"building", "monitoring", "paused"}
States == {"idle", "building", "monitoring", "paused"}
Stages == {"PLAN", "BUILD", "COMPLETE", "MONITORING", "UPDATE_PLAN"}

\* pause_reason: the two named constants, the two texts runBuildPipeline
\* writes ("stage ... failed n times", "permanent error in ..."), and NULL.
Answers   == "awaiting_owner_answers"
Approval  == "awaiting_approval"
GaveUp    == "failed"
Permanent == "permanent error"
Reasons   == {"", Answers, Approval, GaveUp, Permanent}

\* A BrainCommand: its type and, for a mode change, the mode.  The answers that
\* a wake carries into the next prompt are text no guard looks at.
Command ==
  {c \in [type : {"wake", "mode_change", "update", "scheduled_task", "chat"},
          mode : Modes \cup {""}] :
     c.type = "mode_change" => c.mode \in Modes}

Cmd(type, m) == [type |-> type, mode |-> m]
NoCmd == Cmd("chat", "")

-----------------------------------------------------------------------------
(* The pipeline_state row and the statements that update it.               *)

Row == [stage : Stages, plan : BOOLEAN, errorCount : 0..MaxStageRetries,
        paused : BOOLEAN, reason : Reasons]

NewRow == [stage |-> "PLAN", plan |-> FALSE, errorCount |-> 0,
           paused |-> FALSE, reason |-> ""]

\* UPDATE ... SET plan_json = ...
SavePlan(r) == [r EXCEPT !.plan = TRUE]

AdvanceStageLost(r, s) == [r EXCEPT !.errorCount = 0]
AdvanceStage(r, s) == [r EXCEPT !.stage = s, !.errorCount = 0]

ResetPipelineKeepsStage(r) == [NewRow EXCEPT !.stage = r.stage]
ResetPipeline(r) == NewRow

PausePipeline(r, why) == [r EXCEPT !.paused = TRUE, !.reason = why]

ResumePipeline(r) == [r EXCEPT !.paused = FALSE, !.reason = ""]

\* error_count is only compared with maxStageRetries: it counts no further.
IncrementErrorCountLost(r) == r
IncrementErrorCount(r) ==
  [r EXCEPT !.errorCount = IF @ < MaxStageRetries THEN @ + 1 ELSE @]

\* The two UPDATEs of autoRecover: pauses that wait for the owner stay.
ClearErrors(r) == [r EXCEPT !.errorCount = 0]
ClearPauseAlways(r) == ResumePipeline(r)
ClearPause(r) == IF r.reason \in {Answers, Approval} THEN r ELSE ResumePipeline(r)

\* An UPDATE of the row whose error nobody looks at: it may change nothing.
Update(r) == row' = r \/ ("write" \in Faults /\ row' = row)

\* LoadPipelineState says that the row is paused.
SeenPausedNever(r) == FALSE
SeenPaused(r) == r.paused

\* n failures in a row are too many.
Exhausted(n) == n >= MaxStageRetries

\* The stage a successful stage returns.
NextStageRebuilds == [s \in Stages |-> IF s = "PLAN" THEN "BUILD" ELSE "PLAN"]
NextStage == [s \in Stages |-> CASE s \in {"PLAN", "UPDATE_PLAN"} -> "BUILD"
                                 [] s = "BUILD"                   -> "COMPLETE"
                                 [] OTHER                         -> "MONITORING"]

-----------------------------------------------------------------------------
(* The questions table.                                                    *)

Pending == {q \in DOMAIN questions : questions[q].status = "pending"}

\* The row waits for answers and all of them have been given.
WaitsAnswered == row.paused /\ row.reason = Answers /\ Pending = {}

Question(kind) == [kind |-> kind, status |-> "pending"]

\* UPDATE questions SET status = 'superseded' WHERE status = 'pending'
Supersede ==
  [q \in DOMAIN questions |->
     IF q \in Pending THEN [questions[q] EXCEPT !.status = "superseded"]
                      ELSE questions[q]]

-----------------------------------------------------------------------------
InitWorker ==
  /\ pc = "boot" /\ state = "idle" /\ stage = "PLAN"
  /\ retries = 0 /\ toAsk = 0

Init ==
  /\ mode = "building" /\ row = NewRow /\ questions = <<>>
  /\ queue = <<>> /\ InitWorker
  /\ hs = [h \in Handlers |-> [op |-> "idle", cmd |-> NoCmd]]
  /\ handle = TRUE /\ cancelled = FALSE /\ crashes = 0
  /\ gaveUp = FALSE /\ miscounted = FALSE /\ wakeLost = FALSE

-----------------------------------------------------------------------------
(* Run and autoRecover: a goroutine that starts reads the site's mode.     *)

Run ==
  /\ pc = "boot"
  /\ \/ mode = "building" /\ pc' = "recover" /\ UNCHANGED state
     \/ mode = "monitoring" /\ pc' = "monitoring" /\ state' = "monitoring"
     \/ mode = "paused" /\ pc' = "paused" /\ state' = "paused"
  /\ UNCHANGED <<db, queue, stage, retries, toAsk, hs, life, past>>

\* Run cannot load the site, or runBuildPipeline the row: the goroutine
\* returns, the manager keeps its handle.
LoadFails ==
  /\ "read" \in Faults
  /\ pc \in {"boot", "load"}
  /\ pc' = "off"
  /\ UNCHANGED <<db, queue, loop, hs, life, past>>

\* autoRecover reads error_count; when that fails it takes it for zero ...
AutoRecoverAlways ==
  /\ pc = "recover"
  /\ pc' = "recoverErrors"
  /\ UNCHANGED <<db, queue, loop, hs, life, past>>
AutoRecover ==
  /\ pc = "recover"
  /\ \/ /\ Exhausted(row.errorCount)
        /\ pc' = "paused" /\ state' = "paused"
        /\ wakeLost' = WaitsAnswered
        /\ UNCHANGED miscounted
     \/ /\ ~Exhausted(row.errorCount)
        /\ pc' = "recoverErrors"
        /\ UNCHANGED <<state, miscounted, wakeLost>>
     \/ /\ "read" \in Faults
        /\ pc' = "recoverErrors"
        /\ miscounted' = TRUE
        /\ UNCHANGED <<state, wakeLost>>
  /\ UNCHANGED <<db, queue, stage, retries, toAsk, hs, life, gaveUp>>

\* ... clears the errors ...
RecoverErrors ==
  /\ pc = "recoverErrors"
  /\ Update(ClearErrors(row))
  /\ pc' = "recoverPause"
  /\ UNCHANGED <<mode, questions, queue, loop, hs, life, past>>

\* ... and the pauses that do not wait for the owner.
RecoverPause ==
  /\ pc = "recoverPause"
  /\ Update(ClearPause(row))
  /\ pc' = "recoverAnswers"
  /\ UNCHANGED <<mode, questions, queue, loop, hs, life, past>>

\* The rest of autoRecover resumes when every question is answered already:
\* it reads the row and counts the pending questions ...
RecoverCounts ==
  /\ pc = "recoverAnswers"
  /\ \/ /\ WaitsAnswered
        /\ pc' = "recoverCollect"
        /\ UNCHANGED state
     \/ /\ ~WaitsAnswered \/ "read" \in Faults
        /\ pc' = "load" /\ state' = "building"
  /\ UNCHANGED <<db, queue, stage, retries, toAsk, hs, life, past>>

\* ... reads the answers ...
RecoverCollects ==
  /\ pc = "recoverCollect"
  /\ \/ pc' = "recoverResume" /\ UNCHANGED state
     \/ "read" \in Faults /\ pc' = "load" /\ state' = "building"
  /\ UNCHANGED <<db, queue, stage, retries, toAsk, hs, life, past>>

\* ... and resumes, whatever the row has come to say meanwhile.
RecoverResumes ==
  /\ pc = "recoverResume"
  /\ Update(ResumePipeline(row))
  /\ pc' = "load" /\ state' = "building"
  /\ UNCHANGED <<mode, questions, queue, stage, retries, toAsk, hs, life, past>>

-----------------------------------------------------------------------------
(* runBuildPipeline.                                                       *)

\* It returns into the paused loop; its local variables end with it.
PausedLoop == pc' = "paused" /\ state' = "paused" /\ stage' = "PLAN" /\ retries' = 0

RunBuildPipeline ==
  /\ pc = "load"
  /\ \/ SeenPaused(row) /\ PausedLoop
     \/ /\ ~SeenPaused(row)
        /\ pc' = "top" /\ stage' = row.stage /\ retries' = 0
        /\ UNCHANGED state
  /\ UNCHANGED <<db, queue, toAsk, hs, life, past>>

LoopTop ==
  /\ pc = "top"
  /\ \/ cancelled /\ pc' = "off" /\ UNCHANGED state
     \/ ~cancelled /\ stage = "MONITORING" /\ pc' = "monitoring" /\ state' = "monitoring"
     \/ ~cancelled /\ stage # "MONITORING" /\ pc' = "stage" /\ UNCHANGED state
  /\ UNCHANGED <<db, queue, stage, retries, toAsk, hs, life, past>>

\* runPlan whose response has questions: the old ones are superseded first.
PlanAsks ==
  /\ pc = "stage" /\ stage = "PLAN"
  /\ \E n \in 1..MaxAsked : Len(questions) + n <= MaxQuestions /\ toAsk' = n
  /\ questions' = Supersede \/ ("write" \in Faults /\ UNCHANGED questions)
  /\ pc' = "asking"
  /\ wakeLost' = FALSE
  /\ UNCHANGED <<mode, row, queue, state, stage, retries, hs,
                 life, gaveUp, miscounted>>

\* One turn of the loop over plan.Questions: INSERT and publish.
InsertQuestion ==
  /\ pc = "asking" /\ toAsk > 0
  /\ questions' = Append(questions, Question("owner"))
  /\ toAsk' = toAsk - 1
  /\ UNCHANGED <<mode, row, queue, pc, state, stage, retries, hs,
                 life, past>>

\* The INSERT fails: its nil result panics, the stage fails half-way.
InsertPanics ==
  /\ "write" \in Faults
  /\ pc = "asking" /\ toAsk > 0
  /\ toAsk' = 0
  /\ pc' = "failed"
  /\ UNCHANGED <<db, queue, state, stage, retries, hs, life, past>>

\* PausePipeline after the loop; runPlan then returns the error "paused".
PlanPauses ==
  /\ pc = "asking" /\ toAsk = 0
  /\ Update(PausePipeline(row, Answers))
  /\ pc' = "failed"
  /\ UNCHANGED <<mode, questions, queue, loop, hs, life, past>>

\* runPlan goes on to BUILD whether or not the plan could be stored.
PlanReady ==
  /\ pc = "stage" /\ stage = "PLAN"
  /\ Update(SavePlan(row))
  /\ pc' = "advance"
  /\ UNCHANGED <<mode, questions, queue, state, stage, retries, toAsk, hs,
                 life, past>>

\* runBuild and runUpdatePlan: both need the plan that is in the row.
BuildOrUpdateWithoutPlan ==
  /\ pc = "stage" /\ stage \in {"BUILD", "UPDATE_PLAN"}
  /\ pc' = "advance"
  /\ UNCHANGED <<db, queue, loop, hs, life, past>>
BuildOrUpdateReady ==
  /\ pc = "stage" /\ stage \in {"BUILD", "UPDATE_PLAN"}
  /\ row.plan
  /\ pc' = "advance"
  /\ UNCHANGED <<db, queue, loop, hs, life, past>>

RunComplete ==
  /\ pc = "stage" /\ stage = "COMPLETE"
  /\ mode' = "monitoring" \/ ("write" \in Faults /\ UNCHANGED mode)
  /\ pc' = "advance"
  /\ UNCHANGED <<row, questions, queue, loop, hs, life, past>>

\* A stage returns an error: LLM failure, unusable response, timeout, panic,
\* no plan; or one that isPermanentError recognises (configuration).
StageFails ==
  /\ pc = "stage" /\ stage # "COMPLETE"
  /\ pc' \in {"failed", "failedPermanent"}
  /\ UNCHANGED <<db, queue, loop, hs, life, past>>

\* IncrementErrorCount; the loop counts on in stageRetries when it fails.
CountFailure ==
  /\ \/ row' = IncrementErrorCount(row) /\ UNCHANGED miscounted
     \/ "write" \in Faults /\ UNCHANGED row /\ miscounted' = TRUE
  /\ retries' = retries + 1
  /\ pc' = IF Exhausted(retries + 1) THEN "giveUp" ELSE "top"
  /\ UNCHANGED <<state, stage>>

\* The error path of the loop, up to IncrementErrorCount.  A row that cannot
\* be read back counts as not paused.
StageError ==
  /\ pc \in {"failed", "failedPermanent"}
  /\ \/ SeenPaused(row) /\ PausedLoop /\ UNCHANGED <<row, miscounted>>
     \/ /\ ~SeenPaused(row) \/ "read" \in Faults
        /\ pc = "failedPermanent"
        /\ Update(PausePipeline(row, Permanent)) /\ PausedLoop
        /\ UNCHANGED miscounted
     \/ /\ ~SeenPaused(row) \/ "read" \in Faults
        /\ pc = "failed"
        /\ CountFailure
  /\ UNCHANGED <<mode, questions, queue, toAsk, hs, life,
                 gaveUp, wakeLost>>

GiveUp ==
  /\ pc = "giveUp"
  /\ Update(PausePipeline(row, GaveUp)) /\ PausedLoop
  /\ gaveUp' = TRUE
  /\ UNCHANGED <<mode, questions, queue, toAsk, hs, life,
                 miscounted, wakeLost>>

Advance ==
  /\ pc = "advance"
  /\ row' = AdvanceStage(row, NextStage[stage])
  /\ stage' = NextStage[stage]
  /\ retries' = 0
  /\ pc' = "top"
  /\ UNCHANGED <<mode, questions, queue, state, toAsk, hs, life, past>>

\* AdvanceStage fails: the loop runs the same stage again.
AdvanceFails ==
  /\ "advance" \in Faults
  /\ pc = "advance"
  /\ pc' = "top"
  /\ UNCHANGED <<db, queue, loop, hs, life, past>>

-----------------------------------------------------------------------------
(* runPausedLoop, runMonitoringLoop and handleCommand.                     *)

\* Where the loop goes after a command that left w.state = s: the paused loop
\* looks at the state, the monitoring loop does not.
AfterCommand(s) ==
  IF pc = "paused" /\ s = "building" THEN "load"
  ELSE IF pc = "paused" /\ s = "monitoring" THEN "monitoring"
  ELSE pc

TakeCommand(type) ==
  /\ pc \in {"paused", "monitoring"}
  /\ queue # <<>> /\ Head(queue).type = type
  /\ queue' = Tail(queue)
  /\ UNCHANGED <<mode, questions, stage, retries, toAsk, hs, life, wakeLost>>

\* The owner has asked for the build: what the failures were no longer counts.
Asked == gaveUp' = FALSE /\ miscounted' = FALSE
NotAsked == UNCHANGED <<gaveUp, miscounted>>

HandleWakeKeepsPause ==
  /\ TakeCommand("wake")
  /\ pc' = AfterCommand(state)
  /\ UNCHANGED <<row, state>> /\ NotAsked
HandleWake ==
  /\ TakeCommand("wake")
  /\ \/ state = "paused" /\ Update(ResumePipeline(row)) /\ state' = "building" /\ Asked
     \/ state # "paused" /\ UNCHANGED <<row, state>> /\ NotAsked
  /\ pc' = AfterCommand(state')

HandleModeChange ==
  /\ TakeCommand("mode_change")
  /\ state' = Head(queue).mode
  /\ \/ Head(queue).mode = "building" /\ Update(ResetPipeline(row)) /\ Asked
     \/ Head(queue).mode # "building" /\ UNCHANGED row /\ NotAsked
  /\ pc' = AfterCommand(state')

HandleUpdate ==
  /\ TakeCommand("update")
  /\ state' = "building"
  /\ row' = AdvanceStage(row, "UPDATE_PLAN") \/ ("advance" \in Faults /\ UNCHANGED row)
  /\ Asked
  /\ pc' = AfterCommand(state')

\* executeScheduledTask runs in the worker's goroutine; what it does to the
\* task's run is in TaskScheduler.
HandleScheduledTask ==
  /\ TakeCommand("scheduled_task")
  /\ pc' = IF pc = "paused" THEN "pausedTask" ELSE "monitoringTask"
  /\ UNCHANGED <<row, state>> /\ NotAsked

TaskDone ==
  /\ pc \in {"pausedTask", "monitoringTask"}
  /\ pc' = IF pc = "pausedTask" THEN "paused" ELSE "monitoring"
  /\ UNCHANGED <<db, queue, loop, hs, life, past>>

\* In monitoring a chat message starts handleChatWake in a goroutine of its
\* own, whose tool calls are among the Handlers.
HandleChat ==
  /\ TakeCommand("chat")
  /\ UNCHANGED <<row, pc, state>> /\ NotAsked

\* <-ctx.Done() in either loop.
LoopCancelled ==
  /\ cancelled /\ pc \in {"paused", "monitoring"}
  /\ pc' = "off"
  /\ UNCHANGED <<db, queue, loop, hs, life, past>>

-----------------------------------------------------------------------------
(* Goroutines outside the worker.                                          *)

Become(h, op, cmd) == hs' = [hs EXCEPT ![h] = [op |-> op, cmd |-> cmd]]
Idle(h) == Become(h, "idle", NoCmd)
Starts(h, kind) == kind \in Requests /\ hs[h].op = "idle"

\* SendCommand finds a worker and Send finds room in the channel.
HasRoomAlways == handle
HasRoom == handle /\ Len(queue) < QueueCap

Enqueue(cmd) == HasRoom /\ queue' = Append(queue, cmd)

\* QuestionsHandler.Answer: UPDATE questions, whatever the status was (it ends
\* there when that fails), and INSERT the text of the answer ...
Answer(h) ==
  /\ Starts(h, "answer")
  /\ \E q \in DOMAIN questions :
       questions' = [questions EXCEPT ![q].status = "answered"]
  /\ Become(h, "count", NoCmd)
  /\ UNCHANGED <<mode, row, queue, worker, life, past>>

\* ... SELECT COUNT(*) of the pending ones ...
CountPending(h) ==
  /\ hs[h].op = "count"
  /\ \/ Pending = {} /\ Become(h, "collect", NoCmd)
     \/ (Pending # {} \/ "read" \in Faults) /\ Idle(h)
  /\ UNCHANGED <<db, queue, worker, life, past>>

\* ... and SELECT all answers, publish EventQuestionAnswered.
CollectAnswers(h) ==
  /\ hs[h].op = "collect"
  /\ \/ Become(h, "send", Cmd("wake", ""))
     \/ "read" \in Faults /\ Idle(h)
  /\ UNCHANGED <<db, queue, worker, life, past>>

\* The subscriber in main.go sends the wake; when that fails it tries once
\* more after three seconds, and then the wake is lost.
SendWake(h) ==
  /\ hs[h].op \in {"send", "resend"}
  /\ \/ Enqueue(hs[h].cmd) /\ Idle(h) /\ UNCHANGED wakeLost
     \/ /\ ~HasRoom /\ hs[h].op = "send"
        /\ Become(h, "resend", hs[h].cmd)
        /\ UNCHANGED <<queue, wakeLost>>
     \/ /\ ~HasRoom /\ hs[h].op = "resend"
        /\ Idle(h)
        /\ wakeLost' = TRUE
        /\ UNCHANGED queue
  /\ UNCHANGED <<db, worker, life, gaveUp, miscounted>>

\* BrainHandler.Mode: UpdateSiteMode (it ends there when that fails), then
\* SendCommand, its error dropped.
Mode(h) ==
  /\ Starts(h, "mode")
  /\ \E m \in Modes :
       /\ mode' = m
       /\ Become(h, "sendMode", Cmd("mode_change", m))
  /\ UNCHANGED <<row, questions, queue, worker, life, past>>

SendMode(h) ==
  /\ hs[h].op = "sendMode"
  /\ Enqueue(hs[h].cmd) \/ (~HasRoom /\ UNCHANGED queue)
  /\ Idle(h)
  /\ UNCHANGED <<db, worker, life, past>>

\* SiteTool.setMode: the tool writes the mode and tells nobody.
ToolSetsMode ==
  /\ "set_mode" \in Requests
  /\ \E m \in Modes : mode' = m
  /\ UNCHANGED <<row, questions, queue, worker, hs, life, past>>

MayInsert == Len(questions) + toAsk < MaxQuestions

\* RequestApproval, unless denied already: look for a pending question (a
\* lookup that fails counts as one found) ...
RequestApproval(h) ==
  /\ Starts(h, "approval")
  /\ \/ /\ (\E q \in Pending : questions[q].kind = "approval") \/ "read" \in Faults
        /\ Become(h, "pauseForApproval", NoCmd)
     \/ /\ \A q \in Pending : questions[q].kind # "approval"
        /\ Become(h, "insertApproval", NoCmd)
  /\ UNCHANGED <<db, queue, worker, life, past>>

\* ... INSERT one when there is none ...
InsertApproval(h) ==
  /\ hs[h].op = "insertApproval"
  /\ \/ MayInsert /\ questions' = Append(questions, Question("approval"))
     \/ "write" \in Faults /\ UNCHANGED questions
  /\ Become(h, "pauseForApproval", NoCmd)
  /\ UNCHANGED <<mode, row, queue, worker, life, past>>

\* ... and pause the pipeline.
PauseForApproval(h) ==
  /\ hs[h].op = "pauseForApproval"
  /\ Update(PausePipeline(row, Approval))
  /\ Idle(h)
  /\ UNCHANGED <<mode, questions, queue, worker, life, past>>

\* CommunicationTool.ask: a question that pauses nothing.
ToolAsks ==
  /\ "ask" \in Requests
  /\ MayInsert
  /\ questions' = Append(questions, Question("owner"))
  /\ UNCHANGED <<mode, row, queue, worker, hs, life, past>>

\* Commands that are sent in one step and dropped when there is no room.
Notify ==
  /\ \/ "chat" \in Requests /\ Enqueue(Cmd("chat", ""))
     \/ "task" \in Requests /\ Enqueue(Cmd("scheduled_task", ""))
     \/ "update" \in Requests /\ Enqueue(Cmd("update", ""))
  /\ UNCHANGED <<db, worker, hs, life, past>>

-----------------------------------------------------------------------------
(* The manager and the process.                                            *)

\* StopSite cancels the worker's context; the goroutine stops when it sees it.
StopWorker ==
  /\ "stop" \in Requests
  /\ handle
  /\ handle' = FALSE /\ cancelled' = TRUE
  /\ UNCHANGED <<db, queue, worker, hs, crashes, past>>

NewWorker ==
  /\ pc' = "boot" /\ state' = "idle" /\ stage' = "PLAN"
  /\ retries' = 0 /\ toAsk' = 0
  /\ queue' = <<>> /\ handle' = TRUE /\ cancelled' = FALSE
  /\ wakeLost' = FALSE

\* StartSite.
StartWorker ==
  /\ ~handle /\ pc = "off"
  /\ NewWorker
  /\ UNCHANGED <<db, hs, crashes, gaveUp, miscounted>>

\* The process dies anywhere; main starts again and AutoStart starts the site.
Crash ==
  /\ crashes < MaxCrashes
  /\ crashes' = crashes + 1
  /\ NewWorker
  /\ hs' = [h \in Handlers |-> [op |-> "idle", cmd |-> NoCmd]]
  /\ UNCHANGED <<db, gaveUp, miscounted>>

-----------------------------------------------------------------------------
StageStep == PlanAsks \/ PlanReady \/ BuildOrUpdateReady \/ RunComplete \/ StageFails

HandleCommand ==
  \/ HandleWake \/ HandleModeChange \/ HandleUpdate
  \/ HandleScheduledTask \/ HandleChat

WorkerStep ==
  \/ Run \/ LoadFails \/ AutoRecover
  \/ RecoverErrors \/ RecoverPause
  \/ RecoverCounts \/ RecoverCollects \/ RecoverResumes
  \/ RunBuildPipeline \/ LoopTop
  \/ StageStep \/ InsertQuestion \/ InsertPanics \/ PlanPauses
  \/ StageError \/ GiveUp \/ Advance \/ AdvanceFails
  \/ HandleCommand \/ TaskDone \/ LoopCancelled

Request(h) == Answer(h) \/ Mode(h) \/ RequestApproval(h)

HandlerStep(h) ==
  \/ CountPending(h) \/ CollectAnswers(h) \/ SendWake(h)
  \/ SendMode(h) \/ InsertApproval(h) \/ PauseForApproval(h)

Outside ==
  \/ \E h \in Handlers : Request(h) \/ HandlerStep(h)
  \/ ToolSetsMode \/ ToolAsks \/ Notify
  \/ StopWorker \/ StartWorker \/ Crash

Next == WorkerStep \/ Outside

Spec == Init /\ [][Next]_vars

\* The worker and the requests in flight run on (stages and LLM calls have
\* timeouts); nothing obliges the owner, a tool or the process to do anything.
Fairness == WF_vars(WorkerStep) /\ \A h \in Handlers : WF_vars(HandlerStep(h))

FairSpec == Spec /\ Fairness

-----------------------------------------------------------------------------
(* Properties.                                                             *)

Locations == {"off", "boot", "recover", "recoverErrors", "recoverPause",
              "recoverAnswers", "recoverCollect", "recoverResume", "load",
              "top", "stage", "asking", "failed", "failedPermanent", "giveUp",
              "advance", "paused", "pausedTask", "monitoring", "monitoringTask"}

Ops == {"idle", "count", "collect", "send", "resend",
        "sendMode", "insertApproval", "pauseForApproval"}

QuestionRow == [kind : {"owner", "approval"},
                status : {"pending", "answered", "superseded"}]

Doing == [op : Ops, cmd : Command]

TableTypes ==
  /\ questions \in Seq(QuestionRow) /\ toAsk \in Nat
  /\ Len(questions) + toAsk <= MaxQuestions
ChannelTypes == queue \in Seq(Command) /\ Len(queue) <= QueueCap
WorkerTypes ==
  /\ pc \in Locations /\ state \in States /\ stage \in Stages
  /\ retries \in 0..MaxStageRetries
LifeTypes ==
  /\ handle \in BOOLEAN /\ cancelled \in BOOLEAN /\ crashes \in 0..MaxCrashes
PastTypes == gaveUp \in BOOLEAN /\ miscounted \in BOOLEAN /\ wakeLost \in BOOLEAN

\* Every variable stays in its type; in particular the channel never holds
\* more commands than its capacity and stageRetries stays within its limit.
TypeOK ==
  /\ mode \in Modes /\ row \in Row
  /\ TableTypes /\ ChannelTypes /\ WorkerTypes /\ LifeTypes /\ PastTypes
  /\ hs \in [Handlers -> Doing]

\* The worker is inside the for loop of runBuildPipeline.
InBuildLoop == pc \in {"top", "stage", "asking", "failed", "failedPermanent",
                       "giveUp", "advance"}

\* While the loop of runBuildPipeline runs, its local stage is the stage of the
\* row, so a crash anywhere resumes at the stage that was executing, whatever
\* statement failed and although modes, approvals and answers come in meanwhile.
LoopInSync == InBuildLoop => stage = row.stage

\* The failures a run of the loop has counted in stageRetries are all in
\* error_count, and a pipeline that gave up has error_count at the limit and
\* runs no stage until a command asks for it, although its pause may not have
\* been written and the process may have died.  It takes that error_count was
\* written at each failure and read at each start (the code looks at neither).
FailuresRecorded ==
  ~miscounted => /\ InBuildLoop => retries <= row.errorCount
                 /\ gaveUp => Exhausted(row.errorCount) /\ ~InBuildLoop

\* A site is only completed and monitored with a plan in the row, although the
\* plan may not have been stored when BUILD started, and a change that is asked
\* for or a build that is begun afresh may come at any time.
PlanBeforeBuild == row.stage \in {"COMPLETE", "MONITORING"} => row.plan

\* No stage runs, is retried or is advanced while the row says that the site
\* waits for answers, gave up, or met a permanent error (an approval pause is
\* the one a running BUILD overlooks), as long as the row can be read.
NoStageWhilePaused ==
  "read" \notin Faults /\ row.paused /\ row.reason # Approval =>
    pc \notin {"top", "stage", "asking", "giveUp", "advance"}

\* A run of autoRecover that goes on to the build.
Recovering == pc \in {"recoverErrors", "recoverPause", "recoverAnswers",
                      "recoverCollect", "recoverResume", "load"}

\* What makes the invariants above inductive: nothing on the way into the build
\* loop has a pipeline that gave up, the paused loop is in the state paused, the
\* loop gives up exactly with its retries exhausted, and it advances only with a
\* plan (unless the one of PLAN could not be stored).
LoopFacts ==
  /\ Recovering /\ gaveUp => miscounted
  /\ pc \in {"paused", "pausedTask"} => state = "paused"
  /\ pc = "giveUp" => Exhausted(retries)
  /\ InBuildLoop /\ Exhausted(retries) => pc = "giveUp"
  /\ pc = "advance" => row.plan \/ (stage = "PLAN" /\ "write" \in Faults)

\* The inductive invariant of the pipeline.
PipelineInv ==
  /\ TypeOK /\ LoopInSync /\ FailuresRecorded /\ PlanBeforeBuild
  /\ NoStageWhilePaused /\ LoopFacts

\* A row that waits for the owner is unpaused by a command that was taken from
\* the channel, or by the autoRecover that found it waiting for answers with
\* none pending; the pause of a pipeline that gave up by a command alone, as
\* long as its failures were counted.
OnlyCommandsResume ==
  [][ /\ row.paused /\ ~row'.paused
      /\ \/ gaveUp /\ ~miscounted
         \/ row.reason \in {Answers, Approval} /\ pc # "recoverResume"
      => queue # <<>> /\ queue' = Tail(queue) ]_vars

\* The pipeline implements the lifecycle: stages in order, no stage after it
\* gave up, however it is stopped and started, until a command was taken that
\* asks for one, and no completion without a plan.
Lifecycle == INSTANCE BuildLifecycle
               WITH stage <- row.stage, plan <- row.plan,
                    pending <- Len(queue),
                    MayForget <- Faults # {}
LifecycleSpec == Lifecycle!Spec

\* A site that waits for answers and has no pending question any more resumes
\* (or is stopped, or leaves the building mode), although the last answer may
\* have come before the pause, from two requests at once, or before a crash.
\* The channel may be full: only a wake that was given up after its retry, with
\* no start of the worker since, may leave the site waiting, or an autoRecover
\* that met error_count at its limit (failures of earlier rounds add up) when
\* all questions were answered.
AnsweredResumes ==
  WaitsAnswered
    ~> (\/ ~row.paused \/ Pending # {} \/ row.reason # Answers
        \/ ~handle \/ mode # "building" \/ wakeLost)

\* A run of the build loop ends, unless AdvanceStage fails for ever (the loop
\* then repeats the stage without an end): the site is built and monitored, or
\* paused, or the goroutine has returned.
BuildSettles ==
  []<><<AdvanceFails>>_vars \/ (pc = "top" ~> pc \in {"paused", "monitoring", "off"})

\* Documented: the site that waits for answers resumes only once every
\* question has been answered.
PausesUntilAnswered ==
  [][ /\ row.paused /\ row.reason = Answers /\ ~row'.paused
      /\ queue # <<>> /\ Head(queue).type = "wake"
      => Pending = {} ]_vars
=============================================================================
