---------------------------- MODULE Brain_proofs ----------------------------
(***************************************************************************)
(* Proofs about the brain, for every value of the constants.               *)
(*                                                                         *)
(* PipelineWorker: the inductive invariant PipelineInv, the invariants it  *)
(* contains, the action property OnlyCommandsResume, and the refinement of *)
(* BuildLifecycle.                                                         *)
(*                                                                         *)
(* BrainManager: the manager loses no worker, and the semaphore loses no   *)
(* token.                                                                  *)
(***************************************************************************)
EXTENDS PipelineWorker, BrainManager, FiniteSetTheorems, TLAPS

-----------------------------------------------------------------------------
(* Lemmas about the operators the actions are made of.                     *)

\* The values that the actions write into the row.
LEMMA RowValues ==
  /\ Answers \in Reasons /\ Approval \in Reasons
  /\ GaveUp \in Reasons /\ Permanent \in Reasons
  /\ "UPDATE_PLAN" \in Stages
  BY DEF Reasons, Stages

\* Zero is within the bounds of the counters.
LEMMA ZeroBounds == 0 \in 0..MaxStageRetries
  BY ConstantsAssumption

\* What each statement on pipeline_state does to a row, field by field.
LEMMA AdvanceStageRow ==
  ASSUME NEW r \in Row, NEW s \in Stages
  PROVE  /\ AdvanceStage(r, s) \in Row
         /\ AdvanceStage(r, s).stage = s
         /\ AdvanceStage(r, s).plan = r.plan
         /\ AdvanceStage(r, s).errorCount = 0
         /\ AdvanceStage(r, s).paused = r.paused
         /\ AdvanceStage(r, s).reason = r.reason
  <1>1. AdvanceStage(r, s) \in Row
    BY ZeroBounds DEF Row, AdvanceStage
  <1>2. QED
    BY <1>1 DEF Row, AdvanceStage

\* PausePipeline sets paused and the reason and nothing else.
LEMMA PausePipelineRow ==
  ASSUME NEW r \in Row, NEW w \in Reasons
  PROVE  /\ PausePipeline(r, w) \in Row
         /\ PausePipeline(r, w).stage = r.stage
         /\ PausePipeline(r, w).plan = r.plan
         /\ PausePipeline(r, w).errorCount = r.errorCount
         /\ PausePipeline(r, w).paused = TRUE
         /\ PausePipeline(r, w).reason = w
  BY DEF Row, PausePipeline

\* ResumePipeline clears paused and the reason and nothing else.
LEMMA ResumePipelineRow ==
  ASSUME NEW r \in Row
  PROVE  /\ ResumePipeline(r) \in Row
         /\ ResumePipeline(r).stage = r.stage
         /\ ResumePipeline(r).plan = r.plan
         /\ ResumePipeline(r).errorCount = r.errorCount
         /\ ResumePipeline(r).paused = FALSE
         /\ ResumePipeline(r).reason = ""
  BY DEF Row, ResumePipeline, Reasons

\* Storing plan_json leaves the rest of the row alone.
LEMMA SavePlanRow ==
  ASSUME NEW r \in Row
  PROVE  /\ SavePlan(r) \in Row
         /\ SavePlan(r).stage = r.stage
         /\ SavePlan(r).plan = TRUE
         /\ SavePlan(r).errorCount = r.errorCount
         /\ SavePlan(r).paused = r.paused
         /\ SavePlan(r).reason = r.reason
  BY DEF Row, SavePlan

\* The first UPDATE of autoRecover clears the errors only.
LEMMA ClearErrorsRow ==
  ASSUME NEW r \in Row
  PROVE  /\ ClearErrors(r) \in Row
         /\ ClearErrors(r).stage = r.stage
         /\ ClearErrors(r).plan = r.plan
         /\ ClearErrors(r).errorCount = 0
         /\ ClearErrors(r).paused = r.paused
         /\ ClearErrors(r).reason = r.reason
  BY ZeroBounds DEF Row, ClearErrors

\* Its second UPDATE clears every pause that does not wait for the owner.
LEMMA ClearPauseRow ==
  ASSUME NEW r \in Row
  PROVE  /\ ClearPause(r) \in Row
         /\ ClearPause(r).stage = r.stage
         /\ ClearPause(r).plan = r.plan
         /\ ClearPause(r).errorCount = r.errorCount
         /\ r.reason \in {Answers, Approval} => ClearPause(r) = r
         /\ r.reason \notin {Answers, Approval} =>
              ClearPause(r).paused = FALSE /\ ClearPause(r).reason = ""
  BY ResumePipelineRow DEF ClearPause

\* IncrementErrorCount counts up to the limit and changes nothing else.
LEMMA IncrementErrorCountRow ==
  ASSUME NEW r \in Row
  PROVE  /\ IncrementErrorCount(r) \in Row
         /\ IncrementErrorCount(r).stage = r.stage
         /\ IncrementErrorCount(r).plan = r.plan
         /\ IncrementErrorCount(r).errorCount =
              IF r.errorCount < MaxStageRetries THEN r.errorCount + 1 ELSE r.errorCount
         /\ IncrementErrorCount(r).paused = r.paused
         /\ IncrementErrorCount(r).reason = r.reason
  BY ConstantsAssumption DEF Row, IncrementErrorCount

\* ResetPipeline gives the row of a new site.
LEMMA NewRowType ==
  /\ NewRow \in Row
  /\ NewRow.stage = "PLAN" /\ NewRow.plan = FALSE /\ NewRow.errorCount = 0
  /\ NewRow.paused = FALSE /\ NewRow.reason = ""
  BY ConstantsAssumption DEF NewRow, Row, Stages, Reasons

\* A row has fields of the right types.
LEMMA RowFields ==
  ASSUME NEW r \in Row
  PROVE  /\ r.stage \in Stages /\ r.plan \in BOOLEAN /\ r.errorCount \in 0..MaxStageRetries
         /\ r.paused \in BOOLEAN /\ r.reason \in Reasons
  BY DEF Row

\* The commands that the actions build are commands.
LEMMA CommandTypes ==
  /\ NoCmd \in Command
  /\ \A t \in {"wake", "chat", "scheduled_task", "update"} : Cmd(t, "") \in Command
  /\ \A m \in Modes : Cmd("mode_change", m) \in Command
  <1>1. \A t \in {"wake", "chat", "scheduled_task", "update"} : Cmd(t, "") \in Command
    BY DEF Cmd, Command
  <1>2. \A m \in Modes : Cmd("mode_change", m) \in Command
    BY DEF Cmd, Command
  <1>3. QED
    BY <1>1, <1>2 DEF NoCmd

\* A goroutine outside the worker that moves on keeps hs well typed.
LEMMA BecomeType ==
  ASSUME hs \in [Handlers -> Doing], NEW h \in Handlers, NEW op \in Ops,
         NEW c \in Command, Become(h, op, c)
  PROVE  hs' \in [Handlers -> Doing]
  <1>1. [op |-> op, cmd |-> c] \in Doing
    BY DEF Doing
  <1>2. QED
    BY <1>1 DEF Become

\* A goroutine outside the worker that ends keeps hs well typed.
LEMMA IdleType ==
  ASSUME hs \in [Handlers -> Doing], NEW h \in Handlers, Idle(h)
  PROVE  hs' \in [Handlers -> Doing]
  <1>1. "idle" \in Ops /\ NoCmd \in Command
    BY CommandTypes DEF Ops
  <1>2. QED
    BY <1>1, BecomeType DEF Idle

\* Sending a command fits the channel.
LEMMA EnqueueType ==
  ASSUME ChannelTypes, NEW c \in Command, Enqueue(c)
  PROVE  ChannelTypes'
  BY ConstantsAssumption DEF ChannelTypes, Enqueue, HasRoom

\* A question appended to the table fits it.
LEMMA AppendType ==
  ASSUME TableTypes, Len(questions) < MaxQuestions, NEW k \in {"owner", "approval"},
         questions' = Append(questions, Question(k)),
         toAsk' \in Nat, Len(questions) + 1 + toAsk' <= MaxQuestions
  PROVE  TableTypes'
  BY ConstantsAssumption DEF TableTypes, Question, QuestionRow

-----------------------------------------------------------------------------
(* Type correctness.                                                       *)

\* A stage that succeeds returns a stage.
LEMMA NextStageType == \A s \in Stages : NextStage[s] \in Stages
  BY DEF NextStage, Stages

\* Superseding the pending questions leaves a table of the same length.
LEMMA SupersedeType ==
  ASSUME questions \in Seq(QuestionRow)
  PROVE  /\ Supersede \in Seq(QuestionRow)
         /\ Len(Supersede) = Len(questions)
         /\ DOMAIN Supersede = DOMAIN questions
  <1>1. DOMAIN questions = 1..Len(questions) /\ Len(questions) \in Nat
    OBVIOUS
  <1>2. \A q \in DOMAIN questions : Supersede[q] \in QuestionRow
    <2> TAKE q \in DOMAIN questions
    <2>1. questions[q] \in QuestionRow
      BY <1>1
    <2>2. [questions[q] EXCEPT !.status = "superseded"] \in QuestionRow
      BY <2>1 DEF QuestionRow
    <2>3. QED
      BY <2>1, <2>2 DEF Supersede
  <1>3. DOMAIN Supersede = 1..Len(questions)
    BY <1>1 DEF Supersede
  <1>4. Supersede = [q \in 1..Len(questions) |-> Supersede[q]]
    BY <1>1 DEF Supersede
  <1>5. Supersede \in Seq(QuestionRow)
    BY <1>1, <1>2, <1>4
  <1>6. QED
    BY <1>1, <1>3, <1>5

\* Taking a command from the channel leaves commands in it.
LEMMA HeadType ==
  ASSUME ChannelTypes, queue # <<>>
  PROVE  /\ Head(queue) \in Command
         /\ Head(queue).type = "mode_change" => Head(queue).mode \in Modes
  <1>1. Head(queue) \in Command
    BY DEF ChannelTypes
  <1>2. QED
    BY <1>1 DEF Command

\* The channel is well typed after a command has been taken from it.
LEMMA TailType ==
  ASSUME ChannelTypes, queue # <<>>, queue' = Tail(queue)
  PROVE  ChannelTypes'
  BY ConstantsAssumption DEF ChannelTypes

\* Every step of the worker goroutine keeps the types; the retries are bounded
\* because the loop leaves at the limit.
LEMMA WorkerTypeStep ==
  ASSUME TypeOK, LoopFacts, WorkerStep PROVE TypeOK'
  <1>1. CASE Run
    BY <1>1
    DEF Run, Locations, States, TypeOK, TableTypes, ChannelTypes, WorkerTypes,
       LifeTypes, PastTypes, db, loop, worker, life, past
  <1>2. CASE LoadFails
    BY <1>2
    DEF LoadFails, Locations, TypeOK, TableTypes, ChannelTypes, WorkerTypes, LifeTypes, PastTypes,
       db, loop, worker, life, past
  <1>3. CASE AutoRecover
    BY <1>3
    DEF AutoRecover, WaitsAnswered, Locations, States, TypeOK, TableTypes, ChannelTypes,
       WorkerTypes, LifeTypes, PastTypes, db, loop, worker, life
  <1>3a. CASE RecoverErrors
    BY <1>3a, ClearErrorsRow
    DEF RecoverErrors, Update, Locations, States, TypeOK, TableTypes, ChannelTypes,
       WorkerTypes, LifeTypes, PastTypes, db, loop, worker, life, past
  <1>3b. CASE RecoverPause
    BY <1>3b, ClearPauseRow
    DEF RecoverPause, Update, Locations, States, TypeOK, TableTypes, ChannelTypes,
       WorkerTypes, LifeTypes, PastTypes, db, loop, worker, life, past
  <1>4. CASE RecoverCounts
    BY <1>4
    DEF RecoverCounts, Locations, States, TypeOK, TableTypes, ChannelTypes, WorkerTypes,
       LifeTypes, PastTypes, db, loop, worker, life, past
  <1>4a. CASE RecoverCollects
    BY <1>4a
    DEF RecoverCollects, Locations, States, TypeOK, TableTypes, ChannelTypes,
       WorkerTypes, LifeTypes, PastTypes, db, loop, worker, life, past
  <1>4b. CASE RecoverResumes
    BY <1>4b, ResumePipelineRow
    DEF RecoverResumes, Update, Locations, States, TypeOK, TableTypes, ChannelTypes,
       WorkerTypes, LifeTypes, PastTypes, db, loop, worker, life, past
  <1>5. CASE RunBuildPipeline
    BY <1>5, ZeroBounds, RowFields
    DEF RunBuildPipeline, PausedLoop, Locations, States, Stages, TypeOK, TableTypes, ChannelTypes,
       WorkerTypes, LifeTypes, PastTypes, db, loop, worker, life, past
  <1>6. CASE LoopTop
    BY <1>6
    DEF LoopTop, Locations, States, TypeOK, TableTypes, ChannelTypes, WorkerTypes,
       LifeTypes, PastTypes, db, loop, worker, life, past
  <1>7. CASE PlanAsks
    <2>1. PICK n \in 1..MaxAsked : Len(questions) + n <= MaxQuestions /\ toAsk' = n
      BY <1>7 DEF PlanAsks
    <2>2. toAsk' \in Nat /\ Len(questions) + toAsk' <= MaxQuestions
      BY <2>1, ConstantsAssumption
    <2>3. TableTypes'
      BY <1>7, <2>2, SupersedeType DEF PlanAsks, TypeOK, TableTypes
    <2>4. QED
      BY <1>7, <2>3
      DEF PlanAsks, Locations, TypeOK, ChannelTypes, WorkerTypes, LifeTypes, PastTypes, life, past
  <1>8. CASE PlanReady
    BY <1>8, SavePlanRow
    DEF PlanReady, Update, Locations, TypeOK, TableTypes, ChannelTypes, WorkerTypes, LifeTypes, PastTypes,
       db, loop, worker, life, past
  <1>9. CASE BuildOrUpdateReady
    BY <1>9
    DEF BuildOrUpdateReady, Locations, TypeOK, TableTypes, ChannelTypes, WorkerTypes,
       LifeTypes, PastTypes, db, loop, worker, life, past
  <1>10. CASE RunComplete
    BY <1>10
    DEF RunComplete, Locations, Modes, TypeOK, TableTypes, ChannelTypes, WorkerTypes,
       LifeTypes, PastTypes, db, loop, worker, life, past
  <1>11. CASE StageFails
    BY <1>11
    DEF StageFails, Locations, TypeOK, TableTypes, ChannelTypes, WorkerTypes, LifeTypes, PastTypes,
       db, loop, worker, life, past
  <1>12. CASE InsertQuestion
    <2>1. /\ Len(questions) < MaxQuestions /\ toAsk' \in Nat
          /\ Len(questions) + 1 + toAsk' <= MaxQuestions
      BY <1>12, ConstantsAssumption DEF InsertQuestion, TypeOK, TableTypes
    <2>2. TableTypes'
      BY <1>12, <2>1, AppendType DEF InsertQuestion, TypeOK
    <2>3. QED
      BY <1>12, <2>2 DEF InsertQuestion, TypeOK, ChannelTypes, WorkerTypes, LifeTypes, PastTypes, life, past
  <1>12a. CASE InsertPanics
    <2>1. TableTypes'
      BY <1>12a, ConstantsAssumption DEF InsertPanics, TypeOK, TableTypes, db
    <2>2. QED
      BY <1>12a, <2>1
      DEF InsertPanics, Locations, TypeOK, ChannelTypes, WorkerTypes, LifeTypes, PastTypes, db,
         life, past
  <1>13. CASE PlanPauses
    BY <1>13, PausePipelineRow
    DEF PlanPauses, Update, Locations, Reasons, TypeOK, TableTypes, ChannelTypes, WorkerTypes,
       LifeTypes, PastTypes, db, loop, worker, life, past
  <1>14. CASE StageError
    <2>1. CASE SeenPaused(row) /\ PausedLoop /\ UNCHANGED <<row, miscounted>>
      BY <1>14, <2>1, ZeroBounds
      DEF StageError, PausedLoop, Locations, States, Stages, TypeOK, TableTypes,
         ChannelTypes, WorkerTypes, LifeTypes, PastTypes, life
    <2>2. CASE Update(PausePipeline(row, Permanent)) /\ PausedLoop /\ UNCHANGED miscounted
      <3>1. row' \in Row
        BY <2>2, PausePipelineRow DEF Update, TypeOK, Reasons
      <3>2. QED
        BY <1>14, <2>2, <3>1, ZeroBounds
        DEF StageError, PausedLoop, Locations, States, Stages, TypeOK, TableTypes,
           ChannelTypes, WorkerTypes, LifeTypes, PastTypes, life
    <2>3. CASE pc = "failed" /\ CountFailure
      <3>1. row' \in Row /\ miscounted' \in BOOLEAN
        BY <2>3, IncrementErrorCountRow DEF CountFailure, TypeOK, PastTypes
      <3>2. retries + 1 \in 0..MaxStageRetries
        <4>1. ~Exhausted(retries)
          BY <2>3 DEF LoopFacts, InBuildLoop
        <4>2. retries \in 0..MaxStageRetries /\ MaxStageRetries \in Nat
          BY ConstantsAssumption DEF TypeOK, WorkerTypes
        <4>3. QED
          BY <4>1, <4>2 DEF Exhausted
      <3>3. QED
        BY <1>14, <2>3, <3>1, <3>2
        DEF StageError, CountFailure, Locations, TypeOK, TableTypes, ChannelTypes,
           WorkerTypes, LifeTypes, PastTypes, life
    <2>4. QED
      BY <1>14, <2>1, <2>2, <2>3 DEF StageError
  <1>15. CASE GiveUp
    BY <1>15, PausePipelineRow, ZeroBounds
    DEF GiveUp, Update, PausedLoop, Locations, States, Stages, Reasons, TypeOK, TableTypes,
       ChannelTypes, WorkerTypes, LifeTypes, PastTypes, db, loop, worker, life
  <1>16. CASE Advance
    BY <1>16, AdvanceStageRow, NextStageType, ZeroBounds
    DEF Advance, Locations, TypeOK, TableTypes, ChannelTypes, WorkerTypes, LifeTypes,
       PastTypes, db, loop, worker, life, past
  <1>16a. CASE AdvanceFails
    BY <1>16a
    DEF AdvanceFails, Locations, TypeOK, TableTypes, ChannelTypes, WorkerTypes, LifeTypes,
       PastTypes, db, loop, worker, life, past
  <1>17. CASE HandleWake
    <2>1. row' \in Row
      BY <1>17, ResumePipelineRow DEF HandleWake, Update, TypeOK
    <2>2. PastTypes'
      BY <1>17 DEF HandleWake, TakeCommand, Asked, NotAsked, TypeOK, PastTypes
    <2>3. QED
      BY <1>17, <2>1, <2>2, TailType
      DEF HandleWake, AfterCommand, TakeCommand, States, Locations, TypeOK, TableTypes,
         WorkerTypes, LifeTypes, life
  <1>18. CASE HandleModeChange
    <2>1. row' \in Row
      BY <1>18, NewRowType DEF HandleModeChange, Update, ResetPipeline, TypeOK
    <2>2. PastTypes'
      BY <1>18 DEF HandleModeChange, TakeCommand, Asked, NotAsked, TypeOK, PastTypes
    <2>3. QED
      BY <1>18, <2>1, <2>2, HeadType, TailType
      DEF HandleModeChange, AfterCommand, TakeCommand, Modes, States, Locations, TypeOK,
         TableTypes, WorkerTypes, LifeTypes, life
  <1>19. CASE HandleUpdate
    BY <1>19, AdvanceStageRow, TailType
    DEF HandleUpdate, Asked, AfterCommand, TakeCommand, States, Locations, Stages, TypeOK,
       TableTypes, ChannelTypes, WorkerTypes, LifeTypes, PastTypes, db, loop, worker, life
  <1>20. CASE HandleScheduledTask
    BY <1>20, TailType
    DEF HandleScheduledTask, NotAsked, TakeCommand, Locations, TypeOK, TableTypes, ChannelTypes,
       WorkerTypes, LifeTypes, PastTypes, db, loop, worker, life, past
  <1>21. CASE HandleChat
    BY <1>21, TailType
    DEF HandleChat, NotAsked, TakeCommand, TypeOK, TableTypes, ChannelTypes, WorkerTypes,
       LifeTypes, PastTypes, db, loop, worker, life, past
  <1>22. CASE TaskDone
    BY <1>22
    DEF TaskDone, Locations, TypeOK, TableTypes, ChannelTypes, WorkerTypes, LifeTypes, PastTypes,
       db, loop, worker, life, past
  <1>23. CASE LoopCancelled
    BY <1>23
    DEF LoopCancelled, Locations, TypeOK, TableTypes, ChannelTypes, WorkerTypes,
       LifeTypes, PastTypes, db, loop, worker, life, past
  <1>q. QED
    BY <1>1, <1>2, <1>3, <1>4, <1>5, <1>6, <1>7, <1>8, <1>9, <1>10, <1>11, <1>12, <1>13,
       <1>14, <1>15, <1>16, <1>17, <1>18, <1>19, <1>20, <1>21, <1>22, <1>23, <1>3a,
       <1>3b, <1>4a, <1>4b, <1>12a, <1>16a
    DEF WorkerStep, StageStep, HandleCommand

\* Every step of a request, a tool, the manager or the process keeps the types.
LEMMA OutsideTypeStep ==
  ASSUME TypeOK, Outside PROVE TypeOK'
  <1>0. /\ hs \in [Handlers -> Doing] /\ TableTypes /\ ChannelTypes
        /\ NoCmd \in Command
    BY ZeroBounds, CommandTypes DEF TypeOK
  <1>1. ASSUME NEW h \in Handlers, Answer(h) PROVE TypeOK'
    <2>1. PICK q \in DOMAIN questions :
            questions' = [questions EXCEPT ![q].status = "answered"]
      BY <1>1 DEF Answer
    <2>3. hs' \in [Handlers -> Doing]
      BY <1>0, <1>1, BecomeType DEF Answer, Ops
    <2>4. questions[q] \in QuestionRow
      BY <1>0 DEF TableTypes
    <2>5. [questions[q] EXCEPT !.status = "answered"] \in QuestionRow
      BY <2>4 DEF QuestionRow
    <2>6. questions' = [questions EXCEPT ![q] = [questions[q] EXCEPT !.status = "answered"]]
      BY <2>1
    <2>7. /\ questions' \in Seq(QuestionRow) /\ Len(questions') = Len(questions)
          /\ DOMAIN questions' = DOMAIN questions
      BY <1>0, <2>5, <2>6 DEF TableTypes
    <2>8. QED
      BY <1>1, <2>3, <2>7
      DEF Answer, TypeOK, TableTypes, ChannelTypes, WorkerTypes, LifeTypes, PastTypes, loop,
         worker, life, past
  <1>3. ASSUME NEW h \in Handlers, CountPending(h) PROVE TypeOK'
    <2>1. hs' \in [Handlers -> Doing]
      <3>1. CASE Idle(h)
        BY <1>0, <1>3, <3>1, IdleType
      <3>2. CASE Become(h, "collect", NoCmd)
        BY <1>0, <1>3, <3>2, BecomeType DEF Ops
      <3>3. QED
        BY <1>3, <3>1, <3>2 DEF CountPending
    <2>2. QED
      BY <1>3, <2>1
      DEF CountPending, db, TypeOK, TableTypes, ChannelTypes, WorkerTypes, LifeTypes,
         PastTypes, loop, worker, life, past
  <1>4. ASSUME NEW h \in Handlers, CollectAnswers(h) PROVE TypeOK'
    <2>1. Cmd("wake", "") \in Command
      BY CommandTypes
    <2>2. hs' \in [Handlers -> Doing]
      <3>1. CASE Idle(h)
        BY <1>0, <3>1, IdleType
      <3>2. CASE Become(h, "send", Cmd("wake", ""))
        BY <1>0, <2>1, <3>2, BecomeType DEF Ops
      <3>3. QED
        BY <1>4, <3>1, <3>2 DEF CollectAnswers
    <2>3. QED
      BY <1>4, <2>2
      DEF CollectAnswers, db, TypeOK, TableTypes, ChannelTypes, WorkerTypes, LifeTypes,
         PastTypes, loop, worker, life, past
  <1>5. ASSUME NEW h \in Handlers, SendWake(h) PROVE TypeOK'
    <2>1. hs[h].cmd \in Command
      BY <1>0 DEF Doing
    <2>2. hs' \in [Handlers -> Doing]
      BY <1>0, <1>5, <2>1, BecomeType, IdleType DEF SendWake, Ops
    <2>3. ChannelTypes'
      <3>1. CASE Enqueue(hs[h].cmd)
        BY <1>0, <2>1, <3>1, EnqueueType
      <3>2. CASE queue' = queue
        BY <1>0, <3>2 DEF ChannelTypes
      <3>3. QED
        BY <1>5, <3>1, <3>2 DEF SendWake
    <2>4. PastTypes'
      BY <1>5 DEF SendWake, TypeOK, PastTypes
    <2>5. QED
      BY <1>5, <2>2, <2>3, <2>4
      DEF SendWake, db, TypeOK, TableTypes, WorkerTypes, LifeTypes, loop, worker, life
  <1>6. ASSUME NEW h \in Handlers, Mode(h) PROVE TypeOK'
    <2>1. PICK m \in Modes : mode' = m /\ Become(h, "sendMode", Cmd("mode_change", m))
      BY <1>6 DEF Mode
    <2>2. hs' \in [Handlers -> Doing]
      BY <1>0, <2>1, CommandTypes, BecomeType DEF Ops
    <2>3. QED
      BY <1>6, <2>1, <2>2
      DEF Mode, TypeOK, TableTypes, ChannelTypes, WorkerTypes, LifeTypes, PastTypes, loop,
         worker, life, past
  <1>7. ASSUME NEW h \in Handlers, SendMode(h) PROVE TypeOK'
    <2>1. hs[h].cmd \in Command
      BY <1>0 DEF Doing
    <2>2. hs' \in [Handlers -> Doing]
      BY <1>0, <1>7, IdleType DEF SendMode
    <2>3. ChannelTypes'
      <3>1. CASE Enqueue(hs[h].cmd)
        BY <1>0, <2>1, <3>1, EnqueueType
      <3>2. CASE queue' = queue
        BY <1>0, <3>2 DEF ChannelTypes
      <3>3. QED
        BY <1>7, <3>1, <3>2 DEF SendMode
    <2>4. QED
      BY <1>7, <2>2, <2>3
      DEF SendMode, db, TypeOK, TableTypes, WorkerTypes, LifeTypes, PastTypes, loop, worker,
         life, past
  <1>8. ASSUME NEW h \in Handlers, RequestApproval(h) PROVE TypeOK'
    <2>1. hs' \in [Handlers -> Doing]
      BY <1>0, <1>8, BecomeType DEF RequestApproval, Ops
    <2>2. QED
      BY <1>8, <2>1
      DEF RequestApproval, TypeOK, TableTypes, ChannelTypes, WorkerTypes, LifeTypes, PastTypes, db,
         loop, worker, life, past
  <1>8a. ASSUME NEW h \in Handlers, InsertApproval(h) PROVE TypeOK'
    <2>1. hs' \in [Handlers -> Doing]
      BY <1>0, <1>8a, BecomeType DEF InsertApproval, Ops
    <2>2. toAsk' = toAsk
      BY <1>8a DEF InsertApproval, worker, loop
    <2>3. TableTypes'
      <3>1. CASE questions' = questions
        BY <1>0, <2>2, <3>1 DEF TableTypes
      <3>2. CASE MayInsert /\ questions' = Append(questions, Question("approval"))
        <4>1. /\ Len(questions) < MaxQuestions /\ toAsk' \in Nat
              /\ Len(questions) + 1 + toAsk' <= MaxQuestions
          BY <1>0, <2>2, <3>2, ConstantsAssumption DEF MayInsert, TableTypes
        <4>2. QED
          BY <1>0, <2>2, <3>2, <4>1, AppendType
      <3>3. QED
        BY <1>8a, <3>1, <3>2 DEF InsertApproval
    <2>4. QED
      BY <1>8a, <2>1, <2>3
      DEF InsertApproval, TypeOK, ChannelTypes, WorkerTypes, LifeTypes, PastTypes, loop, worker,
         life, past
  <1>9. ASSUME NEW h \in Handlers, PauseForApproval(h) PROVE TypeOK'
    <2>1. hs' \in [Handlers -> Doing]
      BY <1>0, <1>9, IdleType DEF PauseForApproval
    <2>2. row' \in Row
      BY <1>9, PausePipelineRow DEF PauseForApproval, Update, TypeOK, Reasons
    <2>3. QED
      BY <1>9, <2>1, <2>2
      DEF PauseForApproval, TypeOK, TableTypes, ChannelTypes, WorkerTypes, LifeTypes, PastTypes,
         loop, worker, life, past
  <1>10. CASE ToolSetsMode
    BY <1>10
    DEF ToolSetsMode, TypeOK, TableTypes, ChannelTypes, WorkerTypes, LifeTypes, PastTypes, loop,
       worker, life, past
  <1>11. CASE ToolAsks
    <2>1. toAsk' = toAsk
      BY <1>11 DEF ToolAsks, worker, loop
    <2>2. /\ Len(questions) < MaxQuestions /\ toAsk' \in Nat
          /\ Len(questions) + 1 + toAsk' <= MaxQuestions
      BY <1>0, <1>11, <2>1, ConstantsAssumption DEF ToolAsks, MayInsert, TableTypes
    <2>3. TableTypes'
      BY <1>0, <1>11, <2>1, <2>2, AppendType DEF ToolAsks
    <2>4. QED
      BY <1>11, <2>3
      DEF ToolAsks, TypeOK, ChannelTypes, WorkerTypes, LifeTypes, PastTypes, loop, worker, life, past
  <1>12. CASE Notify
    <2>1. ChannelTypes'
      BY <1>0, <1>12, CommandTypes, EnqueueType DEF Notify
    <2>2. QED
      BY <1>12, <2>1
      DEF Notify, db, TypeOK, TableTypes, WorkerTypes, LifeTypes, PastTypes, loop, worker, life, past
  <1>13. CASE StopWorker
    BY <1>13
    DEF StopWorker, db, TypeOK, TableTypes, ChannelTypes, WorkerTypes, LifeTypes, PastTypes, loop,
       worker, life, past
  <1>14. CASE StartWorker
    <2>1. TableTypes' /\ ChannelTypes' /\ WorkerTypes'
      BY <1>14, ZeroBounds, ConstantsAssumption

      DEF StartWorker, NewWorker, db, TypeOK, TableTypes, ChannelTypes, WorkerTypes,
         LifeTypes, PastTypes, loop, worker, life, past, Locations, States, Stages
    <2>2. QED
      BY <1>14, <2>1 DEF StartWorker, NewWorker, db, TypeOK, LifeTypes, PastTypes
  <1>15. CASE Crash
    <2>1. TableTypes' /\ ChannelTypes' /\ WorkerTypes'
      BY <1>15, ZeroBounds, ConstantsAssumption

      DEF Crash, NewWorker, db, TypeOK, TableTypes, ChannelTypes, WorkerTypes,
         LifeTypes, PastTypes, loop, worker, life, past, Locations, States, Stages
    <2>2. [op |-> "idle", cmd |-> NoCmd] \in Doing
      BY <1>0 DEF Doing, Ops
    <2>3. LifeTypes'
      <3>1. crashes' \in 0..MaxCrashes
        BY <1>15, ConstantsAssumption DEF Crash, TypeOK, LifeTypes, PastTypes
      <3>2. QED
        BY <1>15, <3>1 DEF Crash, NewWorker, LifeTypes, PastTypes
    <2>4. hs' \in [Handlers -> Doing]
      BY <1>15, <2>2 DEF Crash
    <2>5. PastTypes'
      BY <1>15 DEF Crash, NewWorker, TypeOK, PastTypes
    <2>6. QED
      BY <1>15, <2>1, <2>3, <2>4, <2>5 DEF Crash, db, TypeOK
  <1>q. QED
    BY <1>1, <1>3, <1>4, <1>5, <1>6, <1>7, <1>8, <1>9, <1>10, <1>11, <1>12,
       <1>13, <1>14, <1>15, <1>8a DEF Outside, Request, HandlerStep

-----------------------------------------------------------------------------
(* The inductive invariant.                                                *)

SafeParts ==
  /\ LoopInSync /\ FailuresRecorded /\ PlanBeforeBuild
  /\ NoStageWhilePaused /\ LoopFacts

\* Every step of the worker goroutine keeps the safety part of the invariant.
LEMMA WorkerSafeStep ==
  ASSUME TypeOK, SafeParts, WorkerStep PROVE SafeParts'
  <1> USE DEF SafeParts, LoopInSync, FailuresRecorded, PlanBeforeBuild,
              NoStageWhilePaused, LoopFacts, InBuildLoop, Recovering
  <1>0. /\ row \in Row /\ row.errorCount \in 0..MaxStageRetries
        /\ row.errorCount \in Nat /\ retries \in 0..MaxStageRetries /\ retries \in Nat
        /\ MaxStageRetries \in Nat /\ MaxStageRetries > 0
        /\ row.paused \in BOOLEAN /\ row.stage \in Stages /\ stage \in Stages
        /\ gaveUp \in BOOLEAN /\ miscounted \in BOOLEAN
    BY ConstantsAssumption, RowFields DEF TypeOK, WorkerTypes, PastTypes
  <1> USE <1>0
  <1>1. CASE Run
    BY <1>1 DEF Run, db, loop, past
  <1>2. CASE LoadFails
    BY <1>2 DEF LoadFails, db, loop, past
  <1>3. CASE AutoRecover
    BY <1>3 DEF AutoRecover, db, loop
  <1>4. CASE RecoverErrors
    BY <1>4, ClearErrorsRow DEF RecoverErrors, Update, loop, past
  <1>5. CASE RecoverPause
    BY <1>5, ClearPauseRow DEF RecoverPause, Update, loop, past
  <1>6. CASE RecoverCounts
    BY <1>6 DEF RecoverCounts, db, loop, past
  <1>7. CASE RecoverCollects
    BY <1>7 DEF RecoverCollects, db, loop, past
  <1>8. CASE RecoverResumes
    BY <1>8, ResumePipelineRow DEF RecoverResumes, Update, loop, past
  <1>9. CASE RunBuildPipeline
    <2>1. row' = row /\ UNCHANGED <<gaveUp, miscounted>> /\ (~miscounted => ~gaveUp)
      BY <1>9 DEF RunBuildPipeline, db, past
    <2>2. CASE pc' = "paused" /\ state' = "paused"
      BY <2>1, <2>2
    <2>3. CASE ~row.paused /\ pc' = "top" /\ stage' = row.stage /\ retries' = 0
      <3>1. ~Exhausted(retries') /\ retries' <= row'.errorCount
        BY <2>1, <2>3 DEF Exhausted
      <3>2. QED
        BY <2>1, <2>3, <3>1
    <2>4. QED
      BY <1>9, <2>2, <2>3 DEF RunBuildPipeline, PausedLoop, SeenPaused
  <1>10. CASE LoopTop
    BY <1>10 DEF LoopTop, db, loop, past
  <1>11. CASE PlanAsks
    BY <1>11 DEF PlanAsks, db, loop, past
  <1>12. CASE PlanReady
    BY <1>12, SavePlanRow DEF PlanReady, Update, db, loop, past
  <1>13. CASE BuildOrUpdateReady
    BY <1>13 DEF BuildOrUpdateReady, db, loop, past
  <1>14. CASE RunComplete
    BY <1>14 DEF RunComplete, db, loop, past
  <1>15. CASE StageFails
    BY <1>15 DEF StageFails, db, loop, past
  <1>16. CASE InsertQuestion
    BY <1>16 DEF InsertQuestion, db, loop, past
  <1>17. CASE InsertPanics
    BY <1>17 DEF InsertPanics, db, loop, past
  <1>18. CASE PlanPauses
    <2>1. /\ row'.stage = row.stage /\ row'.plan = row.plan
          /\ row'.errorCount = row.errorCount
      BY <1>18 DEF PlanPauses, Update, PausePipeline, Row
    <2>2. QED
      BY <1>18, <2>1 DEF PlanPauses, loop, past
  <1>19. CASE StageError
    <2>0. ~miscounted => ~gaveUp
      BY <1>19 DEF StageError
    <2>1. CASE SeenPaused(row) /\ PausedLoop /\ UNCHANGED <<row, miscounted>>
      BY <1>19, <2>0, <2>1 DEF StageError, PausedLoop
    <2>2. CASE Update(PausePipeline(row, Permanent)) /\ PausedLoop /\ UNCHANGED miscounted
      <3>1. /\ row'.stage = row.stage /\ row'.plan = row.plan
        BY <2>2 DEF Update, PausePipeline, Row
      <3>2. QED
        BY <1>19, <2>0, <2>2, <3>1 DEF StageError, PausedLoop
    <2>3. CASE pc = "failed" /\ CountFailure /\ (~SeenPaused(row) \/ "read" \in Faults)
      <3>1. /\ row'.stage = row.stage /\ row'.plan = row.plan
            /\ row'.paused = row.paused /\ row'.reason = row.reason
        BY <2>3, IncrementErrorCountRow DEF CountFailure
      <3>2. ~Exhausted(retries)
        BY <2>3
      <3>3. ~miscounted' => row' = IncrementErrorCount(row) /\ ~miscounted
        BY <2>3 DEF CountFailure
      <3>3a. ~miscounted' => retries' <= row'.errorCount
        <4> SUFFICES ASSUME ~miscounted' PROVE retries' <= row'.errorCount
          OBVIOUS
        <4>1. retries <= row.errorCount /\ retries < MaxStageRetries /\ retries' = retries + 1
          BY <2>3, <3>2, <3>3 DEF CountFailure, Exhausted
        <4>2. row'.errorCount =
                IF row.errorCount < MaxStageRetries THEN row.errorCount + 1 ELSE row.errorCount
          BY <3>3, IncrementErrorCountRow
        <4>3. QED
          BY <4>1, <4>2
      <3>4. ~miscounted' => ~gaveUp'
        BY <1>19, <2>0, <3>3 DEF StageError
      <3>5. UNCHANGED stage /\ pc' = IF Exhausted(retries') THEN "giveUp" ELSE "top"
        BY <2>3 DEF CountFailure
      <3>6. QED
        BY <2>3, <3>1, <3>3a, <3>4, <3>5 DEF SeenPaused
    <2>4. QED
      BY <1>19, <2>1, <2>2, <2>3 DEF StageError
  <1>20. CASE GiveUp
    <2>0. row' = row \/ row' = PausePipeline(row, GaveUp)
      BY <1>20 DEF GiveUp, Update
    <2>1. /\ row'.stage = row.stage /\ row'.plan = row.plan
          /\ row'.errorCount = row.errorCount
      BY <2>0 DEF PausePipeline, Row
    <2>2. ~miscounted => Exhausted(row.errorCount)
      <3>1. pc = "giveUp" /\ Exhausted(retries)
        BY <1>20 DEF GiveUp
      <3>2. ~miscounted => retries <= row.errorCount
        BY <3>1
      <3>3. QED
        BY <3>1, <3>2 DEF Exhausted
    <2>3. pc' = "paused" /\ state' = "paused" /\ UNCHANGED miscounted
      BY <1>20 DEF GiveUp, PausedLoop
    <2>4. QED
      BY <2>1, <2>2, <2>3 DEF Exhausted
  <1>21. CASE Advance
    <2>1. /\ row'.stage = NextStage[stage] /\ row'.plan = row.plan
          /\ row'.errorCount = 0
          /\ row'.paused = row.paused /\ row'.reason = row.reason
      BY <1>21, AdvanceStageRow, NextStageType DEF Advance
    <2>2. NextStage["PLAN"] = "BUILD"
      BY DEF NextStage, Stages
    <2>3. /\ pc = "advance" /\ pc' = "top" /\ stage' = NextStage[stage] /\ retries' = 0
          /\ UNCHANGED <<gaveUp, miscounted>>
      BY <1>21 DEF Advance, past
    <2>4. ~Exhausted(retries') /\ retries' <= row'.errorCount
      BY <2>1, <2>3 DEF Exhausted
    <2>5. stage = row.stage /\ (~miscounted => ~gaveUp)
      BY <2>3
    <2>6. row'.stage \in {"COMPLETE", "MONITORING"} => row'.plan
      BY <2>1, <2>2, <2>3
    <2>7. QED
      BY <2>1, <2>3, <2>4, <2>5, <2>6
  <1>22. CASE AdvanceFails
    BY <1>22 DEF AdvanceFails, db, loop, past
  <1>23. CASE HandleWake
    <2>1. \/ state = "paused" /\ Update(ResumePipeline(row)) /\ Asked
          \/ row' = row /\ NotAsked /\ state # "paused" /\ pc' = pc /\ state' = state
      BY <1>23 DEF HandleWake, TakeCommand, AfterCommand
    <2>2. /\ row'.stage = row.stage /\ row'.plan = row.plan
          /\ row'.errorCount = row.errorCount
      BY <2>1, ResumePipelineRow DEF Update
    <2>3. /\ pc \in {"paused", "monitoring"}
          /\ pc' \in {"paused", "monitoring", "load"}
      BY <1>23 DEF HandleWake, TakeCommand, AfterCommand
    <2>4. CASE Asked
      <3>1. pc' = "paused" => state' = "paused"
        BY <1>23 DEF HandleWake, TakeCommand, AfterCommand, States
      <3>2. QED
        BY <2>2, <2>3, <2>4, <3>1 DEF Asked
    <2>5. CASE row' = row /\ NotAsked /\ pc' = pc /\ state' = state
      BY <2>2, <2>3, <2>5 DEF NotAsked
    <2>6. QED
      BY <2>1, <2>4, <2>5
  <1>24. CASE HandleModeChange
    <2>1. \/ Asked /\ Head(queue).mode = "building" /\ Update(NewRow)
          \/ row' = row /\ NotAsked /\ Head(queue).mode # "building"
      BY <1>24 DEF HandleModeChange, ResetPipeline
    <2>2. /\ pc \in {"paused", "monitoring"}
          /\ pc' \in {"paused", "monitoring"} \/ (pc' = "load" /\ Head(queue).mode = "building")
      BY <1>24 DEF HandleModeChange, TakeCommand, AfterCommand
    <2>2a. pc' = "paused" => state' = "paused"
      <3>1. Head(queue).mode \in Modes
        BY <1>24, HeadType DEF HandleModeChange, TakeCommand, TypeOK
      <3>2. QED
        BY <1>24, <3>1 DEF HandleModeChange, TakeCommand, AfterCommand, Modes
    <2>3. CASE Asked /\ (row' = row \/ row' = NewRow)
      BY <2>2, <2>2a, <2>3, NewRowType DEF Asked
    <2>4. CASE row' = row /\ NotAsked /\ pc' # "load"
      BY <2>2, <2>2a, <2>4 DEF NotAsked
    <2>5. QED
      BY <2>1, <2>2, <2>3, <2>4 DEF Update
  <1>25. CASE HandleUpdate
    <2>1. row' = row \/ row' = AdvanceStage(row, "UPDATE_PLAN")
      BY <1>25 DEF HandleUpdate
    <2>2. /\ row'.stage \in {row.stage, "UPDATE_PLAN"} /\ row'.plan = row.plan
          /\ row'.paused = row.paused /\ row'.reason = row.reason
      BY <2>1 DEF AdvanceStage, Row
    <2>3. pc \in {"paused", "monitoring"} /\ pc' \in {"monitoring", "load"}
      BY <1>25 DEF HandleUpdate, TakeCommand, AfterCommand
    <2>4. QED
      BY <1>25, <2>2, <2>3 DEF HandleUpdate, Asked
  <1>26. CASE HandleScheduledTask
    BY <1>26 DEF HandleScheduledTask, NotAsked, TakeCommand, db, loop
  <1>27. CASE HandleChat
    BY <1>27 DEF HandleChat, NotAsked, TakeCommand, db, loop
  <1>28. CASE TaskDone
    BY <1>28 DEF TaskDone, db, loop, past
  <1>29. CASE LoopCancelled
    BY <1>29 DEF LoopCancelled, db, loop, past
  <1>q. QED
    BY <1>1, <1>2, <1>3, <1>4, <1>5, <1>6, <1>7, <1>8, <1>9, <1>10, <1>11, <1>12,
       <1>13, <1>14, <1>15, <1>16, <1>17, <1>18, <1>19, <1>20, <1>21, <1>22, <1>23,
       <1>24, <1>25, <1>26, <1>27, <1>28, <1>29
    DEF WorkerStep, StageStep, HandleCommand

\* The goroutines outside the worker change the row only to pause it for an
\* approval, and a new worker starts outside the build loop.
LEMMA OutsideSafeStep ==
  ASSUME TypeOK, SafeParts, Outside PROVE SafeParts'
  <1> USE DEF SafeParts, LoopInSync, FailuresRecorded, PlanBeforeBuild,
              NoStageWhilePaused, LoopFacts, InBuildLoop, Recovering, Exhausted
  <1>1. CASE UNCHANGED <<row, pc, state, stage, retries, gaveUp, miscounted>>
    BY <1>1
  <1>2. CASE /\ row' = PausePipeline(row, Approval)
             /\ UNCHANGED <<pc, state, stage, retries, gaveUp, miscounted>>
    <2>1. row \in Row /\ Approval \in Reasons
      BY DEF TypeOK, Reasons
    <2>2. QED
      BY <1>2, <2>1, PausePipelineRow DEF Approval
  <1>3. CASE UNCHANGED <<row, gaveUp, miscounted>> /\ pc' = "boot"
    BY <1>3
  <1>4. QED
    BY <1>1, <1>2, <1>3 DEF Outside, Request, HandlerStep, Answer, Mode, RequestApproval,
       CountPending, CollectAnswers, SendWake, SendMode, InsertApproval, Update,
       PauseForApproval, ToolSetsMode, ToolAsks, Notify, StopWorker, StartWorker, Crash,
       NewWorker, db, worker, loop, past

\* A new site satisfies the invariant.
LEMMA InitInv == Init => PipelineInv
  <1> SUFFICES ASSUME Init PROVE PipelineInv
    OBVIOUS
  <1>1. TypeOK
    <2>1. mode \in Modes /\ row \in Row
      BY NewRowType DEF Init, Modes
    <2>2. TableTypes /\ ChannelTypes
      BY ConstantsAssumption DEF Init, InitWorker, TableTypes, ChannelTypes
    <2>3. WorkerTypes
      BY ZeroBounds DEF Init, InitWorker, WorkerTypes, Locations, States, Stages
    <2>4. LifeTypes /\ PastTypes
      <3>1. crashes \in 0..MaxCrashes
        BY ConstantsAssumption DEF Init
      <3>2. QED
        BY <3>1 DEF Init, LifeTypes, PastTypes
    <2>5. [op |-> "idle", cmd |-> NoCmd] \in Doing
      BY CommandTypes DEF Doing, Ops
    <2>6. QED
      BY <2>1, <2>2, <2>3, <2>4, <2>5 DEF Init, TypeOK
  <1>2. SafeParts
    BY NewRowType DEF Init, InitWorker, SafeParts, LoopInSync, FailuresRecorded,
       PlanBeforeBuild, NoStageWhilePaused, LoopFacts, InBuildLoop, Recovering
  <1>3. QED
    BY <1>1, <1>2 DEF PipelineInv, SafeParts

\* Every step keeps the invariant.
LEMMA StepInv == PipelineInv /\ [Next]_vars => PipelineInv'
  <1> SUFFICES ASSUME PipelineInv, [Next]_vars PROVE PipelineInv'
    OBVIOUS
  <1>0. TypeOK /\ SafeParts /\ LoopFacts
    BY DEF PipelineInv, SafeParts
  <1>1. CASE WorkerStep
    BY <1>0, <1>1, WorkerTypeStep, WorkerSafeStep DEF PipelineInv, SafeParts
  <1>2. CASE Outside
    BY <1>0, <1>2, OutsideTypeStep, OutsideSafeStep DEF PipelineInv, SafeParts
  <1>3. CASE UNCHANGED vars
    BY <1>3 DEF vars, db, worker, loop, life, past, PipelineInv, TypeOK, TableTypes, ChannelTypes,
       WorkerTypes, LifeTypes, PastTypes, LoopInSync, FailuresRecorded, PlanBeforeBuild,
       NoStageWhilePaused, LoopFacts, InBuildLoop, Recovering
  <1>4. QED
    BY <1>1, <1>2, <1>3 DEF Next

\* In every reachable state of the pipeline the inductive invariant holds,
\* whichever of its reads and writes fail.
THEOREM Invariance == Spec => []PipelineInv
  BY InitInv, StepInv, PTL DEF Spec

\* Type correctness of the worker, the row, the channel and the requests: the
\* channel never overflows, no table index is out of range.
THEOREM TypeCorrect == Spec => []TypeOK
  <1>1. PipelineInv => TypeOK
    BY DEF PipelineInv
  <1>2. QED
    BY <1>1, Invariance, PTL

\* The local stage of runBuildPipeline is always the stage in the row.
THEOREM LoopInSyncAlways == Spec => []LoopInSync
  <1>1. PipelineInv => LoopInSync
    BY DEF PipelineInv
  <1>2. QED
    BY <1>1, Invariance, PTL

\* Unless an increment or a read of error_count failed, no failure counted by
\* the loop is missing from error_count, and a pipeline that gave up stays at
\* the limit and out of the loop, across stops and crashes, until it is asked
\* for a build.
THEOREM FailuresAlwaysRecorded == Spec => []FailuresRecorded
  <1>1. PipelineInv => FailuresRecorded
    BY DEF PipelineInv
  <1>2. QED
    BY <1>1, Invariance, PTL

\* A row in COMPLETE or MONITORING has a plan, also when storing it failed.
THEOREM PlanAlwaysBeforeBuild == Spec => []PlanBeforeBuild
  <1>1. PipelineInv => PlanBeforeBuild
    BY DEF PipelineInv
  <1>2. QED
    BY <1>1, Invariance, PTL

\* While the row is paused for anything but an approval, no stage runs.
THEOREM PausedRunsNoStage == Spec => []NoStageWhilePaused
  <1>1. PipelineInv => NoStageWhilePaused
    BY DEF PipelineInv
  <1>2. QED
    BY <1>1, Invariance, PTL

-----------------------------------------------------------------------------
(* What a step does to the row.                                            *)

\* The statements on the row, each with where it is executed.
RowStep ==
  \/ pc = "recoverErrors" /\ row' = ClearErrors(row)
  \/ pc = "recoverPause" /\ row' = ClearPause(row)
  \/ pc = "recoverResume" /\ row' = ResumePipeline(row)
  \/ \E why \in Reasons : row' = PausePipeline(row, why)
  \/ row' = SavePlan(row)
  \/ row' = IncrementErrorCount(row)
  \/ Advance
  \/ queue # <<>> /\ queue' = Tail(queue)

\* Every step leaves the row alone or is one of the steps above.
LEMMA RowSteps ==
  ASSUME [Next]_vars PROVE row' = row \/ RowStep
  <1>0. {Answers, Approval, GaveUp, Permanent} \subseteq Reasons
    BY DEF Reasons
  <1>1. CASE WorkerStep
    <2>1. CASE StageStep
      BY <2>1
      DEF StageStep, PlanAsks, PlanReady, BuildOrUpdateReady, RunComplete, StageFails,
         Update, RowStep, db
    <2>2. CASE HandleCommand
      BY <2>2 DEF HandleCommand, HandleWake, HandleModeChange, HandleUpdate,
         HandleScheduledTask, HandleChat, TakeCommand, RowStep
    <2>3. CASE StageError
      BY <1>0, <2>3 DEF StageError, CountFailure, Update, RowStep
    <2>4. CASE RecoverErrors \/ RecoverPause \/ RecoverResumes
      BY <2>4 DEF RecoverErrors, RecoverPause, RecoverResumes, Update, RowStep
    <2>5. CASE PlanPauses \/ GiveUp \/ Advance
      BY <1>0, <2>5 DEF PlanPauses, GiveUp, Update, RowStep
    <2>6. CASE \/ Run \/ LoadFails \/ AutoRecover \/ RecoverCounts \/ RecoverCollects
               \/ RunBuildPipeline \/ LoopTop \/ InsertQuestion \/ InsertPanics
               \/ AdvanceFails \/ TaskDone \/ LoopCancelled
      BY <2>6 DEF Run, LoadFails, AutoRecover, RecoverCounts, RecoverCollects,
         RunBuildPipeline, LoopTop, InsertQuestion, InsertPanics, AdvanceFails, TaskDone,
         LoopCancelled, db
    <2>7. QED
      BY <1>1, <2>1, <2>2, <2>3, <2>4, <2>5, <2>6 DEF WorkerStep
  <1>2. CASE Outside
    BY <1>0, <1>2 DEF Outside, Request, HandlerStep, Answer, Mode, RequestApproval,
       CountPending, CollectAnswers, SendWake, SendMode, InsertApproval, PauseForApproval,
       ToolSetsMode, ToolAsks, Notify, StopWorker, StartWorker, Crash, NewWorker, Update,
       RowStep, db
  <1>3. CASE UNCHANGED vars
    BY <1>3 DEF vars, db
  <1>4. QED
    BY <1>1, <1>2, <1>3 DEF Next

\* Only autoRecover and the handling of a command unpause the row.
LEMMA ResumeStep ==
  ASSUME PipelineInv, [Next]_vars, row.paused, ~row'.paused
  PROVE  \/ pc = "recoverPause" /\ row.reason \notin {Answers, Approval}
         \/ pc = "recoverResume"
         \/ queue # <<>> /\ queue' = Tail(queue)
  <1>1. row \in Row /\ row.paused \in BOOLEAN /\ stage \in Stages
    BY RowFields DEF PipelineInv, TypeOK, WorkerTypes
  <1>2. CASE pc = "recoverErrors" /\ row' = ClearErrors(row)
    BY <1>1, <1>2, ClearErrorsRow
  <1>3. CASE pc = "recoverPause" /\ row' = ClearPause(row)
    BY <1>1, <1>3, ClearPauseRow
  <1>4. CASE \E why \in Reasons : row' = PausePipeline(row, why)
    BY <1>1, <1>4, PausePipelineRow
  <1>5. CASE row' = SavePlan(row)
    BY <1>1, <1>5, SavePlanRow
  <1>6. CASE row' = IncrementErrorCount(row)
    BY <1>1, <1>6, IncrementErrorCountRow
  <1>7. CASE Advance
    BY <1>1, <1>7, AdvanceStageRow, NextStageType DEF Advance
  <1>8. QED
    BY RowSteps, <1>2, <1>3, <1>4, <1>5, <1>6, <1>7 DEF RowStep

\* A pipeline that gave up is resumed by a command only (also after stops and
\* crashes, unless its failures were miscounted), and one that waits for the
\* owner by nothing but a command or an autoRecover that saw all answers.
THEOREM ResumedByCommands == Spec => OnlyCommandsResume
  <1> DEFINE Waits == \/ gaveUp /\ ~miscounted
                      \/ row.reason \in {Answers, Approval} /\ pc # "recoverResume"
             A == /\ row.paused /\ ~row'.paused
                  /\ Waits
                  => queue # <<>> /\ queue' = Tail(queue)
  <1>1. PipelineInv /\ [Next]_vars => [A]_vars
    <2> SUFFICES ASSUME PipelineInv, [Next]_vars, row.paused, ~row'.paused, Waits
                 PROVE  queue # <<>> /\ queue' = Tail(queue)
      OBVIOUS
    <2>1. pc \in {"recoverPause", "recoverResume"} => ~(gaveUp /\ ~miscounted)
      BY DEF PipelineInv, LoopFacts, Recovering
    <2>2. QED
      BY <2>1, ResumeStep
  <1>2. QED
    BY <1>1, Invariance, PTL DEF Spec, OnlyCommandsResume

-----------------------------------------------------------------------------
(* The pipeline implements BuildLifecycle.                                 *)

\* What the lifecycle sees of the site and of what is known of its failures.
Site   == <<row.stage, row.plan>>
Record == <<gaveUp, miscounted>>

\* Every step of the worker goroutine is a step of the lifecycle, or leaves it
\* alone.
LEMMA WorkerLifecycle ==
  ASSUME PipelineInv, WorkerStep PROVE [Lifecycle!Next]_Lifecycle!vars
  <1>0. /\ row \in Row /\ stage \in Stages /\ queue \in Seq(Command)
        /\ gaveUp \in BOOLEAN /\ miscounted \in BOOLEAN
    BY DEF PipelineInv, TypeOK, WorkerTypes, ChannelTypes, PastTypes
  <1> USE <1>0
  <1> USE DEF Site, Record
  <1>1. CASE UNCHANGED <<Site, Record, queue>>
    BY <1>1 DEF Lifecycle!vars
  <1>2. CASE UNCHANGED <<Site, gaveUp, queue>> /\ miscounted' = TRUE /\ Faults # {}
    BY <1>2 DEF Lifecycle!Next, Lifecycle!Forget, Lifecycle!site
  <1>3. CASE \/ Run \/ LoadFails \/ RecoverCounts \/ RecoverCollects
             \/ RunBuildPipeline \/ LoopTop \/ InsertQuestion \/ InsertPanics
             \/ AdvanceFails \/ TaskDone \/ LoopCancelled
             \/ PlanAsks \/ BuildOrUpdateReady \/ RunComplete \/ StageFails
    BY <1>1, <1>3 DEF Run, LoadFails, RecoverCounts, RecoverCollects, RunBuildPipeline,
       LoopTop, InsertQuestion, InsertPanics, AdvanceFails, TaskDone, LoopCancelled,
       PlanAsks, BuildOrUpdateReady, RunComplete, StageFails, db, past
  <1>4. CASE RecoverErrors \/ RecoverPause \/ RecoverResumes \/ PlanPauses
    <2>0. \/ row' = row \/ row' = ClearErrors(row) \/ row' = ClearPause(row)
          \/ row' = ResumePipeline(row) \/ row' = PausePipeline(row, Answers)
      BY <1>4 DEF RecoverErrors, RecoverPause, RecoverResumes, PlanPauses, Update
    <2>1. UNCHANGED Site
      BY <2>0 DEF ClearErrors, ClearPause, ResumePipeline, PausePipeline, Row
    <2>2. QED
      BY <1>1, <1>4, <2>1 DEF RecoverErrors, RecoverPause, RecoverResumes, PlanPauses, past
  <1>5. CASE AutoRecover
    BY <1>1, <1>2, <1>5 DEF AutoRecover, db
  <1>6. CASE StageError
    <2>0. \/ row' = row \/ row' = IncrementErrorCount(row)
          \/ row' = PausePipeline(row, Permanent)
      BY <1>6 DEF StageError, CountFailure, Update
    <2>1. UNCHANGED Site
      BY <2>0 DEF IncrementErrorCount, PausePipeline, Row
    <2>2. UNCHANGED miscounted \/ (miscounted' = TRUE /\ Faults # {})
      BY <1>6 DEF StageError, CountFailure
    <2>3. QED
      BY <1>1, <1>2, <1>6, <2>1, <2>2 DEF StageError
  <1>7. CASE GiveUp
    <2>0. row' = row \/ row' = PausePipeline(row, GaveUp)
      BY <1>7 DEF GiveUp, Update
    <2>1. UNCHANGED Site
      BY <2>0 DEF PausePipeline, Row
    <2>2. QED
      BY <1>7, <2>1 DEF GiveUp, Lifecycle!Next, Lifecycle!Stop, Lifecycle!site
  <1>8. CASE PlanReady
    <2>1. /\ UNCHANGED <<Record, queue>>
          /\ row' = row \/ (row'.stage = row.stage /\ row'.plan = TRUE)
      BY <1>8, SavePlanRow DEF PlanReady, Update, past
    <2>2. row.stage = "PLAN" /\ (~gaveUp \/ miscounted)
      BY <1>8 DEF PlanReady, PipelineInv, LoopInSync, FailuresRecorded, InBuildLoop
    <2>3. QED
      BY <1>1, <2>1, <2>2
      DEF Lifecycle!Next, Lifecycle!StorePlan, Lifecycle!MayBuild, Lifecycle!record
  <1>9. CASE Advance
    <2>1. /\ row'.stage = NextStage[stage] /\ row'.plan = row.plan
          /\ UNCHANGED <<Record, queue>>
      BY <1>9, AdvanceStageRow, NextStageType DEF Advance, past
    <2>2. /\ row.stage = stage /\ (~gaveUp \/ miscounted)
          /\ row.plan \/ (row.stage = "PLAN" /\ Faults # {})
      BY <1>9 DEF Advance, PipelineInv, LoopInSync, FailuresRecorded, LoopFacts, InBuildLoop
    <2>3. NextStage[stage] = Lifecycle!After(stage)
      BY DEF NextStage, Lifecycle!After, Stages
    <2>4. QED
      BY <2>1, <2>2, <2>3
      DEF Lifecycle!Next, Lifecycle!Proceed, Lifecycle!MayBuild, Lifecycle!record
  <1>10. CASE HandleCommand
    <2>1. queue # <<>> /\ queue' = Tail(queue)
      BY <1>10 DEF HandleCommand, HandleWake, HandleModeChange, HandleUpdate,
         HandleScheduledTask, HandleChat, TakeCommand
    <2>2. Len(queue) > 0 /\ Len(queue') = Len(queue) - 1
      BY <2>1
    <2>3. CASE NotAsked /\ row' = row
      BY <2>2, <2>3
      DEF NotAsked, Lifecycle!Next, Lifecycle!Ignore, Lifecycle!Take, Lifecycle!site,
         Lifecycle!record
    <2>4. CASE Asked /\ UNCHANGED Site
      BY <2>2, <2>4
      DEF Asked, Lifecycle!Next, Lifecycle!GoOn, Lifecycle!Take, Lifecycle!Asked,
         Lifecycle!site
    <2>5. CASE HandleWake
      <3>1. UNCHANGED Site
        BY <2>5, ResumePipelineRow DEF HandleWake, Update
      <3>2. QED
        BY <2>3, <2>4, <2>5, <3>1 DEF HandleWake
    <2>6. CASE HandleModeChange
      <3>1. CASE Asked /\ row' = NewRow
        BY <2>2, <3>1, NewRowType
        DEF Asked, Lifecycle!Next, Lifecycle!StartOver, Lifecycle!Take, Lifecycle!Asked
      <3>2. QED
        BY <2>3, <2>4, <2>6, <3>1 DEF HandleModeChange, Update, ResetPipeline
    <2>7. CASE HandleUpdate
      <3>1. CASE Asked /\ row' = AdvanceStage(row, "UPDATE_PLAN")
        <4>1. row'.stage = "UPDATE_PLAN" /\ row'.plan = row.plan
          BY <3>1, AdvanceStageRow DEF Stages
        <4>2. QED
          BY <2>2, <3>1, <4>1
          DEF Asked, Lifecycle!Next, Lifecycle!Change, Lifecycle!Take, Lifecycle!Asked
      <3>2. QED
        BY <2>4, <2>7, <3>1 DEF HandleUpdate
    <2>8. CASE HandleScheduledTask \/ HandleChat
      BY <2>3, <2>8 DEF HandleScheduledTask, HandleChat
    <2>9. QED
      BY <1>10, <2>5, <2>6, <2>7, <2>8 DEF HandleCommand
  <1>11. QED
    BY <1>3, <1>4, <1>5, <1>6, <1>7, <1>8, <1>9, <1>10 DEF WorkerStep, StageStep

\* So is every step of a request, a tool, the manager or the process.
LEMMA OutsideLifecycle ==
  ASSUME PipelineInv, Outside PROVE [Lifecycle!Next]_Lifecycle!vars
  <1>0. row \in Row /\ queue \in Seq(Command)
    BY DEF PipelineInv, TypeOK, ChannelTypes
  <1> USE <1>0
  <1> USE DEF Site, Record
  <1>1. UNCHANGED <<Site, Record>>
    <2>1. /\ row' = row \/ row' = PausePipeline(row, Approval)
          /\ UNCHANGED Record
      BY DEF Outside, Request, HandlerStep, Answer, Mode, RequestApproval,
         CountPending, CollectAnswers, SendWake, SendMode, InsertApproval,
         PauseForApproval, ToolSetsMode, ToolAsks, Notify, StopWorker, StartWorker, Crash,
         NewWorker, Update, db, past
    <2>2. QED
      BY <2>1 DEF PausePipeline, Row
  <1>2. CASE queue' = queue
    BY <1>1, <1>2 DEF Lifecycle!vars
  <1>3. CASE \E c : Enqueue(c)
    <2>1. Len(queue') = Len(queue) + 1
      BY <1>3 DEF Enqueue
    <2>2. QED
      BY <1>1, <2>1
      DEF Lifecycle!Next, Lifecycle!Request, Lifecycle!site, Lifecycle!record
  <1>4. CASE queue' = <<>>
    BY <1>1, <1>4 DEF Lifecycle!Next, Lifecycle!Restart, Lifecycle!site, Lifecycle!record
  <1>5. queue' = queue \/ (\E c : Enqueue(c)) \/ queue' = <<>>
    BY DEF Outside, Request, HandlerStep, Answer, Mode, RequestApproval,
       CountPending, CollectAnswers, SendWake, SendMode, InsertApproval, PauseForApproval,
       ToolSetsMode, ToolAsks, Notify, StopWorker, StartWorker, Crash, NewWorker, db
  <1>6. QED
    BY <1>2, <1>3, <1>4, <1>5

\* Every step of the pipeline is a step of the lifecycle, or leaves it alone.
LEMMA LifecycleStep ==
  ASSUME PipelineInv, [Next]_vars PROVE [Lifecycle!Next]_Lifecycle!vars
  <1>1. CASE UNCHANGED vars
    BY <1>1 DEF vars, db, past, Lifecycle!vars
  <1>2. QED
    BY <1>1, WorkerLifecycle, OutsideLifecycle DEF Next

\* The pipeline, with all its failures, crashes and interleavings, implements
\* the lifecycle of a site.
THEOREM ImplementsLifecycle == Spec => LifecycleSpec
  <1>1. Init => Lifecycle!Init
    BY NewRowType DEF Init, Lifecycle!Init
  <1>2. QED
    BY <1>1, LifecycleStep, Invariance, PTL DEF Spec, LifecycleSpec, Lifecycle!Spec

-----------------------------------------------------------------------------
(* The manager (BrainManager).                                             *)

\* The sets that TokensHeld counts are finite.
LEMMA Counted ==
  ASSUME ManagerTypeOK
  PROVE  /\ IsFiniteSet(Ticking) /\ IsFiniteSet(Chatting)
         /\ Cardinality(Ticking) \in Nat /\ Cardinality(Chatting) \in Nat
<1>1. IsFiniteSet(1..Len(workers)) /\ IsFiniteSet(1..Len(chats))
  <2>1. workers \in Seq(WorkerRow) /\ chats \in Seq(ChatRow)
    BY DEF ManagerTypeOK
  <2>2. Len(workers) \in Int /\ Len(chats) \in Int
    BY <2>1
  <2> QED
    BY <2>2, FS_Interval
<1>2. Ticking \subseteq 1..Len(workers) /\ Chatting \subseteq 1..Len(chats)
  BY DEF ManagerTypeOK, Ticking, Chatting
<1>3. IsFiniteSet(Ticking) /\ IsFiniteSet(Chatting)
  BY <1>1, <1>2, FS_Subset
<1> QED
  BY <1>3, FS_CardinalityType

\* A worker that moves on stays the same worker to the manager.
LEMMA MovedWorker ==
  ASSUME ManagerInv, NEW w \in DOMAIN workers, NEW to \in WorkerPlaces,
         workers' = [workers EXCEPT ![w].pc = to]
  PROVE  /\ workers' \in Seq(WorkerRow) /\ Len(workers') = Len(workers)
         /\ DOMAIN workers' = DOMAIN workers
         /\ workers'[w].pc = to
         /\ \A v \in DOMAIN workers : v # w => workers'[v] = workers[v]
         /\ \A v \in DOMAIN workers : /\ workers'[v].site = workers[v].site
                                      /\ workers'[v].cancelled = workers[v].cancelled
         /\ UNCHANGED handles => NoStrayWorker' /\ HandlesPoint'
<1>1. workers \in Seq(WorkerRow) /\ workers[w] \in WorkerRow
  BY DEF ManagerInv, ManagerTypeOK
<1>2. workers' \in Seq(WorkerRow) /\ Len(workers') = Len(workers) /\ DOMAIN workers' = DOMAIN workers
  BY <1>1 DEF WorkerRow
<1>3. workers'[w].pc = to /\ \A v \in DOMAIN workers : v # w => workers'[v] = workers[v]
  BY <1>1 DEF WorkerRow
<1>4. \A v \in DOMAIN workers : /\ workers'[v].site = workers[v].site
                                /\ workers'[v].cancelled = workers[v].cancelled
  BY <1>1 DEF WorkerRow
<1>5. UNCHANGED handles => NoStrayWorker' /\ HandlesPoint'
  BY <1>2, <1>4 DEF ManagerInv, NoStrayWorker, HandlesPoint
<1> QED
  BY <1>2, <1>3, <1>4, <1>5

\* The same for a chat wake.
LEMMA MovedChat ==
  ASSUME ManagerInv, NEW c \in DOMAIN chats, NEW to \in {"waiting", "running", "done"},
         chats' = [chats EXCEPT ![c].pc = to]
  PROVE  /\ chats' \in Seq(ChatRow) /\ Len(chats') = Len(chats)
         /\ DOMAIN chats' = DOMAIN chats
         /\ chats'[c].pc = to
         /\ \A d \in DOMAIN chats : d # c => chats'[d] = chats[d]
         /\ \A d \in DOMAIN chats : chats'[d].worker = chats[d].worker
<1>1. chats \in Seq(ChatRow) /\ chats[c] \in ChatRow
  BY DEF ManagerInv, ManagerTypeOK
<1> QED
  BY <1>1 DEF ChatRow

\* A worker that neither enters nor leaves a tick needs no token.
LEMMA QuietWorker ==
  ASSUME ManagerInv, NEW w \in DOMAIN workers, NEW to \in WorkerPlaces \ {"tick"},
         workers[w].pc # "tick", workers' = [workers EXCEPT ![w].pc = to],
         UNCHANGED <<site, handles, chats, sem, main>>
  PROVE  ManagerInv'
<1>1. Ticking' = Ticking
  BY MovedWorker DEF Ticking
<1>2. TokensHeld'
  BY <1>1 DEF ManagerInv, TokensHeld, Chatting
<1>3. ManagerTypeOK'
  BY MovedWorker DEF ManagerInv, ManagerTypeOK, site
<1> QED
  BY <1>2, <1>3, MovedWorker DEF ManagerInv

\* Cancelling the workers of some sites and dropping their handles keeps the
\* books: what StopSite, Delete and StopAll do.
LEMMA Cancelling ==
  ASSUME ManagerInv, NEW S \in SUBSET Sites,
         handles' = [s \in Sites |-> IF s \in S THEN 0 ELSE handles[s]],
         workers' \in Seq(WorkerRow), Len(workers') = Len(workers),
         \A v \in DOMAIN workers :
            /\ workers'[v].site = workers[v].site /\ workers'[v].pc = workers[v].pc
            /\ workers'[v].cancelled <=> (workers[v].cancelled \/ \E s \in S : handles[s] = v)
  PROVE  /\ DOMAIN workers' = DOMAIN workers /\ Ticking' = Ticking
         /\ handles' \in [Sites -> 0..MaxWorkers]
         /\ NoStrayWorker' /\ HandlesPoint'
<1>1. DOMAIN workers' = DOMAIN workers
  BY DEF ManagerInv, ManagerTypeOK
<1>2. Ticking' = Ticking
  BY <1>1 DEF Ticking
<1>3. handles' \in [Sites -> 0..MaxWorkers]
  BY ManagerAssumption DEF ManagerInv, ManagerTypeOK
<1>4. HandlesPoint'
  BY <1>1 DEF ManagerInv, HandlesPoint
<1>5. ASSUME NEW v \in DOMAIN workers
      PROVE  ~workers'[v].cancelled <=> handles'[workers'[v].site] = v
  <2>1. workers[v].site \in Sites /\ v # 0 /\ workers'[v].site = workers[v].site
    <3>1. workers[v] \in WorkerRow /\ v # 0
      BY DEF ManagerInv, ManagerTypeOK
    <3> QED
      BY <3>1 DEF WorkerRow
  <2>2. ~workers[v].cancelled <=> handles[workers[v].site] = v
    BY DEF ManagerInv, NoStrayWorker
  <2>3. ASSUME NEW s \in S, handles[s] = v PROVE s = workers[v].site
    BY <2>1, <2>3 DEF ManagerInv, HandlesPoint
  <2> QED
    BY <2>1, <2>2, <2>3
<1> QED
  BY <1>1, <1>2, <1>3, <1>4, <1>5 DEF NoStrayWorker

\* Stopping one site is such a step.
LEMMA StoppedOne ==
  ASSUME ManagerInv, NEW s \in Sites, Stopped(s)
  PROVE  /\ workers' \in Seq(WorkerRow) /\ Len(workers') = Len(workers)
         /\ DOMAIN workers' = DOMAIN workers /\ Ticking' = Ticking
         /\ handles' \in [Sites -> 0..MaxWorkers]
         /\ NoStrayWorker' /\ HandlesPoint'
<1>1. handles' = [t \in Sites |-> IF t \in {s} THEN 0 ELSE handles[t]]
  BY DEF ManagerInv, ManagerTypeOK, Stopped
<1>2. CASE handles[s] = 0
  <2>1. workers' = workers
    BY <1>2 DEF Stopped
  <2>2. \A v \in DOMAIN workers :
           workers'[v].cancelled <=> (workers[v].cancelled \/ \E t \in {s} : handles[t] = v)
    BY <1>2, <2>1 DEF ManagerInv, ManagerTypeOK
  <2>3. workers' \in Seq(WorkerRow) /\ Len(workers') = Len(workers)
    BY <2>1 DEF ManagerInv, ManagerTypeOK
  <2>4. \A v \in DOMAIN workers : /\ workers'[v].site = workers[v].site
                                  /\ workers'[v].pc = workers[v].pc
    BY <2>1
  <2> QED
    BY <1>1, <2>2, <2>3, <2>4, Cancelling
<1>3. CASE handles[s] # 0
  <2> DEFINE h == handles[s]
  <2>1. h \in DOMAIN workers /\ workers' = [workers EXCEPT ![h].cancelled = TRUE]
    BY <1>3 DEF ManagerInv, HandlesPoint, Stopped, Cancelled
  <2>2. workers \in Seq(WorkerRow) /\ workers[h] \in WorkerRow
    BY <2>1 DEF ManagerInv, ManagerTypeOK
  <2>3. workers' \in Seq(WorkerRow) /\ Len(workers') = Len(workers)
    <3>1. [workers[h] EXCEPT !.cancelled = TRUE] \in WorkerRow
      BY <2>2 DEF WorkerRow
    <3>2. workers' = [workers EXCEPT ![h] = [workers[h] EXCEPT !.cancelled = TRUE]]
      BY <2>1
    <3> QED
      BY <2>1, <2>2, <3>1, <3>2
  <2>4. \A v \in DOMAIN workers :
            /\ workers'[v].site = workers[v].site /\ workers'[v].pc = workers[v].pc
            /\ workers'[v].cancelled <=> (workers[v].cancelled \/ \E t \in {s} : handles[t] = v)
    BY <2>1, <2>2 DEF WorkerRow
  <2> QED
    BY <1>1, <2>3, <2>4, Cancelling
<1> QED
  BY <1>2, <1>3

\* A worker or a chat wake that takes a token, or gives it back.
LEMMA TokenMoves ==
  ASSUME ManagerTypeOK, TokensHeld, NEW x, NEW X, NEW Y, IsFiniteSet(X), IsFiniteSet(Y),
         sem = Cardinality(X) + Cardinality(Y)
  PROVE  /\ Acquire /\ x \notin X => /\ sem' \in 0..SemCap
                                    /\ sem' = Cardinality(X \cup {x}) + Cardinality(Y)
         /\ Release /\ x \in X => /\ sem' \in 0..SemCap
                                 /\ sem' = Cardinality(X \ {x}) + Cardinality(Y)
<1>1. Cardinality(X) \in Nat /\ Cardinality(Y) \in Nat /\ sem \in 0..SemCap
  BY FS_CardinalityType DEF ManagerTypeOK
<1>2. x \notin X => Cardinality(X \cup {x}) = Cardinality(X) + 1
  BY FS_AddElement
<1>3. x \in X => /\ Cardinality(X \ {x}) = Cardinality(X) - 1
                /\ Cardinality(X \ {x}) \in Nat
  BY FS_RemoveElement, FS_CardinalityType
<1> QED
  BY <1>1, <1>2, <1>3, ManagerAssumption DEF Acquire, Release

\* Every step of a worker keeps the books.
LEMMA WorkerMoves ==
  ASSUME ManagerInv, NEW w \in DOMAIN workers,
         \/ WorkerActs(w) \/ CommandComes(w) \/ ChatComes(w)
         \/ LoopDone(w) \/ MonitoringTick(w)
  PROVE  ManagerInv'
<1>1. CASE Load(w)
  <2>1. \E to \in {"busy", "exited"} : Go(w, "load", to)
    BY <1>1 DEF Load
  <2> QED
    BY <1>1, <2>1, QuietWorker DEF Load, Go, WorkerPlaces
<1>2. CASE Settle(w)
  <2>1. \E to \in {"loop", "exited"} : Go(w, "busy", to)
    BY <1>2 DEF Settle
  <2> QED
    BY <1>2, <2>1, QuietWorker DEF Settle, Go, WorkerPlaces
<1>3. CASE CommandComes(w)
  BY <1>3, QuietWorker DEF CommandComes, Go, WorkerPlaces
<1>4. CASE LoopDone(w)
  BY <1>4, QuietWorker DEF LoopDone, Go, WorkerPlaces
<1>5. CASE MonitoringTick(w)
  BY <1>5, QuietWorker DEF MonitoringTick, Go, WorkerPlaces
<1>6. CASE TickCancelled(w)
  BY <1>6, QuietWorker DEF TickCancelled, Go, WorkerPlaces
<1>7. CASE TickStarts(w)
  <2>1. w \notin Ticking /\ Ticking' = Ticking \cup {w} /\ Chatting' = Chatting
    BY <1>7, MovedWorker DEF TickStarts, Go, WorkerPlaces, Ticking, Chatting
  <2>2. sem' \in 0..SemCap /\ TokensHeld'
    BY <1>7, <2>1, TokenMoves, Counted DEF ManagerInv, TokensHeld, TickStarts
  <2>3. ManagerTypeOK'
    BY <1>7, <2>2, MovedWorker DEF ManagerInv, ManagerTypeOK, TickStarts, Go, WorkerPlaces, site
  <2> QED
    BY <1>7, <2>2, <2>3, MovedWorker DEF ManagerInv, TickStarts, Go, WorkerPlaces
<1>8. CASE TickEnds(w)
  <2>1. w \in Ticking /\ Ticking' = Ticking \ {w} /\ Chatting' = Chatting
    BY <1>8, MovedWorker DEF TickEnds, Go, WorkerPlaces, Ticking, Chatting
  <2>2. sem' \in 0..SemCap /\ TokensHeld'
    BY <1>8, <2>1, TokenMoves, Counted DEF ManagerInv, TokensHeld, TickEnds
  <2>3. ManagerTypeOK'
    BY <1>8, <2>2, MovedWorker DEF ManagerInv, ManagerTypeOK, TickEnds, Go, WorkerPlaces, site
  <2> QED
    BY <1>8, <2>2, <2>3, MovedWorker DEF ManagerInv, TickEnds, Go, WorkerPlaces
<1>9. CASE ChatComes(w)
  <2> DEFINE new == [worker |-> w, pc |-> "waiting"]
  <2>1. w \in 1..MaxWorkers /\ new \in ChatRow /\ chats \in Seq(ChatRow)
    BY ManagerAssumption DEF ManagerInv, ManagerTypeOK, ChatRow
  <2>2. chats' = Append(chats, new)
    BY <1>9 DEF ChatComes
  <2>3. /\ chats' \in Seq(ChatRow) /\ Len(chats') = Len(chats) + 1
        /\ chats'[Len(chats) + 1] = new
        /\ \A d \in DOMAIN chats : chats'[d] = chats[d]
        /\ DOMAIN chats' = DOMAIN chats \cup {Len(chats) + 1}
    BY <2>1, <2>2
  <2>4. Chatting' = Chatting
    BY <2>3 DEF Chatting
  <2>5. Ticking' = Ticking /\ TokensHeld' /\ NoStrayWorker' /\ HandlesPoint'
    BY <1>9, <2>4 DEF ManagerInv, TokensHeld, Ticking, ChatComes, NoStrayWorker, HandlesPoint
  <2>6. ManagerTypeOK'
    BY <1>9, <2>3, ManagerAssumption DEF ManagerInv, ManagerTypeOK, ChatComes, site
  <2> QED
    BY <2>5, <2>6 DEF ManagerInv
<1> QED
  BY <1>1, <1>2, <1>3, <1>4, <1>5, <1>6, <1>7, <1>8, <1>9 DEF WorkerActs

\* So does every step of a chat wake.
LEMMA ChatMoves ==
  ASSUME ManagerInv, NEW c \in DOMAIN chats, ChatStep(c)
  PROVE  ManagerInv'
<1>1. ASSUME NEW to \in {"running", "done"}, chats' = [chats EXCEPT ![c].pc = to],
             UNCHANGED <<site, handles, workers, main>>, sem' \in 0..SemCap, TokensHeld'
      PROVE  ManagerInv'
  <2>1. ManagerTypeOK'
    BY <1>1, MovedChat DEF ManagerInv, ManagerTypeOK, site
  <2> QED
    BY <1>1, <2>1 DEF ManagerInv, NoStrayWorker, HandlesPoint
<1>2. CASE ChatStarts(c)
  <2>1. c \notin Chatting /\ Chatting' = Chatting \cup {c} /\ Ticking' = Ticking
    BY <1>2, MovedChat DEF ChatStarts, GoChat, Ticking, Chatting
  <2>2. sem = Cardinality(Chatting) + Cardinality(Ticking)
    BY Counted DEF ManagerInv, TokensHeld
  <2>3. sem' \in 0..SemCap /\ sem' = Cardinality(Chatting') + Cardinality(Ticking')
    BY <1>2, <2>1, <2>2, TokenMoves, Counted DEF ManagerInv, ChatStarts
  <2>4. TokensHeld'
    <3>1. Cardinality(Ticking') \in Nat /\ Cardinality(Chatting') \in Nat
      BY <2>1, Counted, FS_AddElement, FS_CardinalityType DEF ManagerInv
    <3> QED
      BY <2>3, <3>1 DEF TokensHeld
  <2> QED
    BY <1>1, <1>2, <2>3, <2>4 DEF ChatStarts, GoChat
<1>3. CASE ChatCancelled(c)
  <2>1. Chatting' = Chatting /\ Ticking' = Ticking
    BY <1>3, MovedChat DEF ChatCancelled, GoChat, Ticking, Chatting
  <2>2. sem' \in 0..SemCap /\ TokensHeld'
    BY <1>3, <2>1 DEF ManagerInv, ManagerTypeOK, TokensHeld, ChatCancelled
  <2> QED
    BY <1>1, <1>3, <2>2 DEF ChatCancelled, GoChat
<1>4. CASE ChatEnds(c)
  <2>1. c \in Chatting /\ Chatting' = Chatting \ {c} /\ Ticking' = Ticking
    BY <1>4, MovedChat DEF ChatEnds, GoChat, Ticking, Chatting
  <2>2. sem = Cardinality(Chatting) + Cardinality(Ticking)
    BY Counted DEF ManagerInv, TokensHeld
  <2>3. sem' \in 0..SemCap /\ sem' = Cardinality(Chatting') + Cardinality(Ticking')
    BY <1>4, <2>1, <2>2, TokenMoves, Counted DEF ManagerInv, ChatEnds
  <2>4. TokensHeld'
    <3>1. Cardinality(Ticking') \in Nat /\ Cardinality(Chatting') \in Nat
      BY <2>1, Counted, FS_RemoveElement, FS_CardinalityType DEF ManagerInv
    <3> QED
      BY <2>3, <3>1 DEF TokensHeld
  <2> QED
    BY <1>1, <1>4, <2>3, <2>4 DEF ChatEnds, GoChat
<1> QED
  BY <1>2, <1>3, <1>4 DEF ChatStep

\* The books are right at the start ...
LEMMA ManagerInitInv == ManagerInit => ManagerInv
<1> SUFFICES ASSUME ManagerInit PROVE ManagerInv
  OBVIOUS
<1>1. ManagerTypeOK
  BY ManagerAssumption DEF ManagerInit, ManagerTypeOK
<1>2. NoStrayWorker /\ HandlesPoint
  BY DEF ManagerInit, NoStrayWorker, HandlesPoint
<1>3. Ticking = {} /\ Chatting = {}
  BY DEF ManagerInit, Ticking, Chatting
<1>4. TokensHeld
  BY <1>3, FS_EmptySet DEF ManagerInit, TokensHeld
<1> QED
  BY <1>1, <1>2, <1>4 DEF ManagerInv

\* ... and every step, of the manager or of a goroutine, keeps them.
LEMMA NextInv == ManagerInv /\ [ManagerNext]_managerVars => ManagerInv'
<1> SUFFICES ASSUME ManagerInv, [ManagerNext]_managerVars PROVE ManagerInv'
  OBVIOUS
<1>1. ASSUME NEW s \in Sites, StartSite(s) PROVE ManagerInv'
  <2> DEFINE n == Len(workers) + 1
             new == [site |-> s, cancelled |-> FALSE, pc |-> "load"]
  <2>1. new \in WorkerRow /\ workers \in Seq(WorkerRow) /\ n \in 1..MaxWorkers
    BY <1>1, ManagerAssumption DEF ManagerInv, ManagerTypeOK, WorkerRow, WorkerPlaces, StartSite
  <2>2. /\ workers' \in Seq(WorkerRow) /\ Len(workers') = n
        /\ workers'[n] = new
        /\ \A v \in DOMAIN workers : workers'[v] = workers[v] /\ v # n
        /\ DOMAIN workers' = DOMAIN workers \cup {n}
    BY <1>1, <2>1 DEF StartSite
  <2>3. /\ handles' \in [Sites -> 0..MaxWorkers] /\ handles[s] = 0 /\ handles'[s] = n
        /\ \A t \in Sites : t # s => handles'[t] = handles[t]
    BY <1>1, <2>1 DEF ManagerInv, ManagerTypeOK, StartSite
  <2>4. Ticking' = Ticking /\ Chatting' = Chatting
    BY <1>1, <2>2 DEF Ticking, Chatting, StartSite
  <2>5. ManagerTypeOK'
    BY <1>1, <2>1, <2>2, <2>3 DEF ManagerInv, ManagerTypeOK, StartSite
  <2>6. HandlesPoint'
    BY <2>2, <2>3 DEF ManagerInv, HandlesPoint
  <2>7. NoStrayWorker'
    <3>1. \A v \in DOMAIN workers : v # 0 /\ workers[v].site \in Sites
      <4>1. \A v \in DOMAIN workers : v # 0 /\ workers[v] \in WorkerRow
        BY <2>1
      <4> QED
        BY <4>1 DEF WorkerRow
    <3>2. \A v \in DOMAIN workers : ~workers[v].cancelled <=> handles[workers[v].site] = v
      BY DEF ManagerInv, NoStrayWorker
    <3>3. ASSUME NEW v \in DOMAIN workers
          PROVE  ~workers'[v].cancelled <=> handles'[workers'[v].site] = v
      <4>1. workers'[v] = workers[v] /\ v # n /\ v # 0 /\ workers[v].site \in Sites
        BY <2>2, <3>1
      <4>2. CASE workers[v].site = s
        BY <2>3, <3>2, <4>1, <4>2
      <4>3. CASE workers[v].site # s
        BY <2>3, <3>2, <4>1, <4>3
      <4> QED
        BY <4>2, <4>3
    <3> QED
      BY <2>2, <2>3, <3>3 DEF NoStrayWorker
  <2>8. TokensHeld'
    BY <1>1, <2>4 DEF ManagerInv, TokensHeld, StartSite
  <2> QED
    BY <2>5, <2>6, <2>7, <2>8 DEF ManagerInv
<1>2. ASSUME NEW s \in Sites, Stopped(s), UNCHANGED <<rows, data, chats, sem, main>>,
             deleting' \in [Sites -> {"no", "row", "data", "done"}]
      PROVE  ManagerInv'
  <2>1. ManagerTypeOK'
    BY <1>2, StoppedOne DEF ManagerInv, ManagerTypeOK
  <2>2. TokensHeld'
    BY <1>2, StoppedOne DEF ManagerInv, TokensHeld, Chatting
  <2> QED
    BY <1>2, <2>1, <2>2, StoppedOne DEF ManagerInv
<1>3. ASSUME NEW s \in Sites, StopSite(s) PROVE ManagerInv'
  BY <1>2, <1>3 DEF StopSite, site, ManagerInv, ManagerTypeOK
<1>4. ASSUME NEW s \in Sites, Delete(s) PROVE ManagerInv'
  <2>1. deleting' \in [Sites -> {"no", "row", "data", "done"}]
    BY <1>4 DEF Delete, ManagerInv, ManagerTypeOK
  <2> QED
    BY <1>2, <1>4, <2>1 DEF Delete
<1>5. ASSUME UNCHANGED <<handles, workers, chats, sem>>, ManagerTypeOK' PROVE ManagerInv'
  BY <1>5 DEF ManagerInv, NoStrayWorker, HandlesPoint, TokensHeld, Ticking, Chatting
<1>6. ASSUME NEW s \in Sites, DeleteRow(s) \/ DeleteData(s) PROVE ManagerInv'
  BY <1>5, <1>6 DEF DeleteRow, DeleteData, ManagerInv, ManagerTypeOK
<1>7. CASE StopAll
  <2>1. /\ handles' = [s \in Sites |-> IF s \in Sites THEN 0 ELSE handles[s]]
        /\ workers' = [w \in DOMAIN workers |->
             [workers[w] EXCEPT !.cancelled = @ \/ \E s \in Sites : handles[s] = w]]
    BY <1>7 DEF StopAll
  <2>2. workers \in Seq(WorkerRow) /\ \A w \in DOMAIN workers : workers[w] \in WorkerRow
    BY DEF ManagerInv, ManagerTypeOK
  <2>3. \A w \in DOMAIN workers : workers'[w] \in WorkerRow
    BY <2>1, <2>2 DEF WorkerRow
  <2>4. workers' \in Seq(WorkerRow) /\ Len(workers') = Len(workers)
    BY <2>1, <2>2, <2>3
  <2>5. \A v \in DOMAIN workers :
            /\ workers'[v].site = workers[v].site /\ workers'[v].pc = workers[v].pc
            /\ workers'[v].cancelled <=> (workers[v].cancelled \/ \E s \in Sites : handles[s] = v)
    BY <2>1, <2>2 DEF WorkerRow
  <2>6. /\ DOMAIN workers' = DOMAIN workers /\ Ticking' = Ticking
        /\ handles' \in [Sites -> 0..MaxWorkers] /\ NoStrayWorker' /\ HandlesPoint'
    BY <2>1, <2>4, <2>5, Cancelling
  <2>7. ManagerTypeOK'
    BY <1>7, <2>4, <2>6 DEF ManagerInv, ManagerTypeOK, StopAll, site
  <2>8. TokensHeld'
    BY <1>7, <2>6 DEF ManagerInv, TokensHeld, Chatting, StopAll
  <2> QED
    BY <2>6, <2>7, <2>8 DEF ManagerInv
<1>8. CASE AllStopped \/ StopTimesOut
  BY <1>5, <1>8 DEF AllStopped, StopTimesOut, site, ManagerInv, ManagerTypeOK
<1>9. CASE Down \/ UNCHANGED managerVars
  BY <1>5, <1>9 DEF Down, managerVars, ManagerInv, ManagerTypeOK
<1> QED
  BY <1>1, <1>3, <1>4, <1>6, <1>7, <1>8, <1>9, WorkerMoves, ChatMoves DEF ManagerNext

\* The manager's books are right at all times: the invariant is inductive.
THEOREM Books == ManagerSpec => []ManagerInv
  BY ManagerInitInv, NextInv, PTL DEF ManagerSpec

\* The variables keep their types, for any constants.
THEOREM ManagerTypeCorrect == ManagerSpec => []ManagerTypeOK
<1>1. ManagerInv => ManagerTypeOK
  BY DEF ManagerInv
<1> QED
  BY <1>1, Books, PTL

\* However StartSite, StopSite, StopAll and the deletion of sites interleave,
\* every worker that is not cancelled is the one its site has a handle for.
THEOREM NoStrayWorkerEver == ManagerSpec => []NoStrayWorker
<1>1. ManagerInv => NoStrayWorker
  BY DEF ManagerInv
<1> QED
  BY <1>1, Books, PTL

\* The semaphore's tokens are those of the ticks and chat wakes that run.
THEOREM TokensAlwaysHeld == ManagerSpec => []TokensHeld
<1>1. ManagerInv => TokensHeld
  BY DEF ManagerInv
<1> QED
  BY <1>1, Books, PTL
=============================================================================
