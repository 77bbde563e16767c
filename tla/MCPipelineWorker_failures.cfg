\* Failures, a crash and all requests but chats, tasks and stops, around one question.
CONSTANTS
  h1 = h1
  h2 = h2
  Handlers <- OneHandler
  Requests <- Rebuilding
  MaxStageRetries = 2
  QueueCap = 1
  MaxQuestions = 1
  MaxAsked = 1
  MaxCrashes = 1
  Faults <- Everything
SPECIFICATION Spec
INVARIANTS TypeOK LoopInSync FailuresRecorded PlanBeforeBuild
PROPERTIES OnlyCommandsResume LifecycleSpec
