\* Two requests at a time around two questions, chats, tasks, stops and a crash; only
\* AdvanceStage may fail.
CONSTANTS
  h1 = h1
  h2 = h2
  Handlers <- TwoHandlers
  Requests <- Answering
  MaxStageRetries = 2
  QueueCap = 1
  MaxQuestions = 2
  MaxAsked = 2
  MaxCrashes = 1
  Faults <- OnlyAdvancing
CHECK_DEADLOCK FALSE
SPECIFICATION FairSpec
PROPERTIES AnsweredResumes BuildSettles
INVARIANTS NoStageWhilePaused
