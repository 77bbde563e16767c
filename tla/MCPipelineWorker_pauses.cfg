\* The owner answers the first question before the second is asked.
CONSTANTS
  h1 = h1
  h2 = h2
  Handlers <- OneHandler
  Requests <- AnswersOnly
  MaxStageRetries = 2
  QueueCap = 2
  MaxQuestions = 2
  MaxAsked = 2
  MaxCrashes = 0
  Faults = {}
SPECIFICATION Spec
CHECK_DEADLOCK FALSE
PROPERTIES PausesUntilAnswered
