\* Two tasks, edits, a channel that holds one command, and one trouble: a stop, a
\* crash, a worker that returns, or a statement that fails.
CONSTANTS
  Tasks <- TwoTasks
  Crons <- ShortCron
  Intervals <- LongInterval
  AnHour = 2
  QueueCap = 1
  MaxTime = 3
  MaxEdits = 2
  MaxTroubles = 1
CHECK_DEADLOCK FALSE
SPECIFICATION FairSpec
INVARIANTS SchedulerInv OneRunPerTick
PROPERTIES DueTasksStart RunsEnd
