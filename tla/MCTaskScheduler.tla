-------------------------- MODULE MCTaskScheduler --------------------------
(* Small instances of TaskScheduler for TLC.                               *)
EXTENDS TaskScheduler

TwoTasks == {1, 2}
ShortCron    == {1}
LongInterval == {2}
=============================================================================
