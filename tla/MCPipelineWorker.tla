-------------------------- MODULE MCPipelineWorker --------------------------
(* Small instances of PipelineWorker for TLC.                              *)
EXTENDS PipelineWorker

CONSTANTS h1, h2

OneHandler  == {h1}
TwoHandlers == {h1, h2}

\* The kinds of requests each run makes.
Rebuilding     == RequestKinds \ {"chat", "task", "stop"}
Answering      == {"answer", "chat", "task", "stop"}
AnswersOnly    == {"answer"}

\* What may fail in each run.
Everything    == Statements
OnlyAdvancing == {"advance"}
=============================================================================
