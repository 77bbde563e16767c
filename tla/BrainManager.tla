---------------------------- MODULE BrainManager ----------------------------
(***************************************************************************)
(* The brain manager (brain/manager.go): the worker goroutines of all the  *)
(* sites, which are started, stopped and replaced while they run, the      *)
(* semaphore that their monitoring ticks and chat wakes share              *)
(* (monitoringTick, handleChatWake), the deletion of a site, and the       *)
(* shutdown of the process.                                                *)
(*                                                                         *)
(* What a worker does is in PipelineWorker; here it is busy (it loads the  *)
(* site, runs a stage or a task), waits in the select of a loop, or is in a*)
(* tick.  StartSite, StopSite and the first half of StopAll run under the  *)
(* manager's mutex and are one step each.                                  *)
(***************************************************************************)
EXTENDS Integers, Sequences, FiniteSets

CONSTANTS
  Sites,        \* ids of sites
  SemCap,       \* defaultMaxConcurrentTicks (4 in the code)
  MaxWorkers,   \* bound: workers ever started
  MaxChats      \* bound: chat wakes ever started

ASSUME ManagerAssumption == SemCap \in Nat \ {0} /\ MaxWorkers \in Nat /\ MaxChats \in Nat

VARIABLES
  rows,      \* sites that have a row in the global database
  data,      \* sites that have a database of their own
  handles,   \* m.workers: the number of the site's worker, 0 when absent
  workers,   \* every worker goroutine started: site, cancelled, and where it is
  chats,     \* every handleChatWake goroutine started: its worker, where it is
  sem,       \* tokens in w.semaphore
  deleting,  \* where SitesHandler.Delete is, for each site
  main       \* "serving", in StopAll ("waiting"), or "down"

managerVars == <<rows, data, handles, workers, chats, sem, deleting, main>>
site == <<rows, data, deleting>>

WorkerPlaces == {"load", "busy", "loop", "waiting", "tick", "exited"}

ManagerInit ==
  /\ rows = Sites /\ data = Sites
  /\ handles = [s \in Sites |-> 0]
  /\ workers = <<>> /\ chats = <<>> /\ sem = 0
  /\ deleting = [s \in Sites |-> "no"]
  /\ main = "serving"

-----------------------------------------------------------------------------
(* The manager.                                                            *)

Running == {w \in DOMAIN workers : workers[w].pc # "exited"}

Cancelled(w) == [workers EXCEPT ![w].cancelled = TRUE]

\* StartSite, of AutoStart, an admin request or a new site.  The worker opens
\* the site's database, creating it when it is not there.
StartSiteAgain(s) ==
  /\ main # "down" /\ Len(workers) < MaxWorkers
  /\ workers' = Append(workers, [site |-> s, cancelled |-> FALSE, pc |-> "load"])
  /\ handles' = [handles EXCEPT ![s] = Len(workers) + 1]
  /\ data' = data \cup {s}
  /\ UNCHANGED <<rows, chats, sem, deleting, main>>
StartSite(s) ==
  /\ main # "down" /\ Len(workers) < MaxWorkers
  /\ handles[s] = 0
  /\ workers' = Append(workers, [site |-> s, cancelled |-> FALSE, pc |-> "load"])
  /\ handles' = [handles EXCEPT ![s] = Len(workers) + 1]
  /\ data' = data \cup {s}
  /\ UNCHANGED <<rows, chats, sem, deleting, main>>

\* StopSite cancels the worker's context and forgets it; it does not wait.
Stopped(s) ==
  /\ workers' = IF handles[s] = 0 THEN workers ELSE Cancelled(handles[s])
  /\ handles' = [handles EXCEPT ![s] = 0]

StopSite(s) ==
  /\ main # "down" /\ handles[s] # 0
  /\ Stopped(s)
  /\ UNCHANGED <<site, chats, sem, main>>

\* StopAll cancels the workers ...
StopAll ==
  /\ main = "serving"
  /\ workers' = [w \in DOMAIN workers |->
       [workers[w] EXCEPT !.cancelled = @ \/ \E s \in Sites : handles[s] = w]]
  /\ handles' = [s \in Sites |-> 0]
  /\ main' = "waiting"
  /\ UNCHANGED <<site, chats, sem>>

\* ... and waits for the wait group to drain, up to 30 seconds.  Then main
\* returns and the process is gone.
AllStopped ==
  /\ main = "waiting" /\ Running = {}
  /\ main' = "down"
  /\ UNCHANGED <<site, handles, workers, chats, sem>>

StopTimesOut ==
  /\ main = "waiting" /\ Running # {}
  /\ main' = "down"
  /\ UNCHANGED <<site, handles, workers, chats, sem>>

\* SitesHandler.Delete: stop the worker, if any; delete the row; remove the
\* site's directory.
Delete(s) ==
  /\ main # "down" /\ deleting[s] = "no"
  /\ Stopped(s)
  /\ deleting' = [deleting EXCEPT ![s] = "row"]
  /\ UNCHANGED <<rows, data, chats, sem, main>>

DeleteRow(s) ==
  /\ main # "down" /\ deleting[s] = "row"
  /\ rows' = rows \ {s}
  /\ deleting' = [deleting EXCEPT ![s] = "data"]
  /\ UNCHANGED <<data, handles, workers, chats, sem, main>>

DeleteData(s) ==
  /\ main # "down" /\ deleting[s] = "data"
  /\ data' = data \ {s}
  /\ deleting' = [deleting EXCEPT ![s] = "done"]
  /\ UNCHANGED <<rows, handles, workers, chats, sem, main>>

-----------------------------------------------------------------------------
(* A worker goroutine.                                                     *)

Go(w, from, to) == main # "down" /\ workers[w].pc = from /\ workers' = [workers EXCEPT ![w].pc = to]

\* Run returns at once when the site's row cannot be loaded; the handle stays.
Load(w) ==
  /\ IF workers[w].site \in rows THEN Go(w, "load", "busy") ELSE Go(w, "load", "exited")
  /\ UNCHANGED <<site, handles, chats, sem, main>>

\* The build pipeline or a task comes to its end: the worker waits for
\* commands, or its loop has seen the cancelled context.
Settle(w) ==
  /\ Go(w, "busy", "loop") \/ (workers[w].cancelled /\ Go(w, "busy", "exited"))
  /\ UNCHANGED <<site, handles, chats, sem, main>>

\* A command makes it build, or run a task.
CommandComes(w) ==
  /\ Go(w, "loop", "busy")
  /\ UNCHANGED <<site, handles, chats, sem, main>>

\* A chat message in monitoring starts a goroutine that nobody waits for.
ChatComes(w) ==
  /\ main # "down" /\ workers[w].pc = "loop" /\ Len(chats) < MaxChats
  /\ chats' = Append(chats, [worker |-> w, pc |-> "waiting"])
  /\ UNCHANGED <<site, handles, workers, sem, main>>

LoopDone(w) ==
  /\ workers[w].cancelled /\ Go(w, "loop", "exited")
  /\ UNCHANGED <<site, handles, chats, sem, main>>

\* monitoringTick: acquire the semaphore or give up when cancelled ...
MonitoringTick(w) == Go(w, "loop", "waiting") /\ UNCHANGED <<site, handles, chats, sem, main>>

AcquireAlways == sem' = sem + 1
Acquire == sem < SemCap /\ sem' = sem + 1
ReleaseLost == UNCHANGED sem
Release == sem' = sem - 1

TickStarts(w) == Go(w, "waiting", "tick") /\ Acquire /\ UNCHANGED <<site, handles, chats, main>>

TickCancelledNever(w) == FALSE /\ UNCHANGED managerVars
TickCancelled(w) ==
  /\ workers[w].cancelled /\ Go(w, "waiting", "loop")
  /\ UNCHANGED <<site, handles, chats, sem, main>>

\* ... and release it on every way out.
TickEnds(w) == Go(w, "tick", "loop") /\ Release /\ UNCHANGED <<site, handles, chats, main>>

-----------------------------------------------------------------------------
(* A chat wake goroutine: the same, under the context of its worker.       *)

GoChat(c, from, to) == main # "down" /\ chats[c].pc = from /\ chats' = [chats EXCEPT ![c].pc = to]

ChatStarts(c) == GoChat(c, "waiting", "running") /\ Acquire /\ UNCHANGED <<site, handles, workers, main>>

ChatCancelled(c) ==
  /\ workers[chats[c].worker].cancelled /\ GoChat(c, "waiting", "done")
  /\ UNCHANGED <<site, handles, workers, sem, main>>

ChatEnds(c) == GoChat(c, "running", "done") /\ Release /\ UNCHANGED <<site, handles, workers, main>>

-----------------------------------------------------------------------------
WorkerActs(w) ==
  \/ Load(w) \/ Settle(w) \/ TickStarts(w) \/ TickCancelled(w) \/ TickEnds(w)

ChatStep(c) == ChatStarts(c) \/ ChatCancelled(c) \/ ChatEnds(c)

\* The process is gone: nothing happens any more.
Down == main = "down" /\ UNCHANGED managerVars

ManagerNext ==
  \/ \E s \in Sites : StartSite(s) \/ StopSite(s) \/ Delete(s) \/ DeleteRow(s) \/ DeleteData(s)
  \/ StopAll \/ AllStopped \/ StopTimesOut \/ Down
  \/ \E w \in DOMAIN workers :
       WorkerActs(w) \/ CommandComes(w) \/ ChatComes(w) \/ LoopDone(w) \/ MonitoringTick(w)
  \/ \E c \in DOMAIN chats : ChatStep(c)

ManagerSpec == ManagerInit /\ [][ManagerNext]_managerVars

\* Stages, tasks, ticks and chat wakes end (their LLM calls have timeouts).  A
\* select takes a case that is ready again and again at some time: the choice
\* is random.
ManagerFairness ==
  /\ \A w \in 1..MaxWorkers :
       /\ WF_managerVars(w \in DOMAIN workers /\ WorkerActs(w))
       /\ SF_managerVars(w \in DOMAIN workers /\ LoopDone(w))
  /\ \A c \in 1..MaxChats : WF_managerVars(c \in DOMAIN chats /\ ChatStep(c))

FairManagerSpec == ManagerSpec /\ ManagerFairness

-----------------------------------------------------------------------------
(* Properties.                                                             *)

WorkerRow == [site : Sites, cancelled : BOOLEAN, pc : WorkerPlaces]
ChatRow   == [worker : 1..MaxWorkers, pc : {"waiting", "running", "done"}]

\* Every variable stays in its type: there are never more tokens in the
\* semaphore than its capacity, and never fewer than none.
ManagerTypeOK ==
  /\ rows \subseteq Sites /\ data \subseteq Sites
  /\ handles \in [Sites -> 0..MaxWorkers]
  /\ workers \in Seq(WorkerRow)
  /\ Len(workers) <= MaxWorkers
  /\ chats \in Seq(ChatRow)
  /\ \A c \in DOMAIN chats : chats[c].worker \in DOMAIN workers
  /\ Len(chats) <= MaxChats /\ sem \in 0..SemCap
  /\ deleting \in [Sites -> {"no", "row", "data", "done"}]
  /\ main \in {"serving", "waiting", "down"}

\* However starts, stops, deletions and the shutdown interleave, a worker whose
\* context is not cancelled is the one the manager has a handle for: no site
\* has two of them, and none is out of the reach of StopSite and StopAll.
NoStrayWorker ==
  \A w \in DOMAIN workers : ~workers[w].cancelled <=> handles[workers[w].site] = w

\* What makes it inductive: a handle is the handle of a worker of its site.
HandlesPoint ==
  \A s \in Sites :
    handles[s] # 0 => handles[s] \in DOMAIN workers /\ workers[handles[s]].site = s

Ticking  == {w \in DOMAIN workers : workers[w].pc = "tick"}
Chatting == {c \in DOMAIN chats : chats[c].pc = "running"}

\* The semaphore has a token for every tick and every chat wake that runs, of
\* stopped workers too: no token leaks, so the ticks of other sites go on.
TokensHeld == sem = Cardinality(Ticking) + Cardinality(Chatting)

\* The inductive invariant of the manager's books.
ManagerInv == ManagerTypeOK /\ NoStrayWorker /\ HandlesPoint /\ TokensHeld

\* A stopped worker exits, although it may be in a stage, in a tick, or in the
\* queue for the semaphore that other sites keep busy.
StoppedWorkersExit ==
  \A w \in 1..MaxWorkers :
    (w \in DOMAIN workers /\ workers[w].cancelled)
      ~> ((w \in DOMAIN workers /\ workers[w].pc = "exited") \/ main = "down")
=============================================================================
