# A TLA+ model of IATAN

IATAN is a Go program that builds, runs and maintains web sites with an LLM. A
*brain* per site plans the site, builds it by calling tools, and then monitors
it; the owner answers its questions, changes its mode and edits its schedule
through an admin API while it works. This directory models the parts of the
program where the order of events matters, checks them with TLC on small
instances, and proves every safety property of the passing runs with TLAPS, for
every value of the constants.

Everything is translated from the source under `src/`; `PROJECT.json` maps every
definition to the lines it stands for.

## The system

| part | state it keeps | operations | talks to | hard because | correct when |
|---|---|---|---|---|---|
| **Build pipeline** (`brain/pipeline.go`, `brain/stages.go`) | `w.state`, `w.wakeContext`, local `stage` and `stageRetries`; the `pipeline_state` row | `Run`, `autoRecover`, `runBuildPipeline`, the stages, `runPausedLoop`, `runMonitoringLoop`, `handleCommand` | row and questions in the site's database, the command channel | the row is written by the worker, by tool calls and (through commands) by the owner; every statement may be the last before a crash | row and loop agree, failures are counted, a pause holds until its reason is gone, a build ends |
| **Questions, approvals** (`server/admin/questions.go`, `tools/approval.go`, `tools/communication.go`) | `questions`, `answers` | `Answer`, `RequestApproval`, `ask` | wake through `main.go`'s subscriber | several statements per request, several requests at once | the brain is woken, once every question is answered |
| **Brain manager** (`brain/manager.go`) | map of handles, wait group, semaphore | `StartSite`, `StopSite`, `StopAll`, `SendCommand` | worker goroutines, chat wakes, site deletion | workers are cancelled but not waited for | no worker is lost, no token is lost, stopped workers exit |
| **Task scheduler** (`brain/scheduler.go`, `tools/scheduler.go`, `server/admin/sitetasks.go`) | `scheduled_tasks`, `task_runs` | tick, dispatch, execution, edits | command channel of the worker | snapshot of the schedules, full channel, stop or crash with runs in flight | every run is closed by one party, due tasks start once |
| **Cron** (`internal/cron/cron.go`) | none | `Validate`, `NextTime` | scheduler | jumps over a calendar, time zones | the first firing, always found |
| **Tool loop** (`brain/pipeline.go`, `tools/executor.go`) | messages, iterations, retries | LLM call with retry, tool calls with timeout | LLM providers, tools | a timed-out tool goes on running | every call is answered, a reported success is real, the loop ends |
| **Chat** (`chat/`) | `chat_messages`, an entry per session | stream, tool rounds, cleanup | LLM, tools, event bus | concurrent streams, clients that go, the history's limit | call and result stay paired, a session in use is kept |
| **Event bus, streams** (`events/`, `server/public/handler.go`, `server/admin/system.go`) | subscriptions, a channel per stream | `Publish`, `SubscribeAll`, `Unsubscribe`, streams | everything | streams come and go while an event is handed out, clients are slow | each event once, no handler left behind |
| **Webhooks** (`webhooks/`, `tools/webhooks.go`, `server/public/webhooks.go`) | webhooks, subscriptions, logs | administration, dispatch, three attempts, incoming requests | event bus | retries with what was read long ago, deletions, crashes | the log is true, nothing is inherited |
| **Dynamic tables** (`tools/tables.go`, `tools/endpoints.go`, the CRUD API, `server/public/auth.go`) | the table, its registry entry, full-text index, endpoints, approvals | schema and data tools, API requests, the owner's pages, registration and login, websocket messages | site database | each call is several statements, schema and data change at once | ids are not reused, index and rows agree, passwords are hashed and hidden, nothing is destroyed unasked |
| **Files** (`tools/storage.go`, the owner's and visitors' handlers) | rows, files on disk, versions | save, patch, rollback, rename, delete, upload, read | site database, disk | row and file change in two steps, a crash between | no row without its file, no text lost |
| **Pages and layouts** (`tools/pages.go`, `tools/layout.go`, the owner's and visitors' handlers) | pages, layouts, versions | save, patch, revert, delete, restore, the owner's edits, the lookup of a page | site database | read, version and write are separate statements | what is replaced is in the history, a published page is found |
| Plan (`brain/plan.go`) | plan JSON | parse, repair, validate, patch | stages | merging by name | a patched plan is consistent |
| LLM clients (`llm/`) | provider registry | complete, stream | HTTP | stream parsing | — |
| Site databases (`db/`) | cache of open databases, one writer connection | open, create, delete, migrate | all | opening what is being deleted | a deleted site stays deleted |
| Payments, admin API, security, proxy, admin UI | users, sessions | handlers | all | mostly single statements | — |

How they interact: an admin request or a tool writes the database and publishes
an event on the bus; subscribers in `main.go` turn some of the events into
commands (`wake`, `chat`) that `SendCommand` puts in the channel of the site's
worker; the scheduler does the same with `scheduled_task`. The worker takes
commands only in its paused and monitoring loops, never while a stage runs, so a
command may be minutes old when it is handled.

## Modules

* **`BuildLifecycle`** — the abstract specification: what a site may rely on.
  Stages in order, no completion without a plan, and a pipeline that gave up goes
  on only after a request has been taken from its channel (`GoOn`, `StartOver`,
  `Change` need a pending one; `Restart` brings none) or the record of its failures
  was lost (`Forget`, possible only where `MayForget`: some statement may fail).
* **`PipelineWorker`** — the worker, the row, the questions, the channel and the
  goroutines that race with the worker. One action per database statement. `pc` says
  where the goroutine is; `stage`, `retries`, `state` are the code's variables
  (`w.wakeContext`, the text of the answers, is left out); `row` has the columns the code decides on; `hs` is what each other
  goroutine (an HTTP request, a tool call) is doing. An LLM call is replaced by its
  outcomes: questions, a plan, success, failure, permanent failure. `Faults` names the
  kinds of statements that may fail: `"read"`, `"write"` and `"advance"`
  (AdvanceStage's). A write whose error the code drops (`CountFailure`, `Update`: the
  plan, the pauses, the recovery) then changes nothing and the code goes on. Three
  variables are history: `gaveUp`, `miscounted` (a failure was not counted in the row,
  or the count not read) and `wakeLost`.
* **`BrainManager`** — the books of the manager over all the sites: handles,
  goroutines on their way out, the semaphore shared by ticks and chat wakes, the
  deletion of a site, the shutdown with its time limit. Where `PipelineWorker`
  has a definition of the same name, the manager's is `ManagerInit`,
  `ManagerNext`, `ManagerTypeOK` and so on, and the worker's side of `StartSite`
  and `StopSite` is `StartWorker` and `StopWorker` in `PipelineWorker`.
* **`TaskScheduler`** — the scheduler's tick step by step (read, record, send,
  set `next_run`), the worker's side of a run, and the edits. A cron expression is
  its period here. `alive` tells a worker whose `Run` has returned from one the
  manager has a handle for. `troubles` counts what goes wrong: stops, crashes, workers
  that return, and failing statements (the INSERT of a run, the UPDATE that closes
  it, the UPDATE of `next_run`); `lost`, `missed` and `unset` remember the runs and
  tasks they hit.
* **`Cron`** — validation, the parsed sets and the scan of `NextTime` over a
  calendar whose sizes are constants; `Fires` is the reference definition that
  the scan is compared with, minute by minute. `offset` is the zone's distance from
  the absolute time in which `Truncate` rounds. Its specification is `CronSpec`.
* **`SiteTables`** — one dynamic table and everything bound to it. An action is
  one SQL statement of a goroutine (a tool call, an API request, a request of the
  owner); only a bulk insert has a transaction, which holds the single connection
  of the writer pool. `table` is the physical table, `registry` the row of
  `dynamic_tables` the code believes, `index` the FTS5 table and its triggers,
  `approval` the owner's latest answer per approval key. A row keeps the user name
  and how the secret is stored.
* **`SiteFiles`** — rows, disk and versions of assets (texts) and files (binary).
  Writing a file is two steps, truncate and write, as `os.WriteFile` is. Up to
  `MaxTroubles` statements or disk operations fail, a cancelled context among the
  causes, or the process dies; what the code does next (go on, or end the call) is
  the code's. `lost` in a call is what became of its capture.
* **`SitePages`** — pages, layouts, their versions, and the statements by which a
  visitor's request finds its page (exact path, home variants, parameters).
  Statements of the tools' calls fail as in `SiteFiles`; a visitor's lookups and the
  owner's calls of a single statement are taken to succeed, since a failure of those
  ends the request and changes nothing.
* **`EventBus`** — the list of handlers, the copy a `Publish` makes of it and then walks
  without the lock, and the event streams of visitors and of the owner. An event may
  have no JSON (`json`): `json.Marshal` fails and the stream skips it. A client that
  does not read blocks the write (`blocked`) until it does (`Reads`) or goes. The
  comments that keep a connection alive are left out.
* **`Webhooks`** — the three tables, the dispatcher, its deliveries with their
  attempts, incoming requests, and the time after a restart in which the database
  is not open. The INSERT of a log may fail, and its error is dropped (`unlogged`).
  `born` tells apart webhooks that had one id in turn; it is history.
* **`ToolLoop`** — the goroutines that talk to the model (`runToolLoop` of the
  brain, `streamWithTools` of the chat), the executor's goroutines with their late
  effects, the messages of the chat in the database and the session's entry in
  the handler. A save may fail, and the process may die and start again with the rows
  it has saved; `broken` remembers the answers of which a row was lost this way.
* **`Brain_proofs`** (pipeline and manager), **`TaskScheduler_proofs`** (scheduler
  and cron), **`EventBus_proofs`**, **`Webhooks_proofs`**, **`ToolLoop_proofs`**,
  **`SiteTables_proofs`**, **`SiteFiles_proofs`**, **`SitePages_proofs`** — the
  theorems, with the inductive invariants that the modules do not state themselves.
  A `_proofs` module begins with the definitions of the invariant, then come lemmas
  about the operators of the model, one lemma per action, and the theorems.
* `MC*` — constants for TLC, one module per specification.

Actions and code: `Run`, `LoadFails`, `AutoRecover`, `RecoverErrors`, `RecoverPause`,
`RecoverCounts/Collects/Resumes` are `Run` and `autoRecover`, statement by statement;
`RunBuildPipeline`, `LoopTop`, `StageError` (with `CountFailure`), `GiveUp`,
`Advance`, `AdvanceFails` the loop of `runBuildPipeline`; `PlanAsks`, `InsertQuestion`,
`InsertPanics`, `PlanPauses`, `PlanReady` the stage PLAN; `HandleWake` and its
siblings the cases of `handleCommand`; `Answer`, `CountPending`,
`CollectAnswers`, `SendWake` one POST of an answer and the subscriber that
follows it; `Mode`, `SendMode`, `ToolSetsMode`, `RequestApproval`,
`InsertApproval`, `PauseForApproval`, `ToolAsks` the other requests.

## What the runs check

Passing:

| run | question | result |
|---|---|---|
| `pipeline_failures` | failing stages, a crash, a database in which any statement may fail (dropped errors included), and mode changes, approvals, questions, updates and a late answer, around one question | `LoopInSync`, `FailuresRecorded`, `PlanBeforeBuild`, `OnlyCommandsResume` hold, and the row implements `BuildLifecycle`; where the record of failures itself is lost (`miscounted`), the properties say so |
| `pipeline_liveness` | two questions, two concurrent requests, answers, chats and tasks that fill the channel, stops, a crash, stages that fail up to `maxStageRetries`, an `AdvanceStage` that fails, under fairness | an answered site resumes unless its wake was given up; every build ends unless `AdvanceStage` fails for ever; no stage runs while the row says paused (an approval pause excepted: see below) |
| `manager_workers` | starts, stops, deletions, shutdown, ticks and chat wakes, one token | no stray worker, no lost token, stopped workers exit |
| `scheduler_runs` | two tasks, edits, one place in the channel, and one trouble (a stop, a crash, a worker that returned, a failing statement), under fairness | `SchedulerInv`: every run in progress has exactly one party to close it, or one of these causes took it (types, `RunsAccountedFor`, `OneHolder`), and a task with a schedule keeps a `next_run` (`KeepsComing`); one start per tick; due tasks are sent or recorded, runs are closed |
| `cron_next_time` | all combinations of sample fields from every minute, in a zone of whole hours and one of half an hour more | `NextTime` is exact in the first; in the second it skips nothing but in the first half of an hour; it ends |
| `tables_calls` | two goroutines, three calls of any of 33 kinds, a crash | `TablesInv` (types, `AllOrNothing`), `IdsNeverReused`, `FreshIndexExact`, `PasswordsProtected`, `DestroyedOnlyWhenApproved` |
| `files_calls` | two goroutines, three calls on two assets and a file, one crash or failing operation | `FilesInv` (types, `FilesPresent`), `CapturedBeforeOverwritten`, `RollbackReversible` |
| `pages_calls` | two goroutines, three calls on three pages, two of them templates that match one request, and a layout, one crash or failing statement | `PagesInv` (types, `FoundWhilePublished`), `TextsKept` (of pages and layouts), `RevertReversible` |
| `bus_streams` | two publishers, two streams that connect and go, channels of one event, clients that stop reading, events without JSON, under fairness | `BusInv` (types, `SubscriptionsOwned`), `StreamsComplete`, `EventReachesClient` (of clients that do not stop to read for ever) |
| `webhooks_delivery` | two goroutines, three calls, requests or events, deliveries with retries, failing logs, a crash, under fairness | `HooksInv` (types, `NothingInherited`), `OutcomeLogged`, `EventReachesLog` |
| `loop_calls` | a loop of the brain and two streams of a chat, two tool calls that fail, time out or never return, clients that go, one failing save or death of the process, under fairness | `LoopInv` (types, `SuccessIsTrue`, `EffectsInOrder`), `AskedWellFormed`, `SessionKept`, `LoopsEnd` |

Each property has a mutant in `PROJECT.json` (a lost write, a missing guard, an
off-by-one in the code's own step) that makes it fail.

Failing, because the code does not do what it says: `pipeline_pauses`. The brain
"pauses until you answer" (README.md:58), but questions are published before the
pipeline is paused: an early answer leaves a wake in the channel that resumes the
pipeline with a question still pending.

Many properties have a condition: they hold of a file whose calls came one at a
time, of a stream that was connected, of a webhook that was not switched off. The
condition is part of the statement because the code promises nothing beyond it;
the histories that tell (`clean`, `steady`, `waited`, `born`, `miscounted`,
`wakeLost`, `lost`, `missed`, `unset`, `broken`) are named in the modules.

### Other deviations

These came out of the modelling too. The models reproduce them unless the entry
says otherwise; no run states them.

* *Approvals.* `tools/approval.go:59` says that a request "pauses the pipeline so
  the brain waits" and that the stage is run again after the answer. The tool loop
  of `runBuild` goes on after the tool's error, and a stage that succeeds is
  advanced (`pipeline.go:317`) while the row says `awaiting_approval`.
* *A fresh build.* `pipeline.go:407` says "Reset pipeline for fresh build." for a
  mode change to building. A worker in the monitoring loop resets the row and goes
  on monitoring (`pipeline.go:339-356`).
* *next_run.* `tools/scheduler.go:235` says "Recalculate next_run if the schedule
  changed." It is computed from the fields of the request: a new interval for a
  task that has a cron expression moves it past the expression's next time.
* *Half-hour zones.* `internal/cron/cron.go:102` says "NextTime computes the next
  time a cron expression fires". `Truncate(time.Hour)` rounds in absolute time, so
  with an offset that is not whole hours the jump lands in the middle of the next
  hour and skips firings in its first half. `NextTimeExact` has this exception
  (`Clear`), over both zones of `MCCron_zones.cfg`; without it the run fails.
* *Cached assets.* `server/public/handler.go:343` says that asset URLs "change
  whenever any asset is updated, forcing browsers to re-fetch". The hash is of
  `MAX(created_at)`, which no save, patch or rollback of an existing asset changes
  (`tools/storage.go:372`), and the responses are immutable. Browsers are not in
  `SiteFiles`.
* *Passwords.* `tools/tables.go:161` says that "PASSWORD columns auto-hash with
  bcrypt". A `create` of an existing table overwrites `secure_columns` with what
  was asked for (`tables.go:273`), an `alter` that adds a PASSWORD column and asks
  for approval of a drop in the same call returns before it writes them
  (`tables.go:456`), and `wsWriteToTable` inserts what the message says
  (`handler.go:2299`). `aggregate` groups by any column (`tables.go:1136`).
  `PasswordsProtected` says what is left.
* *Progress messages.* `pipeline.go:697` says "Publish human-readable progress for
  successful write operations." `Executor.Execute` never returns an error
  (`marshalError` puts it into the result), so progress is published for failed
  calls too, and the chat's `IsError` is always false. Messages to the owner are
  not in `ToolLoop`.
* *Cascades.* The schema says `ON DELETE CASCADE`, but the driver does not know the
  `_foreign_keys` parameter it is opened with: rows of a deleted webhook stay.
* *Templates.* `findParamPage` names the template that matches a request, and
  its row is read by a later statement (`handler.go:131-147`, `264-272`). When the
  template is deleted or unpublished between the two, the visitor gets a 404,
  although another template that matches was published all along; nobody looks
  again. `FoundWhilePublished` has this exception. An instance with one template
  does not show it: the attempt to prove the property without the exception did.
* An answer whose row is not inserted yet is missing from the wake a concurrent
  request sends (`questions.go:300-311`; the texts of answers are not in the model); after a crash between the wake and the
  end of PLAN the answers are not collected again (`pipeline.go:165`); the
  semaphore has four tokens, so it does not keep a chat wake and a tick apart
  (`pipeline.go:772`); a site's directory is removed while its worker still runs
  (`sites.go:259`).
* *Lost wakes.* The commands channel fills up while a stage runs. The wake of an answer
  is sent twice (`main.go:137-144`) and then given up: the site stays paused with every
  question answered, until another command or a restart.
* *Errors that add up.* `error_count` is reset by `AdvanceStage` only. A PLAN that
  fails, asks, is answered and fails again comes to the limit over several rounds, and a
  restart then takes the site for one that gave up (`pipeline.go:152`), without looking
  whether its questions are answered.
* *Errors that are forgotten.* The loop counts a failure in `stageRetries` even when the
  increment of `error_count` fails (`pipeline.go:290`), and `autoRecover` takes a
  count it could not read for zero (`pipeline.go:149`): a site that gave up is then
  built again by a restart, although `pipeline.go:151` says "Too many
  failures — require manual resume."
* *An approval that is cleared.* `autoRecover` resumes with a blind UPDATE
  (`pipeline.go:183`), which also clears an approval pause made since it looked.
* *Without an end.* When `AdvanceStage` fails, the loop runs the same stage again, LLM
  calls included, and neither counts nor waits (`pipeline.go:317-321`).
* *A plan that is not stored.* The error of its UPDATE is dropped (`stages.go:165`): the
  row advances to BUILD, which then fails for want of a plan until it gives up.
* *Workers that returned.* `Run` returns when it cannot load the site or the row
  (`pipeline.go:116-119`, `194-198`), and the manager keeps the handle: commands fill
  its channel and are never taken, runs of tasks stay in progress.
* *Task runs in progress for ever.* When the UPDATE that closes a run fails, it is logged
  (`scheduler.go:187-192`) or dropped (`finalizeTaskRun`), and nobody closes the run. A
  task whose run can be neither recorded nor sent is passed over without a trace; one
  without a schedule does not come again.
* *Tasks without a next time.* An edit writes the schedule and `next_run` in two
  statements and looks at the error of neither: a failure or a crash between leaves
  an old `next_run`, or none.
* *Versions that are lost.* The version of what a tool overwrites is inserted under the
  context of the call (`storage.go:326-347`, `pages.go:132`, `259`, `551`,
  `layout.go:158`, `255`, `453`); a timeout of the tool or a client that leaves cancels
  it, the error is dropped, and the goroutine goes on and overwrites (`storage.go:363`).
  A failing `MAX(version_number)` counts as zero, so a number comes twice; a
  pruning after a failed INSERT removes an older version all the same; a page or
  layout whose lookup failed is saved as if it were new (a layout's fields that are
  not given become empty).
* *Files apart from their rows.* A failing write leaves a truncated file under the old row
  (`storage.go:183`), a failing UPDATE after a rename leaves the row at the old name.
  A layout is deleted while pages use it when the COUNT of them fails
  (`sitelayouts.go:106`).
* *Calls without results.* A failed save is logged and the chat goes on
  (`session.go:252-254`, `299-301`), and the process may die between the row of an
  answer and those of its results: every later stream of the session then asks with
  a call that has no result, as long as it is within the history's limit.
* *Streams that skip or block.* An event `json.Marshal` refuses is skipped
  (`handler.go:2141-2143`, `system.go:107`); the write deadline is lifted
  (`handler.go:2099-2101`, `system.go:73-76`), so a client that stays connected and stops
  reading blocks its stream for ever.
* *Webhook logs* whose INSERT fails are dropped (`outgoing.go:172`,
  `public/webhooks.go:91`).
* Two registrations of one name at once both succeed (`auth.go:156`); two saves of
  one file or page at once insert the same version number (`storage.go:342`,
  `pages.go:131`); a save over a deleted page, and the owner's edits, keep no
  version (`pages.go:125`, `sitepages.go:150`); a rename over an existing file
  replaces it before the row is refused (`storage.go:753-760`).
* Two streams of one chat session see each other's half-finished calls, and the
  history's limit may cut a call off from its result (`session.go:87`).

### Bounds

Every bound is a constant with a comment. Pipeline: two requests at a time are what the
races between statements need; one or two questions, since a plan with two has a first
and a last one; two retries instead of three (the limit only counts); one place in the
channel, so that it is full as soon as a command waits; one crash, which may fall
between any two statements, in both runs. Error counts stop at the limit, where the
pipeline gives up: failures end in both runs by the pipeline's own limit and not by a
bound of the model. `RunsEnd` and `LoopsEnd` say that from some time on nothing is left
in progress, which is the end of each single run or loop because a bound ends what can
be started. Manager: two workers let one be replaced while it runs, one token makes
everybody wait. Scheduler: three points in time give a due task, its next run and an
edit between; the clock stops there, so no liveness property speaks of later times; one
trouble falls between any two steps. Cron: hours of two minutes, days of three hours,
months of three days, a year of two months, weeks of two days, a horizon of a whole
year, the second zone half an hour (one minute of two) ahead of the first; argument
times over a whole year and more.

The modules of a site have two goroutines and three calls: enough for a call that
prepares and two that interleave statement by statement; the initial states include a
site that is built already, so that no call is spent on it. One crash falls between any
two statements, or (`MaxTroubles`) one statement or disk operation fails. Three ids are
enough for a row that is deleted, one that is rolled back and one that is inserted after
both. One version per file is kept, so that every save prunes. Two of the three pages
are templates that match the same request, besides the exact one, so that the one a
visitor is sent to can go while the other stays. Events: two, so that the second meets a
full channel of one place; two streams opened by a visitor's and an owner's connection,
so that both are there at once, or one goes and comes back in the middle of a `Publish`.
Webhooks: two of one or two names, so that one can take the place of the other. Tool
loop: two calls, in one answer or in two, of one loop or of two; two iterations, retries
and continuations; a history of four messages, which two streams exceed.

Symmetry is used for the goroutines of the safety runs `tables_calls`,
`files_calls` and `pages_calls` only.

### Fairness

`PipelineWorker`: weak fairness of the worker and of each request in flight.
Stages have timeouts (`stageTimeouts`), LLM calls a client timeout, a send gives
up after five seconds, so no goroutine stays where it is. The owner, tools, stops,
crashes and faults get none. `BrainManager`: weak fairness of goroutines; strong fairness
of leaving a loop whose context is cancelled, because `select` picks among the
ready cases at random and the case stays ready. `TaskScheduler`: the ticker ticks
and workers whose goroutine runs (`alive`) work; the clock need not advance. `EventBus`:
a `Publish` goes on to its next handler, and the goroutine of a stream takes what is in
its channel and unsubscribes when the client has gone; clients and publishers get
none, and a client need never read, so a write that blocks may do so for ever.
`Webhooks`: a call goes on to its next statement, a delivery to its next attempt
(the HTTP client has a timeout) and to its log. `ToolLoop`: a loop takes its next
step; calls of the model have timeouts, waiting for a tool ends with `toolTimeout`
in the brain and with the request in a chat, and nothing makes a tool return.

Deadlock is checked where the system never stops for good; the other
configurations say `CHECK_DEADLOCK FALSE` because every owner and request may be
done (or, for `Cron`, the function has returned).

## What is proved

For every value of the constants (any number of handlers, questions, retries,
crashes, sites, workers, tokens, and any set of statements that may fail), in
`Brain_proofs`, of the pipeline:

* `Invariance`: `PipelineInv` is inductive. It is the conjunction of the type invariant,
  `LoopInSync`, `FailuresRecorded`, `PlanBeforeBuild`, `NoStageWhilePaused` and
  `LoopFacts`. The last is the strengthening: a recovery that goes on with a pipeline
  that gave up has miscounted its failures; the paused loop is in the state paused; the
  loop is about to give up exactly with its retries used up; a stage is about to be
  advanced only with a plan in the row, or it is PLAN and the plan could not be stored.
  Without the first, a restart of a pipeline that gave up could run a stage; without the
  last, `Advance` could complete a site that has no plan. That the worker is the only
  one to write `stage` and `errorCount`, which `LoopInSync` and `FailuresRecorded` rest
  on, is read off the actions.
* `TypeCorrect`, `LoopInSyncAlways`, `FailuresAlwaysRecorded`,
  `PlanAlwaysBeforeBuild`, `PausedRunsNoStage` — its parts.
* `ResumedByCommands` — the action property, from the invariant.
* `ImplementsLifecycle` — the refinement of `BuildLifecycle`, with the length of the
  channel for the pending requests and `Faults # {}` for `MayForget`: every action
  maps to an abstract step or to a stutter, by cases. That a pipeline that gave up
  starts no stage by itself, through crashes and restarts, is this refinement.

Of the manager, in the same module: `Books` (`ManagerInv` is inductive; `HandlesPoint`,
that a handle is the handle of a worker of its own site, is what makes `NoStrayWorker`
inductive, and `TokensHeld` is what keeps the semaphore from going below zero),
`ManagerTypeCorrect`, `NoStrayWorkerEver`, `TokensAlwaysHeld`. The count of tokens is a
cardinality, carried along by the library's theorems on finite sets.

In `TaskScheduler_proofs`: `SchedulerInvariant`, `RunsAreAccountedFor`
(`SchedulerInv`) and `RunsOncePerTick` (`OneRunPerTick`). `SchedulerInv`
allows a run in progress that nobody holds only if its worker ended, the process died
or its closing UPDATE failed (`lost`). It needs that
what is held has been recorded and that workers which execute at once execute
different runs (`BooksIInv`): a stopped worker and its successor share the channel.
One run per tick needs the times (`TickIInv`): the periodic runs of a task lie before
its `next_run`, but for the one the scheduler is about to set it for, and an entry of
the snapshot the scheduler has not come to has no run of this tick. Edits set
`next_run` in the middle of a tick, but to a time that is still to come. The times say
nothing after a crash or of a task whose `next_run` was not written (`unset`), and
neither does the property. `KeepsComing`, the last part of `SchedulerInv`, needs to know
who will still set a missing `next_run` (`ComingIInv`).

In the same module, of `Cron`: `FirstFiring` (`NextTimeExact`), for every set of
accepted expressions, every start and every size of the calendar. `CronIInv` says
that the scan has left no firing between its argument and its candidate. A step keeps
it for two reasons: the sets `ParseField` makes hold what the fields say (`Matches`;
lists, ranges and steps are compared with `Admits`), and a jump lands where the month,
the day or the hour changes for the first time, so that all it passes over has the
value that did not match. No induction is needed, since the scan is a sequence of
steps and the calendar is arithmetic on a count of minutes. The theorem is for every
zone: a jump over an hour ends at a whole hour of absolute time, so it may pass over
firings in the first `offset % MinutesPerHour` minutes of an hour and over no others
(`Clear`); in zones of whole hours that excepts nothing.

In `EventBus_proofs`: `BusInvariant`, `HandlersAreOwned` (`BusInv`) and `EveryEventOnce`
(`StreamsComplete`). `Publish` walks a copy of the list, so the invariant speaks of the
copies: what a copy still has ahead of it for a connection is due and was not brought
yet (`Fresh`), and what is due was brought, is ahead in the copy of some publisher, or
was passed over because the channel was full or the event has no JSON (`Complete`). Ids
are never given twice, so the handler of a connection that went and came back is another
one (`Owned`).

In `Webhooks_proofs`: `DeliveryInvariant`, `NothingIsInherited` (`HooksInv`) and
`OutcomeIsLogged` (`OutcomeLogged`). An id means one webhook, in the rows and in what
goroutines remember of them (`IdsMeanOne`); an event belongs to one goroutine until
the dispatcher has it, and from then on there is one delivery of it for each webhook
(`EventsCarriedOnce`, `DeliveriesTrue`), hence one log, or none where the INSERT failed.

In `ToolLoop_proofs`: `LoopInvariant`, `ToldWhatTheyDid` (`LoopInv`) and
`SessionsAreKept` (`SessionKept`) from `LoopIInv`: an answer is of one loop, the calls
a loop has executed come before the one it is at, one that runs and is waited for is
the one its loop is at, and the count of a session is the cardinality of its streams,
after the process has died and been started again too.
`ConversationInvariant` and `ConversationsAreWellFormed` (`AskedWellFormed`) from
`TalkIInv`: of the answer a loop is at, the first calls have their results, in order,
and every other one has all (`Formed`, `Open`); and while the streams of a session
come one at a time and the limit cuts nothing off, the rows are what the stream has
said, but for its last message before it is saved (`Shared`) and for the answers of which
a failing save or a death of the process lost a row (`broken`). So no answer but those
stays without its results in the history.

In `SiteTables_proofs`: `TablesInvariant` and from it all five properties of
`tables_calls`: `RowsAreAnsweredFor` (`TablesInv`), `IndexIsExact`
(`FreshIndexExact`), `PasswordsAreProtected` (`PasswordsProtected`) and the action
properties `IdsAreGivenOnce` (`IdsNeverReused`) and `DestroyedWithApproval`
(`DestroyedOnlyWhenApproved`). A call acts on what it read one statement earlier, so
`CallSafe` says which of it is still right: the approval of a drop stands until the
drop, and the secure columns a call has read name the password while the table keeps
it. For ids, `RowsInv` says what a rollback leaves of the sequence.

In `SiteFiles_proofs`: `FilesInvariant` and from it `FilesArePresent` (`FilesInv`),
`RollbacksAreReversible` (`RollbackReversible`) and the action property
`OldContentIsCaptured` (`CapturedBeforeOverwritten`). The names whose calls come one
at a time have one call at work on them (`Alone`); the invariant says what that call
has seen and left at each of its steps (`WriterSound`, `DeleteSound`, `RenameSound`),
and that the version a writer has inserted is the newest, through the pruning too.
Any statement or disk operation may fail: a call that knows its capture failed (`lost`)
is the only one that may overwrite what is in no version, which the code does.

In `SitePages_proofs`: `PagesInvariant` and from it `PublishedPagesAreFound`
(`PagesInv`), `RevertsAreReversible` (`RevertReversible`) and the action property
`TextsAreKept` (`TextsKept`). `PagesIInv` says of each goroutine what of its reading is
still right at each of its steps, whatever the others have done: what a call that will
replace a text read is in the history by the time it writes, unless its INSERT failed
(`WriterSound` for pages, `LayoutSound` for layouts), and the pages that a request has
seen published all along are among those it has still to try (`VisitSound`). A page that
is clean has one call at work on it (`Alone`), so the version that call inserted is the
newest; and after a revert nobody is at work on it (`UndoneSound`). The ids of layouts
have been given out, which keeps the versions of a layout apart from those of a later
one of the same name.

The assumptions are those on the constants, which TLC evaluates on every run. Besides
types and disjointness they say that there is a clock (`MaxTime # 0`), an id for a
webhook (`MaxHooks # 0`), a name (`Names # {}`), that the dispatcher is no stream, and
that the fields of a cron expression are non-empty sets of parts, as splitting a text
at its commas gives them (`FieldsAssumption`).

Each inductive invariant holds in TLC too, on the instance of its
module's run. The bounds in the guards (`MaxCalls`, `MaxEvents`, ...) are arbitrary in
the proofs.

Only model-checked:

* all liveness (`AnsweredResumes`, `BuildSettles`, `StoppedWorkersExit`,
  `DueTasksStart`, `RunsEnd`, `ScanEnds`, `EventReachesClient`, `EventReachesLog`,
  `LoopsEnd`): the prover has no rule for fairness;
* the violation.

## What is not modelled

* Failing statements in `SiteTables` (except where a table, column or row is missing or
  a bulk insert is rolled back), of visitors and of the owner's single statements in
  `SitePages`, of the reads of webhooks and of the chat's history, and of the INSERT of
  an answer's text. In `PipelineWorker`, `TaskScheduler`, `SiteFiles`, `SitePages`,
  `ToolLoop` and the logs of `Webhooks` they fail.
* The texts of questions and answers: a wake has no payload.
* A payload without JSON in `deliver`, which ends the delivery without a log.
* Two workers of one site on the same row at the same time: `BrainManager` shows
  that the old one is cancelled and exits, `PipelineWorker` starts the new one after
  that.
* The start of the scheduler (`initializeNextRun`) is one step; edits do not fall
  between its statements.
* Only one approval key; secrets, urgency and texts of questions; the
  monitoring interval.
* Summer time, leap days, months of different lengths in `Cron`.
* Plans as data: parsing, repairing, validating and patching (`brain/plan.go`) are
  sequential functions on a text the LLM wrote; `PipelineWorker` knows whether a
  plan is stored.
* Of the site: rendering and the texts themselves, upload limits, pagination,
  filters and sorting, the roles of users, tokens, e-mail, OAuth requests to the
  provider, the rooms of the websocket hub, the rate limiter (one lock around one
  map), payments.
* The cache of open site databases and its migrations. The pools of connections,
  but for the single writer connection.
* What the brain saves of its conversation, which is only displayed; truncated and
  summarised results of tools.
* Prompts, the LLM's HTTP clients, cryptography, the reverse proxy and the browser
  code for good: text, libraries and external processes.

## Hazards no property covers

`PROJECT.json` lists the hazards the properties are for, and the ones worth a module of
their own. The following are real as well, and stay outside:

* A wake resumes the row before PLAN has used the answers it carries, which are only in
  memory (pipeline.go:397): after a crash PLAN runs without them. The answers a wake
  carries are not in `PipelineWorker`.
* A chat wake sets `w.maxToolResultOverride` while a tick of the same worker reads it
  (pipeline.go:792). The field is not in a model.
* `Run` returns when the site or the row cannot be loaded, and the handle stays
  (pipeline.go:118). `PipelineWorker`, `TaskScheduler` and `BrainManager` reach it; the
  code promises nothing else.
* `SendCommand` holds the manager's read lock while it waits for room in a channel, up
  to five seconds (manager.go:135): nothing is stuck for good, and a send is one step
  here.
* Summer time and leap days in `NextTime` (cron.go:136): the calendar of `Cron` has
  neither.
* A plan patch that removes what is referred to (plan.go:170): plans are opaque.
* Two registrations of one name look it up before either inserts (auth.go:156).
  `SiteTables` reaches two users of one name, and no constraint forbids it.
* Two saves of one file read the same largest version number (storage.go:342).
  `SiteFiles` reaches it.
* `List` counts rows with a second query while the first is open (sitetables.go:34):
  the pools of connections are not modelled.
* A websocket client that does not read (ws_hub.go:75), and a provider whose key was
  changed after it was registered (chat/session.go:124).

## Plan

1. Done: pipeline, manager, scheduler, cron, the first theorems.
2. Done: tables, files, pages, event bus, webhooks, tool loop and chat.
3. Done: proofs for scheduler, bus, webhooks, tool loop, tables and files.
4. Done: proofs for cron and for the pages.
5. Left: `WorkerHandover`: two workers on one row; `SiteDatabases` composed with the
   deletion in `BrainManager`; the websocket hub.
