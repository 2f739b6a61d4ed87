# The New Relic Python agent in TLA+

Models, model checks and proofs for the core of the agent: how data that request
threads record reach the data collector once, whatever the collector answers,
while applications connect, restart and shut down; how spans are streamed while the stream
ends and is opened again; how a profiler thread and the harvests share sessions; and
how the traces of a transaction complete when tasks leave them in any order.

| Module | What it is |
| --- | --- |
| `Application` | one `Application` (core/application.py) with its stats engines: recording, harvest, connect, restart, shutdown |
| `Delivery` | the abstract promise of `Application` for event data |
| `ApplicationProofs` | theorems about `Application`, among them that it implements `Delivery` and answers the calls of `HarvestCalls` |
| `ApplicationLosses` | theorems that bound what `Application` loses, sends again, or reports to another run |
| `MCApplication` | the instance of `Application` that TLC checks |
| `HarvestCalls` | the calls of `harvest` the loop promises each application |
| `HarvestLoop` | the scheduler loop of the `Agent` and `shutdown_agent` (core/agent.py) |
| `HarvestLoopProofs` | theorems about `HarvestLoop`, among them that it implements `HarvestCalls` |
| `SampledDataSet` | the reservoir of an event data set (core/stats_engine.py) |
| `SampledDataSetProofs` | theorems about `SampledDataSet` |
| `MCSampledDataSet` | the instance of `SampledDataSet` that TLC checks |
| `SpanChannel` | the abstract promise of `Streaming`: one bounded channel in order |
| `Streaming` | infinite tracing: the span buffer, its gRPC streams and the thread that keeps one open (common/streaming_utils.py, core/agent_streaming.py) |
| `StreamingProofs` | theorems about `Streaming`, among them that it implements `SpanChannel` |
| `ProfileSessions` | the thread profiler against harvests and shutdown (core/profile_sessions.py) |
| `ProfileSessionsProofs` | theorems about `ProfileSessions` |
| `TraceTree` | the traces of one transaction over asyncio tasks (api/time_trace.py, core/trace_cache.py, the root in api/transaction.py) |
| `TraceTreeProofs` | theorems about `TraceTree`: completion |
| `TraceTreeClosing` | theorems about `TraceTree`: closing the root completes all |

## Inventory

The agent is one `Agent` object per process. It keeps an `Application` for each
application name, a scheduler with one harvest thread, and a flag that ends it.
Instrumented code opens a `Transaction` on its own thread, hangs trace nodes into
it and, when it ends, hands a node tree to `Agent.record_transaction`, which goes to
the `Application` of that name.

**Agent** (core/agent.py). State: `_applications`, `_scheduler`, `_harvest_thread`,
`_harvest_shutdown`. Operations: `activate_application`, `record_*` (look up and
forward), `_harvest_loop` with its callbacks `_harvest_flexible` (every few seconds)
and `_harvest_default` (every minute), `shutdown_agent`. Hard: `shutdown_agent`
schedules the last two harvests from another thread, without a lock, and the thread
itself may be started by an application that connects, or by the shutdown.
Correct when the harvests go on until the shutdown, and then there is one last
flexible and one last default harvest, in that order, and nothing after them.

**Application** (core/application.py). State: `_active_session`, `_harvest_enabled`,
`_pending_shutdown`, `_agent_shutdown`, `_stats_engine` under `_stats_lock`,
`_stats_custom_engine` under `_stats_custom_lock`, `_period_start`, `plugins`.
Operations: `activate_session` / `connect_to_data_collector` (a thread per
connection), `record_transaction`, `record_custom_metric`,
`record_dimensional_metric`, `record_custom_event`, `record_ml_event`,
`record_log_event`, `harvest`, `internal_agent_shutdown`, `process_agent_commands`.
Hard: request threads, the harvest thread and an activation thread meet on the
engines and on `_active_session`; a harvest is a dozen requests, each of which may
be acknowledged, refused, to be retried, or answered by a restart or a disconnect.
Correct when what was recorded is neither lost nor sent twice, a harvest has the
session it started with throughout, a restart connects again and a shutdown is
final.

**StatsEngine** (core/stats_engine.py). State: the metric tables, seven event data
sets (`SampledDataSet`, and `LimitedDataSet` for synthetics), slow SQL, slow
transactions, error traces. Operations: `record_*`, `reset_*`, `harvest_snapshot`,
`create_workarea`, `merge`, `rollback`. It locks nothing itself. Correct when each
type is in the snapshot or in the engine and never in both, when reservoirs are
bounded and keep the samples of highest priority, and when counts survive merging.

**Agent protocol, HTTP client, data collector** (core/agent_protocol.py,
common/agent_http.py, core/data_collector.py). A session: run id, settings, one `send` per
request. A response maps to an exception: retry, discard, restart, disconnect.

**Thread profiler** (core/profile_sessions.py). State: the running session and its
application, the finished sessions of each application, a profiler thread and its
running flag; one manager for all applications. Operations: `start_profile_session`
and `stop_profile_session` (commands of the collector, the shutdown of an
application, the expiry of the session), `report_profile_data`, `_profiler_loop`. Hard:
the harvest thread and the profiler thread meet, and the latter reads the session and
clears its flag without the lock; a report sends between locking and forgetting.
Correct when at most one thread walks the stacks, no trace is sent twice, sessions of
applications do not mix, and every session ends and is reported.

**Infinite tracing** (common/streaming_utils.py, core/agent_streaming.py). State: a
bounded queue of spans with two counters, one request iterator per stream, the channel
and its thread. Operations: `put`, `stats`, `__next__`, `shutdown` of an iterator,
`process_responses`, `close`. Hard: application threads put, gRPC threads take, a
thread of its own reconnects with backoff, the harvest thread reads counters and
closes; the server may end the stream at any time. Correct when no span vanishes or
is sent twice or out of order, a stream that ended takes none, counters are exact, and
threads end.

**Agent control health** (core/agent_control_health.py). A status code with rules on
what may override what, written to a file by a thread of its own. Correct when the
status tells what is the matter, and recovers.

**Transactions, traces, trace cache** (api/transaction.py, api/time_trace.py,
core/trace_cache.py). State: a tree of traces, with counts of outstanding children and
an exited flag each, and a cache of the current trace of each thread, task or greenlet.
Operations: `__enter__` and `__exit__` of a trace, deferred completion, the end of the
transaction with `complete_root`. Hard: children finish after their parents, in other
tasks, while the transaction ends. Correct when every node gets to its parent once and
when all below it is done, and the root completes with everything in it.

**Samplers** (core/samplers). Adaptive sampling with a target and periodic resets.
Correct when a period never samples more than twice the target.

**Rules engine, attribute filter, SQL utilities, configuration, data samplers,
utilization, web transaction adapters, hooks, admin, vendored packages, OpenTelemetry
bridge.** Sequential, data-only or I/O; listed in `PROJECT.json` with the reason each
is left out.

The hazards, each at its line and with the properties that would catch it, are
listed in `PROJECT.json`.

## How the modules correspond to the code

### Application

A datum is `<<op, type>>`: what one record operation contributes to one data type.
The engines, the snapshot of the harvest and the request in progress are sets of
data, so losing, duplicating or resending a datum shows in which sets it is.
`reported` and `dropped` are history variables: what the collector has acknowledged
in which run, and what was thrown away where the code means to.

| Variable | Code |
| --- | --- |
| `session`, `pendingShutdown`, `agentShutdown` | `_active_session` (with `_harvest_enabled`), `_pending_shutdown`, `_agent_shutdown` |
| `engine`, `customEngine`, `dims` | `_stats_engine`, `_stats_custom_engine`, and the `DimensionalMetrics` object that `_stats_engine` shares with its copies |
| `engineRun` | the run whose settings the engine holds |
| `snap`, `todo`, `payload`, `dimPayload` | locals of `harvest`: the snapshot, the requests still to make, the one being made, the prepared dimensional metrics |
| `harvest`, `mode`, `finals`, `cause` | where the harvest thread is, in which call of `harvest`, and why it is in `internal_agent_shutdown` |
| `connect` | where the activation thread of each run is |
| `op`, `txRun`, `slot` | how far each record operation is, the run a transaction started in, the data set object a direct event is about to be added to |

Each critical section is one step, and so is each request and each answer. What
different locks guard, or none, is split where another thread can get between: a
transaction tests the run (`RecordTransaction`), builds its work area
(`CreateWorkarea`) and merges it (`MergeTransaction`) in three steps; a direct
event tests the session, looks its data set up and adds to it in three; a connection
has one step for each lock it takes. `SnapshotTypes` and `RollbackTypes` say what
`harvest_snapshot` takes and `rollback` gives back; `CompleteStage` resets a data
set as soon as its request was acknowledged. `TraceTypes` are the traces the configuration
has collected; error traces are sent before the loaded modules, slow SQL and transaction
traces after them and in default harvests only. The rollback of a retried harvest holds
no lock: it lasts from `AnswerRetry` to `Rollback`, other threads go on meanwhile, and
a transaction that merges then sets metrics the rollback may be about to set as well. Each
of the two looks a metric up and then sets it, so that either may overwrite the other's;
`Overwritable` are the metrics `MergeTransaction` may lose in this way. Events are
only appended, which loses none while the data set is not full. The calls of `harvest` are the
`Calls` of `HarvestCalls`, periodic ones of both kinds, then a last flexible and a
last default one, and possibly further ones when several threads shut the agent down;
`mode` and `finals` say which call is in progress until `harvest` returns, so that
`CallsAnswered` can follow each from its begin to its return.

`Delivery` is what the application promises for the event data recorded under a
lock: taken in once, then acknowledged or thrown away once. Metrics are not included
(see the findings), nor are directly recorded events, nor dimensional metrics.

### HarvestLoop

The entries of `sched.scheduler` are a set; an entry is due at a finite or an
infinite time (`_harvest_timer` is infinite once the shutdown is set). Which of two
finite entries comes first is left open, an infinite one comes after all finite
ones, and priority orders the infinite ones. `Pop` is a step of
`sched.scheduler.run`, which is library code, modelled as this code uses it.
`shutdown_agent` is five steps, one for each of its effects, by any number of
callers. Two callers that both pass the first test schedule the final harvests
twice, and the second pair finds the session gone.

`HarvestCalls` is what lies between the loop and an application: what is requested,
which call is in progress, whether the final ones have begun, and whether the loop has
ended. It is where the two models meet. `HarvestLoop` implements it
(`CallsImplemented`); `Application` makes no other assumption on its caller than its
`Calls`, and takes each of its calls from begin to end (`CallsAnswered`), whatever the
collector answers. `Application` tests the shutdown and begins the harvest in one step;
nothing but `Calls` reads the request, so that the loop's separate test of
`_harvest_shutdown` decides nothing a harvest could see otherwise.

### SampledDataSet

The list `pq` is the set of its samples with the `num_seen` each was stamped with;
the heap's order matters only through its root, the least entry. `AddSample` has
one disjunct per case of `add`. `merge` is a loop, one sample a step, followed by
the correction of `num_seen`. `main` is the data set of the engine and `other` that
of a work area or a snapshot; both have the capacity of the run, as settings do not
change within one. With a capacity of zero `add` only counts.

### Streaming

Spans are numbered in the order they are put. `sent`, `lost`, `discarded` and `reported`
are history variables: where each span that left the queue went, and what harvests
have read of the counters. `SpanChannel` is what remains when streams, threads and
reconnections are left out: spans wait, are taken from the front, and are sent behind
all that were sent before, or lost; the oldest goes when there are too many.

| Variable | Code |
| --- | --- |
| `queue`, `seen`, `dropped` | `_queue`, `_seen`, `_dropped` of `StreamBuffer` |
| `shut`, `consumer`, `hand` | per stream: `_shutdown` of its iterator, where the gRPC thread that calls `__next__` is, and what it has returned and gRPC has not sent |
| `stream`, `current` | the state or final status code of each stream (`response_iterator.code()`), and the stream of `request_iterator` |
| `thread` | where `process_responses` is |
| `closed`, `closer` | `StreamingRpc.closed`, and where the harvest thread is in `close` |

There are two locks. The buffer's condition is held between the closed test of
`__next__` and what follows it (`Next1`, then `Take` or `Wait`), so that the stream may
end in between and nobody may put; every other operation under it is one step. The
condition of `StreamingRpc` is held by `process_responses` from the top of its loop
until it reads responses, waits or breaks; `Close` cannot come in between. `Wait`
gives the lock up, and every `notify_all` (of `put` and of a shut-down iterator) is part of the step
that does it (`Woken`). gRPC itself is external, modelled as the code uses it: it
calls `__next__` from one thread per stream, sends what it returns while the stream is
open, and drops it otherwise.

### ProfileSessions

The profiler thread is a state machine with one step per unlocked read of
`full_profile_session`, since the harvest thread may stop or start a session between
any two of them; the reads that then find `None` and raise are there too (`dead`). Whose
session has expired is read without the lock as well (`ReadApp`), and the session is
stopped only if it is still one of that application (`StopExpired`).
What `start` and `stop` do under the lock is one step. `report_profile_data` is a
generator that keeps the lock while its caller sends, so a report is one step per
profile encoded and one per profile sent, and `LockFree` says that nobody else is in
the manager meanwhile. Threads are named by the session whose start created them.
`tree`, `sent` and `lost` follow each stack trace. The harvest thread is modelled as
far as it drives the manager: it takes one application after the other, has commands,
reports, may raise at each point, and runs `internal_agent_shutdown`, with another
report, on a restart, a disconnect or the last harvest.

### TraceTree

Tasks and traces are numbered as they are created; trace 0 is the Sentinel at the
root. All tasks run on one event loop, so that what is between two awaits is one step:
`__enter__`, `__exit__` with all the completions it leads to (`Completes`, `Popped`),
the creation and the end of a task. The loop of `complete_root`, in which the program
exits for other tasks, is taken apart trace by trace; nothing else moves meanwhile. `to_complete` may hold
a trace several times, which is current in several tasks; `pending` has it once, as
exits beyond the first lead to the same end. After the transaction has ended (`Over`) an
exit does what it always does, or nothing: that depends on whether the `Transaction`
object, which the root only refers to weakly, has been collected.

| Variable | Code |
| --- | --- |
| `cache`, `live` | `TraceCache`: the current trace of each task, and the tasks that are not done |
| `parent`, `path`, `thread` | `parent` of each trace, its ancestors, and the task that entered it (`thread_id`) |
| `exited`, `complete` | `exited` of each trace, and whether it was made a node of its parent (`child_count` and the counters of outstanding children follow from the tree) |
| `open` | the `with` blocks each task is in |
| `txn`, `pending`, `chain` | how far the end of the transaction is, and what `to_complete` holds |
| `hidden` | history: an exit put another trace in the place of one whose block goes on |

## What is checked

| Run | Question | Instance |
| --- | --- | --- |
| `application` | does anything vanish, come back, or cross runs in another way than those known; is anything in two places; does a harvest own its session; is a shutdown final; are `Delivery` and `HarvestCalls` implemented | one transaction (an event of a default harvest, and a metric), one direct event (of a flexible one), one custom metric, two runs |
| `application_live` | do harvests end after a shutdown, do data leave, does a restart reconnect; do dimensional metrics vanish in no other way than those known | one transaction (event and metric) and one dimensional metric, two runs, fairness |
| `harvest_loop` | does no periodic harvest follow a final one, do harvests go on until a shutdown, is `HarvestCalls` implemented (the order of the last harvests, no end before them), and does the loop end | two callers of `shutdown_agent` |
| `sampled_data_set` | is the reservoir bounded and full, a heap exactly when full, counting each sample once and keeping the best | five samples, two pairs of equal priority, capacities 0 to 3 |
| `streaming` | does a span vanish or go out twice; is `SpanChannel` implemented (order, batches, what a full queue throws out); does an ended stream take one; are the counters exact; does anything stay open or wait for ever after an end or a close | three spans, a queue of two, batches of two, three streams, fairness |
| `profile_sessions` | is there ever a second profiler thread; is a stack trace sent twice; do sessions of two applications mix, end, and get reported | two applications, two sessions, one stack trace, one harvest that raises, fairness |
| `trace_tree` | does a trace complete exactly when it should; does closing the root complete all others | five traces, four tasks |
| `transaction_lost` | the runtime check of `complete_root` (below) | six traces, four tasks, within `Shape` |
| `dimensional_lost`, `metrics_resent`, `direct_event_lost`, `cross_run` | statements of the source that the code does not keep (below) | one or two operations, both kinds of traces, two runs |

Bounds. Two runs give one restart, and with it everything a restart meets: a running
harvest, transactions of the old run, a pending shutdown. A restart answered in the
last run is not taken. One operation of each kind is enough because data of
different operations do not interact: they only stand in the same sets. Two event
types, one in each kind of harvest, are all the cases `harvest_snapshot` tells
apart; in `application_live` one is enough, since the flexible harvests are made all
the same. Events of a transaction that leave with flexible harvests, and traces, which are
handled like events that are never rolled back, are in no passing run; the theorems hold
for them. Five samples fill reservoirs of three twice over when merged. Two callers are
all that can pass the unlocked test before each other; theorems about
`HarvestLoop` and `SampledDataSet` hold for any number. In `streaming` no more than
a batch is ever queued, and batches are always on; `SpanChannel` is proved for longer
queues and without batches. A queue of two spans, of three
put, fills up, throws out the oldest and is emptied by a batch; three streams are one
that is replaced while its iterator waits, one that is replaced during a backoff, and a
last one that ends for good (`ServerEnds` lets the last one end only with the code
that is not retried, so that the bound on streams stops nothing). Two profiler
sessions are the one that a late expiry, or a thread about to end, meets
besides its own; two applications are all that ownership tells apart; a second
stack trace would only be another element of the same sets. A trace whose completion
waits for children in two tasks, one of which goes on, needs four traces and three tasks;
five and four leave one of each over. The two proofs of completion and of spans hold
for any number.

Deadlock is checked for the reservoir and for `Streaming`, where harvests go on. The
other models may stop: an agent that has shut down, a transaction that is over and a
process that has made its last harvest do nothing any more.

Fairness. In `Application`, the harvest thread and the activation threads run, and
every request is answered (the HTTP client has a timeout); both kinds of harvest
keep being called, which is `HarvestsContinue` of `HarvestLoop`, and finitely many
threads shut the agent down, so that the final calls come and the loop ends
(`ShutdownEndsLoop`); the collector does
not fail to accept a connection for ever; a transaction that has ended and a
recorder that holds a lock get on. Nothing is assumed of new operations or of when a
shutdown comes. `RecordedDataLeave` holds under the further assumption, stated in
it, that the collector stops asking for retries at some time: the code has no limit
of its own. In `HarvestLoop`, the loop runs and each periodic entry comes to be the
first, since the others are entered again at ever later times. In `Streaming`, the
response thread, the gRPC threads and a close that has begun go on, waits time out,
and an open stream takes what it is given; nothing is assumed of the application, of
the server ending a stream, or of anybody calling `close`. In `ProfileSessions`, both
threads go on, the stop time of a session comes (`Expired`, strongly fair because the
thread goes round its loop meanwhile) and the thread gets a lock that is free again
and again (`StopExpired`); the harvests that raise are bounded by `MaxFailures`,
and an application that restarts is taken to connect again. `TraceTree` has no
liveness property: nothing makes an application leave its blocks.

## What is proved

TLAPS proves for every value of the constants (any operations, event types,
allowlist and number of runs; any samples, priorities and capacities; any callers):

* `ApplicationProofs`. `TypesHold`; `HarvestOwnsSession` and `ShutdownIsFinal` from
  `SessionInv`; `NothingGuardedIsLost`, `DataInOnePlace` and `EventsReportedOnce` from
  `DataInv`; `ImplementsDelivery` from both. `SessionStable` is not inductive: that no
  activation thread runs during a harvest follows only from how threads come to be,
  so `SessionInv` adds that at most one connection is in progress, that it is that of
  a run that was not connected before, and that the engines are those of the session
  once it is installed. `DataInv` adds where a datum can be at each step of its
  operation and of a harvest: data of an operation not yet done are in no set, the
  payload is part of the snapshot, and an event type already sent is neither in
  `todo` nor in the snapshot.
  `AnswersCalls` maps each step of a harvest to the call it is part of: only the last
  step of a call, on whichever of its ways out, returns. `NothingGuardedIsLost`, which is about events and traces (the rollback may overwrite
  metrics), and `EventsReportedOnce` are theorems only: the step properties below, which
  runs check, say more.
* `ApplicationLosses`. What the findings leave true, for data that no lock guards.
  `LossInv` adds to `DataInv` what a harvest has under way: a request carries data of
  its stage that are still in the snapshot (`PayloadOfStage`), a direct event in the
  snapshot has its stage to come (`DirectToGo`), the stages to come are the last ones
  (`StagesInOrder`), and what was sent was recorded before (`SentIsDone`). Without the
  first, completing a stage could throw away what it has not sent; without the order,
  a rollback could bring back more than metrics. `LossesKnown`: nothing leaves all
  engines unacknowledged but a direct event that is added to a data set reset since it
  was looked up, or sent while it was being sent, and a metric that the rollback and the
  merge of a transaction set at the same time (`OverwrittenInRollback`). `DimensionalLosses`: a dimensional
  metric vanishes with a transaction that ends, or, when it came after the payload was
  prepared, with the reset at the end of its stage. `ReportedOnceButMetrics`: what was acknowledged stays out,
  but for metrics rolled back when the dimensional metrics of that harvest are to be
  retried. `RunIsKept`: a transaction that is over while the engine has its run's
  settings is reported to no other run. The formula that is stable from then on
  (`KeepsRun`) says that once the engine is set up for another run, nothing of the
  transaction is left in it, in a snapshot or in a request; this holds because a run
  is set up only by emptying the engine and never during a harvest, and later runs have
  later numbers (`RunsInOrder`).
* `SampledDataSetProofs`. All properties from one invariant `IInv`. `HeapWhenFull` is
  inductive only with the loop of the merge described: what is left of the other
  data set, how many samples of it were added already, and that what it has thrown
  away has no higher priority than what it still has.
* `HarvestLoopProofs`. The safety properties of the loop from one invariant, for any
  number of callers; that the final flexible harvest comes first (`FlexibleFirst`) and
  that none comes before the shutdown (`FinalsWait`) and
  the loop does not end before both were made (`EndMeansFinalsDone`); and from
  these that the loop implements `HarvestCalls` (`ImplementsHarvestCalls`). Together
  with `AnswersCalls`, what is proved of `Application` holds under the loop as it is.
* `StreamingProofs`. All safety properties of `Streaming`, for queues of any size, with
  and without batches. The queue always holds the spans put last, in order
  (`QueueIsLast`): from this follow what a put throws out (`PutEffect`) and what a batch
  is (`TakeEffect`), that what left the queue is in one place (`GoneInOnePlace`), and
  the counters. The order of sending needs that only the newest stream can be open,
  and that what it holds comes after everything sent (`HandsFollow`). That an
  ended stream takes nothing once it waits is a temporal theorem
  (`EndedTakesNothing`), from the stability of `HasTakenAll`. `ImplementsChannel` shows
  `SpanChannel` implemented: a `put` loses the oldest span exactly when the queue was full
  (`PutIsPut`), a batch is the front of what waits (`TakeIsTake`), and only what its
  own thread took leaves a hand (`SendIsSend`); nothing else moves a span.
* `ProfileSessionsProofs`. All safety properties of `ProfileSessions`. One profiler thread
  is inductive with the flag being set while a thread runs (`FlagSet`); samples go once
  because a tree is disjoint from all that was sent and they are numbered
  (`SamplesTaken`); sessions stay apart because the harvest of an application that is
  shutting down starts none any more (`HarvestFits`).
* `TraceTreeProofs`. `CompleteWhenDone` for any number of traces and tasks. The code
  only looks at exited flags and outstanding children along one path; that this
  decides for the whole tree rests on what paths look like (`PathsFit`) and
  on where another trace branches off them (`Branches`): at a child of a trace on
  the path, which is complete. `CompletedIsDone` and `DoneIsCompleted` are the two
  directions.
* `TraceTreeClosing`. `ClosedWhole` for any number of traces and tasks: when the root is
  closed, every trace is completed, unless an exit hid a block that went on. The
  blocks of a task are then a path of the tree, each the parent of the next, the last
  one current (`BlocksNested`, `BlockCurrent`), and so `to_complete` holds the
  innermost block of each task. Every trace that has not exited can be reached from one
  of these (`InReach`), and once a block was exited from below, the walk stands at the
  next block of the same task (`ChainGoesOn`): it passes all of them before it goes to
  another task. `FirstTask` says that what is current in the task of the transaction is
  the root or a trace not yet completed, so that the root is, when all are. `hidden` is a condition and not a convenience: without it
  `transaction_lost` is the counterexample.

Assumptions are those named in the modules: the kinds of operations are disjoint,
each contributes to types that its record method writes, priorities are integers
(their order is all that is used), capacities and bounds are natural numbers, a batch
is not empty, and the value that stands for no application is none of them.

Only model-checked: liveness, which is out of reach of the prover (it has no rule for
fairness and ENABLED). Every safety property that a run checks and that holds is proved.
The five statements that do not hold are, of course, not proved.

## Findings

* `dimensional_lost`: `create_workarea` copies the engine shallowly and resets the
  copy, and with it the `DimensionalMetrics` object of the engine: each transaction
  that ends throws away the dimensional metrics recorded since the last harvest.
  `DimensionalLosses` proves which other step loses one.
* `metrics_resent`: when the dimensional metrics of a harvest are to be retried, the
  metrics acknowledged just before are rolled back and sent again. Nothing else is
  (`ReportedOnceButMetrics`).
* `direct_event_lost`: an event recorded directly on the application may be added to
  a data set that the harvest has already sent, because they hold different locks. Nothing else recorded is lost but a metric
  in a rollback, which is the first point below (`LossesKnown`).
* `cross_run`: a transaction is tested against the run and merged without a second
  test under the lock; a restart in between puts it into the next run. Once it is merged in its own run
  it stays there (`RunIsKept`).

* `transaction_lost`: a trace that exits in one task makes its parent current there,
  also when another trace of that task is still open or the parent belongs to another task.
  Then the root may not be current when the transaction ends: `complete_root` logs
  an instrumentation error and raises, and the transaction is not recorded.

Seen while modelling, with no run of its own:

* `harvest` calls `rollback` without `_stats_lock` (core/application.py:1633), and
  `merge_metric_stats` looks a metric up before it sets it: when a transaction merges at
  that moment, a metric of the rollback or of the transaction is overwritten.
  `rollback` says in its log that metric data "will be preserved and rolled into next
  harvest" (core/stats_engine.py:1912-1914). `LossesAreKnown` allows this loss by name and
  is violated without the exception, so that it also shows the behaviour.
* A connection that is being made when a shutdown is requested is installed all the
  same; an exception of `send_loaded_modules` in `internal_agent_shutdown` leaves the
  old session in place.
* A trace hidden by the exit of another one (`hidden`) may stay current in its task after
  the transaction was recorded, and later traces hang on the wrong parent; where the
  current trace has exited, further ones are not recorded at all. `ClosedWhole` holds
  where nothing is hidden.
* A profiler session may have no thread: the thread clears its flag after it has
  decided to end, so that a session started in between gets none; and when a session is
  stopped between two reads of the thread, the thread dies with its flag set, and no
  later session gets one. `SessionsEnd` is about sessions whose thread lives. A late
  expiry may stop a session that the same application has just started.
* The comment in `put` expects `dropped` to be over-counted; it is exact. After `close()`
  and after UNIMPLEMENTED nobody shuts the last request iterator down, so that a gRPC
  thread that waits in it stays until the next put; `ThreadsEnd` is about streams
  that were replaced. `StreamBuffer.shutdown` has no caller.
* AGENT_SHUTDOWN, the health status set for a restart, is not among those a later
  success resets.

## What is not modelled, and the plan

Serverless mode, supportability metrics, payload formats and the text of messages
are left out. So are, in the modelled parts:

* `Application`: registration of data sources and samplers, which start and stop with a
  session, and the rules a session brings; what an unlocked rollback does to `num_seen` and the heap
  of a data set that is full or fills up meanwhile (below).
* `Streaming`: the creation of the channel and its credentials, compression, and what a
  restart does, which closes one `StreamingRpc` and makes a new buffer and a new RPC.
* `ProfileSessions`: the content of call trees and which threads are sampled;
  `TraceTree`: threads and greenlets (each has its own entry in the cache and no tasks),
  generators, the data of nodes, limits on nodes, ignored and stopped transactions.

Not modelled, with the reason of each in `PROJECT.json`: adapters, hooks, data formats,
parsing, configuration, start-up, vendored code. They are most of the lines of the
repository (some 120 hook modules, the vendored `urllib3`, the option parsing of
`config.py`), sequential code whose correctness is in data and in the packages it
wraps; a state machine of them would restate them.

What would come next:

1. Two unlocked merges into one `SampledDataSet` (rollback against a transaction), at
   the grain of the interpreter's switches.
2. `AdaptiveSampler` (one lock, a counter machine with periodic resets) and
   `HealthStatus` (a value set and tested without a lock).
3. The samplers and the thread utilization that start and stop with a session.
