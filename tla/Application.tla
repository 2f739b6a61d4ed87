----------------------------- MODULE Application -----------------------------
(***************************************************************************)
(* newrelic/core/application.py: one Application of the agent.  Request    *)
(* threads record data into its stats engines, the harvest thread takes    *)
(* snapshots of them and sends the snapshots to the data collector one     *)
(* request at a time, and an activation thread (one for each agent run)    *)
(* connects to the collector and installs the session the others test.     *)
(*                                                                         *)
(* A datum is one contribution <<op, type>> of a record operation to one   *)
(* data type.  The engines are the sets of the data they hold: how a full  *)
(* data set samples is SampledDataSet.tla, and here none is full.          *)
(***************************************************************************)
EXTENDS Naturals, FiniteSets

CONSTANTS
  Transactions,       \* operations that are Application.record_transaction
  DirectEvents,       \* ... record_custom_event, record_ml_event, record_log_event
  CustomMetrics,      \* ... record_custom_metric
  DimensionalMetrics, \* ... record_dimensional_metric
  TypesOf,            \* the data types an operation contributes to
  EventTypes,         \* the event data sets in use
  TraceTypes,         \* the kinds of traces collected (collect_errors, collect_traces)
  Allowlist,          \* event_harvest_config.allowlist of the connect reply
  MaxRuns             \* bound on the agent runs (connected sessions)

Ops == Transactions \cup DirectEvents \cup CustomMetrics \cup DimensionalMetrics

(***************************************************************************)
(* The event data sets of a StatsEngine and the method of the allowlist    *)
(* that governs each of them.                                              *)
(***************************************************************************)
EVENT_HARVEST_METHODS ==
  [transaction_events |-> "analytic_event_data",
   synthetics_events  |-> "analytic_event_data",
   span_events        |-> "span_event_data",
   custom_events      |-> "custom_event_data",
   ml_events          |-> "custom_event_data",
   error_events       |-> "error_event_data",
   log_events         |-> "log_event_data"]

\* The order in which a harvest sends.  "error_data" are error traces, "trace_data"
\* slow SQL and transaction traces; "agent_commands" stands for the requests made
\* after the reporting period is closed.
SendOrder ==
  [synthetics_events |-> 1, transaction_events |-> 2, span_events |-> 3,
   error_events |-> 4, custom_events |-> 5, ml_events |-> 6, log_events |-> 7,
   error_data |-> 8, loaded_modules |-> 9, trace_data |-> 10, metric_data |-> 11,
   dimensional_metric_data |-> 12, agent_commands |-> 13]

Stages    == DOMAIN SendOrder
DataTypes == EventTypes \cup TraceTypes \cup {"metric_data", "dimensional_metric_data"}
Data      == UNION {{o} \X TypesOf[o] : o \in Ops}

Runs  == 1 .. MaxRuns
NoRun == 0

ASSUME ConstantsAssumption ==
  /\ EventTypes \subseteq DOMAIN EVENT_HARVEST_METHODS
  /\ TraceTypes \subseteq {"error_data", "trace_data"}
  /\ MaxRuns \in Nat \ {0}
  /\ TypesOf \in [Ops -> SUBSET DataTypes]
  /\ \A e \in DirectEvents : TypesOf[e] \subseteq EventTypes
  /\ \A m \in CustomMetrics : TypesOf[m] = {"metric_data"}
  /\ \A d \in DimensionalMetrics : TypesOf[d] = {"dimensional_metric_data"}
  /\ Transactions \cap DirectEvents = {}
  /\ CustomMetrics \cap (Transactions \cup DirectEvents) = {}
  /\ DimensionalMetrics \cap (Transactions \cup DirectEvents \cup CustomMetrics) = {}

VARIABLES
  session,           \* _active_session (with _harvest_enabled): its run, or NoRun
  pendingShutdown,   \* _pending_shutdown
  agentShutdown,     \* _agent_shutdown
  shutdownRequested, \* Agent._harvest_shutdown
  engineRun,         \* the run whose settings _stats_engine holds
  engine,            \* data in _stats_engine, dimensional metrics excepted
  customEngine,      \* data in _stats_custom_engine
  dims,              \* the DimensionalMetrics object of _stats_engine
  snap,              \* data in the harvest's snapshot
  todo,              \* stages the harvest has still to go through
  payload,           \* data in the request in progress
  dimPayload,        \* dimensional data prepared for sending
  harvest,           \* where the harvest thread is
  mode,              \* the kind of the harvest in progress
  finals,            \* 1 once a final flexible harvest was started, 2 a final default one
  cause,             \* what internal_agent_shutdown was called for
  plugins,           \* the plugins generator has modules left
  connect,           \* where the activation thread of each run is
  op,                \* progress of each record operation
  txRun,             \* the run whose settings a transaction started with
  slot,              \* the object a direct event is about to be added to
  reported,          \* <<datum, run>> the collector acknowledged (history)
  dropped            \* data thrown away on purpose (history)

appVars     == <<session, pendingShutdown, agentShutdown, plugins>>
engineVars  == <<engineRun, engine, customEngine, dims>>
harvestVars == <<snap, todo, payload, dimPayload, harvest, mode, finals, cause>>
recordVars  == <<op, txRun, slot>>
historyVars == <<reported, dropped>>
vars == <<appVars, engineVars, harvestVars, recordVars, historyVars,
          shutdownRequested, connect>>

-----------------------------------------------------------------------------
OfType(S, types) == {d \in S : d[2] \in types}
DataOf(o)        == {o} \X TypesOf[o]

\* The event types a flexible harvest takes; a default one takes the others.
FlexibleTypes == {t \in EventTypes : EVENT_HARVEST_METHODS[t] \in Allowlist}

\* Variants of SnapshotTypes: the metrics leave with the events of a flexible
\* harvest; a default harvest takes no more than the other event types.
MetricsInFlexible(flexible) ==
  IF flexible THEN FlexibleTypes \cup {"metric_data"}
              ELSE (DataTypes \ FlexibleTypes) \ {"dimensional_metric_data"}
NonEventsForgotten(flexible) == IF flexible THEN FlexibleTypes ELSE EventTypes \ FlexibleTypes

\* What StatsEngine.harvest_snapshot moves out of the engine.
SnapshotTypes(flexible) ==
  IF flexible THEN FlexibleTypes
              ELSE (DataTypes \ FlexibleTypes) \ {"dimensional_metric_data"}

\* What StatsEngine.rollback merges back: no traces, no dimensional metrics.
RollbackTypes == EventTypes \cup {"metric_data"}

\* The references direct recorders hold, after the data sets named became "to".
Redirect(from, to, types) ==
  [e \in DirectEvents |->
     IF slot[e] = from /\ TypesOf[e] \cap types # {} THEN to ELSE slot[e]]

\* Somebody holds _stats_custom_lock between two steps.
CustomLockHeld == \E e \in DirectEvents : op[e] = "adding"

\* Variant of Init: an activation thread for every run, all at once.
AllConnectAtOnce ==
  /\ session = NoRun /\ engineRun = NoRun
  /\ pendingShutdown = FALSE /\ agentShutdown = FALSE /\ shutdownRequested = FALSE
  /\ engine = {} /\ customEngine = {} /\ dims = {}
  /\ snap = {} /\ todo = {} /\ payload = {} /\ dimPayload = {}
  /\ harvest = "unstarted"
  /\ mode = "none" /\ finals = 0 /\ cause = "none"
  /\ plugins = TRUE
  /\ connect = [c \in Runs |-> "start"]
  /\ op = [o \in Ops |-> "new"]
  /\ txRun = [t \in Transactions |-> NoRun]
  /\ slot = [e \in DirectEvents |-> "none"]
  /\ reported = {} /\ dropped = {}

Init ==
  /\ session = NoRun /\ engineRun = NoRun
  /\ pendingShutdown = FALSE /\ agentShutdown = FALSE /\ shutdownRequested = FALSE
  /\ engine = {} /\ customEngine = {} /\ dims = {}
  /\ snap = {} /\ todo = {} /\ payload = {} /\ dimPayload = {}
  /\ harvest \in {"unstarted", "idle"}   \* another application may have started it
  /\ mode = "none" /\ finals = 0 /\ cause = "none"
  /\ plugins = TRUE
  /\ connect = [c \in Runs |-> IF c = 1 THEN "start" ELSE "none"]
  /\ op = [o \in Ops |-> "new"]
  /\ txRun = [t \in Transactions |-> NoRun]
  /\ slot = [e \in DirectEvents |-> "none"]
  /\ reported = {} /\ dropped = {}

-----------------------------------------------------------------------------
(***************************************************************************)
(* Activation: connect_to_data_collector on the thread of run c.           *)
(***************************************************************************)
ConnectMove(c, from, to) ==
  /\ connect[c] = from
  /\ connect' = [connect EXCEPT ![c] = to]

\* The tests on entry, and those at the top of the retry loop.
ConnectCheck(c) ==
  /\ connect[c] \in {"start", "check"}
  /\ LET giveUp == agentShutdown \/ pendingShutdown \/ (connect[c] = "start" /\ session # NoRun)
     IN  ConnectMove(c, connect[c], IF giveUp THEN "ended" ELSE "create")
  /\ UNCHANGED <<appVars, engineVars, harvestVars, recordVars, historyVars, shutdownRequested>>

\* create_session: a session; a network failure or rules that do not compile,
\* to be tried again; a disconnect or another exception, which ends the thread.
ConnectCreate(c) ==
  /\ \E to \in {"reset", "check", "ended"} : ConnectMove(c, "create", to)
  /\ UNCHANGED <<appVars, engineVars, harvestVars, recordVars, historyVars, shutdownRequested>>

\* Variant of ConnectReset: the settings are replaced, the data kept.
OnlySettingsReset(c) ==
  /\ \/ ConnectMove(c, "reset", "reset_custom")
     \/ ConnectMove(c, "reset_again", "publish")
  /\ engineRun' = c
  /\ UNCHANGED <<appVars, engine, customEngine, dims, harvestVars, recordVars, historyVars,
                 shutdownRequested>>

\* _stats_engine.reset_stats under _stats_lock, before and after the reset of
\* the custom engine.
ConnectReset(c) ==
  /\ \/ ConnectMove(c, "reset", "reset_custom")
     \/ ConnectMove(c, "reset_again", "publish")
  /\ engineRun' = c
  /\ engine' = {} /\ dims' = {}
  /\ slot' = Redirect("engine", "gone", EventTypes)
  /\ dropped' = dropped \cup engine \cup dims
  /\ UNCHANGED <<appVars, customEngine, harvestVars, op, txRun, reported, shutdownRequested>>

ConnectResetCustom(c) ==
  /\ ConnectMove(c, "reset_custom", "reset_again")
  /\ ~CustomLockHeld
  /\ customEngine' = {}
  /\ dropped' = dropped \cup customEngine
  /\ UNCHANGED <<appVars, engineRun, engine, dims, harvestVars, recordVars, reported, shutdownRequested>>

ConnectPublish(c) ==
  /\ ConnectMove(c, "publish", "activate")
  /\ session' = c
  /\ UNCHANGED <<pendingShutdown, agentShutdown, plugins, engineVars, harvestVars,
                 recordVars, historyVars, shutdownRequested>>

\* activate_agent, which only the first activation was given, starts the
\* harvest thread; a thread that has ended cannot be started again.
ConnectActivate(c) ==
  /\ ConnectMove(c, "activate", "ended")
  /\ harvest' = IF c = 1 /\ harvest = "unstarted" THEN "idle" ELSE harvest
  /\ UNCHANGED <<appVars, engineVars, snap, todo, payload, dimPayload, mode, finals, cause,
                 recordVars, historyVars, shutdownRequested>>

Connect(c) ==
  \/ ConnectCheck(c) \/ ConnectCreate(c) \/ ConnectReset(c)
  \/ ConnectResetCustom(c) \/ ConnectPublish(c) \/ ConnectActivate(c)

-----------------------------------------------------------------------------
(***************************************************************************)
(* Recording, on request threads.                                          *)
(***************************************************************************)
OpMove(o, from, to) ==
  /\ op[o] = from
  /\ op' = [op EXCEPT ![o] = to]

NothingButRecording ==
  UNCHANGED <<appVars, harvestVars, reported, shutdownRequested, connect>>

\* A transaction starts with the settings of the active session.
StartTransaction(t) ==
  /\ OpMove(t, "new", "running")
  /\ session # NoRun
  /\ txRun' = [txRun EXCEPT ![t] = session]
  /\ NothingButRecording
  /\ UNCHANGED <<engineVars, slot, dropped>>

\* record_transaction: the tests of the session and of the run.
RecordTransaction(t) ==
  /\ OpMove(t, "running", IF session = NoRun \/ engineRun # txRun[t] THEN "discarded" ELSE "checked")
  /\ NothingButRecording
  /\ UNCHANGED <<engineVars, txRun, slot, dropped>>

\* The work area, made without a lock.  It shares the engine's DimensionalMetrics
\* object: reset_stats on the copy empties it and the transaction's dimensional
\* metrics go straight into it.  An exception may leave no work area to merge.
CreateWorkarea(t) ==
  LET own == OfType(DataOf(t), {"dimensional_metric_data"})
  IN  /\ \/ OpMove(t, "checked", "merging") /\ dims' = own
         \/ OpMove(t, "checked", "discarded") /\ dims' \in {dims, {}, own}
      /\ NothingButRecording
      /\ UNCHANGED <<engineRun, engine, customEngine, txRun, slot, dropped>>

\* While a snapshot is rolled back, which takes no lock, merge_metric_stats runs on
\* two threads: between its look-up of a metric and its assignment or addition the
\* other may have set the same metric, and one of the two is overwritten.
Overwritable(t) ==
  IF harvest = "rolling" THEN OfType(DataOf(t) \cup snap, {"metric_data"}) ELSE {}

\* The merge of the work area under _stats_lock.
MergeTransaction(t) ==
  /\ OpMove(t, "merging", "done")
  /\ \E lost \in SUBSET Overwritable(t) :
       /\ engine' = engine \cup
                     (OfType(DataOf(t), DataTypes \ {"dimensional_metric_data"}) \ lost)
       /\ snap' = snap \ lost
  /\ UNCHANGED <<appVars, engineRun, customEngine, dims, todo, payload, dimPayload, harvest,
                 mode, finals, cause, txRun, slot, historyVars, shutdownRequested, connect>>

\* The test of _active_session before the lock is taken.
PassSessionTest(o) ==
  /\ OpMove(o, "new", "checked")
  /\ session # NoRun
  /\ NothingButRecording
  /\ UNCHANGED <<engineVars, txRun, slot, dropped>>

\* record_custom_event, record_ml_event and record_log_event take
\* _stats_custom_lock and add to a data set of _stats_engine, which the harvest
\* replaces under _stats_lock: the data set is looked up, then added to.
LookUpDataSet(e) ==
  /\ ~CustomLockHeld
  /\ OpMove(e, "checked", "adding")
  /\ slot' = [slot EXCEPT ![e] = "engine"]
  /\ NothingButRecording
  /\ UNCHANGED <<engineVars, txRun, dropped>>

AddToDataSet(e) ==
  /\ OpMove(e, "adding", "done")
  /\ slot' = [slot EXCEPT ![e] = "none"]
  /\ engine' = IF slot[e] = "engine" THEN engine \cup DataOf(e) ELSE engine
  /\ snap' = IF slot[e] = "snapshot" THEN snap \cup DataOf(e) ELSE snap
  /\ UNCHANGED <<appVars, engineRun, customEngine, dims, todo, payload, dimPayload, harvest,
                 mode, finals, cause, txRun, historyVars, shutdownRequested, connect>>

RecordCustomMetric(m) ==
  /\ ~CustomLockHeld
  /\ OpMove(m, "checked", "done")
  /\ customEngine' = customEngine \cup DataOf(m)
  /\ NothingButRecording
  /\ UNCHANGED <<engineRun, engine, dims, txRun, slot, dropped>>

RecordDimensionalMetric(d) ==
  /\ OpMove(d, "checked", "done")
  /\ dims' = dims \cup DataOf(d)
  /\ NothingButRecording
  /\ UNCHANGED <<engineRun, engine, customEngine, txRun, slot, dropped>>

Record ==
  \/ \E t \in Transactions : \/ StartTransaction(t) \/ RecordTransaction(t)
                            \/ CreateWorkarea(t) \/ MergeTransaction(t)
  \/ \E o \in Ops \ Transactions : PassSessionTest(o)
  \/ \E e \in DirectEvents : LookUpDataSet(e) \/ AddToDataSet(e)
  \/ \E m \in CustomMetrics : RecordCustomMetric(m)
  \/ \E d \in DimensionalMetrics : RecordDimensionalMetric(d)

-----------------------------------------------------------------------------
(***************************************************************************)
(* The harvest thread: Application.harvest as the agent's loop calls it,   *)
(* periodically and, once the shutdown is requested, for one last flexible *)
(* and one last default harvest.                                           *)
(***************************************************************************)
Flexible == mode = "flexible"

\* The calls of harvest as HarvestCalls has them, of which HarvestLoop makes no
\* others.  A harvest thread that is not started is idle.
H == INSTANCE HarvestCalls WITH
  requested <- shutdownRequested,
  loop      <- IF harvest = "stopped" THEN "ended"
               ELSE IF harvest \in {"unstarted", "idle"} THEN "idle" ELSE mode

\* Variants of Calls: the final harvests are counted on; the periodic ones go on
\* during the shutdown.
FinalsRepeated ==
  IF ~shutdownRequested THEN {<<"flexible", finals>>, <<"default", finals>>}
  ELSE IF finals = 0 THEN {<<"flexible", 1>>}
  ELSE {<<"final", finals + 1>>}
PeriodicGoOn == {<<"flexible", finals>>, <<"default", finals>>}

\* The next call of harvest: the kind of it and the final harvests then begun.
Calls == H!Calls

StagesOf(kind) ==
  EventTypes \cup (TraceTypes \cap {"error_data"}) \cup {"loaded_modules"} \cup
  IF kind = "flexible" THEN {}
  ELSE (TraceTypes \cap {"trace_data"}) \cup
       {"metric_data", "dimensional_metric_data", "agent_commands"}

\* The early returns of harvest.
HarvestNothing ==
  /\ harvest = "idle"
  /\ agentShutdown \/ session = NoRun
  /\ \E call \in Calls :
       /\ finals' = call[2]
       /\ pendingShutdown' = (pendingShutdown \/ (call[1] = "final" /\ ~agentShutdown))
  /\ UNCHANGED <<session, agentShutdown, plugins, engineVars, snap, todo, payload, dimPayload,
                 harvest, mode, cause, recordVars, historyVars, shutdownRequested, connect>>

\* The snapshot of _stats_engine under _stats_lock.
HarvestSnapshot ==
  /\ harvest = "idle"
  /\ ~agentShutdown /\ session # NoRun
  /\ \E call \in Calls :
       LET taken == SnapshotTypes(call[1] = "flexible")
       IN  /\ mode' = call[1] /\ finals' = call[2]
           /\ pendingShutdown' = (pendingShutdown \/ call[1] = "final")
           /\ snap' = OfType(engine, taken)
           /\ engine' = engine \ OfType(engine, taken)
           /\ slot' = Redirect("engine", "snapshot", taken)
           /\ todo' = StagesOf(call[1])
           /\ harvest' = IF call[1] = "flexible" THEN "sending" ELSE "custom_snapshot"
  /\ UNCHANGED <<session, agentShutdown, plugins, engineRun, customEngine, dims, payload,
                 dimPayload, cause, op, txRun, historyVars, shutdownRequested, connect>>

\* Variant of CustomSnapshot: the custom engine keeps what was copied.
CustomCopied ==
  /\ harvest = "custom_snapshot"
  /\ ~CustomLockHeld
  /\ snap' = snap \cup customEngine
  /\ harvest' = "sending"
  /\ UNCHANGED <<appVars, engineVars, todo, payload, dimPayload, mode, finals,
                 cause, recordVars, historyVars, shutdownRequested, connect>>

\* The snapshot of _stats_custom_engine, merged into the other.
CustomSnapshot ==
  /\ harvest = "custom_snapshot"
  /\ ~CustomLockHeld
  /\ snap' = snap \cup customEngine
  /\ customEngine' = {}
  /\ harvest' = "sending"
  /\ UNCHANGED <<appVars, engineRun, engine, dims, todo, payload, dimPayload, mode, finals,
                 cause, recordVars, historyVars, shutdownRequested, connect>>

-----------------------------------------------------------------------------
Current(s) == s \in todo /\ \A r \in todo : SendOrder[s] <= SendOrder[r]

\* Stage s makes a request: metric data and agent commands always do.
HasRequest(s) ==
  \/ s \in {"metric_data", "agent_commands"}
  \/ s = "loaded_modules" /\ plugins
  \/ s = "dimensional_metric_data" /\ dimPayload # {}
  \/ OfType(snap, {s}) # {}

\* Variant of SendRequest: the data set is emptied before the answer is there.
ResetBeforeAnswer(s) ==
  /\ harvest = "sending" /\ Current(s) /\ HasRequest(s)
  /\ harvest' = "waiting"
  /\ payload' = IF s = "dimensional_metric_data" THEN dimPayload ELSE OfType(snap, {s})
  /\ snap' = snap \ OfType(snap, {s} \cap EventTypes)
  /\ dimPayload' = IF s = "metric_data" THEN dims ELSE dimPayload
  /\ plugins' \in IF s = "loaded_modules" THEN BOOLEAN ELSE {plugins}
  /\ UNCHANGED <<session, pendingShutdown, agentShutdown, engineVars, todo, mode, finals,
                 cause, recordVars, historyVars, shutdownRequested, connect>>

\* Build the payload of stage s and send it.  Some modules may be left to the
\* next harvest; dimensional data are prepared along with the metric data.
SendRequest(s) ==
  /\ harvest = "sending" /\ Current(s) /\ HasRequest(s)
  /\ harvest' = "waiting"
  /\ payload' = IF s = "dimensional_metric_data" THEN dimPayload ELSE OfType(snap, {s})
  /\ dimPayload' = IF s = "metric_data" THEN dims ELSE dimPayload
  /\ plugins' \in IF s = "loaded_modules" THEN BOOLEAN ELSE {plugins}
  /\ UNCHANGED <<session, pendingShutdown, agentShutdown, engineVars, snap, todo, mode, finals,
                 cause, recordVars, historyVars, shutdownRequested, connect>>

\* Variant of CompleteStage: the reset of the event data set is left out.
NoResetOnceSent(s) ==
  /\ todo' = todo \ {s}
  /\ harvest' = "sending"
  /\ payload' = {}
  /\ dims' = IF s = "dimensional_metric_data" THEN {} ELSE dims
  /\ UNCHANGED <<appVars, engineRun, engine, customEngine, snap, dimPayload, mode, finals,
                 cause, recordVars, dropped, shutdownRequested, connect>>

\* Variant of CompleteStage: the dimensional metrics are reset with the metrics.
DimsResetEarly(s) ==
  /\ todo' = todo \ {s}
  /\ harvest' = "sending"
  /\ payload' = {}
  /\ snap' = snap \ OfType(snap, {s} \cap (EventTypes \cup {"metric_data"}))
  /\ dims' = IF s = "metric_data" THEN {} ELSE dims
  /\ slot' = Redirect("snapshot", "gone", {s})
  /\ UNCHANGED <<appVars, engineRun, engine, customEngine, dimPayload, mode, finals, cause,
                 op, txRun, dropped, shutdownRequested, connect>>

\* Stage s is over: event data sets are reset when sent, the metrics after the
\* dimensional ones, which are reset with them.
CompleteStage(s) ==
  /\ todo' = todo \ {s}
  /\ harvest' = "sending"
  /\ payload' = {}
  /\ snap' = snap \ OfType(snap, IF s = "dimensional_metric_data" THEN {"metric_data"}
                                 ELSE {s} \cap EventTypes)
  /\ dims' = IF s = "dimensional_metric_data" THEN {} ELSE dims
  /\ slot' = Redirect("snapshot", "gone", {s})
  /\ UNCHANGED <<appVars, engineRun, engine, customEngine, dimPayload, mode, finals, cause,
                 op, txRun, dropped, shutdownRequested, connect>>

SkipStage(s) ==
  /\ harvest = "sending" /\ Current(s) /\ ~HasRequest(s)
  /\ CompleteStage(s)
  /\ UNCHANGED reported

AnswerOk(s) ==
  /\ harvest = "waiting" /\ Current(s)
  /\ reported' = reported \cup (payload \X {session})
  /\ CompleteStage(s)

\* The data of the harvest go out of scope; its kind does when it returns.
LeaveHarvest ==
  /\ snap' = {} /\ todo' = {} /\ payload' = {} /\ dimPayload' = {}
  /\ mode' = IF harvest' = "idle" THEN "none" ELSE mode
  /\ slot' = Redirect("snapshot", "gone", EventTypes)

\* _period_start # period_end: the reporting period is not yet closed.
PeriodOpen == Flexible \/ "dimensional_metric_data" \in todo

\* RetryDataForRequest before the period is closed: the snapshot is to be rolled back.
AnswerRetry ==
  /\ harvest = "waiting" /\ PeriodOpen
  /\ harvest' = "rolling" /\ payload' = {}
  /\ UNCHANGED <<appVars, engineVars, snap, todo, dimPayload, mode, finals, cause, recordVars,
                 historyVars, shutdownRequested, connect>>

\* The rollback is done, all the while without _stats_lock.  harvest takes the lock
\* before it returns, so a merge the rollback ran into is over as well.
Rollback ==
  /\ harvest = "rolling"
  /\ LET kept == OfType(snap, RollbackTypes)
     IN  /\ engine' = engine \cup kept
         /\ dropped' = dropped \cup (snap \ kept)
  /\ harvest' = "idle" /\ LeaveHarvest
  /\ UNCHANGED <<appVars, engineRun, customEngine, dims, finals, cause, op, txRun, reported,
                 shutdownRequested, connect>>

\* DiscardDataForRequest, any other exception, and RetryDataForRequest once the
\* period is closed.
AnswerDiscard ==
  /\ harvest = "waiting"
  /\ dropped' = dropped \cup snap
  /\ harvest' = "idle" /\ LeaveHarvest
  /\ UNCHANGED <<appVars, engineVars, finals, cause, op, txRun, reported,
                 shutdownRequested, connect>>

\* ForceAgentRestart and ForceAgentDisconnect.
AnswerShutdown(c) ==
  /\ harvest = "waiting"
  /\ c = "restart" => session < MaxRuns
  /\ cause' = c
  /\ dropped' = dropped \cup snap
  /\ harvest' = "shutdown" /\ LeaveHarvest
  /\ UNCHANGED <<appVars, engineVars, finals, op, txRun, reported, shutdownRequested, connect>>

\* All was sent; the last harvest of the process goes on to shut the session down.
FinishHarvest ==
  /\ harvest = "sending" /\ todo = {}
  /\ harvest' = IF mode = "final" THEN "shutdown" ELSE "idle"
  /\ cause' = IF mode = "final" THEN "final" ELSE cause
  /\ LeaveHarvest
  /\ UNCHANGED <<appVars, engineVars, finals, op, txRun, historyVars, shutdownRequested, connect>>

\* Variant of ShutdownFails: the exception ends the loop that called harvest.
ShutdownKillsLoop(answer) ==
  /\ harvest = "shutdown" /\ plugins
  /\ plugins' = FALSE
  /\ answer = "restart" => session < MaxRuns
  /\ cause' = "none" /\ harvest' = "stopped" /\ mode' = "none"
  /\ UNCHANGED <<session, pendingShutdown, agentShutdown, engineVars, snap, todo, payload,
                 dimPayload, finals, recordVars, historyVars, shutdownRequested, connect>>

\* internal_agent_shutdown up to send_loaded_modules, which is not guarded: its
\* exception reaches the handlers of harvest if the harvest was the last one
\* (restart and disconnect shut down again), else the loop that called harvest.
ShutdownFails(answer) ==
  /\ harvest = "shutdown" /\ plugins
  /\ plugins' = FALSE
  /\ answer = "restart" => session < MaxRuns
  /\ IF cause = "final" /\ answer \in {"restart", "disconnect"}
       THEN cause' = answer /\ UNCHANGED harvest
       ELSE cause' = "none" /\ harvest' = "idle"
  /\ mode' = IF harvest' = "idle" THEN "none" ELSE mode
  /\ UNCHANGED <<session, pendingShutdown, agentShutdown, engineVars, snap, todo, payload,
                 dimPayload, finals, recordVars, historyVars, shutdownRequested, connect>>

\* Variants of RestartAllowed: a forced disconnect connects again as well; the old
\* session is still in place when the new one is asked for.
AnyShutdownReconnects == cause # "final" /\ ~agentShutdown /\ ~pendingShutdown
SessionStillThere     == cause = "restart" /\ ~agentShutdown /\ ~pendingShutdown /\ session = NoRun

\* What a restart finds in activate_session: it connects again, unless another
\* shutdown came first.
RestartAllowed == cause = "restart" /\ ~agentShutdown /\ ~pendingShutdown

\* The rest of internal_agent_shutdown, with activate_session for a restart.
ShutdownSession ==
  /\ harvest = "shutdown"
  /\ session' = NoRun
  /\ cause' = "none" /\ harvest' = "idle" /\ mode' = "none"
  /\ plugins' = (cause = "restart")
  /\ agentShutdown' = (agentShutdown \/ cause # "restart")
  /\ connect' = IF RestartAllowed THEN [connect EXCEPT ![session + 1] = "start"] ELSE connect
  /\ UNCHANGED <<pendingShutdown, engineVars, snap, todo, payload, dimPayload, finals,
                 recordVars, historyVars, shutdownRequested>>

\* The scheduler has run out of entries.
HarvestThreadEnds ==
  /\ harvest = "idle"
  /\ shutdownRequested /\ finals = 2
  /\ harvest' = "stopped"
  /\ UNCHANGED <<appVars, engineVars, snap, todo, payload, dimPayload, mode, finals, cause,
                 recordVars, historyVars, shutdownRequested, connect>>

HarvestStep ==
  \/ HarvestNothing \/ HarvestSnapshot \/ CustomSnapshot
  \/ \E s \in Stages : SendRequest(s) \/ SkipStage(s) \/ AnswerOk(s)
  \/ AnswerRetry \/ Rollback \/ AnswerDiscard
  \/ \E c \in {"restart", "disconnect"} : AnswerShutdown(c)
  \/ FinishHarvest
  \/ \E a \in {"restart", "disconnect", "other"} : ShutdownFails(a)
  \/ ShutdownSession \/ HarvestThreadEnds

\* Agent.shutdown_agent, at exit or by a call.
RequestShutdown ==
  /\ ~shutdownRequested
  /\ shutdownRequested' = TRUE
  /\ UNCHANGED <<appVars, engineVars, harvestVars, recordVars, historyVars, connect>>

Next == (\E c \in Runs : Connect(c)) \/ Record \/ HarvestStep \/ RequestShutdown

Spec == Init /\ [][Next]_vars

\* The agent's threads run; every request is answered, by a timeout if need be;
\* the scheduler keeps calling both kinds of harvest; finitely many threads request
\* final ones; and the collector does not fail to accept a connection for ever.
Fairness ==
  /\ WF_vars(HarvestStep)
  /\ SF_vars(HarvestSnapshot /\ mode' = "flexible")
  /\ SF_vars(HarvestSnapshot /\ mode' = "default")
  /\ SF_vars(HarvestThreadEnds \/ ((HarvestNothing \/ HarvestSnapshot) /\ finals' # finals))
  /\ \A c \in Runs : WF_vars(Connect(c)) /\ SF_vars(ConnectCreate(c) /\ connect'[c] # "check")
  /\ \A t \in Transactions : WF_vars(RecordTransaction(t) \/ CreateWorkarea(t) \/ MergeTransaction(t))
  /\ \A e \in DirectEvents : WF_vars(AddToDataSet(e))

FairSpec == Spec /\ Fairness

-----------------------------------------------------------------------------
(***************************************************************************)
(* Properties.                                                             *)
(***************************************************************************)
ConnectStates == {"none", "start", "check", "create", "reset", "reset_custom",
                  "reset_again", "publish", "activate", "ended"}
Connecting    == ConnectStates \ {"none", "activate", "ended"}

\* Every variable has its type.
TypeOK ==
  /\ session \in Runs \cup {NoRun} /\ engineRun \in Runs \cup {NoRun}
  /\ pendingShutdown \in BOOLEAN /\ agentShutdown \in BOOLEAN
  /\ shutdownRequested \in BOOLEAN /\ plugins \in BOOLEAN
  /\ engine \subseteq Data /\ customEngine \subseteq Data /\ dims \subseteq Data
  /\ snap \subseteq Data /\ payload \subseteq Data /\ dimPayload \subseteq Data
  /\ todo \subseteq Stages
  /\ harvest \in {"unstarted", "idle", "custom_snapshot", "sending", "waiting",
                  "rolling", "shutdown", "stopped"}
  /\ mode \in {"none", "flexible", "default", "final"}
  /\ finals \in 0 .. 2
  /\ cause \in {"none", "restart", "disconnect", "final"}
  /\ connect \in [Runs -> ConnectStates]
  /\ op \in [Ops -> {"new", "checked", "running", "adding", "merging", "done", "discarded"}]
  /\ txRun \in [Transactions -> Runs \cup {NoRun}]
  /\ slot \in [DirectEvents -> {"none", "engine", "snapshot", "gone"}]
  /\ reported \subseteq Data \X Runs
  /\ dropped \subseteq Data

Held     == engine \cup customEngine \cup snap
Recorded == {d \in Data : op[d[1]] = "done"}
Reported == {r[1] : r \in reported}
Kept     == Held \cup Reported \cup dropped

\* Data that enter the engines under the lock that guards these.
Guarded == {d \in Data : /\ d[1] \in Transactions \cup CustomMetrics
                         /\ d[2] # "dimensional_metric_data"}

\* "Data types only appear in one place" (harvest_snapshot): a datum is never in
\* the snapshot and in an engine at once, so a rollback cannot count it twice.
OnePlace ==
  /\ engine \cap snap = {}
  /\ customEngine \cap (engine \cup snap) = {}

\* The event data recorded under the engines' locks are delivered as Delivery
\* promises: taken in once, then acknowledged or thrown away once.
GuardedEvents == {d \in Guarded : d[2] \in EventTypes}

D == INSTANCE Delivery WITH
  Data     <- GuardedEvents,
  pending  <- Held \cap GuardedEvents,
  reported <- Reported \cap GuardedEvents,
  dropped  <- dropped \cap GuardedEvents

DeliveryImplemented == D!Spec

\* The harvests of the application are calls HarvestCalls allows: one at a time,
\* whatever becomes of each, none periodic after the shutdown, and no end of the
\* thread before a final harvest of each kind was called.
CallsAnswered == H!Spec

\* A harvest keeps the session it started with until it ends: no activation
\* thread replaces it or resets the engines meanwhile.
SessionStable ==
  harvest \in {"custom_snapshot", "sending", "waiting", "rolling", "shutdown"} =>
    /\ session # NoRun /\ engineRun = session
    /\ \A c \in Runs : connect[c] \notin Connecting

\* After a final shutdown or a forced disconnect there is no session and no
\* activation thread that could still install one.
AgentShutdownIsFinal ==
  agentShutdown => session = NoRun /\ \A c \in Runs : connect[c] \notin Connecting

\* Once the shutdown is requested, a harvest thread that was started makes its
\* final harvests and ends, whatever the collector answers.
ShutdownEndsHarvests ==
  (shutdownRequested /\ harvest # "unstarted") ~> (harvest = "stopped")

\* Recorded data do not stay in the agent for ever: however often they are rolled
\* back, they leave it once the collector has stopped asking for retries, unless
\* the session or the harvests end first.
RecordedDataLeave ==
  <>[][~AnswerRetry]_vars =>
  \A d \in Guarded : (d \in Held) ~> (d \notin Held \/ session = NoRun \/ harvest = "stopped")

\* When a restart has shut its session down the application connects again: it gets
\* a new session, unless the process is shutting down or the collector turns it away.
RestartReconnects ==
  (session = NoRun /\ engineRun # NoRun /\ ~agentShutdown) ~>
    (session # NoRun \/ pendingShutdown \/ \E c \in Runs : c > engineRun /\ connect[c] = "ended")

-----------------------------------------------------------------------------
(***************************************************************************)
(* How far the statements below, which the code does not keep, are missed. *)
(***************************************************************************)

\* A data set may vanish with d: d was recorded directly into the data set of the
\* request that is just acknowledged, after the payload was built.
AddedInFlight(d) ==
  d[1] \in DirectEvents /\ harvest = "waiting" /\ Current(d[2]) /\ d \notin payload

\* A metric may vanish: it is rolled back, or merged by a transaction, while a
\* transaction merges and the snapshot is rolled back without the lock.
OverwrittenInRollback(d) ==
  /\ d[2] = "metric_data" /\ harvest = "rolling"
  /\ \E t \in Transactions : /\ op[t] = "merging" /\ op'[t] = "done"
                              /\ (d \in snap \/ d[1] = t)

\* Nothing recorded vanishes, whatever the collector answers and whoever restarts
\* or shuts down, but two kinds of data: a directly recorded event whose data set
\* was sent or reset between the look-up and the addition, or is being sent, and a
\* metric that a rollback and the merge of a transaction both set.
LossesAreKnown ==
  [][\A d \in Data :
       /\ d \in Kept => d \in Kept' \/ AddedInFlight(d) \/ OverwrittenInRollback(d)
       /\ d \in Recorded' \ Recorded /\ d[2] # "dimensional_metric_data" =>
            \/ d \in Kept'
            \/ OverwrittenInRollback(d)
            \/ d[1] \in DirectEvents /\ slot[d[1]] = "gone"]_vars

\* Dimensional metrics vanish only when a transaction makes its work area, or with
\* the reset at the end of their stage when they came after the payload was prepared.
DimensionalLossesKnown ==
  [][\A d \in dims :
       \/ d \in dims' \cup Reported' \cup dropped'
       \/ \E t \in Transactions : op[t] = "checked" /\ op'[t] # "checked"
       \/ Current("dimensional_metric_data") /\ d \notin dimPayload]_vars

\* What a request to come can still take.
Unsent == engine \cup customEngine \cup OfType(snap, todo)

\* What the collector has acknowledged comes back only by one way, for metrics
\* alone: the rollback of a harvest whose dimensional metrics are to be retried.
ReportedStaysOut ==
  [][\A d \in Reported' \cap Unsent' :
       \/ d \in Reported \cap Unsent
       \/ d[2] = "metric_data" /\ Rollback /\ Current("dimensional_metric_data")]_vars

\* A transaction that is over when the engine still holds the settings of its run
\* is reported to that run alone: only a restart between the test of the run and
\* the merge brings one to another run.
TransactionsKeepTheirRun ==
  \A t \in Transactions :
    []((op[t] = "done" /\ engineRun = txRun[t]) =>
         [](\A r \in reported : r[1][1] = t => r[2] = txRun[t]))

-----------------------------------------------------------------------------
(***************************************************************************)
(* Statements of the source that the code does not keep.                   *)
(***************************************************************************)

\* "Data types only appear in one place, so during a snapshot it must be
\* represented in either the snapshot or in the current stats object": an event
\* recorded directly is not lost between them.
DirectEventsConserved == \A d \in Recorded : d[1] \in DirectEvents => d \in Kept

\* "Creates and returns a new empty stats engine object ... before then merging
\* it back": the work area of a transaction leaves the engine's data alone.
DimensionalMetricsConserved ==
  \A d \in Recorded : d[1] \in DimensionalMetrics => d \in dims \cup Reported \cup dropped

\* "If the problem occurred when reporting other information then that and any
\* other non reported information is thrown away": metric data the collector has
\* acknowledged are not merged back into the engine.
MetricsReportedOnce ==
  \A d \in Reported : d[2] = "metric_data" => d \notin engine \cup customEngine

\* "Validate that the transaction was started against the same agent run ID as
\* we are now recording data for."
TransactionsReportedToTheirRun ==
  \A r \in reported : r[1][1] \in Transactions => txRun[r[1][1]] = r[2]
=============================================================================
