-------------------------- MODULE ApplicationProofs --------------------------
(***************************************************************************)
(* The safety properties of Application, proved for all operations, event  *)
(* types, allowlists and numbers of agent runs.                            *)
(***************************************************************************)
EXTENDS Application, TLAPS

-----------------------------------------------------------------------------
(***************************************************************************)
(* Facts about the constants and the operators.                            *)
(***************************************************************************)
LEMMA StagesEnumerated ==
  /\ Stages = {"synthetics_events", "transaction_events", "span_events", "error_events",
               "custom_events", "ml_events", "log_events", "error_data", "loaded_modules",
               "trace_data", "metric_data", "dimensional_metric_data", "agent_commands"}
  /\ EventTypes \subseteq {"synthetics_events", "transaction_events", "span_events",
                           "error_events", "custom_events", "ml_events", "log_events"}
  /\ TraceTypes \subseteq {"error_data", "trace_data"}
BY ConstantsAssumption DEF Stages, SendOrder, EVENT_HARVEST_METHODS

\* Agent runs are the positive numbers up to the bound: 1 is one, NoRun is none.
LEMMA RunsType == Runs \subseteq Nat \ {0} /\ 1 \in Runs /\ NoRun \notin Runs
BY ConstantsAssumption DEF Runs, NoRun

\* The data of an operation are data, and have the types of that operation.
LEMMA DataOfType == \A o \in Ops : DataOf(o) \subseteq Data /\ TypesOf[o] \subseteq DataTypes
BY ConstantsAssumption DEF DataOf, Data

\* Either kind of harvest is made of the named stages.
LEMMA StagesOfType == \A kind : StagesOf(kind) \subseteq Stages
BY StagesEnumerated DEF StagesOf

\* The stage a harvest is at is the first of those it still has to do.
LEMMA CurrentIsFirst ==
  ASSUME NEW s, Current(s), NEW r, Current(r), todo \subseteq Stages
  PROVE  s = r
<1>1. s \in Stages /\ r \in Stages /\ SendOrder[s] <= SendOrder[r] /\ SendOrder[r] <= SendOrder[s]
  BY DEF Current
<1>2. \A x, y \in Stages : SendOrder[x] <= SendOrder[y] /\ SendOrder[y] <= SendOrder[x] => x = y
  BY StagesEnumerated DEF SendOrder
<1> QED BY <1>1, <1>2

-----------------------------------------------------------------------------
(***************************************************************************)
(* Types and sessions.  SessionInv says why a harvest owns its session:    *)
(* the activation threads come one after the other, the one that connects  *)
(* is the latest and runs only while there is no session.                  *)
(***************************************************************************)
Busy == {"custom_snapshot", "sending", "waiting", "rolling", "shutdown"}

SessionInv ==
  /\ \A c, e \in Runs : connect[c] \in Connecting /\ connect[e] # "none" => e <= c
  /\ \A c \in Runs : connect[c] \in Connecting => session = NoRun /\ ~agentShutdown
  /\ \A c \in Runs : connect[c] = "publish" => engineRun = c
  /\ session # NoRun => /\ engineRun = session /\ ~agentShutdown
                        /\ \A e \in Runs : connect[e] # "none" => e <= session
  /\ harvest \in Busy => session # NoRun

\* The agent starts with every variable in its type and no session.
LEMMA TypeInitially == Init => TypeOK /\ SessionInv
<1> SUFFICES ASSUME Init PROVE TypeOK /\ SessionInv
  OBVIOUS
<1>1. TypeOK
  <2>1. connect \in [Runs -> ConnectStates]
    BY DEF Init, ConnectStates
  <2>2. /\ op \in [Ops -> {"new", "checked", "running", "adding", "merging", "done", "discarded"}]
        /\ txRun \in [Transactions -> Runs \cup {NoRun}]
        /\ slot \in [DirectEvents -> {"none", "engine", "snapshot", "gone"}]
    BY DEF Init
  <2>3. /\ session \in Runs \cup {NoRun} /\ engineRun \in Runs \cup {NoRun}
        /\ pendingShutdown \in BOOLEAN /\ agentShutdown \in BOOLEAN
        /\ shutdownRequested \in BOOLEAN /\ plugins \in BOOLEAN
    BY DEF Init
  <2>4. /\ harvest \in {"unstarted", "idle", "custom_snapshot", "sending", "waiting",
                       "rolling", "shutdown", "stopped"}
        /\ mode = "none" /\ cause = "none" /\ finals \in 0 .. 2
    BY DEF Init
  <2>5. /\ engine = {} /\ customEngine = {} /\ dims = {} /\ snap = {} /\ todo = {}
        /\ payload = {} /\ dimPayload = {} /\ reported = {} /\ dropped = {}
    BY DEF Init
  <2> QED BY <2>1, <2>2, <2>3, <2>4, <2>5 DEF TypeOK
<1>2. SessionInv
  BY RunsType DEF Init, SessionInv, Connecting, ConnectStates, Busy
<1> QED BY <1>1, <1>2

\* The steps of connect_to_data_collector keep the types and the session facts.
LEMMA ConnectKeepsTypes ==
  ASSUME TypeOK, SessionInv, NEW c \in Runs, Connect(c)
  PROVE  TypeOK' /\ SessionInv'
<1> USE RunsType DEF ConnectMove, ConnectStates, Connecting, Busy, SessionInv,
                     appVars, engineVars, harvestVars, recordVars, historyVars
<1>1. CASE ConnectCheck(c)
  <2>1. TypeOK'
    BY <1>1 DEF ConnectCheck, TypeOK
  <2>2. SessionInv'
    BY <1>1 DEF ConnectCheck, TypeOK
  <2> QED BY <2>1, <2>2
<1>2. CASE ConnectCreate(c)
  <2>1. TypeOK'
    BY <1>2 DEF ConnectCreate, TypeOK
  <2>2. SessionInv'
    BY <1>2 DEF ConnectCreate, TypeOK
  <2> QED BY <2>1, <2>2
<1>3. CASE ConnectReset(c)
  <2>1. TypeOK'
    BY <1>3 DEF ConnectReset, TypeOK, Redirect
  <2>2. SessionInv'
    BY <1>3 DEF ConnectReset, TypeOK
  <2> QED BY <2>1, <2>2
<1>4. CASE ConnectResetCustom(c)
  <2>1. TypeOK'
    BY <1>4 DEF ConnectResetCustom, TypeOK
  <2>2. SessionInv'
    BY <1>4 DEF ConnectResetCustom, TypeOK
  <2> QED BY <2>1, <2>2
<1>5. CASE ConnectPublish(c)
  <2>1. TypeOK'
    BY <1>5 DEF ConnectPublish, TypeOK
  <2>2. SessionInv'
    BY <1>5 DEF ConnectPublish, TypeOK
  <2> QED BY <2>1, <2>2
<1>6. CASE ConnectActivate(c)
  <2>1. TypeOK'
    BY <1>6 DEF ConnectActivate, TypeOK
  <2>2. SessionInv'
    BY <1>6 DEF ConnectActivate, TypeOK
  <2> QED BY <2>1, <2>2
<1> QED BY <1>1, <1>2, <1>3, <1>4, <1>5, <1>6 DEF Connect

\* Recording does not touch what SessionInv is about.
LEMMA RecordKeepsTypes ==
  ASSUME TypeOK, SessionInv, Record
  PROVE  TypeOK' /\ SessionInv'
<1> USE RunsType, DataOfType DEF OpMove, NothingButRecording, Ops, OfType,
        appVars, engineVars, harvestVars, recordVars, historyVars
<1>1. ASSUME NEW t \in Transactions, StartTransaction(t) PROVE TypeOK' /\ SessionInv'
  BY <1>1 DEF StartTransaction, TypeOK, SessionInv
<1>2. ASSUME NEW t \in Transactions, RecordTransaction(t) PROVE TypeOK' /\ SessionInv'
  BY <1>2 DEF RecordTransaction, TypeOK, SessionInv
<1>w. ASSUME NEW t \in Transactions, CreateWorkarea(t) PROVE TypeOK' /\ SessionInv'
  BY <1>w DEF CreateWorkarea, TypeOK, SessionInv
<1>3. ASSUME NEW t \in Transactions, MergeTransaction(t) PROVE TypeOK' /\ SessionInv'
  <2>1. engine' \subseteq Data /\ snap' \subseteq Data
    BY <1>3 DEF MergeTransaction, TypeOK
  <2> QED BY <1>3, <2>1 DEF MergeTransaction, TypeOK, SessionInv
<1>4. ASSUME NEW o \in Ops \ Transactions, PassSessionTest(o) PROVE TypeOK' /\ SessionInv'
  BY <1>4 DEF PassSessionTest, TypeOK, SessionInv
<1>5. ASSUME NEW e \in DirectEvents, LookUpDataSet(e) PROVE TypeOK' /\ SessionInv'
  BY <1>5 DEF LookUpDataSet, TypeOK, SessionInv
<1>6. ASSUME NEW e \in DirectEvents, AddToDataSet(e) PROVE TypeOK' /\ SessionInv'
  BY <1>6 DEF AddToDataSet, TypeOK, SessionInv
<1>7. ASSUME NEW m \in CustomMetrics, RecordCustomMetric(m) PROVE TypeOK' /\ SessionInv'
  BY <1>7 DEF RecordCustomMetric, TypeOK, SessionInv
<1>8. ASSUME NEW d \in DimensionalMetrics, RecordDimensionalMetric(d) PROVE TypeOK' /\ SessionInv'
  BY <1>8 DEF RecordDimensionalMetric, TypeOK, SessionInv
<1> QED BY <1>1, <1>2, <1>w, <1>3, <1>4, <1>5, <1>6, <1>7, <1>8 DEF Record

\* A call of harvest has a kind and counts the final ones.
LEMMA CallsType ==
  ASSUME TypeOK, NEW call \in Calls
  PROVE  /\ call[1] \in {"flexible", "default", "final"} /\ call[2] \in 0 .. 2
BY DEF Calls, H!Calls, TypeOK

\* Completing a stage leaves the harvest's variables in their types.
LEMMA CompleteStageKeepsTypes ==
  ASSUME TypeOK, SessionInv, NEW s \in Stages, CompleteStage(s), harvest \in Busy,
         reported' \subseteq Data \X Runs
  PROVE  TypeOK' /\ SessionInv'
<1> USE DEF OfType, appVars, engineVars, harvestVars, recordVars, historyVars
<1>1. slot' \in [DirectEvents -> {"none", "engine", "snapshot", "gone"}]
  BY DEF CompleteStage, Redirect, TypeOK
<1>2. /\ todo' \subseteq Stages /\ payload' = {} /\ harvest' = "sending"
      /\ snap' \subseteq Data /\ dims' \subseteq Data
  <2>1. snap' \subseteq snap /\ dims' \subseteq dims /\ todo' \subseteq todo
    BY DEF CompleteStage
  <2> QED BY <2>1 DEF CompleteStage, TypeOK
<1>3. /\ UNCHANGED <<session, pendingShutdown, agentShutdown, plugins, engineRun, engine, customEngine>>
      /\ UNCHANGED <<dimPayload, mode, finals, cause, op, txRun, dropped, shutdownRequested, connect>>
  BY DEF CompleteStage
<1>4. TypeOK'
  BY <1>1, <1>2, <1>3 DEF TypeOK
<1>5. SessionInv'
  BY DEF CompleteStage, SessionInv, Busy
<1> QED BY <1>4, <1>5

\* Leaving Application.harvest leaves its variables in their types.
LEMMA LeaveHarvestKeepsTypes ==
  ASSUME TypeOK, LeaveHarvest
  PROVE  /\ snap' \subseteq Data /\ todo' \subseteq Stages /\ payload' \subseteq Data
         /\ dimPayload' \subseteq Data /\ mode' \in {"none", "flexible", "default", "final"}
         /\ slot' \in [DirectEvents -> {"none", "engine", "snapshot", "gone"}]
BY DEF LeaveHarvest, Redirect, TypeOK

\* Every step of a harvest, failures included, keeps the types and the session facts.
LEMMA HarvestKeepsTypes ==
  ASSUME TypeOK, SessionInv, HarvestStep
  PROVE  TypeOK' /\ SessionInv'
<1> USE RunsType DEF OfType, Busy, appVars, engineVars, harvestVars, recordVars, historyVars
<1>1. CASE HarvestNothing
  <2>1. PICK call \in Calls :
          /\ finals' = call[2]
          /\ pendingShutdown' = (pendingShutdown \/ (call[1] = "final" /\ ~agentShutdown))
    BY <1>1 DEF HarvestNothing
  <2>2. finals' \in 0 .. 2 /\ pendingShutdown' \in BOOLEAN
    BY <2>1, CallsType
  <2> QED BY <1>1, <2>2 DEF HarvestNothing, TypeOK, SessionInv
<1>2. CASE HarvestSnapshot
  <2>1. PICK call \in Calls :
          /\ mode' = call[1] /\ finals' = call[2]
          /\ pendingShutdown' = (pendingShutdown \/ call[1] = "final")
          /\ snap' \subseteq engine /\ engine' \subseteq engine
          /\ todo' = StagesOf(call[1])
          /\ harvest' \in {"sending", "custom_snapshot"}
    BY <1>2 DEF HarvestSnapshot
  <2>2. /\ mode' \in {"none", "flexible", "default", "final"} /\ finals' \in 0 .. 2
        /\ pendingShutdown' \in BOOLEAN /\ todo' \subseteq Stages
    BY <2>1, CallsType, StagesOfType
  <2>3. slot' \in [DirectEvents -> {"none", "engine", "snapshot", "gone"}]
    BY <1>2 DEF HarvestSnapshot, Redirect, TypeOK
  <2>4. TypeOK'
    BY <1>2, <2>1, <2>2, <2>3 DEF HarvestSnapshot, TypeOK
  <2>5. SessionInv'
    BY <1>2 DEF HarvestSnapshot, SessionInv
  <2> QED BY <2>4, <2>5
<1>3. CASE CustomSnapshot
  BY <1>3 DEF CustomSnapshot, TypeOK, SessionInv
<1>4. ASSUME NEW s \in Stages, SendRequest(s) PROVE TypeOK' /\ SessionInv'
  <2>1. plugins' \in BOOLEAN
    BY <1>4 DEF SendRequest, TypeOK
  <2> QED BY <1>4, <2>1 DEF SendRequest, TypeOK, SessionInv
<1>5. ASSUME NEW s \in Stages, SkipStage(s) PROVE TypeOK' /\ SessionInv'
  BY <1>5, CompleteStageKeepsTypes DEF SkipStage, TypeOK
<1>6. ASSUME NEW s \in Stages, AnswerOk(s) PROVE TypeOK' /\ SessionInv'
  <2>1. session \in Runs
    BY <1>6 DEF AnswerOk, SessionInv, TypeOK
  <2>2. reported' \subseteq Data \X Runs
    BY <1>6, <2>1 DEF AnswerOk, TypeOK
  <2> QED BY <1>6, <2>2, CompleteStageKeepsTypes DEF AnswerOk
<1>7. CASE AnswerRetry
  BY <1>7 DEF AnswerRetry, TypeOK, SessionInv
<1>r. CASE Rollback
  <2>1. LeaveHarvest
    BY <1>r DEF Rollback
  <2>2. engine' \subseteq Data /\ dropped' \subseteq Data
    BY <1>r DEF Rollback, TypeOK
  <2>3. TypeOK'
    BY <1>r, <2>1, <2>2, LeaveHarvestKeepsTypes DEF Rollback, TypeOK
  <2>4. SessionInv'
    BY <1>r DEF Rollback, SessionInv
  <2> QED BY <2>3, <2>4
<1>8. CASE AnswerDiscard
  <2>1. LeaveHarvest /\ dropped' \subseteq Data
    BY <1>8 DEF AnswerDiscard, TypeOK
  <2>2. TypeOK'
    BY <1>8, <2>1, LeaveHarvestKeepsTypes DEF AnswerDiscard, TypeOK
  <2>3. SessionInv'
    BY <1>8 DEF AnswerDiscard, SessionInv
  <2> QED BY <2>2, <2>3
<1>9. ASSUME NEW c \in {"restart", "disconnect"}, AnswerShutdown(c) PROVE TypeOK' /\ SessionInv'
  <2>1. LeaveHarvest /\ dropped' \subseteq Data
    BY <1>9 DEF AnswerShutdown, TypeOK
  <2>2. TypeOK'
    BY <1>9, <2>1, LeaveHarvestKeepsTypes DEF AnswerShutdown, TypeOK
  <2>3. SessionInv'
    BY <1>9 DEF AnswerShutdown, SessionInv
  <2> QED BY <2>2, <2>3
<1>10. CASE FinishHarvest
  <2>1. LeaveHarvest
    BY <1>10 DEF FinishHarvest
  <2>2. TypeOK'
    BY <1>10, <2>1, LeaveHarvestKeepsTypes DEF FinishHarvest, TypeOK
  <2>3. SessionInv'
    BY <1>10 DEF FinishHarvest, SessionInv
  <2> QED BY <2>2, <2>3
<1>11. ASSUME NEW a \in {"restart", "disconnect", "other"}, ShutdownFails(a)
       PROVE  TypeOK' /\ SessionInv'
  <2>1. TypeOK'
    BY <1>11 DEF ShutdownFails, TypeOK
  <2>2. SessionInv'
    BY <1>11 DEF ShutdownFails, SessionInv
  <2> QED BY <2>1, <2>2
<1>12. CASE ShutdownSession
  <2>1. agentShutdown' \in BOOLEAN /\ plugins' \in BOOLEAN /\ session' = NoRun
    BY <1>12 DEF ShutdownSession, TypeOK
  <2>2. connect' \in [Runs -> ConnectStates]
    BY <1>12 DEF ShutdownSession, TypeOK, ConnectStates
  <2>3. TypeOK'
    BY <1>12, <2>1, <2>2 DEF ShutdownSession, TypeOK
  <2>4. /\ session \in Runs /\ \A c \in Runs : connect[c] \notin Connecting
        /\ \A e \in Runs : connect[e] # "none" => e <= session
    BY <1>12 DEF ShutdownSession, SessionInv, TypeOK
  <2>5. harvest' = "idle"
    BY <1>12 DEF ShutdownSession
  <2>6. CASE RestartAllowed
    <3>1. ~agentShutdown' /\ engineRun' = engineRun
      BY <2>6, <1>12 DEF RestartAllowed, ShutdownSession
    <3>2. \A c \in Runs : connect'[c] = IF c = session + 1 THEN "start" ELSE connect[c]
      BY <2>6, <1>12 DEF ShutdownSession, TypeOK
    <3>3. \A c \in Runs : connect'[c] \in Connecting => c = session + 1
      BY <3>2, <2>4
    <3>4. \A e \in Runs : connect'[e] # "none" => e <= session + 1
      BY <3>2, <2>4
    <3>5. \A c \in Runs : connect'[c] # "publish"
      BY <3>2, <2>4 DEF Connecting, ConnectStates
    <3> QED BY <2>1, <2>3, <2>5, <3>1, <3>3, <3>4, <3>5 DEF SessionInv
  <2>7. CASE ~RestartAllowed
    <3>1. connect' = connect
      BY <2>7, <1>12 DEF ShutdownSession
    <3>2. \A c \in Runs : connect'[c] # "publish"
      BY <3>1, <2>4 DEF Connecting, ConnectStates
    <3> QED BY <2>1, <2>3, <2>4, <2>5, <3>1, <3>2 DEF SessionInv
  <2> QED BY <2>6, <2>7
<1>13. CASE HarvestThreadEnds
  BY <1>13 DEF HarvestThreadEnds, TypeOK, SessionInv
<1> QED BY <1>1, <1>2, <1>3, <1>4, <1>5, <1>6, <1>7, <1>r, <1>8, <1>9, <1>10, <1>11, <1>12, <1>13
        DEF HarvestStep

\* Every step of the specification keeps the types and the session facts.
LEMMA TypesStep == TypeOK /\ SessionInv /\ [Next]_vars => TypeOK' /\ SessionInv'
<1> SUFFICES ASSUME TypeOK, SessionInv, [Next]_vars PROVE TypeOK' /\ SessionInv'
  OBVIOUS
<1>1. CASE \E c \in Runs : Connect(c)
  BY <1>1, ConnectKeepsTypes
<1>2. CASE Record
  BY <1>2, RecordKeepsTypes
<1>3. CASE HarvestStep
  BY <1>3, HarvestKeepsTypes
<1>4. CASE RequestShutdown
  BY <1>4 DEF RequestShutdown, TypeOK, SessionInv, appVars, engineVars, harvestVars,
              recordVars, historyVars
<1>5. CASE UNCHANGED vars
  BY <1>5 DEF vars, TypeOK, SessionInv, appVars, engineVars, harvestVars,
              recordVars, historyVars
<1> QED BY <1>1, <1>2, <1>3, <1>4, <1>5 DEF Next

\* Types are correct, and a run owns the session as SessionInv says.
THEOREM TypeCorrect == Spec => [](TypeOK /\ SessionInv)
BY TypeInitially, TypesStep, PTL DEF Spec

\* Every variable has its type in every reachable state.
THEOREM TypesHold == Spec => []TypeOK
BY TypeCorrect, PTL

\* While a harvest is in progress nobody replaces its session or resets the
\* engines it merges back into: the activation thread of a restart starts only
\* when the harvest that asked for it has given the session up.
THEOREM HarvestOwnsSession == Spec => []SessionStable
<1>1. TypeOK /\ SessionInv => SessionStable
  BY DEF SessionInv, SessionStable, Busy, TypeOK
<1> QED BY <1>1, TypeCorrect, PTL

\* A forced disconnect or the final shutdown is never undone by a connection
\* that was under way.
THEOREM ShutdownIsFinal == Spec => []AgentShutdownIsFinal
<1>1. TypeOK /\ SessionInv => AgentShutdownIsFinal
  BY DEF SessionInv, AgentShutdownIsFinal, TypeOK
<1> QED BY <1>1, TypeCorrect, PTL

-----------------------------------------------------------------------------
(***************************************************************************)
(* Where the data are.  DataInv is inductive; its parts that are not       *)
(* properties themselves say why those are:                                *)
(*   - only operations that are done have data in the engines, so a datum  *)
(*     enters them once;                                                   *)
(*   - an event in a request is in the snapshot, at the stage the harvest  *)
(*     has reached, so its acknowledgement removes it;                     *)
(*   - a guarded datum of the snapshot has its stage still to come or was  *)
(*     acknowledged, so that nothing is left when all stages are over.     *)
(***************************************************************************)
Sending == {"custom_snapshot", "sending", "waiting", "rolling"}

HeldIsDone    == \A d \in Held : d \in Data /\ op[d[1]] = "done"
CustomIsOwn   == \A d \in customEngine : d[1] \in CustomMetrics
SlotInSnap    == \A e \in DirectEvents :
                   slot[e] = "snapshot" => TypesOf[e] # {} /\ harvest \in Sending
SnapOnlyThen  == harvest \notin Sending => snap = {}
DimsAreDims   == \A d \in dims \cup dimPayload : d[2] = "dimensional_metric_data"
ReportedIsOut == \A d \in Reported : d[2] \in EventTypes => op[d[1]] = "done" /\ d \notin Held
DroppedIsDone == \A d \in dropped : d[2] \in EventTypes => op[d[1]] = "done"
PayloadInSnap == harvest = "waiting" =>
                   \A d \in payload : d[2] \in EventTypes => d \in snap /\ Current(d[2])
PayloadIsAll  == harvest = "waiting" =>
                   \A d \in snap \cap Guarded : Current(d[2]) => d \in payload
SnapToGo      == harvest \in Sending =>
                   \A d \in snap \cap Guarded : d[2] \in todo \/ d \in Reported
MetricsToGo   == harvest = "custom_snapshot" => "metric_data" \in todo

\* Events and traces recorded under the engines' locks are in an engine, in the
\* snapshot of the harvest in progress, reported, or were thrown away where the code
\* means to.  Metrics are not spoken of: the rollback, which only adds events to the
\* data sets of the engine, may overwrite a metric or have one overwritten.
GuardedDataConserved == \A d \in Recorded \cap Guarded : d[2] # "metric_data" => d \in Kept

\* An event the collector acknowledged is nowhere where a later harvest, or the
\* rollback of this one, could send it again.
EventReportedOnce == \A d \in Reported : d[2] \in EventTypes => d \notin Held

DataInv ==
  /\ HeldIsDone /\ CustomIsOwn /\ SlotInSnap /\ SnapOnlyThen /\ DimsAreDims
  /\ ReportedIsOut /\ DroppedIsDone /\ PayloadInSnap /\ PayloadIsAll /\ SnapToGo /\ MetricsToGo
  /\ OnePlace /\ GuardedDataConserved

\* A datum is an operation with one of the data types it records.
LEMMA DataMember == \A d \in Data : d[1] \in Ops /\ d[2] \in TypesOf[d[1]] /\ d[2] \in DataTypes
BY DataOfType DEF Data

\* What DataOf gives for an operation, datum by datum.
LEMMA DataOfMember == \A o \in Ops : \A d \in DataOf(o) : d \in Data /\ d[1] = o /\ d[2] \in TypesOf[o]
BY DataOfType DEF DataOf

\* Which data the guarded merges and rollbacks concern.
LEMMA GuardedMember ==
  \A d \in Guarded : /\ d \in Data /\ d[1] \notin DirectEvents /\ d[1] \notin DimensionalMetrics
                     /\ d[2] \in EventTypes \cup {"error_data", "trace_data", "metric_data"}
BY DataMember, ConstantsAssumption DEF Guarded, DataTypes

\* Nothing is recorded, held, sent or dropped at the start.
LEMMA DataInitially == Init => DataInv
<1> SUFFICES ASSUME Init PROVE DataInv
  OBVIOUS
<1>1. Held = {} /\ Reported = {} /\ dropped = {} /\ dims \cup dimPayload = {} /\ customEngine = {} /\ snap = {}
  BY DEF Init, Held, Reported
<1>2. harvest \notin Sending /\ \A e \in DirectEvents : slot[e] = "none"
  BY DEF Init, Sending
<1>3. OnePlace
  BY DEF Init, OnePlace
<1>4. \A d \in Data : op[d[1]] # "done"
  BY DataMember DEF Init
<1> QED BY <1>1, <1>2, <1>3, <1>4 DEF DataInv, HeldIsDone, CustomIsOwn, SlotInSnap, SnapOnlyThen,
        DimsAreDims, ReportedIsOut, DroppedIsDone, PayloadInSnap, PayloadIsAll, SnapToGo, MetricsToGo,
        GuardedDataConserved, Recorded, Sending

(***************************************************************************)
(* A quiet step moves no data but dimensional metrics, finishes no         *)
(* operation that records guarded data and stays out of the harvest.       *)
(***************************************************************************)
Quiet ==
  /\ engine' = engine /\ customEngine' = customEngine /\ snap' = snap /\ todo' = todo
  /\ payload' = payload /\ reported' = reported /\ dropped' = dropped
  /\ \A o \in Ops : op[o] = "done" => op'[o] = "done"
  /\ \A o \in Transactions \cup CustomMetrics : op'[o] = "done" => op[o] = "done"
  /\ \A e \in DirectEvents : slot'[e] = "snapshot" => slot[e] = "snapshot"
  /\ harvest' = harvest \/ (harvest \notin Sending /\ harvest' \notin Sending)
  /\ \A d \in dims' \cup dimPayload' : d[2] = "dimensional_metric_data"

\* A step that touches no place a datum can be in keeps DataInv.
LEMMA QuietKeepsData ==
  ASSUME TypeOK, DataInv, Quiet
  PROVE  DataInv'
<1> USE DEF DataInv, Quiet
<1>1. Held' = Held /\ Reported' = Reported
  BY DEF Held, Reported
<1>2. \A d \in Reported : d \in Data
  BY DEF Reported, TypeOK
<1>3. HeldIsDone' /\ CustomIsOwn' /\ ReportedIsOut'
  BY <1>1, <1>2, DataMember DEF HeldIsDone, CustomIsOwn, ReportedIsOut
<1>d. DroppedIsDone'
  BY DataMember DEF DroppedIsDone, TypeOK
<1>4. SlotInSnap' /\ SnapOnlyThen' /\ DimsAreDims'
  BY DEF SlotInSnap, SnapOnlyThen, DimsAreDims, Sending
<1>5. PayloadInSnap' /\ PayloadIsAll' /\ SnapToGo' /\ MetricsToGo'
  BY <1>1 DEF PayloadInSnap, PayloadIsAll, SnapToGo, MetricsToGo, Sending, Current, Guarded
<1>6. OnePlace'
  BY DEF OnePlace
<1>7. GuardedDataConserved'
  <2>1. \A d \in Recorded' \cap Guarded : d \in Recorded
    BY DataMember DEF Recorded, Guarded
  <2> QED BY <1>1, <2>1 DEF GuardedDataConserved, Kept, Guarded
<1> QED BY <1>3, <1>d, <1>4, <1>5, <1>6, <1>7

\* Connecting resets the engine: what it held counts as dropped, the rest is kept.
LEMMA ConnectKeepsData ==
  ASSUME TypeOK, DataInv, NEW c \in Runs, Connect(c)
  PROVE  DataInv'
<1> USE DEF ConnectMove, appVars, engineVars, harvestVars, recordVars, historyVars
<1>1. ASSUME ConnectCheck(c) \/ ConnectCreate(c) \/ ConnectPublish(c) \/ ConnectActivate(c)
      PROVE  Quiet
  BY <1>1 DEF ConnectCheck, ConnectCreate, ConnectPublish, ConnectActivate, Quiet, Sending,
              DataInv, DimsAreDims
<1>2. ASSUME ConnectReset(c) PROVE DataInv'
  <2>1. /\ engine' = {} /\ dims' = {} /\ customEngine' = customEngine /\ snap' = snap
        /\ todo' = todo /\ payload' = payload /\ dimPayload' = dimPayload
        /\ reported' = reported /\ dropped' = dropped \cup engine \cup dims
        /\ op' = op /\ harvest' = harvest
    BY <1>2 DEF ConnectReset
  <2>2. \A e \in DirectEvents : slot'[e] = "snapshot" => slot[e] = "snapshot"
    BY <1>2 DEF ConnectReset, Redirect, TypeOK
  <2>3. Held' \subseteq Held /\ Reported' = Reported
    BY <2>1 DEF Held, Reported
  <2>d. DroppedIsDone'
    BY <2>1, StagesEnumerated DEF DataInv, DroppedIsDone, HeldIsDone, DimsAreDims, Held
  <2>4. HeldIsDone' /\ CustomIsOwn' /\ ReportedIsOut' /\ DimsAreDims'
    BY <2>1, <2>3 DEF DataInv, HeldIsDone, CustomIsOwn, ReportedIsOut, DimsAreDims
  <2>5. SlotInSnap' /\ SnapOnlyThen'
    BY <2>1, <2>2 DEF DataInv, SlotInSnap, SnapOnlyThen
  <2>6. PayloadInSnap' /\ PayloadIsAll' /\ SnapToGo' /\ MetricsToGo'
    BY <2>1, <2>3 DEF DataInv, PayloadInSnap, PayloadIsAll, SnapToGo, MetricsToGo, Current
  <2>7. OnePlace' /\ GuardedDataConserved'
    BY <2>1, <2>3 DEF DataInv, OnePlace, GuardedDataConserved, Recorded, Kept, Held
  <2> QED BY <2>d, <2>4, <2>5, <2>6, <2>7 DEF DataInv
<1>3. ASSUME ConnectResetCustom(c) PROVE DataInv'
  <2>1. /\ customEngine' = {} /\ engine' = engine /\ dims' = dims /\ snap' = snap
        /\ todo' = todo /\ payload' = payload /\ dimPayload' = dimPayload
        /\ reported' = reported /\ dropped' = dropped \cup customEngine
        /\ op' = op /\ slot' = slot /\ harvest' = harvest
    BY <1>3 DEF ConnectResetCustom
  <2>2. Held' \subseteq Held /\ Reported' = Reported
    BY <2>1 DEF Held, Reported
  <2>d. DroppedIsDone'
    BY <2>1 DEF DataInv, DroppedIsDone, HeldIsDone, Held
  <2>3. HeldIsDone' /\ CustomIsOwn' /\ ReportedIsOut' /\ DimsAreDims' /\ SlotInSnap' /\ SnapOnlyThen'
    BY <2>1, <2>2 DEF DataInv, HeldIsDone, CustomIsOwn, ReportedIsOut, DimsAreDims, SlotInSnap,
                      SnapOnlyThen
  <2>4. PayloadInSnap' /\ PayloadIsAll' /\ SnapToGo' /\ MetricsToGo'
    BY <2>1, <2>2 DEF DataInv, PayloadInSnap, PayloadIsAll, SnapToGo, MetricsToGo, Current
  <2>5. OnePlace' /\ GuardedDataConserved'
    BY <2>1, <2>2 DEF DataInv, OnePlace, GuardedDataConserved, Recorded, Kept, Held
  <2> QED BY <2>d, <2>3, <2>4, <2>5 DEF DataInv
<1> QED BY <1>1, <1>2, <1>3, QuietKeepsData DEF Connect

(***************************************************************************)
(* The end of an operation that was not done: its data S enter one of the  *)
(* engines or the snapshot.  During a rollback metrics may get lost: some  *)
(* of the operation's, which are then not in S, and some of the snapshot's. *)
(***************************************************************************)
Enters(o, S) ==
  /\ op[o] # "done" /\ op' = [op EXCEPT ![o] = "done"]
  /\ todo' = todo /\ payload' = payload /\ reported' = reported /\ dropped' = dropped
  /\ harvest' = harvest /\ dims' = dims /\ dimPayload' = dimPayload
  /\ \A e \in DirectEvents : slot'[e] = "snapshot" => slot[e] = "snapshot"
  /\ S \subseteq DataOf(o)
  /\ \/ /\ engine' = engine \cup S /\ customEngine' = customEngine /\ snap' \subseteq snap
        /\ \A d \in snap \ snap' : d[2] = "metric_data" /\ harvest = "rolling"
     \/ /\ customEngine' = customEngine \cup S /\ UNCHANGED <<engine, snap>>
        /\ o \in CustomMetrics
     \/ /\ snap' = snap \cup S /\ UNCHANGED <<engine, customEngine>>
        /\ o \in DirectEvents /\ (S # {} => harvest \in Sending)
  /\ \A d \in DataOf(o) \cap Guarded : d[2] # "metric_data" => d \in S

\* Data that leave a recorder keep DataInv.
LEMMA EntersKeepsData ==
  ASSUME TypeOK, DataInv, NEW o \in Ops, NEW S, Enters(o, S)
  PROVE  DataInv'
<1> USE DEF Enters
<1>1. /\ Held' \subseteq Held \cup S /\ S \subseteq Held' /\ Reported' = Reported
      /\ \A d \in Held : d[2] # "metric_data" => d \in Held'
  BY DEF Held, Reported
<1>2. \A d \in S : d \in Data /\ d[1] = o /\ d \notin Held
  BY DataOfMember DEF DataInv, HeldIsDone
<1>3. \A p \in Ops : op'[p] = IF p = o THEN "done" ELSE op[p]
  BY DEF TypeOK
<1>4. HeldIsDone'
  BY <1>1, <1>2, <1>3, DataMember DEF DataInv, HeldIsDone
<1>5. CustomIsOwn'
  BY <1>2 DEF DataInv, CustomIsOwn
<1>6. ReportedIsOut'
  <2> SUFFICES ASSUME NEW d \in Reported, d[2] \in EventTypes
               PROVE  op'[d[1]] = "done" /\ d \notin Held \cup S
    BY <1>1 DEF ReportedIsOut
  <2>1. d \in Data /\ op[d[1]] = "done" /\ d \notin Held
    BY DEF DataInv, ReportedIsOut, Reported, TypeOK
  <2>2. d \notin S
    BY <2>1, <1>2
  <2> QED BY <2>1, <2>2, <1>3, DataMember
<1>d. DroppedIsDone'
  BY <1>3, DataMember DEF DataInv, DroppedIsDone, TypeOK
<1>7. SlotInSnap' /\ SnapOnlyThen' /\ DimsAreDims' /\ MetricsToGo'
  BY DEF DataInv, SlotInSnap, SnapOnlyThen, DimsAreDims, MetricsToGo
<1>8. PayloadInSnap'
  BY DEF DataInv, PayloadInSnap, Current
<1>9. snap' \cap Guarded \subseteq snap \cap Guarded
  BY <1>2, GuardedMember
<1>10. PayloadIsAll' /\ SnapToGo'
  BY <1>1, <1>9 DEF DataInv, PayloadIsAll, SnapToGo, Current
<1>11. OnePlace'
  BY <1>2 DEF DataInv, OnePlace, Held
<1>12. GuardedDataConserved'
  <2> SUFFICES ASSUME NEW d \in Guarded, d \in Recorded', d[2] # "metric_data" PROVE d \in Kept'
    BY DEF GuardedDataConserved
  <2>1. d \in Data /\ d \in DataOf(d[1]) /\ d[1] \in Ops
    BY DataMember, GuardedMember DEF Data, DataOf
  <2>2. CASE d[1] = o
    BY <2>1, <2>2, <1>1 DEF Kept
  <2>3. CASE d[1] # o
    <3>1. d \in Recorded
      BY <2>1, <2>3, <1>3 DEF Recorded
    <3> QED BY <3>1, <1>1 DEF DataInv, GuardedDataConserved, Kept
  <2> QED BY <2>2, <2>3
<1> QED BY <1>4, <1>5, <1>6, <1>7, <1>8, <1>10, <1>11, <1>12, <1>d DEF DataInv

\* Recording is quiet but for the last step of an operation.
LEMMA RecordEnters ==
  ASSUME TypeOK, DataInv, Record
  PROVE  Quiet \/ \E o \in Ops : \E S \in SUBSET Data : Enters(o, S)
<1> DEFINE Entered == \E o \in Ops : \E S \in SUBSET Data : Enters(o, S)
<1> USE ConstantsAssumption DEF OpMove, NothingButRecording, appVars, engineVars, harvestVars,
                                recordVars, historyVars
<1>1. ASSUME NEW t \in Transactions, StartTransaction(t) PROVE Quiet
  BY <1>1 DEF StartTransaction, Quiet, TypeOK, Ops, DataInv, DimsAreDims
<1>2. ASSUME NEW t \in Transactions, RecordTransaction(t) PROVE Quiet
  BY <1>2 DEF RecordTransaction, Quiet, TypeOK, Ops, DataInv, DimsAreDims
<1>w. ASSUME NEW t \in Transactions, CreateWorkarea(t) PROVE Quiet
  <2>1. \A d \in dims' : d[2] = "dimensional_metric_data"
    BY <1>w DEF CreateWorkarea, OfType, DataInv, DimsAreDims
  <2> QED BY <1>w, <2>1 DEF CreateWorkarea, Quiet, TypeOK, Ops, DataInv, DimsAreDims
<1>3. ASSUME NEW t \in Transactions, MergeTransaction(t) PROVE Entered
  <2> DEFINE own == OfType(DataOf(t), DataTypes \ {"dimensional_metric_data"})
  <2>1. PICK lost \in SUBSET Overwritable(t) : engine' = engine \cup (own \ lost) /\ snap' = snap \ lost
    BY <1>3 DEF MergeTransaction
  <2>2. \A d \in lost : d[2] = "metric_data" /\ harvest = "rolling"
    BY DEF Overwritable, OfType
  <2>3. \A d \in DataOf(t) \cap Guarded : d[2] # "metric_data" => d \in own \ lost
    BY <2>2, GuardedMember, DataMember DEF OfType, Guarded
  <2>4. own \ lost \subseteq DataOf(t)
    BY DEF OfType
  <2> HIDE DEF own
  <2>5. Enters(t, own \ lost)
    BY <1>3, <2>1, <2>2, <2>3, <2>4 DEF MergeTransaction, Enters
  <2>6. own \ lost \in SUBSET Data
    BY <2>4, DataOfMember DEF Ops
  <2> QED BY <2>5, <2>6 DEF Ops
<1>4. ASSUME NEW o \in Ops \ Transactions, PassSessionTest(o) PROVE Quiet
  BY <1>4 DEF PassSessionTest, Quiet, TypeOK, Ops, DataInv, DimsAreDims
<1>5. ASSUME NEW e \in DirectEvents, LookUpDataSet(e) PROVE Quiet
  BY <1>5 DEF LookUpDataSet, Quiet, TypeOK, Ops, DataInv, DimsAreDims
<1>6. ASSUME NEW e \in DirectEvents, AddToDataSet(e) PROVE Entered
  <2> DEFINE S == IF slot[e] \in {"engine", "snapshot"} THEN DataOf(e) ELSE {}
  <2>1. \A d \in DataOf(e) : d \notin Guarded
    BY DataOfMember, GuardedMember DEF Ops
  <2>2. slot[e] = "snapshot" => harvest \in Sending
    BY DEF DataInv, SlotInSnap
  <2>3. \A f \in DirectEvents : slot'[f] = "snapshot" => slot[f] = "snapshot"
    BY <1>6 DEF AddToDataSet, TypeOK
  <2>4. Enters(e, S)
    BY <1>6, <2>1, <2>2, <2>3 DEF AddToDataSet, Enters
  <2>5. S \in SUBSET Data
    BY DataOfMember DEF Ops
  <2> QED BY <2>4, <2>5 DEF Ops
<1>7. ASSUME NEW m \in CustomMetrics, RecordCustomMetric(m) PROVE Entered
  <2>1. Enters(m, DataOf(m))
    BY <1>7 DEF RecordCustomMetric, Enters
  <2>2. DataOf(m) \in SUBSET Data
    BY DataOfMember DEF Ops
  <2> QED BY <2>1, <2>2 DEF Ops
<1>8. ASSUME NEW d \in DimensionalMetrics, RecordDimensionalMetric(d) PROVE Quiet
  <2>1. \A x \in dims' : x[2] = "dimensional_metric_data"
    BY <1>8, DataOfMember DEF RecordDimensionalMetric, Ops, DataInv, DimsAreDims
  <2> QED BY <1>8, <2>1 DEF RecordDimensionalMetric, Quiet, TypeOK, Ops, DataInv, DimsAreDims
<1> QED BY <1>1, <1>2, <1>w, <1>3, <1>4, <1>5, <1>6, <1>7, <1>8 DEF Record

\* Recording a transaction, a custom metric or a direct event keeps DataInv.
LEMMA RecordKeepsData ==
  ASSUME TypeOK, DataInv, Record
  PROVE  DataInv'
BY RecordEnters, QuietKeepsData, EntersKeepsData

(***************************************************************************)
(* The harvest.                                                            *)
(***************************************************************************)
LEMMA SnapshotKeepsData ==
  ASSUME TypeOK, DataInv, HarvestSnapshot
  PROVE  DataInv'
<1> PICK call \in Calls :
      LET taken == SnapshotTypes(call[1] = "flexible")
      IN  /\ snap' = OfType(engine, taken)
          /\ engine' = engine \ OfType(engine, taken)
          /\ slot' = Redirect("engine", "snapshot", taken)
          /\ todo' = StagesOf(call[1])
          /\ harvest' = IF call[1] = "flexible" THEN "sending" ELSE "custom_snapshot"
  BY DEF HarvestSnapshot
<1> DEFINE taken == SnapshotTypes(call[1] = "flexible")
<1>1. /\ customEngine' = customEngine /\ dims' = dims /\ dimPayload' = dimPayload /\ op' = op
      /\ reported' = reported /\ dropped' = dropped /\ snap = {}
      /\ harvest' \in {"sending", "custom_snapshot"}
  BY DEF HarvestSnapshot, engineVars, historyVars, DataInv, SnapOnlyThen, Sending
<1>2. Held' = Held /\ Reported' = Reported
  BY <1>1 DEF Held, Reported, OfType
<1>3. HeldIsDone' /\ CustomIsOwn' /\ ReportedIsOut' /\ DroppedIsDone' /\ DimsAreDims'
  BY <1>1, <1>2 DEF DataInv, HeldIsDone, CustomIsOwn, ReportedIsOut, DroppedIsDone, DimsAreDims
<1>4. SlotInSnap'
  BY <1>1 DEF Redirect, DataInv, SlotInSnap, Sending, TypeOK
<1>5. SnapOnlyThen' /\ PayloadInSnap' /\ PayloadIsAll'
  BY <1>1 DEF SnapOnlyThen, PayloadInSnap, PayloadIsAll, Sending
<1>6. taken \subseteq todo'
  BY StagesEnumerated DEF SnapshotTypes, StagesOf, FlexibleTypes, DataTypes
<1>8. SnapToGo'
  BY <1>6 DEF SnapToGo, OfType
<1>9. MetricsToGo'
  BY DEF MetricsToGo, StagesOf
<1>10. OnePlace'
  BY <1>1 DEF DataInv, OnePlace, OfType
<1>11. GuardedDataConserved'
  BY <1>1, <1>2 DEF DataInv, GuardedDataConserved, Recorded, Kept
<1> QED BY <1>3, <1>4, <1>5, <1>8, <1>9, <1>10, <1>11 DEF DataInv

\* Moving the recorded custom metrics into the harvest keeps DataInv.
LEMMA CustomSnapshotKeepsData ==
  ASSUME TypeOK, DataInv, CustomSnapshot
  PROVE  DataInv'
<1>1. /\ snap' = snap \cup customEngine /\ customEngine' = {} /\ engine' = engine
      /\ dims' = dims /\ dimPayload' = dimPayload /\ op' = op /\ slot' = slot /\ todo' = todo
      /\ reported' = reported /\ dropped' = dropped
      /\ harvest = "custom_snapshot" /\ harvest' = "sending"
  BY DEF CustomSnapshot, recordVars, historyVars
<1>2. Held' = Held /\ Reported' = Reported
  BY <1>1 DEF Held, Reported
<1>3. HeldIsDone' /\ CustomIsOwn' /\ ReportedIsOut' /\ DroppedIsDone' /\ DimsAreDims'
  BY <1>1, <1>2 DEF DataInv, HeldIsDone, CustomIsOwn, ReportedIsOut, DroppedIsDone, DimsAreDims
<1>4. SlotInSnap' /\ SnapOnlyThen' /\ PayloadInSnap' /\ PayloadIsAll' /\ MetricsToGo'
  BY <1>1 DEF DataInv, SlotInSnap, SnapOnlyThen, PayloadInSnap, PayloadIsAll, MetricsToGo, Sending
<1>5. \A d \in customEngine : d[2] \in todo
  <2>1. \A d \in customEngine : d \in Data /\ d[1] \in CustomMetrics
    BY DEF DataInv, CustomIsOwn, TypeOK
  <2>2. "metric_data" \in todo
    BY <1>1 DEF DataInv, MetricsToGo
  <2> QED BY <2>1, <2>2, DataMember, ConstantsAssumption
<1>6. SnapToGo'
  BY <1>1, <1>2, <1>5 DEF DataInv, SnapToGo, Sending
<1>7. OnePlace' /\ GuardedDataConserved'
  BY <1>1, <1>2 DEF DataInv, OnePlace, GuardedDataConserved, Recorded, Kept
<1> QED BY <1>3, <1>4, <1>6, <1>7 DEF DataInv

\* A call to the collector, whatever its outcome, keeps DataInv.
LEMMA SendKeepsData ==
  ASSUME TypeOK, DataInv, NEW s \in Stages, SendRequest(s)
  PROVE  DataInv'
<1>1. /\ engine' = engine /\ customEngine' = customEngine /\ snap' = snap /\ dims' = dims
      /\ op' = op /\ slot' = slot /\ todo' = todo /\ reported' = reported /\ dropped' = dropped
      /\ harvest = "sending" /\ harvest' = "waiting" /\ Current(s)
      /\ payload' = IF s = "dimensional_metric_data" THEN dimPayload ELSE OfType(snap, {s})
      /\ dimPayload' \in {dims, dimPayload}
  BY DEF SendRequest, engineVars, recordVars, historyVars
<1>2. Held' = Held /\ Reported' = Reported
  BY <1>1 DEF Held, Reported
<1>3. HeldIsDone' /\ CustomIsOwn' /\ ReportedIsOut' /\ DroppedIsDone'
  BY <1>1, <1>2 DEF DataInv, HeldIsDone, CustomIsOwn, ReportedIsOut, DroppedIsDone
<1>4. DimsAreDims'
  BY <1>1 DEF DataInv, DimsAreDims
<1>5. SlotInSnap' /\ SnapOnlyThen' /\ MetricsToGo'
  BY <1>1 DEF DataInv, SlotInSnap, SnapOnlyThen, MetricsToGo, Sending
<1>6. PayloadInSnap'
  <2>1. "dimensional_metric_data" \notin EventTypes
    BY StagesEnumerated
  <2> SUFFICES ASSUME NEW d \in payload', d[2] \in EventTypes PROVE d \in snap /\ Current(d[2])
    BY <1>1 DEF PayloadInSnap, Current
  <2>2. s # "dimensional_metric_data"
    BY <1>1, <2>1 DEF DataInv, DimsAreDims
  <2> QED BY <1>1, <2>2 DEF OfType
<1>7. PayloadIsAll'
  <2>1. \A d \in snap \cap Guarded : Current(d[2]) => d[2] = s /\ s # "dimensional_metric_data"
    BY <1>1, CurrentIsFirst, GuardedMember, StagesEnumerated DEF TypeOK
  <2> QED BY <1>1, <2>1 DEF PayloadIsAll, OfType, Current
<1>8. SnapToGo'
  BY <1>1, <1>2 DEF DataInv, SnapToGo, Sending
<1>9. OnePlace' /\ GuardedDataConserved'
  BY <1>1, <1>2 DEF DataInv, OnePlace, GuardedDataConserved, Recorded, Kept
<1> QED BY <1>3, <1>4, <1>5, <1>6, <1>7, <1>8, <1>9 DEF DataInv

(***************************************************************************)
(* The end of a stage.  What it acknowledges is P, of which event data are *)
(* those of the stage, and all of them if guarded.                         *)
(***************************************************************************)
LEMMA CompleteStageKeepsData ==
  ASSUME TypeOK, DataInv, NEW s \in Stages, CompleteStage(s), Current(s), harvest \in Sending,
         NEW P, Reported' = Reported \cup P,
         \A d \in P : d[2] \in EventTypes => d \in snap /\ d[2] = s,
         \A d \in snap \cap Guarded : d[2] = s => d \in P
  PROVE  DataInv'
<1>1. /\ engine' = engine /\ customEngine' = customEngine /\ dimPayload' = dimPayload
      /\ op' = op /\ dropped' = dropped /\ todo' = todo \ {s} /\ harvest' = "sending"
      /\ snap' \subseteq snap /\ dims' \subseteq dims
      /\ \A d \in snap : d[2] = s /\ s \in EventTypes => d \notin snap'
      /\ \A d \in snap \ snap' : \/ d[2] = s
                                 \/ s = "dimensional_metric_data" /\ d[2] = "metric_data"
  <2>1. "dimensional_metric_data" \notin EventTypes
    BY StagesEnumerated
  <2>2. /\ engine' = engine /\ customEngine' = customEngine /\ dimPayload' = dimPayload
        /\ op' = op /\ dropped' = dropped /\ todo' = todo \ {s} /\ harvest' = "sending"
        /\ dims' \subseteq dims
    BY DEF CompleteStage
  <2>3. CASE s = "dimensional_metric_data"
    BY <2>1, <2>2, <2>3 DEF CompleteStage, OfType
  <2>4. CASE s # "dimensional_metric_data"
    BY <2>2, <2>4 DEF CompleteStage, OfType
  <2> QED BY <2>3, <2>4
<1>2. \A e \in DirectEvents : slot'[e] = "snapshot" => slot[e] = "snapshot"
  BY DEF CompleteStage, Redirect, TypeOK
<1>3. Held' \subseteq Held
  BY <1>1 DEF Held
<1>4. HeldIsDone' /\ CustomIsOwn' /\ DroppedIsDone' /\ DimsAreDims'
  BY <1>1, <1>3 DEF DataInv, HeldIsDone, CustomIsOwn, DroppedIsDone, DimsAreDims
<1>5. SlotInSnap' /\ SnapOnlyThen' /\ PayloadInSnap' /\ PayloadIsAll' /\ MetricsToGo'
  BY <1>1, <1>2 DEF DataInv, SlotInSnap, SnapOnlyThen, PayloadInSnap, PayloadIsAll, MetricsToGo,
                    Sending
<1>6. ReportedIsOut'
  <2> SUFFICES ASSUME NEW d \in Reported \cup P, d[2] \in EventTypes
               PROVE  op[d[1]] = "done" /\ d \notin Held'
    BY <1>1 DEF ReportedIsOut
  <2>1. CASE d \in Reported
    BY <2>1, <1>3 DEF DataInv, ReportedIsOut
  <2>2. CASE d \in P
    <3>1. d \in snap /\ d \notin snap'
      BY <2>2, <1>1
    <3>2. d \notin engine' /\ d \notin customEngine'
      BY <3>1, <1>1 DEF DataInv, OnePlace
    <3> QED BY <3>1, <3>2 DEF DataInv, HeldIsDone, Held
  <2> QED BY <2>1, <2>2
<1>7. \A d \in (snap \ snap') \cap Guarded : d \in Reported'
  <2> SUFFICES ASSUME NEW d \in snap \ snap', d \in Guarded PROVE d \in Reported'
    OBVIOUS
  <2>1. CASE d[2] = s
    BY <2>1
  <2>2. CASE s = "dimensional_metric_data" /\ d[2] = "metric_data"
    <3>1. "metric_data" \notin todo
      BY <2>2, StagesEnumerated DEF Current, SendOrder
    <3> QED BY <2>2, <3>1 DEF DataInv, SnapToGo
  <2> QED BY <2>1, <2>2, <1>1
<1>8. SnapToGo'
  <2> SUFFICES ASSUME NEW d \in snap', d \in Guarded PROVE d[2] \in todo' \/ d \in Reported'
    BY DEF SnapToGo
  <2>1. CASE d[2] = s
    BY <2>1, <1>1
  <2>2. CASE d[2] # s
    BY <2>2, <1>1 DEF DataInv, SnapToGo
  <2> QED BY <2>1, <2>2
<1>9. OnePlace'
  BY <1>1 DEF DataInv, OnePlace
<1>10. GuardedDataConserved'
  <2> SUFFICES ASSUME NEW d \in Guarded, d \in Recorded, d[2] # "metric_data" PROVE d \in Kept'
    BY <1>1 DEF GuardedDataConserved, Recorded
  <2> QED BY <1>1, <1>7 DEF DataInv, GuardedDataConserved, Kept, Held
<1> QED BY <1>4, <1>5, <1>6, <1>8, <1>9, <1>10 DEF DataInv

(***************************************************************************)
(* The end of a harvest: what of the snapshot is not merged back (R) was   *)
(* thrown away or acknowledged.                                            *)
(***************************************************************************)
LEMMA LeaveKeepsData ==
  ASSUME TypeOK, DataInv, LeaveHarvest, NEW R \in SUBSET snap,
         engine' = engine \cup R, customEngine' = customEngine, dims' = dims,
         op' = op, reported' = reported, dropped \subseteq dropped',
         dropped' \subseteq dropped \cup snap, harvest' \notin Sending,
         \A d \in (snap \ R) \cap Guarded : d \in Reported \cup dropped'
  PROVE  DataInv'
<1>1. snap' = {} /\ dimPayload' = {}
  BY DEF LeaveHarvest
<1>2. \A e \in DirectEvents : slot'[e] = "snapshot" => FALSE
  BY ConstantsAssumption DEF LeaveHarvest, Redirect, TypeOK, DataInv, SlotInSnap
<1>3. Held' \subseteq Held /\ Reported' = Reported
  BY <1>1 DEF Held, Reported
<1>4. HeldIsDone' /\ CustomIsOwn' /\ ReportedIsOut' /\ DimsAreDims'
  BY <1>1, <1>3 DEF DataInv, HeldIsDone, CustomIsOwn, ReportedIsOut, DimsAreDims
<1>d. DroppedIsDone'
  BY DEF DataInv, DroppedIsDone, HeldIsDone, Held
<1>5. SlotInSnap' /\ SnapOnlyThen' /\ PayloadInSnap' /\ PayloadIsAll' /\ SnapToGo' /\ MetricsToGo'
  BY <1>1, <1>2 DEF SlotInSnap, SnapOnlyThen, PayloadInSnap, PayloadIsAll, SnapToGo, MetricsToGo,
                    Sending
<1>6. OnePlace'
  BY <1>1 DEF DataInv, OnePlace
<1>7. GuardedDataConserved'
  <2> SUFFICES ASSUME NEW d \in Guarded, d \in Recorded, d[2] # "metric_data" PROVE d \in Kept'
    BY DEF GuardedDataConserved, Recorded
  <2> QED BY <1>3 DEF DataInv, GuardedDataConserved, Kept, Held
<1> QED BY <1>4, <1>d, <1>5, <1>6, <1>7 DEF DataInv

\* What an acknowledgement adds to the data reported.
LEMMA ReportedGrows ==
  ASSUME reported' = reported \cup (payload \X {session})
  PROVE  Reported' = Reported \cup payload
<1>1. \A d \in payload : <<d, session>> \in reported' /\ <<d, session>>[1] = d
  OBVIOUS
<1>2. payload \subseteq Reported'
  BY <1>1, Zenon DEF Reported
<1>3. \A r \in payload \X {session} : r[1] \in payload
  OBVIOUS
<1> QED BY <1>2, <1>3 DEF Reported

\* The steps of the harvest thread between harvests.
Between ==
  \/ HarvestNothing \/ ShutdownSession \/ HarvestThreadEnds
  \/ \E a \in {"restart", "disconnect", "other"} : ShutdownFails(a)

\* The steps between two calls of a harvest move no datum.
LEMMA BetweenIsQuiet ==
  ASSUME TypeOK, DataInv, Between
  PROVE  Quiet
<1> USE DEF appVars, engineVars, recordVars, historyVars
<1>1. CASE HarvestNothing
  BY <1>1 DEF HarvestNothing, Quiet, DataInv, DimsAreDims
<1>2. ASSUME NEW a \in {"restart", "disconnect", "other"}, ShutdownFails(a) PROVE Quiet
  BY <1>2 DEF ShutdownFails, Quiet, Sending, DataInv, DimsAreDims
<1>3. CASE ShutdownSession
  BY <1>3 DEF ShutdownSession, Quiet, Sending, DataInv, DimsAreDims
<1>4. CASE HarvestThreadEnds
  BY <1>4 DEF HarvestThreadEnds, Quiet, Sending, DataInv, DimsAreDims
<1> QED BY <1>1, <1>2, <1>3, <1>4 DEF Between

\* A request to retry leaves the data where they are.
LEMMA RetryKeepsData ==
  ASSUME TypeOK, DataInv, AnswerRetry
  PROVE  DataInv'
<1>1. /\ UNCHANGED <<engine, customEngine, dims, snap, todo, dimPayload, op, slot, reported, dropped>>
      /\ harvest = "waiting" /\ harvest' = "rolling"
  BY DEF AnswerRetry, engineVars, recordVars, historyVars
<1>2. Held' = Held /\ Reported' = Reported
  BY <1>1 DEF Held, Reported
<1>3. HeldIsDone' /\ CustomIsOwn' /\ ReportedIsOut' /\ DroppedIsDone' /\ DimsAreDims'
  BY <1>1, <1>2 DEF DataInv, HeldIsDone, CustomIsOwn, ReportedIsOut, DroppedIsDone, DimsAreDims
<1>4. SlotInSnap' /\ SnapOnlyThen' /\ PayloadInSnap' /\ PayloadIsAll' /\ MetricsToGo'
  BY <1>1 DEF DataInv, SlotInSnap, SnapOnlyThen, PayloadInSnap, PayloadIsAll, MetricsToGo, Sending
<1>5. SnapToGo' /\ OnePlace' /\ GuardedDataConserved'
  BY <1>1, <1>2 DEF DataInv, SnapToGo, OnePlace, GuardedDataConserved, Recorded, Kept, Sending
<1> QED BY <1>3, <1>4, <1>5 DEF DataInv

\* Every step of a harvest keeps DataInv.
LEMMA HarvestKeepsData ==
  ASSUME TypeOK, DataInv, HarvestStep
  PROVE  DataInv'
<1> USE DEF appVars, engineVars, recordVars, historyVars
<1>1. CASE Between
  BY <1>1, BetweenIsQuiet, QuietKeepsData
<1>2. ASSUME NEW s \in Stages, SkipStage(s) PROVE DataInv'
  <2>1. \A d \in snap : d[2] # s
    BY <1>2 DEF SkipStage, HasRequest, OfType
  <2> DEFINE P == {}
  <2>2. /\ Reported' = Reported \cup P
        /\ \A d \in P : d[2] \in EventTypes => d \in snap /\ d[2] = s
    BY <1>2 DEF SkipStage, Reported
  <2>3. CompleteStage(s) /\ Current(s) /\ harvest \in Sending
    BY <1>2 DEF SkipStage, Sending
  <2> HIDE DEF P
  <2> QED BY <2>1, <2>2, <2>3, CompleteStageKeepsData
<1>3. ASSUME NEW s \in Stages, AnswerOk(s) PROVE DataInv'
  <2>1. Reported' = Reported \cup payload
    BY <1>3, ReportedGrows DEF AnswerOk
  <2>2. \A r : Current(r) => r = s
    BY <1>3, CurrentIsFirst DEF AnswerOk, TypeOK
  <2>3. \A d \in payload : d[2] \in EventTypes => d \in snap /\ d[2] = s
    BY <1>3, <2>2 DEF AnswerOk, DataInv, PayloadInSnap
  <2>4. \A d \in snap \cap Guarded : d[2] = s => d \in payload
    BY <1>3 DEF AnswerOk, DataInv, PayloadIsAll
  <2> QED BY <1>3, <2>1, <2>3, <2>4, CompleteStageKeepsData DEF AnswerOk, Sending
<1>4. CASE AnswerRetry
  BY <1>4, RetryKeepsData
<1>r. CASE Rollback
  <2> DEFINE kept == OfType(snap, RollbackTypes)
  <2>1. /\ kept \in SUBSET snap /\ engine' = engine \cup kept
        /\ dropped' = dropped \cup (snap \ kept)
    BY <1>r DEF Rollback, OfType
  <2>2. /\ LeaveHarvest /\ customEngine' = customEngine /\ dims' = dims /\ op' = op
        /\ reported' = reported /\ harvest' \notin Sending
    BY <1>r DEF Rollback, Sending
  <2> HIDE DEF kept
  <2> QED BY <2>1, <2>2, LeaveKeepsData
<1>5. ASSUME LeaveHarvest, dropped' = dropped \cup snap, harvest' \notin Sending,
             UNCHANGED <<engineVars, op, reported>>
      PROVE  DataInv'
  <2>1. engine' = engine \cup {} /\ {} \in SUBSET snap /\ dropped \subseteq dropped'
        /\ dropped' \subseteq dropped \cup snap
    BY <1>5
  <2> QED BY <1>5, <2>1, LeaveKeepsData
<1>6. CASE AnswerDiscard
  BY <1>5, <1>6 DEF AnswerDiscard, Sending
<1>7. ASSUME NEW c \in {"restart", "disconnect"}, AnswerShutdown(c) PROVE DataInv'
  BY <1>5, <1>7 DEF AnswerShutdown, Sending
<1>8. CASE FinishHarvest
  <2>1. \A d \in snap \cap Guarded : d \in Reported
    BY <1>8 DEF FinishHarvest, DataInv, SnapToGo, Sending
  <2>2. /\ LeaveHarvest /\ engine' = engine \cup {} /\ customEngine' = customEngine
        /\ dims' = dims /\ op' = op /\ reported' = reported /\ dropped' = dropped
        /\ harvest' \notin Sending /\ {} \in SUBSET snap
    BY <1>8 DEF FinishHarvest, Sending
  <2> QED BY <2>1, <2>2, LeaveKeepsData
<1> QED BY <1>1, <1>2, <1>3, <1>4, <1>r, <1>6, <1>7, <1>8, SnapshotKeepsData,
           CustomSnapshotKeepsData, SendKeepsData DEF HarvestStep, Between

\* Every step of the specification keeps DataInv.
LEMMA DataStep == TypeOK /\ DataInv /\ [Next]_vars => DataInv'
<1> SUFFICES ASSUME TypeOK, DataInv, [Next]_vars PROVE DataInv'
  OBVIOUS
<1>1. CASE \E c \in Runs : Connect(c)
  BY <1>1, ConnectKeepsData
<1>2. CASE Record
  BY <1>2, RecordKeepsData
<1>3. CASE HarvestStep
  BY <1>3, HarvestKeepsData
<1>4. CASE RequestShutdown \/ UNCHANGED vars
  <2>1. Quiet
    BY <1>4 DEF RequestShutdown, vars, Quiet, DataInv, DimsAreDims, appVars, engineVars,
                harvestVars, recordVars, historyVars
  <2> QED BY <2>1, QuietKeepsData
<1> QED BY <1>1, <1>2, <1>3, <1>4 DEF Next

\* The inductive invariant about the data holds in every reachable state.
THEOREM DataAccounted == Spec => []DataInv
<1>1. Init => DataInv
  BY DataInitially
<1>2. TypeOK /\ DataInv /\ [Next]_vars => DataInv'
  BY DataStep
<1> QED BY <1>1, <1>2, TypesHold, PTL DEF Spec

\* No interleaving of recording, harvests, rollbacks, restarts and shutdowns loses
\* an event or a trace that was recorded under the locks of the engines.
THEOREM NothingGuardedIsLost == Spec => []GuardedDataConserved
<1>1. DataInv => GuardedDataConserved
  BY DEF DataInv
<1> QED BY <1>1, DataAccounted, PTL

\* A datum is never in the snapshot of a harvest and in an engine at once.
THEOREM DataInOnePlace == Spec => []OnePlace
<1>1. DataInv => OnePlace
  BY DEF DataInv
<1> QED BY <1>1, DataAccounted, PTL

\* No harvest and no rollback can report an event again that was acknowledged.
THEOREM EventsReportedOnce == Spec => []EventReportedOnce
<1>1. DataInv => EventReportedOnce
  BY DEF DataInv, ReportedIsOut, EventReportedOnce
<1> QED BY <1>1, DataAccounted, PTL

-----------------------------------------------------------------------------
(***************************************************************************)
(* Application implements Delivery: every step accepts, reports or drops   *)
(* guarded events, or leaves them as they are.                             *)
(***************************************************************************)
Pending   == Held \cap GuardedEvents
Delivered == Reported \cap GuardedEvents
Discarded == dropped \cap GuardedEvents

Same        == Pending' = Pending /\ Delivered' = Delivered /\ Discarded' = Discarded
Accepted(S) == /\ S \subseteq GuardedEvents /\ S \cap (Pending \cup Delivered \cup Discarded) = {}
               /\ Pending' = Pending \cup S /\ Delivered' = Delivered /\ Discarded' = Discarded
ReportedNow(S) == /\ S \subseteq Pending
                  /\ Pending' = Pending \ S /\ Delivered' = Delivered \cup S
                  /\ Discarded' = Discarded
DroppedNow(S)  == /\ S \subseteq Pending
                  /\ Pending' = Pending \ S /\ Delivered' = Delivered
                  /\ Discarded' = Discarded \cup S

Mapped == \/ Same
          \/ \E S \in SUBSET GuardedEvents : Accepted(S)
          \/ \E S \in SUBSET Pending : ReportedNow(S) \/ DroppedNow(S)

\* Events are data, told apart by their data type.
LEMMA EventMember ==
  \A d \in GuardedEvents : /\ d \in Guarded /\ d \in Data /\ d[2] \in EventTypes
                           /\ d[2] # "metric_data" /\ d[2] # "dimensional_metric_data"
                           /\ d[1] \notin CustomMetrics
<1>1. "metric_data" \notin EventTypes /\ "dimensional_metric_data" \notin EventTypes
  BY StagesEnumerated
<1>2. \A d \in Data : d[1] \in CustomMetrics => d[2] = "metric_data"
  BY DataMember, ConstantsAssumption
<1> QED BY <1>1, <1>2, GuardedMember DEF GuardedEvents

\* A step that touches no place of a datum leaves the abstract state as it is.
LEMMA QuietIsSame ==
  ASSUME Quiet
  PROVE  Mapped
BY DEF Quiet, Mapped, Same, Pending, Delivered, Discarded, Held, Reported

\* Data that leave a recorder are accepted, in the abstract.
LEMMA EntersIsAccepted ==
  ASSUME TypeOK, DataInv, NEW o \in Ops, NEW S, Enters(o, S)
  PROVE  Mapped
<1> DEFINE A == S \cap GuardedEvents
<1>1. \A d \in S : d[1] = o /\ op[d[1]] # "done"
  BY DataOfMember DEF Enters
<1>2. A \cap (Pending \cup Delivered \cup Discarded) = {}
  BY <1>1, EventMember DEF DataInv, HeldIsDone, ReportedIsOut, DroppedIsDone,
                           Pending, Delivered, Discarded
<1>3. Pending' = Pending \cup A /\ Delivered' = Delivered /\ Discarded' = Discarded
  BY EventMember DEF Enters, Pending, Delivered, Discarded, Held, Reported
<1>4. Accepted(A) /\ A \in SUBSET GuardedEvents
  BY <1>2, <1>3 DEF Accepted
<1> QED BY <1>4 DEF Mapped

\* Guarded events that leave an engine or the snapshot for good are dropped.
LEMMA LeavingIsDropped ==
  ASSUME DataInv, NEW S, S \cap GuardedEvents \subseteq Held,
         \A d \in GuardedEvents : d \in Held' <=> (d \in Held /\ d \notin S),
         Reported' = Reported,
         \A d \in GuardedEvents : d \in dropped' <=> (d \in dropped \/ d \in S)
  PROVE  Mapped
<1> DEFINE A == S \cap GuardedEvents
<1>1. DroppedNow(A) /\ A \in SUBSET Pending
  BY DEF DroppedNow, Pending, Delivered, Discarded
<1> QED BY <1>1 DEF Mapped

\* A connect step is an abstract loss, or a stutter.
LEMMA ConnectImplements ==
  ASSUME TypeOK, DataInv, NEW c \in Runs, Connect(c)
  PROVE  Mapped
<1> USE DEF ConnectMove, appVars, engineVars, harvestVars, recordVars, historyVars
<1>1. ASSUME ConnectCheck(c) \/ ConnectCreate(c) \/ ConnectPublish(c) \/ ConnectActivate(c)
      PROVE  Same
  BY <1>1 DEF ConnectCheck, ConnectCreate, ConnectPublish, ConnectActivate, Same,
              Pending, Delivered, Discarded, Held, Reported
<1>2. ASSUME ConnectReset(c) PROVE Mapped
  <2>1. /\ engine' = {} /\ customEngine' = customEngine /\ snap' = snap
        /\ Reported' = Reported /\ dropped' = dropped \cup engine \cup dims
    BY <1>2 DEF ConnectReset, Reported
  <2>2. \A d \in GuardedEvents : d \notin dims
    BY EventMember DEF DataInv, DimsAreDims
  <2>3. \A d \in engine : d \in Held /\ d \notin customEngine /\ d \notin snap
    BY DEF DataInv, OnePlace, Held
  <2>4. \A d : d \in Held' <=> (d \in Held /\ d \notin engine)
    BY <2>1, <2>3 DEF Held
  <2> QED BY <2>1, <2>2, <2>3, <2>4, LeavingIsDropped
<1>3. ASSUME ConnectResetCustom(c) PROVE Mapped
  <2>1. /\ customEngine' = {} /\ engine' = engine /\ snap' = snap
        /\ Reported' = Reported /\ dropped' = dropped \cup customEngine
    BY <1>3 DEF ConnectResetCustom, Reported
  <2>2. \A d \in customEngine : d \in Held /\ d \notin engine /\ d \notin snap
    BY DEF DataInv, OnePlace, Held
  <2>3. \A d : d \in Held' <=> (d \in Held /\ d \notin customEngine)
    BY <2>1, <2>2 DEF Held
  <2> QED BY <2>1, <2>2, <2>3, LeavingIsDropped
<1> QED BY <1>1, <1>2, <1>3 DEF Connect, Mapped

\* A step of a harvest is an abstract step, or a stutter.
LEMMA HarvestImplements ==
  ASSUME TypeOK, DataInv, HarvestStep
  PROVE  Mapped
<1> USE DEF appVars, engineVars, recordVars, historyVars
<1>1. CASE Between
  BY <1>1, BetweenIsQuiet, QuietIsSame
<1>2. CASE HarvestSnapshot
  <2>1. /\ Held' = Held /\ Reported' = Reported /\ dropped' = dropped
    BY <1>2 DEF HarvestSnapshot, Held, Reported, OfType, DataInv, SnapOnlyThen, Sending
  <2> QED BY <2>1 DEF Mapped, Same, Pending, Delivered, Discarded
<1>3. CASE CustomSnapshot
  <2>1. /\ Held' = Held /\ Reported' = Reported /\ dropped' = dropped
    BY <1>3 DEF CustomSnapshot, Held, Reported
  <2> QED BY <2>1 DEF Mapped, Same, Pending, Delivered, Discarded
<1>4. ASSUME NEW s \in Stages, SendRequest(s) PROVE Mapped
  <2>1. /\ Held' = Held /\ Reported' = Reported /\ dropped' = dropped
    BY <1>4 DEF SendRequest, Held, Reported
  <2> QED BY <2>1 DEF Mapped, Same, Pending, Delivered, Discarded
<1>5. ASSUME NEW s \in Stages, CompleteStage(s)
      PROVE  /\ dropped' = dropped
             /\ \A d \in GuardedEvents : d \in Held' <=> (d \in Held /\ ~(d \in snap /\ d[2] = s))
  <2>1. /\ engine' = engine /\ customEngine' = customEngine /\ dropped' = dropped
        /\ snap' = snap \ OfType(snap, IF s = "dimensional_metric_data" THEN {"metric_data"}
                                       ELSE {s} \cap EventTypes)
    BY <1>5 DEF CompleteStage
  <2>2. \A d \in GuardedEvents : d \in snap' <=> (d \in snap /\ d[2] # s)
    <3>1. CASE s = "dimensional_metric_data"
      BY <2>1, <3>1, EventMember DEF OfType
    <3>2. CASE s # "dimensional_metric_data"
      BY <2>1, <3>2, EventMember DEF OfType
    <3> QED BY <3>1, <3>2
  <2>3. \A d \in snap : d \notin engine /\ d \notin customEngine
    BY DEF DataInv, OnePlace
  <2> QED BY <2>1, <2>2, <2>3 DEF Held
<1>6. ASSUME NEW s \in Stages, SkipStage(s) PROVE Mapped
  <2>1. \A d \in snap : d[2] # s
    BY <1>6 DEF SkipStage, HasRequest, OfType
  <2>2. Reported' = Reported /\ CompleteStage(s)
    BY <1>6 DEF SkipStage, Reported
  <2> QED BY <2>1, <2>2, <1>5 DEF Mapped, Same, Pending, Delivered, Discarded
<1>7. ASSUME NEW s \in Stages, AnswerOk(s) PROVE Mapped
  <2> DEFINE A == payload \cap GuardedEvents
  <2>1. Reported' = Reported \cup payload /\ CompleteStage(s)
    BY <1>7, ReportedGrows DEF AnswerOk
  <2>2. \A r : Current(r) => r = s
    BY <1>7, CurrentIsFirst DEF AnswerOk, TypeOK
  <2>3. \A d \in GuardedEvents : d \in payload <=> (d \in snap /\ d[2] = s)
    BY <1>7, <2>2, EventMember DEF AnswerOk, DataInv, PayloadInSnap, PayloadIsAll
  <2>4. ReportedNow(A) /\ A \in SUBSET Pending
    BY <2>1, <2>3, <1>5 DEF ReportedNow, Pending, Delivered, Discarded, Held
  <2> QED BY <2>4 DEF Mapped
<1>8. ASSUME NEW R \in SUBSET snap, engine' = engine \cup R, customEngine' = customEngine,
             snap' = {}, dropped' = dropped \cup (snap \ R), reported' = reported
      PROVE  Mapped
  <2>1. \A d \in snap : d \in Held /\ d \notin engine /\ d \notin customEngine
    BY DEF DataInv, OnePlace, Held
  <2>2. \A d : d \in Held' <=> (d \in Held /\ d \notin snap \ R)
    BY <1>8, <2>1 DEF Held
  <2>3. snap \ R \subseteq Held /\ Reported' = Reported
    BY <1>8, <2>1 DEF Reported
  <2> QED BY <1>8, <2>2, <2>3, LeavingIsDropped
<1>9. CASE Rollback
  <2> DEFINE kept == OfType(snap, RollbackTypes)
  <2>1. /\ kept \in SUBSET snap /\ engine' = engine \cup kept
        /\ dropped' = dropped \cup (snap \ kept)
    BY <1>9 DEF Rollback, OfType
  <2>2. customEngine' = customEngine /\ snap' = {} /\ reported' = reported
    BY <1>9 DEF Rollback, LeaveHarvest
  <2> HIDE DEF kept
  <2> QED BY <2>1, <2>2, <1>8
<1>r. CASE AnswerRetry
  <2>1. /\ Held' = Held /\ Reported' = Reported /\ dropped' = dropped
    BY <1>r DEF AnswerRetry, Held, Reported
  <2> QED BY <2>1 DEF Mapped, Same, Pending, Delivered, Discarded
<1>10. ASSUME LeaveHarvest, dropped' = dropped \cup snap, UNCHANGED <<engineVars, reported>>
       PROVE  Mapped
  <2> DEFINE R == {}
  <2>1. /\ R \in SUBSET snap /\ engine' = engine \cup R /\ customEngine' = customEngine
        /\ snap' = {} /\ dropped' = dropped \cup (snap \ R) /\ reported' = reported
    BY <1>10 DEF LeaveHarvest
  <2> HIDE DEF R
  <2> QED BY <2>1, <1>8
<1>11. CASE AnswerDiscard
  BY <1>10, <1>11 DEF AnswerDiscard
<1>12. ASSUME NEW c \in {"restart", "disconnect"}, AnswerShutdown(c) PROVE Mapped
  BY <1>10, <1>12 DEF AnswerShutdown
<1>13. CASE FinishHarvest
  <2>1. \A d \in GuardedEvents : d \notin snap
    BY <1>13, EventMember DEF FinishHarvest, DataInv, SnapToGo, ReportedIsOut, Held, Sending
  <2>2. /\ engine' = engine /\ customEngine' = customEngine /\ snap' = {}
        /\ dropped' = dropped /\ Reported' = Reported
    BY <1>13 DEF FinishHarvest, LeaveHarvest, Reported
  <2> QED BY <2>1, <2>2 DEF Mapped, Same, Pending, Delivered, Discarded, Held
<1> QED BY <1>1, <1>2, <1>3, <1>4, <1>6, <1>7, <1>9, <1>r, <1>11, <1>12, <1>13
        DEF HarvestStep, Between

\* Every step of the agent has one of the shapes Mapped lists.
LEMMA StepIsMapped ==
  ASSUME TypeOK, DataInv, [Next]_vars
  PROVE  Mapped
<1>1. CASE \E c \in Runs : Connect(c)
  BY <1>1, ConnectImplements
<1>2. CASE Record
  BY <1>2, RecordEnters, QuietIsSame, EntersIsAccepted
<1>3. CASE HarvestStep
  BY <1>3, HarvestImplements
<1>4. CASE RequestShutdown \/ UNCHANGED vars
  BY <1>4 DEF RequestShutdown, vars, engineVars, harvestVars, historyVars, Mapped, Same,
              Pending, Delivered, Discarded, Held, Reported
<1> QED BY <1>1, <1>2, <1>3, <1>4 DEF Next

\* Every shape Mapped lists is an abstract step, or a stutter.
LEMMA MappedIsDelivery == Mapped => [D!Next]_(D!vars)
<1> USE DEF Pending, Delivered, Discarded
<1>1. Same => UNCHANGED D!vars
  BY DEF Same, D!vars
<1>2. ASSUME NEW S \in SUBSET GuardedEvents, Accepted(S) PROVE D!Next
  BY <1>2 DEF Accepted, D!Next, D!Accept
<1>3. ASSUME NEW S \in SUBSET Pending, ReportedNow(S) PROVE D!Next
  BY <1>3 DEF ReportedNow, D!Next, D!Report
<1>4. ASSUME NEW S \in SUBSET Pending, DroppedNow(S) PROVE D!Next
  BY <1>4 DEF DroppedNow, D!Next, D!Drop
<1> QED BY <1>1, <1>2, <1>3, <1>4 DEF Mapped

\* Application implements Delivery: an event recorded under the engines' locks is
\* taken in once and leaves the agent once.
THEOREM ImplementsDelivery == Spec => DeliveryImplemented
<1>1. Init => D!Init
  BY DEF Init, D!Init, Held, Reported
<1>2. TypeOK /\ DataInv /\ [Next]_vars => [D!Next]_(D!vars)
  BY StepIsMapped, MappedIsDelivery
<1> QED BY <1>1, <1>2, TypesHold, DataAccounted, PTL DEF Spec, DeliveryImplemented, D!Spec

-----------------------------------------------------------------------------
(***************************************************************************)
(* The calls of harvest are those of HarvestCalls.                         *)
(***************************************************************************)
AtIdle == harvest \in {"unstarted", "idle"}

\* Nothing is called, and nothing returns.
LEMMA NoCall ==
  ASSUME UNCHANGED <<shutdownRequested, finals>>,
         \/ AtIdle /\ AtIdle'
         \/ harvest \in Busy /\ harvest' \in Busy /\ mode' = mode
         \/ harvest = "stopped" /\ harvest' = "stopped"
  PROVE  UNCHANGED H!vars
BY DEF H!vars, AtIdle, Busy

\* A harvest returns.
LEMMA Returns ==
  ASSUME TypeOK, UNCHANGED <<shutdownRequested, finals>>, harvest \in Busy, harvest' = "idle"
  PROVE  H!Next
BY DEF H!Next, H!Return, Busy, TypeOK

\* Connecting and recording are not seen by the thread that harvests.
LEMMA OthersDoNotCall ==
  ASSUME TypeOK, Record \/ \E c \in Runs : Connect(c)
  PROVE  UNCHANGED H!vars
<1>1. CASE Record
  <2>1. UNCHANGED <<shutdownRequested, finals, harvest, mode>>
    BY <1>1 DEF Record, StartTransaction, RecordTransaction, CreateWorkarea, MergeTransaction,
       PassSessionTest, LookUpDataSet, AddToDataSet, RecordCustomMetric, RecordDimensionalMetric, NothingButRecording, harvestVars
  <2> QED BY <2>1, NoCall DEF TypeOK, AtIdle, Busy
<1>2. ASSUME NEW c \in Runs, Connect(c) PROVE UNCHANGED H!vars
  <2>1. /\ UNCHANGED <<shutdownRequested, finals, mode>>
        /\ UNCHANGED harvest \/ (harvest = "unstarted" /\ harvest' = "idle")
    BY <1>2 DEF Connect, ConnectCheck, ConnectCreate, ConnectReset, ConnectResetCustom, ConnectPublish,
       ConnectActivate, harvestVars
  <2> QED BY <2>1, NoCall DEF TypeOK, AtIdle, Busy
<1> QED BY <1>1, <1>2

\* The harvest thread is called as HarvestCalls has it.
LEMMA HarvestIsCalled == TypeOK /\ HarvestStep => [H!Next]_(H!vars)
<1> SUFFICES ASSUME TypeOK, HarvestStep PROVE [H!Next]_(H!vars)
  OBVIOUS
<1> USE DEF Busy
<1>1. CASE HarvestNothing
  <2>1. PICK call \in H!Calls : finals' = call[2]
    BY <1>1 DEF HarvestNothing, Calls
  <2>2. harvest = "idle" /\ harvest' = "idle" /\ shutdownRequested' = shutdownRequested
    BY <1>1 DEF HarvestNothing
  <2> QED BY <2>1, <2>2 DEF H!Next, H!Call
<1>2. CASE HarvestSnapshot
  <2>1. PICK call \in H!Calls : finals' = call[2] /\ mode' = call[1] /\ harvest' \in Busy
    BY <1>2 DEF HarvestSnapshot, Calls
  <2>2. harvest = "idle" /\ shutdownRequested' = shutdownRequested
    BY <1>2 DEF HarvestSnapshot
  <2> QED BY <2>1, <2>2 DEF H!Next, H!Call
<1>3. CASE CustomSnapshot
  BY <1>3, NoCall DEF CustomSnapshot
<1>4. ASSUME NEW s \in Stages, SendRequest(s) \/ SkipStage(s) \/ AnswerOk(s) PROVE UNCHANGED H!vars
  BY <1>4, NoCall DEF SendRequest, SkipStage, AnswerOk, CompleteStage
<1>r. CASE AnswerRetry
  BY <1>r, NoCall DEF AnswerRetry
<1>5. CASE Rollback \/ AnswerDiscard
  BY <1>5, Returns DEF Rollback, AnswerDiscard
<1>6. ASSUME NEW c \in {"restart", "disconnect"}, AnswerShutdown(c) PROVE UNCHANGED H!vars
  BY <1>6, NoCall DEF AnswerShutdown, LeaveHarvest
<1>7. CASE FinishHarvest
  BY <1>7, Returns, NoCall DEF FinishHarvest, LeaveHarvest
<1>8. ASSUME NEW a \in {"restart", "disconnect", "other"}, ShutdownFails(a) PROVE [H!Next]_(H!vars)
  BY <1>8, Returns, NoCall DEF ShutdownFails
<1>9. CASE ShutdownSession
  BY <1>9, Returns DEF ShutdownSession
<1>10. CASE HarvestThreadEnds
  BY <1>10 DEF HarvestThreadEnds, H!Next, H!End
<1> QED BY <1>1, <1>2, <1>3, <1>4, <1>r, <1>5, <1>6, <1>7, <1>8, <1>9, <1>10 DEF HarvestStep

\* Application implements HarvestCalls: whatever becomes of a harvest, retries,
\* failed shutdowns of the session and restarts included, the thread comes back
\* for the next call and does not end before the final ones.
THEOREM AnswersCalls == Spec => CallsAnswered
<1>1. Init => H!Init
  BY DEF Init, H!Init
<1>2. TypeOK /\ [Next]_vars => [H!Next]_(H!vars)
  <2> SUFFICES ASSUME TypeOK, [Next]_vars PROVE [H!Next]_(H!vars)
    OBVIOUS
  <2>1. CASE Record \/ \E c \in Runs : Connect(c)
    BY <2>1, OthersDoNotCall
  <2>2. CASE HarvestStep
    BY <2>2, HarvestIsCalled
  <2>3. CASE RequestShutdown
    BY <2>3 DEF RequestShutdown, harvestVars, H!Next, H!Request
  <2>4. CASE UNCHANGED vars
    BY <2>4 DEF vars, harvestVars, H!vars
  <2> QED BY <2>1, <2>2, <2>3, <2>4 DEF Next
<1> QED BY <1>1, <1>2, TypesHold, PTL DEF Spec, CallsAnswered, H!Spec
=============================================================================
