--------------------------- MODULE ApplicationLosses ---------------------------
(***************************************************************************)
(* How far the data that no lock guards may go astray: what vanishes, what *)
(* comes back after the collector has acknowledged it, and what is         *)
(* reported to another run, proved for all constants of Application.       *)
(***************************************************************************)
EXTENDS ApplicationProofs

-----------------------------------------------------------------------------
Dimensional == "dimensional_metric_data"

\* The engines and the snapshot hold what transactions, custom metrics and direct
\* events contribute, dimensional metrics excepted.
HeldKinds == \A d \in Held : d[2] # Dimensional /\ d[1] \notin DimensionalMetrics

\* What is being sent, or was, comes from operations that got so far.
SentIsDone ==
  /\ \A d \in Reported \cup payload : d[2] # Dimensional => op[d[1]] = "done"
  /\ \A d \in Reported \cup payload \cup dims \cup dimPayload : op[d[1]] \in {"merging", "done", "discarded"}

\* A request carries data of its stage.
PayloadOfStage ==
  /\ harvest = "waiting" =>
       /\ \A d \in payload : d[2] = Dimensional \/ (d \in snap /\ Current(d[2]))
       /\ Current(Dimensional) => payload = dimPayload
  /\ harvest # "waiting" => payload = {}
  /\ harvest \notin Sending => dimPayload = {}

\* A direct event in the snapshot, or still to be added to it, has its stage to come.
DirectToGo ==
  /\ \A d \in snap : d[1] \in DirectEvents => d[2] \in todo
  /\ \A e \in DirectEvents : slot[e] = "snapshot" => TypesOf[e] \subseteq todo
  /\ \A e \in DirectEvents : op[e] = "adding" => slot[e] # "none"

\* The stages to come are the last ones of the harvest, a flexible harvest has no
\* metrics, and what is rolled back is of a period that is still open.
StagesInOrder ==
  harvest \in Sending =>
    /\ \A s \in todo, r \in StagesOf(mode) \ todo : SendOrder[r] < SendOrder[s]
    /\ todo \subseteq StagesOf(mode)
    /\ harvest = "custom_snapshot" => ~Flexible
    /\ Flexible => \A d \in snap : d[2] # "metric_data"
    /\ harvest = "rolling" => PeriodOpen

LossInv == HeldKinds /\ SentIsDone /\ PayloadOfStage /\ DirectToGo /\ StagesInOrder

\* Runs come one after the other: the engine has the settings of the latest, and a
\* transaction is reported to none before its own.
RunsInOrder ==
  /\ engineRun # NoRun => connect[engineRun] # "none"
  /\ \A t \in Transactions : txRun[t] <= engineRun
  /\ \A r \in reported : r[2] <= engineRun /\ (r[1][1] \in Transactions => txRun[r[1][1]] <= r[2])

-----------------------------------------------------------------------------
(***************************************************************************)
(* LossInv is inductive.                                                   *)
(***************************************************************************)

\* What the kinds of operations record.
LEMMA Kinds ==
  /\ \A d \in Data : d[1] \in DirectEvents => d[2] \in EventTypes
  /\ \A d \in Data : d[1] \in CustomMetrics => d[2] = "metric_data"
  /\ \A d \in Data : d[1] \in DimensionalMetrics => d[2] = Dimensional
  /\ Dimensional \notin EventTypes /\ "metric_data" \notin EventTypes
  /\ \A o \in DimensionalMetrics : o \notin Transactions \cup DirectEvents \cup CustomMetrics
  /\ \A o \in DirectEvents : o \notin Transactions \cup CustomMetrics
  /\ \A o \in CustomMetrics : o \notin Transactions
BY DataMember, StagesEnumerated, ConstantsAssumption DEF Dimensional

\* At the start nothing is held, sent or under way.
LEMMA LossInitially == Init => LossInv
<1> SUFFICES ASSUME Init PROVE LossInv
  OBVIOUS
<1>1. /\ Held = {} /\ Reported = {} /\ payload = {} /\ dims = {} /\ dimPayload = {} /\ snap = {}
      /\ harvest \notin Sending
      /\ \A e \in DirectEvents : slot[e] = "none" /\ op[e] = "new"
  BY DEF Init, Held, Reported, Sending, Ops
<1> QED BY <1>1 DEF LossInv, HeldKinds, SentIsDone, PayloadOfStage, DirectToGo, StagesInOrder, Sending

\* A step that only takes data out of the engines, outside the snapshot.
Undisturbed ==
  /\ UNCHANGED <<snap, todo, payload, dimPayload, reported, op>>
  /\ engine' \subseteq engine /\ customEngine' \subseteq customEngine /\ dims' \subseteq dims
  /\ \A e \in DirectEvents : slot'[e] \in {slot[e], "gone"}
  /\ UNCHANGED <<harvest, mode>> \/ (harvest \notin Sending /\ harvest' \notin Sending)

\* Such a step keeps LossInv.
LEMMA UndisturbedKeepsLoss ==
  ASSUME LossInv, Undisturbed
  PROVE  LossInv'
<1> USE DEF LossInv, Undisturbed
<1>1. Held' \subseteq Held /\ Reported' = Reported
  BY DEF Held, Reported
<1>2. HeldKinds' /\ SentIsDone'
  BY <1>1 DEF HeldKinds, SentIsDone
<1>3. PayloadOfStage'
  BY DEF PayloadOfStage, Current, Sending
<1>4. DirectToGo'
  BY DEF DirectToGo
<1>5. StagesInOrder'
  BY DEF StagesInOrder, Sending, StagesOf, Flexible, PeriodOpen
<1> QED BY <1>2, <1>3, <1>4, <1>5

\* The steps of connect_to_data_collector and of the harvest thread between
\* harvests are such steps, and so are a request to shut down and a stutter.
LEMMA OthersAreUndisturbed ==
  ASSUME TypeOK, \/ \E c \in Runs : Connect(c)
                 \/ Between \/ RequestShutdown \/ UNCHANGED vars
  PROVE  Undisturbed
<1> USE DEF appVars, engineVars, harvestVars, recordVars, historyVars, Sending
<1>1. ASSUME NEW c \in Runs, Connect(c) PROVE Undisturbed
  <2>1. CASE ConnectReset(c)
    <3>1. \A e \in DirectEvents : slot'[e] \in {slot[e], "gone"}
      BY <2>1 DEF ConnectReset, Redirect, TypeOK
    <3> QED BY <2>1, <3>1 DEF ConnectReset, Undisturbed
  <2>2. CASE ConnectCheck(c) \/ ConnectCreate(c) \/ ConnectPublish(c) \/ ConnectActivate(c)
    BY <2>2 DEF ConnectCheck, ConnectCreate, ConnectPublish, ConnectActivate, Undisturbed
  <2>3. CASE ConnectResetCustom(c)
    BY <2>3 DEF ConnectResetCustom, Undisturbed
  <2> QED BY <1>1, <2>1, <2>2, <2>3 DEF Connect
<1>2. CASE Between
  BY <1>2 DEF Between, HarvestNothing, ShutdownSession, HarvestThreadEnds, ShutdownFails, Undisturbed
<1>3. CASE RequestShutdown \/ UNCHANGED vars
  BY <1>3 DEF RequestShutdown, vars, Undisturbed
<1> QED BY <1>1, <1>2, <1>3

\* What a step of a recording thread does, in the terms of LossInv.
Recording ==
  /\ UNCHANGED <<harvest, mode, todo, payload, dimPayload, reported>>
  /\ \A o \in Ops : /\ op[o] = "done" => op'[o] = "done"
                    /\ op[o] = "merging" => op'[o] \in {"merging", "done"}
                    /\ op[o] = "discarded" => op'[o] = "discarded"
  /\ \A d \in dims' \ dims : d \in Data /\ op'[d[1]] \in {"merging", "done", "discarded"}
  /\ harvest # "rolling" => \A d \in snap : d \in snap'
  /\ \A d \in snap' \ snap : d[1] \in DirectEvents /\ d[2] \in EventTypes \cap todo
  /\ \A d \in Held' \ Held : d[2] # Dimensional /\ d[1] \notin DimensionalMetrics
  /\ \A e \in DirectEvents : /\ slot'[e] = "snapshot" => slot[e] = "snapshot"
                             /\ op'[e] = "adding" => slot'[e] # "none"

\* The steps of the recording threads are such steps.
LEMMA RecordIsRecording ==
  ASSUME TypeOK, LossInv, Record
  PROVE  Recording
<1> USE Kinds DEF OpMove, NothingButRecording, Ops, TypeOK, LossInv, DirectToGo, harvestVars
<1>1. ASSUME NEW t \in Transactions, StartTransaction(t) PROVE Recording
  BY <1>1 DEF StartTransaction, Recording, engineVars, Held
<1>2. ASSUME NEW t \in Transactions, RecordTransaction(t) PROVE Recording
  BY <1>2 DEF RecordTransaction, Recording, engineVars, Held
<1>w. ASSUME NEW t \in Transactions, CreateWorkarea(t) PROVE Recording
  <2>1. \A d \in dims' \ dims : d \in Data /\ op'[d[1]] \in {"merging", "done", "discarded"}
    BY <1>w, DataOfMember DEF CreateWorkarea, OfType
  <2> QED BY <1>w, <2>1 DEF CreateWorkarea, Recording, Held
<1>3. ASSUME NEW t \in Transactions, MergeTransaction(t) PROVE Recording
  <2>1. PICK lost \in SUBSET Overwritable(t) :
          /\ engine' = engine \cup
                        (OfType(DataOf(t), DataTypes \ {"dimensional_metric_data"}) \ lost)
          /\ snap' = snap \ lost
    BY <1>3 DEF MergeTransaction
  <2>2. \A d \in Held' \ Held : d[2] # Dimensional /\ d[1] \notin DimensionalMetrics
    BY <1>3, <2>1, DataOfMember DEF MergeTransaction, OfType, Held, Dimensional
  <2>3. snap' \subseteq snap /\ (harvest # "rolling" => snap' = snap)
    BY <2>1 DEF Overwritable
  <2>4. \A o \in Ops : op'[o] = IF o = t THEN "done" ELSE op[o]
    BY <1>3 DEF MergeTransaction
  <2>5. op[t] = "merging" /\ t \notin DirectEvents /\ slot' = slot /\ dims' = dims
    BY <1>3 DEF MergeTransaction
  <2>6. UNCHANGED <<harvest, mode, todo, payload, dimPayload, reported>>
    BY <1>3 DEF MergeTransaction, historyVars
  <2> QED BY <2>2, <2>3, <2>4, <2>5, <2>6 DEF Recording
<1>4. ASSUME NEW o \in Ops \ Transactions, PassSessionTest(o) PROVE Recording
  BY <1>4 DEF PassSessionTest, Recording, engineVars, Held
<1>5. ASSUME NEW e \in DirectEvents, LookUpDataSet(e) PROVE Recording
  BY <1>5 DEF LookUpDataSet, Recording, engineVars, Held
<1>6. ASSUME NEW e \in DirectEvents, AddToDataSet(e) PROVE Recording
  <2>1. \A d \in DataOf(e) : d[1] = e /\ d[2] \in EventTypes /\ d[2] \in TypesOf[e]
    BY DataOfMember
  <2>2. \A d \in snap' \ snap : d[1] \in DirectEvents /\ d[2] \in EventTypes \cap todo
    BY <1>6, <2>1 DEF AddToDataSet
  <2>3. \A d \in Held' \ Held : d[2] # Dimensional /\ d[1] \notin DimensionalMetrics
    BY <1>6, <2>1 DEF AddToDataSet, Held
  <2>4. \A f \in DirectEvents : /\ slot'[f] = "snapshot" => slot[f] = "snapshot"
                               /\ op'[f] = "adding" => slot'[f] # "none"
    BY <1>6 DEF AddToDataSet
  <2> QED BY <1>6, <2>2, <2>3, <2>4 DEF AddToDataSet, Recording, historyVars
<1>7. ASSUME NEW m \in CustomMetrics, RecordCustomMetric(m) PROVE Recording
  <2>1. \A d \in Held' \ Held : d[2] # Dimensional /\ d[1] \notin DimensionalMetrics
    BY <1>7, DataOfMember DEF RecordCustomMetric, Held, Dimensional
  <2> QED BY <1>7, <2>1 DEF RecordCustomMetric, Recording
<1>8. ASSUME NEW d \in DimensionalMetrics, RecordDimensionalMetric(d) PROVE Recording
  <2>1. \A x \in dims' \ dims : x \in Data /\ op'[x[1]] \in {"merging", "done"}
    BY <1>8, DataOfMember DEF RecordDimensionalMetric
  <2> QED BY <1>8, <2>1 DEF RecordDimensionalMetric, Recording, Held
<1> QED BY <1>1, <1>2, <1>w, <1>3, <1>4, <1>5, <1>6, <1>7, <1>8 DEF Record

\* Recording keeps LossInv.
LEMMA RecordingKeepsLoss ==
  ASSUME TypeOK, LossInv, Recording
  PROVE  LossInv'
<1> USE DEF LossInv, Recording
<1>1. HeldKinds'
  BY DEF HeldKinds
<1>2. SentIsDone'
  <2>1. Reported' = Reported /\ \A d \in Reported : d \in Data
    BY DEF Reported, TypeOK
  <2> QED BY <2>1, DataMember DEF SentIsDone, TypeOK
<1>3. PayloadOfStage'
  BY DEF PayloadOfStage, Current
<1>4. DirectToGo'
  BY DEF DirectToGo
<1>5. StagesInOrder'
  BY Kinds DEF StagesInOrder, StagesOf, Flexible, PeriodOpen
<1> QED BY <1>1, <1>2, <1>3, <1>4, <1>5

\* The snapshot takes no dimensional metrics, and no metrics for a flexible harvest.
LEMMA SnapshotKeepsLoss ==
  ASSUME TypeOK, DataInv, LossInv, HarvestSnapshot
  PROVE  LossInv'
<1> PICK call \in Calls :
      LET taken == SnapshotTypes(call[1] = "flexible")
      IN  /\ mode' = call[1]
          /\ snap' = OfType(engine, taken)
          /\ engine' = engine \ OfType(engine, taken)
          /\ slot' = Redirect("engine", "snapshot", taken)
          /\ todo' = StagesOf(call[1])
          /\ harvest' = IF call[1] = "flexible" THEN "sending" ELSE "custom_snapshot"
  BY DEF HarvestSnapshot
<1>1. /\ UNCHANGED <<customEngine, dims, payload, dimPayload, op, reported>>
      /\ snap = {} /\ harvest = "idle" /\ harvest' \in {"sending", "custom_snapshot"}
  BY DEF HarvestSnapshot, historyVars, DataInv, SnapOnlyThen, Sending
<1>2. Held' = Held /\ Reported' = Reported
  BY <1>1 DEF Held, Reported, OfType
<1>3. HeldKinds' /\ SentIsDone'
  BY <1>1, <1>2 DEF LossInv, HeldKinds, SentIsDone
<1>4. PayloadOfStage'
  BY <1>1 DEF LossInv, PayloadOfStage, Sending
<1>5. EventTypes \subseteq todo'
  BY DEF StagesOf
<1>6. \A d \in snap' : d \in engine /\ d \in Data
  BY DEF OfType, TypeOK
<1>7. \A e \in DirectEvents : slot'[e] = "none" => slot[e] = "none"
  BY DEF Redirect, TypeOK
<1>8. DirectToGo'
  BY <1>1, <1>5, <1>6, <1>7, Kinds, ConstantsAssumption DEF LossInv, DirectToGo
<1>9. Flexible' => \A d \in snap' : d[2] # "metric_data"
  BY Kinds DEF Flexible, OfType, SnapshotTypes, FlexibleTypes
<1>10. StagesInOrder'
  BY <1>9 DEF StagesInOrder, Flexible
<1> QED BY <1>3, <1>4, <1>8, <1>10 DEF LossInv

\* The custom metrics join the snapshot of a harvest that sends metrics.
LEMMA CustomSnapshotKeepsLoss ==
  ASSUME TypeOK, DataInv, LossInv, CustomSnapshot
  PROVE  LossInv'
<1>1. /\ snap' = snap \cup customEngine /\ customEngine' = {} /\ harvest = "custom_snapshot"
      /\ harvest' = "sending"
      /\ UNCHANGED <<engine, dims, todo, payload, dimPayload, op, slot, reported, mode>>
  BY DEF CustomSnapshot, recordVars, historyVars
<1>2. Held' = Held /\ Reported' = Reported
  BY <1>1 DEF Held, Reported
<1>3. HeldKinds' /\ SentIsDone'
  BY <1>1, <1>2 DEF LossInv, HeldKinds, SentIsDone
<1>4. PayloadOfStage'
  BY <1>1 DEF LossInv, PayloadOfStage, Sending
<1>5. DirectToGo'
  BY <1>1, Kinds DEF LossInv, DirectToGo, DataInv, CustomIsOwn
<1>6. StagesInOrder'
  BY <1>1 DEF LossInv, StagesInOrder, Sending, StagesOf, Flexible
<1> QED BY <1>3, <1>4, <1>5, <1>6 DEF LossInv

\* A request carries data of the first stage to come.
LEMMA SendKeepsLoss ==
  ASSUME TypeOK, DataInv, LossInv, NEW s \in Stages, SendRequest(s)
  PROVE  LossInv'
<1>1. /\ UNCHANGED <<engine, customEngine, snap, dims, todo, op, slot, reported, mode>>
      /\ harvest = "sending" /\ harvest' = "waiting" /\ Current(s) /\ s \in todo
      /\ payload' = IF s = Dimensional THEN dimPayload ELSE OfType(snap, {s})
      /\ dimPayload' = IF s = "metric_data" THEN dims ELSE dimPayload
  BY DEF SendRequest, engineVars, recordVars, historyVars, Dimensional, Current
<1>2. Held' = Held /\ Reported' = Reported
  BY <1>1 DEF Held, Reported
<1>3. HeldKinds'
  BY <1>1, <1>2 DEF LossInv, HeldKinds
<1>4. SentIsDone'
  <2>1. \A d \in payload' : d[2] # Dimensional => d \in Held
    BY <1>1 DEF DataInv, DimsAreDims, OfType, Held, Dimensional
  <2>2. \A d \in payload' : d \in dimPayload \/ d \in Held
    BY <1>1 DEF OfType, Held
  <2>3. \A d \in dimPayload' : d \in dims \/ d \in dimPayload
    BY <1>1
  <2> QED BY <1>1, <1>2, <2>1, <2>2, <2>3 DEF LossInv, SentIsDone, DataInv, HeldIsDone
<1>5. PayloadOfStage'
  <2>1. \A d \in payload' : d[2] = Dimensional \/ (d \in snap /\ d[2] = s)
    BY <1>1 DEF DataInv, DimsAreDims, OfType, Dimensional
  <2>2. Current(Dimensional) => payload' = dimPayload'
    BY <1>1, CurrentIsFirst DEF TypeOK, Dimensional
  <2> QED BY <1>1, <2>1, <2>2 DEF PayloadOfStage, Sending, Current
<1>6. DirectToGo'
  BY <1>1 DEF LossInv, DirectToGo
<1>7. StagesInOrder'
  BY <1>1 DEF LossInv, StagesInOrder, Sending, StagesOf, Flexible
<1> QED BY <1>3, <1>4, <1>5, <1>6, <1>7 DEF LossInv

\* What the end of stage s takes out of the snapshot.
LEMMA CompleteStageEffect ==
  ASSUME NEW s \in Stages, CompleteStage(s)
  PROVE  /\ UNCHANGED <<engineRun, engine, customEngine, dimPayload, op, txRun, mode, dropped>>
         /\ todo' = todo \ {s} /\ harvest' = "sending" /\ payload' = {}
         /\ snap' \subseteq snap /\ dims' = IF s = Dimensional THEN {} ELSE dims
         /\ \A d \in snap : d[2] = s /\ s \in EventTypes => d \notin snap'
         /\ \A d \in snap \ snap' : \/ d[2] = s /\ s \in EventTypes
                                    \/ s = Dimensional /\ d[2] = "metric_data"
         /\ \A e \in DirectEvents : slot'[e] = IF slot[e] = "snapshot" /\ TypesOf[e] \cap {s} # {}
                                               THEN "gone" ELSE slot[e]
<1>1. /\ UNCHANGED <<engineRun, engine, customEngine, dimPayload, op, txRun, mode, dropped>>
      /\ todo' = todo \ {s} /\ harvest' = "sending" /\ payload' = {}
      /\ dims' = IF s = Dimensional THEN {} ELSE dims
      /\ \A e \in DirectEvents : slot'[e] = IF slot[e] = "snapshot" /\ TypesOf[e] \cap {s} # {}
                                            THEN "gone" ELSE slot[e]
  BY DEF CompleteStage, Redirect, Dimensional
<1>2. CASE s = Dimensional
  BY <1>1, <1>2, Kinds DEF CompleteStage, OfType, Dimensional
<1>3. CASE s # Dimensional
  BY <1>1, <1>3 DEF CompleteStage, OfType, Dimensional
<1> QED BY <1>1, <1>2, <1>3

\* The end of a stage, with or without a request, keeps LossInv.
LEMMA CompleteStageKeepsLoss ==
  ASSUME TypeOK, LossInv, NEW s \in Stages, CompleteStage(s), Current(s), harvest \in {"sending", "waiting"},
         NEW P, Reported' = Reported \cup P, P \subseteq payload
  PROVE  LossInv'
<1> USE CompleteStageEffect
<1>1. Held' \subseteq Held
  BY DEF Held
<1>2. HeldKinds' /\ SentIsDone'
  BY <1>1 DEF LossInv, HeldKinds, SentIsDone
<1>3. PayloadOfStage'
  BY DEF PayloadOfStage, Sending
<1>4. DirectToGo'
  <2>1. \A d \in snap' : d[1] \in DirectEvents => d[2] \in todo'
    BY Kinds DEF LossInv, DirectToGo, TypeOK
  <2>2. \A e \in DirectEvents : slot'[e] = "snapshot" => TypesOf[e] \subseteq todo'
    BY DEF LossInv, DirectToGo
  <2>3. \A e \in DirectEvents : op'[e] = "adding" => slot'[e] # "none"
    BY DEF LossInv, DirectToGo
  <2> QED BY <2>1, <2>2, <2>3 DEF DirectToGo
<1>5. StagesInOrder'
  <2>1. /\ \A t \in todo, r \in StagesOf(mode) \ todo : SendOrder[r] < SendOrder[t]
        /\ todo \subseteq StagesOf(mode) /\ (Flexible => \A d \in snap : d[2] # "metric_data")
    BY DEF LossInv, StagesInOrder, Sending
  <2>2. \A t \in todo : t # s => SendOrder[s] < SendOrder[t]
    <3>1. \A x, y \in Stages : /\ SendOrder[x] \in Nat
                               /\ SendOrder[x] <= SendOrder[y] /\ x # y => SendOrder[x] < SendOrder[y]
      BY StagesEnumerated DEF SendOrder
    <3> QED BY <3>1 DEF Current, TypeOK
  <2>3. \A t \in todo', r \in StagesOf(mode) \ todo' : SendOrder[r] < SendOrder[t]
    BY <2>1, <2>2
  <2> QED BY <2>1, <2>3 DEF StagesInOrder, StagesOf, Flexible
<1> QED BY <1>2, <1>3, <1>4, <1>5 DEF LossInv

\* Leaving a harvest keeps LossInv: its data are gone, or back in the engine.
LEMMA LeaveKeepsLoss ==
  ASSUME TypeOK, LossInv, LeaveHarvest, engine' \subseteq engine \cup snap, harvest' \notin Sending,
         UNCHANGED <<customEngine, dims, op, reported>>
  PROVE  LossInv'
<1>1. snap' = {} /\ payload' = {} /\ dimPayload' = {} /\ todo' = {}
  BY DEF LeaveHarvest
<1>2. Held' \subseteq Held /\ Reported' = Reported
  BY <1>1 DEF Held, Reported
<1>3. HeldKinds' /\ SentIsDone'
  BY <1>1, <1>2 DEF LossInv, HeldKinds, SentIsDone
<1>4. PayloadOfStage' /\ StagesInOrder'
  BY <1>1 DEF PayloadOfStage, StagesInOrder, Sending
<1>5. DirectToGo'
  <2>1. \A e \in DirectEvents : /\ slot'[e] \in {slot[e], "gone"}
                                /\ slot'[e] = "snapshot" => TypesOf[e] = {}
    BY ConstantsAssumption DEF LeaveHarvest, Redirect, TypeOK
  <2> QED BY <1>1, <2>1 DEF LossInv, DirectToGo
<1> QED BY <1>3, <1>4, <1>5 DEF LossInv

\* A request to retry leaves the data where they are and forgets the payload.
LEMMA RetryKeepsLoss ==
  ASSUME LossInv, AnswerRetry
  PROVE  LossInv'
<1>1. /\ UNCHANGED <<engine, customEngine, dims, snap, todo, dimPayload, op, slot, reported, mode>>
      /\ harvest = "waiting" /\ harvest' = "rolling" /\ payload' = {}
  BY DEF AnswerRetry, engineVars, recordVars, historyVars
<1>2. Held' = Held /\ Reported' = Reported
  BY <1>1 DEF Held, Reported
<1>3. HeldKinds' /\ SentIsDone' /\ PayloadOfStage' /\ DirectToGo'
  BY <1>1, <1>2 DEF LossInv, HeldKinds, SentIsDone, PayloadOfStage, DirectToGo, Sending
<1>4. StagesInOrder'
  BY <1>1 DEF AnswerRetry, LossInv, StagesInOrder, Sending, StagesOf, Flexible, PeriodOpen
<1> QED BY <1>3, <1>4 DEF LossInv

\* Every step of a harvest keeps LossInv.
LEMMA HarvestKeepsLoss ==
  ASSUME TypeOK, DataInv, LossInv, HarvestStep
  PROVE  LossInv'
<1> USE DEF engineVars, historyVars, Sending
<1>1. CASE Between
  BY <1>1, OthersAreUndisturbed, UndisturbedKeepsLoss
<1>2. ASSUME NEW s \in Stages, SkipStage(s) PROVE LossInv'
  <2> DEFINE P == {}
  <2>1. /\ CompleteStage(s) /\ Current(s) /\ harvest = "sending"
        /\ Reported' = Reported \cup P /\ P \subseteq payload
    BY <1>2 DEF SkipStage, Reported
  <2> HIDE DEF P
  <2> QED BY <2>1, CompleteStageKeepsLoss
<1>3. ASSUME NEW s \in Stages, AnswerOk(s) PROVE LossInv'
  BY <1>3, ReportedGrows, CompleteStageKeepsLoss DEF AnswerOk
<1>r. CASE AnswerRetry
  BY <1>r, RetryKeepsLoss
<1>4. CASE Rollback
  BY <1>4, LeaveKeepsLoss DEF Rollback, OfType
<1>5. CASE AnswerDiscard \/ FinishHarvest
  BY <1>5, LeaveKeepsLoss DEF AnswerDiscard, FinishHarvest
<1>6. ASSUME NEW c \in {"restart", "disconnect"}, AnswerShutdown(c) PROVE LossInv'
  BY <1>6, LeaveKeepsLoss DEF AnswerShutdown
<1> QED BY <1>1, <1>2, <1>3, <1>r, <1>4, <1>5, <1>6, SnapshotKeepsLoss, CustomSnapshotKeepsLoss,
           SendKeepsLoss DEF HarvestStep, Between

\* Every step of the specification keeps LossInv.
LEMMA LossStep == TypeOK /\ DataInv /\ LossInv /\ [Next]_vars => LossInv'
<1> SUFFICES ASSUME TypeOK, DataInv, LossInv, [Next]_vars PROVE LossInv'
  OBVIOUS
<1>1. CASE (\E c \in Runs : Connect(c)) \/ RequestShutdown \/ UNCHANGED vars
  BY <1>1, OthersAreUndisturbed, UndisturbedKeepsLoss
<1>2. CASE Record
  BY <1>2, RecordIsRecording, RecordingKeepsLoss
<1>3. CASE HarvestStep
  BY <1>3, HarvestKeepsLoss
<1> QED BY <1>1, <1>2, <1>3 DEF Next

\* What a harvest sends is of its stage and still to go, in every reachable state.
THEOREM LossesAccounted == Spec => []LossInv
<1>1. Init => LossInv
  BY LossInitially
<1>2. TypeOK /\ DataInv /\ LossInv /\ [Next]_vars => LossInv'
  BY LossStep
<1> QED BY <1>1, <1>2, TypesHold, DataAccounted, PTL DEF Spec

-----------------------------------------------------------------------------
(***************************************************************************)
(* What vanishes.                                                          *)
(***************************************************************************)

\* What a step may do to a datum, as LossesAreKnown has it.
Known(d) ==
  /\ d \in Kept => d \in Kept' \/ AddedInFlight(d) \/ OverwrittenInRollback(d)
  /\ d \in Recorded' \ Recorded /\ d[2] # Dimensional =>
       \/ d \in Kept'
       \/ OverwrittenInRollback(d)
       \/ d[1] \in DirectEvents /\ slot[d[1]] = "gone"

\* Data held are recorded directly, or guarded.
LEMMA HeldAreTwoKinds ==
  ASSUME TypeOK, LossInv, NEW d \in Held
  PROVE  d \in Data /\ (d[1] \in DirectEvents \/ d \in Guarded)
BY DataMember DEF Held, TypeOK, LossInv, HeldKinds, Guarded, Ops, Dimensional

\* A step that finishes no operation loses what the places of data lose.
LEMMA NoneFinished ==
  ASSUME op' = op, Reported \subseteq Reported', dropped \subseteq dropped',
         \A d \in Held : d \in Kept' \/ AddedInFlight(d)
  PROVE  \A d \in Data : Known(d)
BY DEF Known, Kept, Recorded

\* Connecting throws away what it takes out of the engines.
LEMMA ConnectLosesKnown ==
  ASSUME NEW c \in Runs, Connect(c)
  PROVE  \A d \in Data : Known(d)
<1> USE DEF appVars, engineVars, harvestVars, recordVars, historyVars
<1>1. /\ UNCHANGED <<op, reported, snap>>
      /\ dropped \subseteq dropped' /\ engine \subseteq engine' \cup dropped'
      /\ customEngine \subseteq customEngine' \cup dropped'
  BY DEF Connect, ConnectCheck, ConnectCreate, ConnectReset, ConnectResetCustom, ConnectPublish,
         ConnectActivate
<1>2. Reported' = Reported /\ Held \subseteq Kept'
  BY <1>1 DEF Reported, Held, Kept
<1> QED BY <1>1, <1>2, NoneFinished

\* A recorder that finishes has its data in an engine or in the snapshot, unless
\* the data set it holds is one that nobody will look at again, or a rollback is on.
LEMMA RecordLosesKnown ==
  ASSUME TypeOK, LossInv, Record
  PROVE  \A d \in Data : Known(d)
<1> USE Kinds DEF OpMove, NothingButRecording, harvestVars, historyVars, engineVars, Ops
<1>1. ASSUME NEW o \in Ops, \A p \in Ops : p # o => op'[p] = op[p],
             UNCHANGED <<reported, dropped>>, Held \subseteq Held',
             op'[o] = "done" => \A d \in DataOf(o) : \/ d \in Held' \/ d[2] = Dimensional
                                                     \/ o \in DirectEvents /\ slot[o] = "gone"
      PROVE  \A d \in Data : Known(d)
  <2> SUFFICES ASSUME NEW d \in Data PROVE Known(d)
    OBVIOUS
  <2>1. d[1] \in Ops /\ d \in DataOf(d[1])
    BY DataMember DEF Data, DataOf
  <2>2. Kept \subseteq Kept'
    BY <1>1 DEF Kept, Reported
  <2>3. ASSUME d \in Recorded' \ Recorded PROVE d[1] = o /\ op'[o] = "done"
    BY <2>1, <2>3, <1>1 DEF Recorded
  <2> QED BY <1>1, <2>1, <2>2, <2>3 DEF Known, Kept
<1>2. ASSUME NEW t \in Transactions, StartTransaction(t) \/ RecordTransaction(t) \/ CreateWorkarea(t)
      PROVE  \A d \in Data : Known(d)
  BY <1>1, <1>2 DEF StartTransaction, RecordTransaction, CreateWorkarea, Held, TypeOK
<1>3. ASSUME NEW t \in Transactions, MergeTransaction(t) PROVE \A d \in Data : Known(d)
  <2> DEFINE own == OfType(DataOf(t), DataTypes \ {"dimensional_metric_data"})
  <2>1. PICK lost \in SUBSET Overwritable(t) : engine' = engine \cup (own \ lost) /\ snap' = snap \ lost
    BY <1>3 DEF MergeTransaction
  <2>2. \A d \in lost : OverwrittenInRollback(d)
    BY <1>3, DataOfMember DEF MergeTransaction, Overwritable, OverwrittenInRollback, OfType, TypeOK
  <2>3. \A d \in Data : d[1] = t /\ d[2] # Dimensional => d \in own
    BY DataMember DEF OfType, DataOf, Data, Dimensional
  <2>4. /\ UNCHANGED <<customEngine, reported, dropped>>
        /\ \A d \in Recorded' \ Recorded : d \in Data /\ d[1] = t
    BY <1>3, DataMember DEF MergeTransaction, Recorded, TypeOK
  <2> HIDE DEF own
  <2>5. \A d \in Kept : d \in Kept' \/ d \in lost
    BY <2>1, <2>4 DEF Kept, Held, Reported
  <2>6. \A d \in Recorded' \ Recorded : d[2] # Dimensional => d \in Kept' \/ d \in lost
    BY <2>1, <2>3, <2>4 DEF Kept, Held
  <2> QED BY <2>2, <2>5, <2>6 DEF Known
<1>4. ASSUME NEW o \in Ops \ Transactions, PassSessionTest(o) PROVE \A d \in Data : Known(d)
  BY <1>1, <1>4 DEF PassSessionTest, Held, TypeOK
<1>5. ASSUME NEW e \in DirectEvents, LookUpDataSet(e) PROVE \A d \in Data : Known(d)
  BY <1>1, <1>5 DEF LookUpDataSet, Held, TypeOK
<1>6. ASSUME NEW e \in DirectEvents, AddToDataSet(e) PROVE \A d \in Data : Known(d)
  <2>1. slot[e] \in {"engine", "snapshot", "gone"}
    BY <1>6 DEF AddToDataSet, LossInv, DirectToGo, TypeOK
  <2>2. slot[e] # "gone" => DataOf(e) \subseteq Held'
    BY <1>6, <2>1 DEF AddToDataSet, Held
  <2> QED BY <1>1, <1>6, <2>2 DEF AddToDataSet, Held, TypeOK
<1>7. ASSUME NEW m \in CustomMetrics, RecordCustomMetric(m) PROVE \A d \in Data : Known(d)
  BY <1>1, <1>7 DEF RecordCustomMetric, Held, TypeOK
<1>8. ASSUME NEW d \in DimensionalMetrics, RecordDimensionalMetric(d) PROVE \A x \in Data : Known(x)
  <2>1. \A x \in DataOf(d) : x[2] = Dimensional
    BY DataOfMember
  <2> QED BY <1>1, <1>8, <2>1 DEF RecordDimensionalMetric, Held, TypeOK
<1> QED BY <1>2, <1>3, <1>4, <1>5, <1>6, <1>7, <1>8 DEF Record

\* What leaves the snapshot with stage s was acknowledged, or is an event of the
\* stage, recorded directly after the payload was built.
LEMMA CompleteStageLosesKnown ==
  ASSUME TypeOK, DataInv, LossInv, NEW s \in Stages, CompleteStage(s), Current(s),
         harvest \in {"sending", "waiting"}, Reported \subseteq Reported',
         \A d \in snap : d[2] = s /\ s \in EventTypes => d \in Kept' \/ AddedInFlight(d)
  PROVE  \A d \in Data : Known(d)
<1> USE CompleteStageEffect
<1>1. ASSUME NEW d \in snap \ snap', s = Dimensional, d[2] = "metric_data" PROVE d \in Reported'
  <2>1. "metric_data" \notin todo
    BY <1>1, StagesEnumerated DEF Current, SendOrder, Dimensional
  <2>2. d \in Held
    BY DEF Held
  <2>3. d \in Guarded
    BY <1>1, <2>2, HeldAreTwoKinds, Kinds
  <2> QED BY <1>1, <2>1, <2>3 DEF DataInv, SnapToGo, Sending
<1>2. \A d \in Held : d \in Kept' \/ AddedInFlight(d)
  BY <1>1 DEF Held, Kept
<1> QED BY <1>2, NoneFinished

\* A harvest loses no more than the events added to a data set it is sending.
LEMMA HarvestLosesKnown ==
  ASSUME TypeOK, DataInv, LossInv, HarvestStep
  PROVE  \A d \in Data : Known(d)
<1> USE DEF recordVars, engineVars, historyVars
<1>1. CASE Between
  <2>1. UNCHANGED <<op, reported, dropped, engine, customEngine, snap>>
    BY <1>1 DEF Between, HarvestNothing, ShutdownSession, HarvestThreadEnds, ShutdownFails
  <2> QED BY <2>1, NoneFinished DEF Held, Kept, Reported
<1>2. CASE HarvestSnapshot
  <2>1. UNCHANGED <<op, reported, dropped>> /\ Held' = Held
    BY <1>2 DEF HarvestSnapshot, Held, OfType, DataInv, SnapOnlyThen, Sending
  <2> QED BY <2>1, NoneFinished DEF Kept, Reported
<1>3. CASE CustomSnapshot
  <2>1. UNCHANGED <<op, reported, dropped>> /\ Held' = Held
    BY <1>3 DEF CustomSnapshot, Held
  <2> QED BY <2>1, NoneFinished DEF Kept, Reported
<1>4. ASSUME NEW s \in Stages, SendRequest(s) PROVE \A d \in Data : Known(d)
  <2>1. UNCHANGED <<op, reported, dropped>> /\ Held' = Held
    BY <1>4 DEF SendRequest, Held
  <2> QED BY <2>1, NoneFinished DEF Kept, Reported
<1>5. ASSUME NEW s \in Stages, SkipStage(s) PROVE \A d \in Data : Known(d)
  <2>1. \A d \in snap : d[2] # s
    BY <1>5 DEF SkipStage, HasRequest, OfType
  <2> QED BY <1>5, <2>1, CompleteStageLosesKnown DEF SkipStage, Reported
<1>6. ASSUME NEW s \in Stages, AnswerOk(s) PROVE \A d \in Data : Known(d)
  <2>1. Reported' = Reported \cup payload
    BY <1>6, ReportedGrows DEF AnswerOk
  <2>2. ASSUME NEW d \in snap, d[2] = s PROVE d \in payload \/ AddedInFlight(d)
    <3>1. d[1] \in DirectEvents \/ d \in Guarded
      BY HeldAreTwoKinds DEF Held
    <3> QED BY <1>6, <2>2, <3>1 DEF AnswerOk, AddedInFlight, DataInv, PayloadIsAll
  <2> QED BY <1>6, <2>1, <2>2, CompleteStageLosesKnown DEF AnswerOk, Kept
<1>7. ASSUME UNCHANGED <<op, reported, customEngine>>, engine \subseteq engine',
             dropped \subseteq dropped', \A d \in snap : d \in engine' \cup dropped' \cup Reported
      PROVE  \A d \in Data : Known(d)
  BY <1>7, NoneFinished DEF Held, Kept, Reported
<1>r. CASE AnswerRetry
  <2>1. UNCHANGED <<op, reported, dropped>> /\ Held' = Held
    BY <1>r DEF AnswerRetry, Held
  <2> QED BY <2>1, NoneFinished DEF Kept, Reported
<1>8. CASE Rollback \/ AnswerDiscard \/ \E c \in {"restart", "disconnect"} : AnswerShutdown(c)
  BY <1>7, <1>8 DEF Rollback, AnswerDiscard, AnswerShutdown
<1>9. CASE FinishHarvest
  <2>1. \A d \in snap : d \in Reported
    <3> SUFFICES ASSUME NEW d \in snap PROVE d \in Reported
      OBVIOUS
    <3>1. d[1] \in DirectEvents \/ d \in Guarded
      BY HeldAreTwoKinds DEF Held
    <3> QED BY <1>9, <3>1 DEF FinishHarvest, LossInv, DirectToGo, DataInv, SnapToGo, Sending
  <2> QED BY <1>7, <1>9, <2>1 DEF FinishHarvest
<1> QED BY <1>1, <1>2, <1>3, <1>4, <1>5, <1>6, <1>r, <1>8, <1>9 DEF HarvestStep, Between

\* Nothing recorded vanishes but events recorded directly, into a data set that was
\* reset since it was looked up or into one that is being sent, and metrics that the
\* unlocked rollback and the merge of a transaction both set.
THEOREM LossesKnown == Spec => LossesAreKnown
<1>1. ASSUME TypeOK, DataInv, LossInv, Next PROVE \A d \in Data : Known(d)
  <2>1. CASE RequestShutdown
    <3>1. UNCHANGED <<op, reported, dropped, engine, customEngine, snap>>
      BY <2>1 DEF RequestShutdown, engineVars, harvestVars, recordVars, historyVars
    <3> QED BY <3>1, NoneFinished DEF Held, Kept, Reported
  <2> QED BY <1>1, <2>1, ConnectLosesKnown, RecordLosesKnown, HarvestLosesKnown DEF Next
<1>2. TypeOK /\ DataInv /\ LossInv /\ [Next]_vars =>
        [\A d \in Data :
           /\ d \in Kept => d \in Kept' \/ AddedInFlight(d) \/ OverwrittenInRollback(d)
           /\ d \in Recorded' \ Recorded /\ d[2] # "dimensional_metric_data" =>
                \/ d \in Kept'
                \/ OverwrittenInRollback(d)
                \/ d[1] \in DirectEvents /\ slot[d[1]] = "gone"]_vars
  BY <1>1 DEF Known, Dimensional
<1> QED BY <1>2, TypesHold, DataAccounted, LossesAccounted, PTL DEF Spec, LossesAreKnown

-----------------------------------------------------------------------------
(***************************************************************************)
(* What becomes of dimensional metrics.                                    *)
(***************************************************************************)

\* What a step may do to a dimensional metric, as DimensionalLossesKnown has it.
DimensionalKnown(d) ==
  \/ d \in dims' \cup Reported' \cup dropped'
  \/ \E t \in Transactions : op[t] = "checked" /\ op'[t] # "checked"
  \/ Current(Dimensional) /\ d \notin dimPayload

\* Dimensional metrics leave with the work area of a transaction, with a reset on
\* connecting, or at the end of their stage.
LEMMA DimensionalStep ==
  ASSUME TypeOK, LossInv, Next
  PROVE  \A d \in dims : DimensionalKnown(d)
<1> USE DEF DimensionalKnown, appVars, engineVars, harvestVars, recordVars, historyVars
<1>1. CASE \E c \in Runs : Connect(c)
  <2>1. dims \subseteq dims' \cup dropped'
    BY <1>1 DEF Connect, ConnectCheck, ConnectCreate, ConnectReset, ConnectResetCustom, ConnectPublish,
       ConnectActivate
  <2> QED BY <2>1
<1>2. CASE Record
  <2>1. ASSUME NEW t \in Transactions, CreateWorkarea(t)
        PROVE  \A d \in dims : DimensionalKnown(d)
    BY <2>1 DEF CreateWorkarea, OpMove, TypeOK, Ops
  <2>2. CASE ~\E t \in Transactions : CreateWorkarea(t)
    <3>1. dims \subseteq dims'
      BY <1>2, <2>2 DEF Record, StartTransaction, RecordTransaction, MergeTransaction, PassSessionTest,
         LookUpDataSet, AddToDataSet, RecordCustomMetric, RecordDimensionalMetric
    <3> QED BY <3>1
  <2> QED BY <2>1, <2>2
<1>3. ASSUME NEW s \in Stages, CompleteStage(s), Current(s),
             s = Dimensional => \A d \in dimPayload : d \in Reported'
      PROVE  \A d \in dims : DimensionalKnown(d)
  BY <1>3, CompleteStageEffect
<1>4. ASSUME NEW s \in Stages, SkipStage(s) PROVE \A d \in dims : DimensionalKnown(d)
  <2>1. s = Dimensional => dimPayload = {}
    BY <1>4 DEF SkipStage, HasRequest, Dimensional
  <2> QED BY <1>3, <1>4, <2>1 DEF SkipStage
<1>5. ASSUME NEW s \in Stages, AnswerOk(s) PROVE \A d \in dims : DimensionalKnown(d)
  <2>1. s = Dimensional => payload = dimPayload
    BY <1>5 DEF AnswerOk, LossInv, PayloadOfStage
  <2> QED BY <1>3, <1>5, <2>1, ReportedGrows DEF AnswerOk
<1>6. CASE RequestShutdown \/ (HarvestStep /\ ~\E s \in Stages : SkipStage(s) \/ AnswerOk(s))
  <2>1. dims' = dims
    BY <1>6 DEF RequestShutdown, HarvestStep, HarvestNothing, HarvestSnapshot, CustomSnapshot, SendRequest,
       AnswerRetry, Rollback, AnswerDiscard, AnswerShutdown, FinishHarvest, ShutdownFails, ShutdownSession,
       HarvestThreadEnds
  <2> QED BY <2>1
<1> QED BY <1>1, <1>2, <1>4, <1>5, <1>6 DEF Next

\* Dimensional metrics vanish with the work area of a transaction, or at the end of the
\* stage that sends those which were there when the metric data were prepared.
THEOREM DimensionalLosses == Spec => DimensionalLossesKnown
<1>1. TypeOK /\ LossInv /\ [Next]_vars =>
        [\A d \in dims :
           \/ d \in dims' \cup Reported' \cup dropped'
           \/ \E t \in Transactions : op[t] = "checked" /\ op'[t] # "checked"
           \/ Current("dimensional_metric_data") /\ d \notin dimPayload]_vars
  BY DimensionalStep DEF DimensionalKnown, Dimensional
<1> QED BY <1>1, TypesHold, LossesAccounted, PTL DEF Spec, DimensionalLossesKnown

-----------------------------------------------------------------------------
(***************************************************************************)
(* What comes back.                                                        *)
(***************************************************************************)

\* What a step may do to a datum that is acknowledged, as ReportedStaysOut has it.
StaysOut(d) ==
  \/ d \in Reported \cap Unsent
  \/ d[2] = "metric_data" /\ Rollback /\ Current(Dimensional)

\* A rollback brings back what was to be sent, and of the rest metrics alone: its
\* harvest has sent them and is at the dimensional ones.
LEMMA RollbackBringsBackMetrics ==
  ASSUME TypeOK, DataInv, LossInv, Rollback, NEW d \in Reported, d \in Unsent'
  PROVE  StaysOut(d)
<1>1. d \in Unsent \/ (d \in snap /\ d[2] \in RollbackTypes /\ d[2] \notin todo)
  BY DEF Rollback, LeaveHarvest, Unsent, OfType
<1>2. ASSUME d \in snap, d[2] \in RollbackTypes, d[2] \notin todo
      PROVE  d[2] = "metric_data" /\ Current(Dimensional)
  <2>1. d[2] = "metric_data"
    BY <1>2 DEF DataInv, ReportedIsOut, Held, RollbackTypes
  <2>2. harvest = "rolling" /\ ~Flexible /\ Dimensional \in todo
    BY <1>2, <2>1 DEF Rollback, LossInv, StagesInOrder, Sending, PeriodOpen, Dimensional
  <2>3. "metric_data" \in StagesOf(mode)
    BY <2>2 DEF StagesOf, Flexible
  <2>4. \A r \in todo : r \in Stages /\ SendOrder["metric_data"] < SendOrder[r]
    BY <1>2, <2>1, <2>2, <2>3 DEF LossInv, StagesInOrder, Sending, TypeOK
  <2>5. \A r \in Stages : SendOrder["metric_data"] < SendOrder[r] => SendOrder[Dimensional] <= SendOrder[r]
    BY StagesEnumerated DEF SendOrder, Dimensional
  <2> QED BY <2>1, <2>2, <2>4, <2>5 DEF Current
<1> QED BY <1>1, <1>2 DEF StaysOut

\* What the collector has acknowledged does not return to the data to be sent.
LEMMA StaysOutStep ==
  ASSUME TypeOK, DataInv, LossInv, LossInv', Next
  PROVE  \A d \in Reported' \cap Unsent' : StaysOut(d)
<1> USE DEF StaysOut, appVars, engineVars, harvestVars, recordVars, historyVars
<1>1. ASSUME Reported' = Reported, Unsent' \subseteq Unsent
      PROVE  \A d \in Reported' \cap Unsent' : StaysOut(d)
  BY <1>1
<1>2. CASE \E c \in Runs : Connect(c)
  <2>1. /\ UNCHANGED <<reported, snap, todo>>
        /\ engine' \subseteq engine /\ customEngine' \subseteq customEngine
    BY <1>2 DEF Connect, ConnectCheck, ConnectCreate, ConnectReset, ConnectResetCustom, ConnectPublish,
       ConnectActivate
  <2> QED BY <1>1, <2>1 DEF Reported, Unsent, OfType
<1>3. CASE Record
  <2>1. CASE Quiet
    BY <1>1, <2>1 DEF Quiet, Reported, Unsent, OfType
  <2>2. ASSUME NEW o \in Ops, NEW S \in SUBSET Data, Enters(o, S)
        PROVE  \A d \in Reported' \cap Unsent' : StaysOut(d)
    <3>1. Reported' = Reported /\ Unsent' \subseteq Unsent \cup S
      BY <2>2 DEF Enters, Reported, Unsent, OfType
    <3>2. \A d \in S : op[d[1]] # "done"
      BY <2>2, DataOfMember DEF Enters
    <3>3. \A d \in Reported \cap Unsent' : op[d[1]] = "done"
      BY DEF LossInv, SentIsDone, HeldKinds, Held, Unsent, OfType
    <3> QED BY <3>1, <3>2, <3>3
  <2> QED BY <1>3, <2>1, <2>2, RecordEnters
<1>4. CASE Between \/ RequestShutdown
  <2>1. UNCHANGED <<reported, engine, customEngine, snap, todo>>
    BY <1>4 DEF Between, HarvestNothing, ShutdownSession, HarvestThreadEnds, ShutdownFails, RequestShutdown
  <2> QED BY <1>1, <2>1 DEF Reported, Unsent, OfType
<1>5. CASE HarvestSnapshot
  <2>1. reported' = reported /\ Unsent' \subseteq engine \cup customEngine
    BY <1>5 DEF HarvestSnapshot, Unsent, OfType
  <2> QED BY <1>1, <2>1 DEF Reported, Unsent
<1>6. CASE CustomSnapshot
  <2>1. reported' = reported /\ Unsent' \subseteq Unsent
    BY <1>6 DEF CustomSnapshot, Unsent, OfType
  <2> QED BY <1>1, <2>1 DEF Reported
<1>7. ASSUME NEW s \in Stages, SendRequest(s) PROVE \A d \in Reported' \cap Unsent' : StaysOut(d)
  BY <1>1, <1>7 DEF SendRequest, Reported, Unsent, OfType
<1>8. ASSUME NEW s \in Stages, CompleteStage(s)
      PROVE  /\ Unsent' \subseteq Unsent
             /\ \A d \in Unsent' : d \in engine \cup customEngine \/ d[2] # s
  BY <1>8, CompleteStageEffect DEF Unsent, OfType
<1>9. ASSUME NEW s \in Stages, SkipStage(s) PROVE \A d \in Reported' \cap Unsent' : StaysOut(d)
  BY <1>1, <1>8, <1>9 DEF SkipStage, Reported
<1>10. ASSUME NEW s \in Stages, AnswerOk(s) PROVE \A d \in Reported' \cap Unsent' : StaysOut(d)
  <2>1. Reported' = Reported \cup payload /\ CompleteStage(s) /\ Current(s) /\ harvest = "waiting"
    BY <1>10, ReportedGrows DEF AnswerOk
  <2>2. \A d \in Unsent' : d[2] # Dimensional
    BY DEF LossInv, HeldKinds, Held, Unsent, OfType
  <2>3. \A d \in payload : d[2] # Dimensional => d \in snap /\ d[2] = s
    BY <2>1, CurrentIsFirst DEF LossInv, PayloadOfStage, TypeOK
  <2>4. \A d \in payload : d \notin Unsent'
    BY <2>1, <2>2, <2>3, <1>8 DEF DataInv, OnePlace
  <2> QED BY <2>1, <2>4, <1>8
<1>r. CASE AnswerRetry
  BY <1>1, <1>r DEF AnswerRetry, Reported, Unsent, OfType
<1>11. CASE Rollback
  BY <1>11, RollbackBringsBackMetrics DEF Rollback, Reported
<1>12. CASE AnswerDiscard \/ FinishHarvest \/ \E c \in {"restart", "disconnect"} : AnswerShutdown(c)
  <2>1. reported' = reported /\ Unsent' \subseteq engine \cup customEngine
    BY <1>12 DEF AnswerDiscard, FinishHarvest, AnswerShutdown, LeaveHarvest, Unsent, OfType
  <2> QED BY <1>1, <2>1 DEF Reported, Unsent
<1> QED BY <1>2, <1>3, <1>4, <1>5, <1>6, <1>7, <1>9, <1>10, <1>r, <1>11, <1>12 DEF Next, HarvestStep, Between

\* What the collector has acknowledged is not sent again, but for metrics a rollback
\* brings back when the dimensional metrics of the same harvest are to be retried.
THEOREM ReportedOnceButMetrics == Spec => ReportedStaysOut
<1>1. TypeOK /\ DataInv /\ LossInv /\ LossInv' /\ [Next]_vars =>
        [\A d \in Reported' \cap Unsent' :
           \/ d \in Reported \cap Unsent
           \/ d[2] = "metric_data" /\ Rollback /\ Current("dimensional_metric_data")]_vars
  BY StaysOutStep DEF StaysOut, Dimensional
<1> QED BY <1>1, TypesHold, DataAccounted, LossesAccounted, PTL DEF Spec, ReportedStaysOut

-----------------------------------------------------------------------------
(***************************************************************************)
(* Which run data are reported to.                                         *)
(***************************************************************************)

\* Runs are compared as numbers.
LEMMA RunsAreNumbers ==
  ASSUME TypeOK
  PROVE  /\ session \in Nat /\ engineRun \in Nat /\ NoRun = 0 /\ Runs \subseteq Nat \ {0}
         /\ \A t \in Transactions : txRun[t] \in Nat
         /\ \A r \in reported : r[2] \in Nat
<1>1. NoRun = 0 /\ \A c \in Runs : c \in Nat /\ c # 0
  BY RunsType DEF NoRun
<1>2. \A c \in Runs \cup {NoRun} : c \in Nat
  BY <1>1
<1>3. session \in Nat /\ engineRun \in Nat
  BY <1>2 DEF TypeOK
<1>4. \A t \in Transactions : txRun[t] \in Nat
  BY <1>2 DEF TypeOK
<1>5. \A r \in reported : r[2] \in Nat
  BY <1>1 DEF TypeOK
<1>6. Runs \subseteq Nat \ {0}
  BY <1>1
<1> QED BY <1>1, <1>3, <1>4, <1>5, <1>6

\* RunsInOrder speaks of the activation threads, the runs of the transactions and
\* what was reported; most steps leave all of them alone.
LEMMA SameRuns ==
  ASSUME RunsInOrder, UNCHANGED <<engineRun, txRun, reported>>,
         \A c \in Runs : connect[c] # "none" => connect'[c] # "none",
         TypeOK
  PROVE  RunsInOrder'
BY DEF RunsInOrder, TypeOK

\* Runs stay in order: one is set up only when no later one was begun.
LEMMA RunsStep ==
  TypeOK /\ SessionInv /\ DataInv /\ LossInv /\ RunsInOrder /\ [Next]_vars => RunsInOrder'
<1> SUFFICES ASSUME TypeOK, SessionInv, DataInv, LossInv, RunsInOrder, [Next]_vars PROVE RunsInOrder'
  OBVIOUS
<1> USE DEF appVars, engineVars, harvestVars, recordVars, historyVars
<1>0. /\ session \in Nat /\ engineRun \in Nat /\ NoRun = 0 /\ Runs \subseteq Nat \ {0}
      /\ \A t \in Transactions : txRun[t] \in Nat
      /\ \A r \in reported : r[2] \in Nat
  BY RunsAreNumbers
<1>1. ASSUME NEW c \in Runs, Connect(c) PROVE RunsInOrder'
  <2>1. CASE ConnectReset(c)
    <3>1. connect[c] \in Connecting /\ connect'[c] # "none" /\ engineRun' = c
          /\ UNCHANGED <<txRun, reported>>
      BY <2>1 DEF ConnectReset, ConnectMove, Connecting, ConnectStates, TypeOK
    <3>2. engineRun <= c
      BY <1>0, <3>1 DEF SessionInv, RunsInOrder, TypeOK
    <3>3. \A t \in Transactions : txRun[t] <= c
      BY <1>0, <3>2 DEF RunsInOrder
    <3>4. \A r \in reported : r[2] <= c
      BY <1>0, <3>2 DEF RunsInOrder
    <3> QED BY <3>1, <3>3, <3>4 DEF RunsInOrder
  <2>2. CASE ~ConnectReset(c)
    <3>1. UNCHANGED <<engineRun, txRun, reported>>
      BY <1>1, <2>2 DEF Connect, ConnectCheck, ConnectCreate, ConnectResetCustom, ConnectPublish, ConnectActivate
    <3>2. \A e \in Runs : connect[e] # "none" => connect'[e] # "none"
      BY <1>1, <2>2 DEF Connect, ConnectCheck, ConnectCreate, ConnectResetCustom, ConnectPublish,
         ConnectActivate, ConnectMove, TypeOK
    <3> QED BY <3>1, <3>2, SameRuns
  <2> QED BY <2>1, <2>2
<1>2. ASSUME NEW t \in Transactions, StartTransaction(t) PROVE RunsInOrder'
  <2>1. /\ op[t] = "new" /\ session = engineRun /\ txRun' = [txRun EXCEPT ![t] = engineRun]
        /\ UNCHANGED <<engineRun, reported, connect>>
    BY <1>2 DEF StartTransaction, OpMove, NothingButRecording, SessionInv
  <2>2. \A r \in reported : r[1][1] # t
    BY <2>1 DEF LossInv, SentIsDone, Reported
  <2> QED BY <1>0, <2>1, <2>2 DEF RunsInOrder
<1>3. CASE Record /\ ~\E t \in Transactions : StartTransaction(t)
  BY <1>3, SameRuns DEF Record, RecordTransaction, CreateWorkarea, MergeTransaction, PassSessionTest, LookUpDataSet,
     AddToDataSet, RecordCustomMetric, RecordDimensionalMetric, NothingButRecording
<1>4. ASSUME NEW s \in Stages, AnswerOk(s) PROVE RunsInOrder'
  <2>1. /\ session = engineRun /\ UNCHANGED <<engineRun, txRun, connect>>
        /\ reported' = reported \cup (payload \X {session})
    BY <1>4 DEF AnswerOk, CompleteStage, SessionInv, Busy
  <2>2. \A r \in payload \X {session} : r[2] = engineRun
    BY <2>1
  <2>3. \A r \in reported' : r[2] <= engineRun /\ (r[1][1] \in Transactions => txRun[r[1][1]] <= r[2])
    BY <1>0, <2>1, <2>2 DEF RunsInOrder
  <2> QED BY <2>1, <2>3 DEF RunsInOrder
<1>5. CASE ShutdownSession
  <2>1. UNCHANGED <<engineRun, txRun, reported>>
    BY <1>5 DEF ShutdownSession
  <2>2. \A e \in Runs : connect[e] # "none" => connect'[e] # "none"
    BY <1>5 DEF ShutdownSession, TypeOK
  <2> QED BY <2>1, <2>2, SameRuns
<1>6. CASE \/ RequestShutdown \/ UNCHANGED vars
           \/ HarvestStep /\ ~ShutdownSession /\ ~\E s \in Stages : AnswerOk(s)
  <2>1. UNCHANGED <<engineRun, txRun, reported, connect>>
    BY <1>6 DEF RequestShutdown, vars, HarvestStep, HarvestNothing, HarvestSnapshot, CustomSnapshot,
       SendRequest, SkipStage, CompleteStage, AnswerRetry, Rollback, AnswerDiscard, AnswerShutdown, FinishHarvest,
       ShutdownFails, HarvestThreadEnds
  <2> QED BY <2>1, SameRuns
<1> QED BY <1>1, <1>2, <1>3, <1>4, <1>5, <1>6 DEF Next

\* The runs are in order in every reachable state.
THEOREM RunsOrdered == Spec => []RunsInOrder
<1>1. Init => RunsInOrder
  BY DEF Init, RunsInOrder, NoRun
<1>2. TypeOK /\ SessionInv /\ DataInv /\ LossInv /\ RunsInOrder /\ [Next]_vars => RunsInOrder'
  BY RunsStep
<1> QED BY <1>1, <1>2, TypeCorrect, DataAccounted, LossesAccounted, PTL DEF Spec

\* Transaction t is over, was reported to its run alone, and once the engine is set
\* up for another run nothing of t is left to report.
KeepsRun(t) ==
  /\ op[t] = "done"
  /\ \A r \in reported : r[1][1] = t => r[2] = txRun[t]
  /\ engineRun # txRun[t] =>
       \A d \in engine \cup snap \cup payload \cup dims \cup dimPayload : d[1] # t

\* The steps of the transaction u.
Transacts(u) ==
  StartTransaction(u) \/ RecordTransaction(u) \/ CreateWorkarea(u) \/ MergeTransaction(u)

\* Where the data of t may be after a step that has not set up another run.
LEMMA NoneReturns ==
  ASSUME NEW t, KeepsRun(t), op'[t] = "done", UNCHANGED <<engineRun, txRun[t], reported>>,
         \A d \in engine' \cup snap' \cup payload' \cup dims' \cup dimPayload' :
           d[1] = t => d \in engine \cup snap \cup payload \cup dims \cup dimPayload
  PROVE  KeepsRun(t)'
BY DEF KeepsRun

\* A transaction that kept its run keeps it.
LEMMA KeepsRunStep ==
  ASSUME NEW t \in Transactions, TypeOK, SessionInv, DataInv, LossInv, KeepsRun(t), [Next]_vars
  PROVE  KeepsRun(t)'
<1> USE DEF appVars, engineVars, harvestVars, recordVars, historyVars
<1>0. op[t] = "done"
  BY DEF KeepsRun
<1>1. ASSUME NEW c \in Runs, Connect(c) PROVE KeepsRun(t)'
  <2>1. CASE ConnectReset(c)
    <3>1. /\ engine' = {} /\ dims' = {} /\ engineRun' = c
          /\ UNCHANGED <<op, txRun, reported, snap, payload, dimPayload>>
          /\ connect[c] \in Connecting
      BY <2>1 DEF ConnectReset, ConnectMove, Connecting, ConnectStates
    <3>2. harvest \notin Busy
      BY <3>1 DEF SessionInv
    <3>3. snap = {} /\ payload = {} /\ dimPayload = {}
      BY <3>2 DEF Busy, DataInv, SnapOnlyThen, LossInv, PayloadOfStage, Sending
    <3> QED BY <3>1, <3>3 DEF KeepsRun
  <2>2. CASE ~ConnectReset(c)
    <3>1. UNCHANGED <<engineRun, txRun, reported, op, engine, snap, payload, dims, dimPayload>>
      BY <1>1, <2>2 DEF Connect, ConnectCheck, ConnectCreate, ConnectResetCustom, ConnectPublish, ConnectActivate
    <3> QED BY <1>0, <3>1, NoneReturns
  <2> QED BY <2>1, <2>2
<1>2. CASE Record
  <2>1. UNCHANGED <<engineRun, reported, payload, dimPayload>>
    BY <1>2 DEF Record, StartTransaction, RecordTransaction, CreateWorkarea, MergeTransaction,
       PassSessionTest, LookUpDataSet, AddToDataSet, RecordCustomMetric, RecordDimensionalMetric, NothingButRecording
  <2>2. ASSUME NEW u \in Transactions, Transacts(u)
        PROVE  KeepsRun(t)'
    <3>1. u # t
      BY <1>0, <2>2 DEF Transacts, StartTransaction, RecordTransaction, CreateWorkarea, MergeTransaction, OpMove
    <3>2. op'[t] = "done" /\ txRun'[t] = txRun[t] /\ snap' \subseteq snap
      BY <1>0, <2>2, <3>1 DEF Transacts, StartTransaction, RecordTransaction, CreateWorkarea, MergeTransaction, OpMove,
         NothingButRecording, TypeOK, Ops
    <3>3. \A d \in DataOf(u) : d[1] # t
      BY <3>1, DataOfMember DEF Ops
    <3>4. \A d \in engine' : d[1] = t => d \in engine
      BY <2>2, <3>3 DEF Transacts, StartTransaction, RecordTransaction, CreateWorkarea, MergeTransaction, OfType
    <3>5. \A d \in dims' : d[1] = t => d \in dims
      BY <2>2, <3>3 DEF Transacts, StartTransaction, RecordTransaction, CreateWorkarea, MergeTransaction, OfType
    <3>6. \A d \in engine' \cup snap' \cup payload' \cup dims' \cup dimPayload' :
            d[1] = t => d \in engine \cup snap \cup payload \cup dims \cup dimPayload
      BY <2>1, <3>2, <3>4, <3>5
    <3>7. UNCHANGED <<engineRun, reported>> /\ txRun'[t] = txRun[t]
      BY <2>1, <3>2
    <3> QED BY <3>2, <3>6, <3>7, NoneReturns
  <2>3. CASE ~\E u \in Transactions : Transacts(u)
    <3>1. txRun' = txRun /\ op'[t] = "done"
      BY <1>0, <1>2, <2>3, Kinds DEF Transacts, Record, PassSessionTest, LookUpDataSet, AddToDataSet, RecordCustomMetric,
         RecordDimensionalMetric, OpMove, TypeOK, Ops
    <3>2. \A d \in engine' \cup snap' \cup dims' : d[1] = t => d \in engine \cup snap \cup dims
      BY <1>2, <2>3, DataOfMember, Kinds DEF Transacts, Record, PassSessionTest, LookUpDataSet, AddToDataSet,
         RecordCustomMetric, RecordDimensionalMetric, NothingButRecording, Ops
    <3> QED BY <2>1, <3>1, <3>2, NoneReturns
  <2> QED BY <2>2, <2>3
<1>3. ASSUME NEW s \in Stages, SkipStage(s) PROVE KeepsRun(t)'
  <2>1. reported' = reported
    BY <1>3 DEF SkipStage
  <2> QED BY <1>0, <1>3, <2>1, CompleteStageEffect, NoneReturns DEF SkipStage
<1>4. ASSUME NEW s \in Stages, AnswerOk(s) PROVE KeepsRun(t)'
  <2>1. /\ session = engineRun /\ reported' = reported \cup (payload \X {session}) /\ CompleteStage(s)
    BY <1>4 DEF AnswerOk, SessionInv, Busy
  <2>2. \A r \in reported' : r[1][1] = t => r[2] = txRun[t]
    <3>1. \A r \in payload \X {session} : r[1] \in payload /\ r[2] = engineRun
      BY <2>1
    <3> QED BY <2>1, <3>1 DEF KeepsRun
  <2> QED BY <1>0, <2>1, <2>2, CompleteStageEffect DEF KeepsRun
<1>5. CASE HarvestSnapshot \/ CustomSnapshot
  <2>1. UNCHANGED <<engineRun, txRun, reported, op, dims, payload, dimPayload>>
    BY <1>5 DEF HarvestSnapshot, CustomSnapshot
  <2>2. \A d \in engine' \cup snap' : d[1] = t => d \in engine \cup snap
    BY <1>5, Kinds DEF HarvestSnapshot, CustomSnapshot, OfType, DataInv, CustomIsOwn
  <2> QED BY <1>0, <2>1, <2>2, NoneReturns
<1>6. ASSUME NEW s \in Stages, SendRequest(s) PROVE KeepsRun(t)'
  <2>1. UNCHANGED <<engineRun, txRun, reported, op, engine, snap, dims>>
    BY <1>6 DEF SendRequest
  <2>2. \A d \in payload' \cup dimPayload' : d \in snap \cup dims \cup dimPayload
    BY <1>6 DEF SendRequest, OfType
  <2> QED BY <1>0, <2>1, <2>2, NoneReturns
<1>r. CASE AnswerRetry
  <2>1. /\ UNCHANGED <<engineRun, txRun, reported, op, engine, snap, dims, dimPayload>>
        /\ payload' = {}
    BY <1>r DEF AnswerRetry
  <2> QED BY <1>0, <2>1, NoneReturns
<1>7. CASE \/ Rollback \/ AnswerDiscard \/ FinishHarvest
           \/ \E c \in {"restart", "disconnect"} : AnswerShutdown(c)
  <2>1. /\ UNCHANGED <<engineRun, txRun, reported, op, dims>>
        /\ engine' \subseteq engine \cup snap /\ snap' = {} /\ payload' = {} /\ dimPayload' = {}
    BY <1>7 DEF Rollback, AnswerDiscard, FinishHarvest, AnswerShutdown, LeaveHarvest, OfType
  <2> QED BY <1>0, <2>1, NoneReturns
<1>8. CASE Between \/ RequestShutdown \/ UNCHANGED vars
  <2>1. UNCHANGED <<engineRun, txRun, reported, op, engine, snap, payload, dims, dimPayload>>
    BY <1>8 DEF Between, HarvestNothing, ShutdownSession, HarvestThreadEnds, ShutdownFails, RequestShutdown, vars
  <2> QED BY <1>0, <2>1, NoneReturns
<1> QED BY <1>1, <1>2, <1>3, <1>4, <1>5, <1>6, <1>r, <1>7, <1>8 DEF Next, HarvestStep, Between

\* A transaction that is over when the engine still has the settings of its run is
\* reported to that run alone, however often it is rolled back: another run is set
\* up only when the engine is reset, and never during a harvest.
THEOREM RunIsKept == Spec => TransactionsKeepTheirRun
<1> SUFFICES ASSUME NEW CONSTANT t \in Transactions
             PROVE  Spec => []((op[t] = "done" /\ engineRun = txRun[t]) =>
                                 [](\A r \in reported : r[1][1] = t => r[2] = txRun[t]))
  BY DEF TransactionsKeepTheirRun
<1>1. TypeOK /\ RunsInOrder /\ op[t] = "done" /\ engineRun = txRun[t] => KeepsRun(t)
  <2> SUFFICES ASSUME TypeOK, RunsInOrder, op[t] = "done", engineRun = txRun[t],
                      NEW r \in reported, r[1][1] = t
               PROVE  r[2] = txRun[t]
    BY DEF KeepsRun
  <2>1. engineRun \in Nat /\ r[2] \in Nat
    BY RunsAreNumbers
  <2>2. r[2] <= engineRun /\ txRun[t] <= r[2]
    BY DEF RunsInOrder
  <2> QED BY <2>1, <2>2
<1>2. TypeOK /\ SessionInv /\ DataInv /\ LossInv /\ KeepsRun(t) /\ [Next]_vars => KeepsRun(t)'
  BY KeepsRunStep
<1>3. KeepsRun(t) => \A r \in reported : r[1][1] = t => r[2] = txRun[t]
  BY DEF KeepsRun
<1> QED BY <1>1, <1>2, <1>3, TypeCorrect, DataAccounted, LossesAccounted, RunsOrdered, PTL DEF Spec
=============================================================================
