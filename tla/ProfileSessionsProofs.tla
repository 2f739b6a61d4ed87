------------------------ MODULE ProfileSessionsProofs ------------------------
(***************************************************************************)
(* The safety properties of ProfileSessions, proved for any applications   *)
(* and any number of sessions, samples and failures.                       *)
(***************************************************************************)
EXTENDS ProfileSessions, FiniteSetTheorems, TLAPS

-----------------------------------------------------------------------------
(***************************************************************************)
(* The invariant.                                                          *)
(***************************************************************************)
\* Sessions are numbered as they start.
InOrder == \E n \in 0 .. MaxSessions : {s \in Sessions : owner[s] # NoApp} = 1 .. n

\* What the harvest thread knows where it is: its application is up and not
\* harvested again in this harvest, and runs no session once it is shut down.
HarvestFits ==
  /\ at # "idle" => app \in Apps /\ ~down[app] /\ app \notin todo
  /\ \A a \in todo : ~down[a]
  /\ last => at \in {"reporting", "sending", "leaving"} /\ fullApp # app
  /\ at = "leaving" => last
  /\ at \in {"reporting", "sending"} => place > 0
  /\ at = "sending" => place <= Len(finished[app]) /\ payload \subseteq tree[Reported]

\* The flag is set while a thread walks the stacks.
FlagSet == \A t \in Sessions : Profiling(t) => running

\* Samples are numbered as they are merged.
SamplesTaken ==
  /\ sent \subseteq 1 .. samples /\ lost \subseteq 1 .. samples
  /\ \A s \in Sessions : tree[s] \subseteq 1 .. samples

\* The inductive invariant.
IInv == TypeOK /\ InOrder /\ HarvestFits /\ FlagSet /\ OneProfilerThread
          /\ SamplesTaken /\ SampleSentOnce /\ SessionsKeptApart

-----------------------------------------------------------------------------
\* Started is the number of the session started last.
LEMMA StartedCounts ==
  ASSUME InOrder
  PROVE  /\ Started \in 0 .. MaxSessions
         /\ \A s \in Sessions : owner[s] # NoApp <=> s <= Started
<1>1. PICK n \in 0 .. MaxSessions : {s \in Sessions : owner[s] # NoApp} = 1 .. n
  BY DEF InOrder
<1>2. Cardinality(1 .. n) = n
  BY FS_Interval
<1>3. Started = n
  BY <1>1, <1>2 DEF Started
<1>4. n \in Nat /\ MaxSessions \in Nat /\ n <= MaxSessions
  BY ProfileAssumption DEF ProfileAssumption
<1>5. ASSUME NEW s \in Sessions PROVE owner[s] # NoApp <=> s <= n
  BY <1>1, <1>4 DEF Sessions
<1> QED BY <1>3, <1>4, <1>5

\* The session that starts next has no owner yet.
LEMMA NextSession ==
  ASSUME InOrder, Started < MaxSessions
  PROVE  /\ Started + 1 \in Sessions
         /\ owner[Started + 1] = NoApp
BY StartedCounts, ProfileAssumption DEF Sessions, ProfileAssumption

\* The initial states satisfy the invariant.
LEMMA Initially == Init => IInv
<1> SUFFICES ASSUME Init PROVE IInv
  OBVIOUS
<1> USE ProfileAssumption
<1>1. TypeOK
  <2>1. finished \in [Apps -> Seq(Sessions)]
    BY DEF Init
  <2>2. owner \in [Sessions -> Apps \cup {NoApp}] /\ tree \in [Sessions -> SUBSET Samples]
    BY DEF Init
  <2>3. prof \in [Sessions -> {"none", "collect", "merge", "merging", "update", "expire",
                             "expired", "stop", "decide", "clear", "ended", "dead"}]
    BY DEF Init
  <2>4. /\ held \in [Sessions -> Sessions \cup {0}] /\ down \in [Apps -> BOOLEAN]
        /\ stopping \in [Sessions -> Apps \cup {NoApp}]
    BY DEF Init
  <2>5. /\ full \in Sessions \cup {0} /\ fullApp \in Apps \cup {NoApp}
        /\ (full = 0) <=> (fullApp = NoApp)
        /\ running \in BOOLEAN
    BY DEF Init
  <2>6. /\ sent \subseteq Samples /\ lost \subseteq Samples /\ payload \subseteq Samples
        /\ samples \in 0 .. MaxSamples /\ place \in Nat /\ failures \in 0 .. MaxFailures
    BY DEF Init, ProfileAssumption
  <2>7. /\ at \in {"idle", "commands", "reporting", "sending", "shutdown", "leaving"}
        /\ app \in Apps \cup {NoApp} /\ todo \subseteq Apps
        /\ final \in BOOLEAN /\ restart \in BOOLEAN /\ last \in BOOLEAN
    BY DEF Init
  <2> QED BY <2>1, <2>2, <2>3, <2>4, <2>5, <2>6, <2>7 DEF TypeOK
<1>2. InOrder
  <2>1. {s \in Sessions : owner[s] # NoApp} = 1 .. 0
    BY DEF Init, Sessions, ProfileAssumption
  <2> QED BY <2>1 DEF InOrder, ProfileAssumption
<1>3. HarvestFits /\ FlagSet /\ OneProfilerThread /\ SamplesTaken /\ SampleSentOnce
  BY DEF Init, HarvestFits, FlagSet, OneProfilerThread, Profiling, SamplesTaken, SampleSentOnce
<1>4. SessionsKeptApart
  BY DEF Init, SessionsKeptApart
<1> QED BY <1>1, <1>2, <1>3, <1>4 DEF IInv

-----------------------------------------------------------------------------
(***************************************************************************)
(* The two steps on sessions that several actions share.                   *)
(***************************************************************************)
\* Stopping the running session for one application.
LEMMA StopKeeps ==
  ASSUME IInv, NEW a \in Apps, Stop(a), UNCHANGED <<owner, down>>
  PROVE  /\ full' \in Sessions \cup {0} /\ fullApp' \in Apps \cup {NoApp}
         /\ (full' = 0) <=> (fullApp' = NoApp)
         /\ finished' \in [Apps -> Seq(Sessions)]
         /\ SessionsKeptApart'
         /\ fullApp' # a
         /\ fullApp' \in {fullApp, NoApp}
         /\ \A b \in Apps \ {a} : finished'[b] = finished[b]
         /\ full' \in {full, 0}
<1> USE DEF IInv
<1>1. CASE full # 0 /\ a = fullApp
  <2>1. full \in Sessions /\ owner[full] = a
    BY <1>1 DEF TypeOK, SessionsKeptApart
  <2>2. /\ finished' = [finished EXCEPT ![a] = Append(@, full)]
        /\ full' = 0 /\ fullApp' = NoApp
    BY <1>1 DEF Stop
  <2>3. finished[a] \in Seq(Sessions)
    BY DEF TypeOK
  <2>4. /\ Append(finished[a], full) \in Seq(Sessions)
        /\ DOMAIN Append(finished[a], full) = 1 .. Len(finished[a]) + 1
        /\ DOMAIN finished[a] = 1 .. Len(finished[a])
        /\ Len(finished[a]) \in Nat
        /\ \A k \in 1 .. Len(finished[a]) : Append(finished[a], full)[k] = finished[a][k]
        /\ Append(finished[a], full)[Len(finished[a]) + 1] = full
    BY <2>1, <2>3
  <2>5. SessionsKeptApart'
    <3>1. \A b \in Apps : \A k \in DOMAIN finished'[b] :
             owner[finished'[b][k]] = b /\ finished'[b][k] # 0
      <4> TAKE b \in Apps
      <4> TAKE k \in DOMAIN finished'[b]
      <4>0. 0 \notin Sessions
        BY DEF Sessions
      <4>1. CASE b = a
        <5>1. finished'[b] = Append(finished[a], full)
          BY <4>1, <2>2 DEF TypeOK
        <5>2. k \in 1 .. Len(finished[a]) \/ k = Len(finished[a]) + 1
          BY <5>1, <2>4
        <5>3. CASE k \in 1 .. Len(finished[a])
          <6>1. finished'[b][k] = finished[a][k] /\ finished[a][k] \in Sessions
            BY <5>1, <5>3, <2>3, <2>4
          <6> QED BY <4>0, <4>1, <5>3, <6>1, <2>4 DEF SessionsKeptApart
        <5>4. CASE k = Len(finished[a]) + 1
          BY <4>0, <4>1, <5>1, <5>4, <2>1, <2>4
        <5> QED BY <5>2, <5>3, <5>4
      <4>2. CASE b # a
        <5>1. finished'[b] = finished[b] /\ finished[b] \in Seq(Sessions)
          BY <4>2, <2>2 DEF TypeOK
        <5> QED BY <4>0, <5>1 DEF SessionsKeptApart
      <4> QED BY <4>1, <4>2
    <3>2. \A b \in Apps : \A k, l \in DOMAIN finished'[b] :
             finished'[b][k] = finished'[b][l] => k = l
      <4> TAKE b \in Apps
      <4>1. CASE b = a
        <5>1. finished'[b] = Append(finished[a], full)
          BY <4>1, <2>2 DEF TypeOK
        <5>2. \A k \in 1 .. Len(finished[a]) : finished[a][k] # full
          BY <2>4 DEF SessionsKeptApart
        <5>3. \A k, l \in 1 .. Len(finished[a]) : finished[a][k] = finished[a][l] => k = l
          BY <2>4 DEF SessionsKeptApart
        <5> QED BY <5>1, <5>2, <5>3, <2>4
      <4>2. CASE b # a
        <5>1. finished'[b] = finished[b]
          BY <4>2, <2>2 DEF TypeOK
        <5> QED BY <5>1 DEF SessionsKeptApart
      <4> QED BY <4>1, <4>2
    <3> QED BY <2>2, <3>1, <3>2 DEF SessionsKeptApart
  <2> QED BY <1>1, <2>2, <2>4, <2>5, ProfileAssumption DEF TypeOK, ProfileAssumption
<1>2. CASE ~(full # 0 /\ a = fullApp)
  <2>1. UNCHANGED <<full, fullApp, finished>>
    BY <1>2 DEF Stop
  <2>2. SessionsKeptApart'
    BY <2>1 DEF SessionsKeptApart
  <2>3. fullApp # a
    BY <1>2, ProfileAssumption DEF TypeOK, ProfileAssumption
  <2> QED BY <2>1, <2>2, <2>3 DEF TypeOK
<1> QED BY <1>1, <1>2

-----------------------------------------------------------------------------
(***************************************************************************)
(* What a step leaves alone stays as it is.                                *)
(***************************************************************************)
LEMMA DataFrame == SamplesTaken /\ SampleSentOnce /\ UNCHANGED data => (SamplesTaken /\ SampleSentOnce)'
BY DEF data, SamplesTaken, SampleSentOnce

LEMMA ApartFrame == SessionsKeptApart /\ UNCHANGED <<sessions, down>> => SessionsKeptApart'
BY DEF sessions, SessionsKeptApart

LEMMA OrderFrame == InOrder /\ UNCHANGED owner => InOrder'
BY DEF InOrder

LEMMA ProfilerFrame ==
  FlagSet /\ OneProfilerThread /\ UNCHANGED <<running, prof>> => (FlagSet /\ OneProfilerThread)'
BY DEF FlagSet, OneProfilerThread, Profiling

-----------------------------------------------------------------------------
(***************************************************************************)
(* The commands.                                                           *)
(***************************************************************************)
\* A session starts: only with no session running, and with a new thread only
\* while the flag is clear, so that no thread is there.
LEMMA StartKeeps == IInv /\ StartCommand => IInv'
<1> SUFFICES ASSUME IInv, StartCommand PROVE IInv'
  OBVIOUS
<1> DEFINE new == Started + 1
<1>1. new \in Sessions /\ owner[new] = NoApp /\ Started \in 0 .. MaxSessions
  BY NextSession, StartedCounts DEF IInv, StartCommand, StartSession
<1>2. app \in Apps /\ app # NoApp /\ ~down[app] /\ ~last
  BY ProfileAssumption DEF IInv, StartCommand, HarvestFits, ProfileAssumption
<1>3. /\ full' = new /\ fullApp' = app /\ running' = TRUE
      /\ owner' = [owner EXCEPT ![new] = app]
      /\ prof' = IF running THEN prof ELSE [prof EXCEPT ![new] = "collect"]
      /\ at = "commands" /\ full = 0
      /\ UNCHANGED <<finished, data, held, stopping, harvest>>
  BY DEF StartCommand, StartSession
<1> HIDE DEF new
<1>4. TypeOK'
  <2>1. new # 0
    BY <1>1 DEF Sessions
  <2> QED BY <1>1, <1>2, <1>3, <2>1 DEF IInv, TypeOK, data, harvest
<1>5. InOrder'
  <2>1. \A s \in Sessions : owner'[s] # NoApp <=> s <= Started + 1
    BY <1>1, <1>2, <1>3, StartedCounts DEF IInv, TypeOK, Sessions, new
  <2>2. Started + 1 \in 0 .. MaxSessions
    BY <1>1, ProfileAssumption DEF Sessions, new, ProfileAssumption
  <2>3. {s \in Sessions : owner'[s] # NoApp} = 1 .. (Started + 1)
    BY <2>1, <2>2, ProfileAssumption DEF Sessions, ProfileAssumption
  <2>4. PICK n \in 0 .. MaxSessions : n = Started + 1
    BY <2>2
  <2> QED BY <2>3, <2>4 DEF InOrder
<1>6. HarvestFits'
  BY <1>2, <1>3 DEF IInv, HarvestFits, harvest, data, Reported
<1>7. (FlagSet /\ OneProfilerThread)'
  BY <1>1, <1>3 DEF IInv, TypeOK, FlagSet, OneProfilerThread, Profiling
<1>8. (SamplesTaken /\ SampleSentOnce)'
  BY <1>3, DataFrame DEF IInv
<1>9. SessionsKeptApart'
  <2>1. \A a \in Apps : \A k \in DOMAIN finished[a] :
           finished[a][k] # new /\ owner'[finished[a][k]] = a
    <3> TAKE a \in Apps
    <3> TAKE k \in DOMAIN finished[a]
    <3>1. finished[a][k] \in Sessions /\ owner[finished[a][k]] = a /\ a # NoApp
      <4>1. finished[a] \in Seq(Sessions) /\ a # NoApp
        BY ProfileAssumption DEF IInv, TypeOK, ProfileAssumption
      <4> QED BY <4>1 DEF IInv, SessionsKeptApart
    <3> QED BY <1>1, <1>3, <3>1 DEF IInv, TypeOK
  <2> QED BY <1>1, <1>2, <1>3, <2>1 DEF IInv, TypeOK, SessionsKeptApart, harvest
<1> QED BY <1>4, <1>5, <1>6, <1>7, <1>8, <1>9 DEF IInv

\* A session stops at the request of the application that is harvested.
LEMMA StopCommandKeeps == IInv /\ StopCommand => IInv'
<1> SUFFICES ASSUME IInv, StopCommand PROVE IInv'
  OBVIOUS
<1>1. app \in Apps /\ Stop(app) /\ at = "commands" /\ UNCHANGED <<owner, data, profiler, harvest>>
  BY DEF IInv, StopCommand, HarvestFits
<1>2. /\ full' \in Sessions \cup {0} /\ fullApp' \in Apps \cup {NoApp}
      /\ (full' = 0) <=> (fullApp' = NoApp)
      /\ finished' \in [Apps -> Seq(Sessions)]
      /\ SessionsKeptApart'
  BY <1>1, StopKeeps DEF harvest
<1>3. TypeOK'
  BY <1>1, <1>2 DEF IInv, TypeOK, data, profiler, harvest
<1>4. HarvestFits'
  BY <1>1 DEF IInv, HarvestFits, harvest, data, Reported
<1> QED BY <1>1, <1>2, <1>3, <1>4, DataFrame, ProfilerFrame, OrderFrame DEF IInv, profiler

-----------------------------------------------------------------------------
(***************************************************************************)
(* The profiler thread.                                                    *)
(***************************************************************************)
\* A step that only moves a profiler thread, which was profiling.
LEMMA MoveKeeps ==
  ASSUME IInv, NEW t \in Sessions, Profiling(t),
         NEW pc \in {"collect", "merge", "merging", "update", "expire", "expired", "stop",
                     "decide", "clear", "dead"},
         Move(t, pc), held' \in [Sessions -> Sessions \cup {0}],
         stopping' \in [Sessions -> Apps \cup {NoApp}],
         UNCHANGED <<sessions, data, running, harvest>>
  PROVE  IInv'
<1>1. prof' = [prof EXCEPT ![t] = pc]
  BY DEF Move
<1>2. TypeOK'
  BY <1>1 DEF IInv, TypeOK, sessions, data, harvest
<1>3. HarvestFits'
  BY DEF IInv, HarvestFits, harvest, sessions, data, Reported
<1>4. (FlagSet /\ OneProfilerThread)'
  BY <1>1 DEF IInv, TypeOK, FlagSet, OneProfilerThread, Profiling
<1> QED BY <1>2, <1>3, <1>4, DataFrame, ApartFrame, OrderFrame DEF IInv, sessions, harvest

\* A stack trace gets into one call tree, and is a new one.
LEMMA MergeIntoKeeps == ASSUME IInv, NEW t \in Sessions, MergeInto(t) PROVE IInv'
<1>1. /\ prof[t] = "merging" /\ prof' = [prof EXCEPT ![t] = "update"]
      /\ held' = [held EXCEPT ![t] = 0]
      /\ UNCHANGED <<sessions, sent, lost, running, stopping, harvest>>
  BY DEF MergeInto, ProfilerAt, Move
<1>2. CASE samples < MaxSamples
  <2>1. samples' = samples + 1 /\ tree' = [tree EXCEPT ![held[t]] = @ \cup {samples + 1}]
    BY <1>2 DEF MergeInto
  <2>2. samples \in Nat /\ samples + 1 \in Samples /\ samples + 1 \in 0 .. MaxSamples
    BY <1>2, ProfileAssumption DEF IInv, TypeOK, Samples, ProfileAssumption
  <2>3. tree' \in [Sessions -> SUBSET Samples]
    BY <2>1, <2>2 DEF IInv, TypeOK
  <2>4. \A s \in Sessions : tree'[s] = tree[s] \/ (s = held[t] /\ tree'[s] = tree[s] \cup {samples + 1})
    BY <2>1 DEF IInv, TypeOK
  <2>5. TypeOK'
    BY <1>1, <2>1, <2>2, <2>3 DEF IInv, TypeOK, sessions, harvest
  <2>6. HarvestFits'
    <3>1. at = "sending" => tree[Reported] \subseteq tree'[Reported]
      BY <2>1 DEF IInv, TypeOK
    <3> QED BY <1>1, <3>1 DEF IInv, HarvestFits, harvest, sessions, Reported
  <2>7. SamplesTaken'
    BY <1>1, <2>1, <2>2, <2>4 DEF IInv, SamplesTaken
  <2>8. SampleSentOnce'
    <3>1. \A s \in Sessions : samples + 1 \notin tree[s]
      BY <2>2 DEF IInv, SamplesTaken
    <3>2. samples + 1 \notin sent /\ samples + 1 \notin lost
      BY <2>2 DEF IInv, SamplesTaken
    <3> QED BY <1>1, <2>4, <3>1, <3>2 DEF IInv, SampleSentOnce
  <2>9. (FlagSet /\ OneProfilerThread)'
    BY <1>1 DEF IInv, TypeOK, FlagSet, OneProfilerThread, Profiling
  <2> QED BY <1>1, <2>5, <2>6, <2>7, <2>8, <2>9, ApartFrame, OrderFrame DEF IInv, sessions, harvest
<1>3. CASE ~(samples < MaxSamples)
  <2>1. /\ Profiling(t) /\ Move(t, "update")
        /\ UNCHANGED <<sessions, data, running, stopping, harvest>>
    BY <1>1, <1>3 DEF MergeInto, Profiling, data
  <2>2. held' \in [Sessions -> Sessions \cup {0}] /\ stopping' \in [Sessions -> Apps \cup {NoApp}]
    BY <1>1 DEF IInv, TypeOK
  <2> QED BY <2>1, <2>2, MoveKeeps
<1> QED BY <1>2, <1>3

\* The thread stops the session it finds under the lock, which no report holds,
\* if it is of the application the thread has read.
LEMMA StopExpiredKeeps == ASSUME IInv, NEW t \in Sessions, StopExpired(t) PROVE IInv'
<1>1. /\ prof[t] = "stop" /\ prof' = [prof EXCEPT ![t] = "decide"] /\ Stop(stopping[t])
      /\ stopping[t] \in Apps \cup {NoApp} /\ stopping' = [stopping EXCEPT ![t] = NoApp]
      /\ at \notin {"reporting", "sending"}
      /\ UNCHANGED <<owner, data, running, held, harvest>>
  BY DEF IInv, TypeOK, StopExpired, ProfilerAt, Move, LockFree
<1>2. /\ full' \in Sessions \cup {0} /\ fullApp' \in Apps \cup {NoApp}
      /\ (full' = 0) <=> (fullApp' = NoApp)
      /\ finished' \in [Apps -> Seq(Sessions)]
      /\ SessionsKeptApart'
      /\ fullApp' \in {fullApp, NoApp}
  <2>1. CASE stopping[t] \in Apps
    BY <1>1, <2>1, StopKeeps DEF harvest
  <2>2. CASE stopping[t] = NoApp
    <3>1. UNCHANGED <<full, fullApp, finished>>
      BY <1>1, <2>2 DEF IInv, TypeOK, Stop
    <3> QED BY <1>1, <3>1, ApartFrame DEF IInv, TypeOK, sessions, harvest
  <2> QED BY <1>1, <2>1, <2>2
<1>3. TypeOK'
  BY <1>1, <1>2 DEF IInv, TypeOK, data, harvest
<1>4. HarvestFits'
  BY <1>1, <1>2, ProfileAssumption DEF IInv, HarvestFits, harvest, data, Reported, ProfileAssumption
<1>5. (FlagSet /\ OneProfilerThread)'
  BY <1>1 DEF IInv, TypeOK, FlagSet, OneProfilerThread, Profiling
<1> QED BY <1>1, <1>2, <1>3, <1>4, <1>5, DataFrame, OrderFrame DEF IInv

\* The thread that clears the flag was the only one.
LEMMA ClearKeeps == ASSUME IInv, NEW t \in Sessions, Clear(t) PROVE IInv'
<1>1. /\ prof[t] = "clear" /\ prof' = [prof EXCEPT ![t] = "ended"] /\ running' = FALSE
      /\ UNCHANGED <<sessions, data, held, stopping, harvest>>
  BY DEF Clear, ProfilerAt, Move
<1>2. TypeOK'
  BY <1>1 DEF IInv, TypeOK, sessions, data, harvest
<1>3. HarvestFits'
  BY <1>1 DEF IInv, HarvestFits, harvest, sessions, data, Reported
<1>4. (FlagSet /\ OneProfilerThread)'
  BY <1>1 DEF IInv, TypeOK, FlagSet, OneProfilerThread, Profiling
<1> QED BY <1>1, <1>2, <1>3, <1>4, DataFrame, ApartFrame, OrderFrame DEF IInv, sessions, harvest

LEMMA ProfilerKeeps == ASSUME IInv, NEW t \in Sessions, ProfilerLoop(t) PROVE IInv'
<1>0. /\ held \in [Sessions -> Sessions \cup {0}] /\ full \in Sessions \cup {0}
      /\ stopping \in [Sessions -> Apps \cup {NoApp}]
  BY DEF IInv, TypeOK
<1>1. CASE Collect(t)
  BY <1>0, <1>1, MoveKeeps DEF Collect, ProfilerAt, Profiling
<1>2. CASE Merge(t)
  <2>1. held' \in [Sessions -> Sessions \cup {0}]
    BY <1>0, <1>2 DEF Merge
  <2> QED BY <1>0, <1>2, <2>1, MoveKeeps DEF Merge, ProfilerAt, Profiling
<1>3. CASE Update(t)
  BY <1>0, <1>3, MoveKeeps DEF Update, ProfilerAt, Profiling
<1>4. CASE NotExpired(t)
  BY <1>0, <1>4, MoveKeeps DEF NotExpired, ProfilerAt, Profiling
<1>5. CASE Expired(t)
  BY <1>0, <1>5, MoveKeeps DEF Expired, ProfilerAt, Profiling
<1>6. CASE Decide(t)
  BY <1>0, <1>6, MoveKeeps DEF Decide, ProfilerAt, Profiling
<1>7. CASE ReadApp(t)
  <2>1. stopping' \in [Sessions -> Apps \cup {NoApp}] /\ held' = held
    BY <1>0, <1>7 DEF IInv, TypeOK, ReadApp
  <2> QED BY <1>0, <1>7, <2>1, MoveKeeps DEF ReadApp, ProfilerAt, Profiling
<1> QED BY <1>1, <1>2, <1>3, <1>4, <1>5, <1>6, <1>7, MergeIntoKeeps, StopExpiredKeeps, ClearKeeps
        DEF ProfilerLoop

-----------------------------------------------------------------------------
(***************************************************************************)
(* The harvest thread.                                                     *)
(***************************************************************************)
\* A step that touches no session, no sample and no application.
LEMMA ControlKeeps ==
  IInv /\ TypeOK' /\ HarvestFits' /\ UNCHANGED <<sessions, data, profiler, down>> => IInv'
BY DataFrame, ApartFrame, OrderFrame, ProfilerFrame DEF IInv, sessions, profiler

\* Where a harvest that raised goes: its application stays up, and is not
\* shut down twice.
LEMMA RaisedFits ==
  ASSUME IInv, at # "idle", last => at \in {"reporting", "sending"}, Raised,
         UNCHANGED <<fullApp, todo, down>>
  PROVE  /\ at' \in {"idle", "shutdown", "leaving"} /\ app' \in Apps \cup {NoApp}
         /\ restart' \in BOOLEAN /\ last' \in BOOLEAN /\ place' \in Nat
         /\ failures' \in 0 .. MaxFailures
         /\ HarvestFits'
<1>1. failures' \in 0 .. MaxFailures
  BY ProfileAssumption DEF IInv, TypeOK, Raised, ProfileAssumption
<1>2. CASE last
  BY <1>1, <1>2 DEF IInv, TypeOK, HarvestFits, Raised, GoOn
<1>3. CASE ~last
  <2>1. CASE Finish
    BY <1>1, <1>3, <2>1 DEF IInv, TypeOK, HarvestFits, Finish
  <2>2. CASE GoOn("shutdown") /\ restart' \in BOOLEAN
    BY <1>1, <1>3, <2>2 DEF IInv, TypeOK, HarvestFits, GoOn
  <2> QED BY <1>3, <2>1, <2>2 DEF Raised
<1> QED BY <1>2, <1>3 DEF IInv, TypeOK

\* The session a report is at.
LEMMA ReportedType ==
  IInv /\ at \in {"reporting", "sending"} /\ place <= Len(finished[app]) => Reported \in Sessions
<1> SUFFICES ASSUME IInv, at \in {"reporting", "sending"}, place <= Len(finished[app])
             PROVE  Reported \in Sessions
  OBVIOUS
<1>1. finished[app] \in Seq(Sessions)
  BY DEF IInv, TypeOK, HarvestFits
<1>2. place \in 1 .. Len(finished[app])
  BY <1>1 DEF IInv, TypeOK, HarvestFits
<1> QED BY <1>1, <1>2 DEF Reported

LEMMA BeginHarvestKeeps == IInv /\ BeginHarvest => IInv'
<1> SUFFICES ASSUME IInv, BeginHarvest PROVE IInv'
  OBVIOUS
<1>1. TypeOK'
  BY DEF IInv, TypeOK, BeginHarvest, sessions, data, profiler
<1>2. HarvestFits'
  BY DEF IInv, HarvestFits, BeginHarvest, sessions, data, Reported
<1> QED BY <1>1, <1>2, ControlKeeps DEF BeginHarvest

LEMMA HarvestAppKeeps == ASSUME IInv, NEW a \in Apps, HarvestApp(a) PROVE IInv'
<1>1. TypeOK'
  BY DEF IInv, TypeOK, HarvestApp, sessions, data, profiler
<1>2. HarvestFits'
  BY DEF IInv, HarvestFits, HarvestApp, sessions, data, Reported
<1> QED BY <1>1, <1>2, ControlKeeps DEF HarvestApp

LEMMA CommandsKeep == IInv /\ (CommandsDone \/ CommandsRaise) => IInv'
<1> SUFFICES ASSUME IInv, CommandsDone \/ CommandsRaise PROVE IInv'
  OBVIOUS
<1>1. CASE CommandsDone
  <2>1. TypeOK'
    BY <1>1 DEF IInv, TypeOK, CommandsDone, sessions, data, profiler
  <2>2. HarvestFits'
    BY <1>1 DEF IInv, HarvestFits, CommandsDone, sessions, data, Reported
  <2> QED BY <1>1, <2>1, <2>2, ControlKeeps DEF CommandsDone
<1>2. CASE CommandsRaise
  <2>1. at = "commands" /\ Raised /\ UNCHANGED <<sessions, data, profiler, todo, final, down, payload>>
    BY <1>2 DEF CommandsRaise
  <2>2. /\ at' \in {"idle", "shutdown", "leaving"} /\ app' \in Apps \cup {NoApp}
        /\ restart' \in BOOLEAN /\ last' \in BOOLEAN /\ place' \in Nat
        /\ failures' \in 0 .. MaxFailures
        /\ HarvestFits'
    BY <2>1, RaisedFits DEF IInv, HarvestFits, sessions
  <2>3. TypeOK'
    BY <2>1, <2>2 DEF IInv, TypeOK, sessions, data, profiler
  <2> QED BY <2>1, <2>2, <2>3, ControlKeeps
<1> QED BY <1>1, <1>2

LEMMA EncodeKeeps == IInv /\ (Encode \/ EncodeRaises) => IInv'
<1> SUFFICES ASSUME IInv, Encode \/ EncodeRaises PROVE IInv'
  OBVIOUS
<1>1. CASE Encode
  <2>1. Reported \in Sessions /\ Reported' = Reported
    BY <1>1, ReportedType DEF Encode, sessions, Reported
  <2>2. TypeOK'
    BY <1>1, <2>1 DEF IInv, TypeOK, Encode, sessions, data, profiler
  <2>3. HarvestFits'
    BY <1>1, <2>1 DEF IInv, HarvestFits, Encode, sessions, data
  <2> QED BY <1>1, <2>2, <2>3, ControlKeeps DEF Encode
<1>2. CASE EncodeRaises
  <2>1. at = "reporting" /\ Raised /\ UNCHANGED <<sessions, data, profiler, todo, final, down, payload>>
    BY <1>2 DEF EncodeRaises
  <2>2. /\ at' \in {"idle", "shutdown", "leaving"} /\ app' \in Apps \cup {NoApp}
        /\ restart' \in BOOLEAN /\ last' \in BOOLEAN /\ place' \in Nat
        /\ failures' \in 0 .. MaxFailures
        /\ HarvestFits'
    BY <2>1, RaisedFits DEF IInv, HarvestFits, sessions
  <2>3. TypeOK'
    BY <2>1, <2>2 DEF IInv, TypeOK, sessions, data, profiler
  <2> QED BY <2>1, <2>2, <2>3, ControlKeeps
<1> QED BY <1>1, <1>2

\* The tree of the session reported is emptied: what was encoded counts as
\* sent or, with the rest of the tree, as lost.
LEMMA ResetKeeps ==
  ASSUME IInv, at = "sending", NEW out, out = payload \/ out = {}, ResetTree(out),
         sent' = sent \cup out, samples' = samples
  PROVE  /\ tree' \in [Sessions -> SUBSET Samples] /\ sent' \subseteq Samples /\ lost' \subseteq Samples
         /\ SamplesTaken' /\ SampleSentOnce'
<1>1. Reported \in Sessions
  BY ReportedType DEF IInv, HarvestFits
<1>2. out \subseteq tree[Reported]
  BY DEF IInv, HarvestFits
<1>3. tree' = [tree EXCEPT ![Reported] = {}] /\ lost' = lost \cup (tree[Reported] \ out)
  BY DEF ResetTree
<1>4. tree' \in [Sessions -> SUBSET Samples]
  BY <1>1, <1>3 DEF IInv, TypeOK
<1>5. sent' \subseteq Samples /\ lost' \subseteq Samples
  BY <1>1, <1>2, <1>3 DEF IInv, TypeOK
<1>6. \A s \in Sessions : tree'[s] = IF s = Reported THEN {} ELSE tree[s]
  BY <1>1, <1>3 DEF IInv, TypeOK
<1>7. SamplesTaken'
  <2>1. /\ sent \subseteq 1 .. samples /\ lost \subseteq 1 .. samples
        /\ \A s \in Sessions : tree[s] \subseteq 1 .. samples
    BY DEF IInv, SamplesTaken
  <2>2. sent' \subseteq 1 .. samples /\ lost' \subseteq 1 .. samples
    BY <1>1, <1>2, <1>3, <2>1
  <2>3. \A s \in Sessions : tree'[s] \subseteq 1 .. samples
    BY <1>6, <2>1
  <2> QED BY <2>2, <2>3 DEF SamplesTaken
<1>8. SampleSentOnce'
  BY <1>1, <1>2, <1>3, <1>6 DEF IInv, SampleSentOnce
<1> QED BY <1>4, <1>5, <1>7, <1>8

LEMMA SendKeeps == IInv /\ (SendProfile \/ SendRaises) => IInv'
<1> SUFFICES ASSUME IInv, SendProfile \/ SendRaises PROVE IInv'
  OBVIOUS
<1>1. CASE SendProfile
  <2>1. /\ tree' \in [Sessions -> SUBSET Samples] /\ sent' \subseteq Samples /\ lost' \subseteq Samples
        /\ SamplesTaken' /\ SampleSentOnce'
    BY <1>1, ResetKeeps DEF SendProfile
  <2>2. TypeOK'
    BY <1>1, <2>1 DEF IInv, TypeOK, SendProfile, sessions, profiler
  <2>3. HarvestFits'
    BY <1>1 DEF IInv, TypeOK, HarvestFits, SendProfile, sessions
  <2> QED BY <1>1, <2>1, <2>2, <2>3, ApartFrame, OrderFrame, ProfilerFrame
          DEF IInv, SendProfile, sessions, profiler
<1>2. CASE SendRaises
  <2>1. /\ at = "sending" /\ ResetTree({}) /\ payload' = {} /\ Raised
        /\ UNCHANGED <<sessions, sent, samples, profiler, todo, final, down>>
    BY <1>2 DEF SendRaises
  <2>2. sent' = sent \cup {} /\ samples' = samples
    BY <2>1
  <2>3. /\ tree' \in [Sessions -> SUBSET Samples] /\ sent' \subseteq Samples /\ lost' \subseteq Samples
        /\ SamplesTaken' /\ SampleSentOnce'
    BY <2>1, <2>2, ResetKeeps
  <2>4. /\ at' \in {"idle", "shutdown", "leaving"} /\ app' \in Apps \cup {NoApp}
        /\ restart' \in BOOLEAN /\ last' \in BOOLEAN /\ place' \in Nat
        /\ failures' \in 0 .. MaxFailures
        /\ HarvestFits'
    BY <2>1, RaisedFits DEF IInv, HarvestFits, sessions
  <2>5. TypeOK'
    BY <2>1, <2>3, <2>4 DEF IInv, TypeOK, sessions, profiler
  <2> QED BY <2>1, <2>3, <2>4, <2>5, ApartFrame, OrderFrame, ProfilerFrame
          DEF IInv, sessions, profiler
<1> QED BY <1>1, <1>2

\* The report ends and forgets its list; the harvest goes on or ends.
LEMMA ReportDoneKeeps == IInv /\ ReportDone => IInv'
<1> SUFFICES ASSUME IInv, ReportDone PROVE IInv'
  OBVIOUS
<1>1. /\ at = "reporting" /\ finished' = [finished EXCEPT ![app] = <<>>] /\ AfterReport
      /\ app \in Apps
      /\ UNCHANGED <<full, fullApp, owner, data, profiler, todo, final, down, payload, failures>>
  BY DEF IInv, HarvestFits, ReportDone
<1>2. finished' \in [Apps -> Seq(Sessions)]
  BY <1>1 DEF IInv, TypeOK
<1>3. /\ at' \in {"idle", "shutdown", "leaving"} /\ app' \in Apps \cup {NoApp}
      /\ restart' \in BOOLEAN /\ last' \in BOOLEAN /\ place' \in Nat
      /\ HarvestFits'
  <2>1. CASE last
    BY <1>1, <2>1 DEF IInv, TypeOK, HarvestFits, AfterReport, GoOn
  <2>2. CASE ~last /\ final
    <3>1. /\ at' = "shutdown" /\ restart' = FALSE /\ app' = app /\ last' = last /\ place' = 0
      BY <1>1, <2>2 DEF AfterReport, GoOn
    <3>2. HarvestFits'
      BY <1>1, <2>2, <3>1 DEF IInv, HarvestFits
    <3> QED BY <2>2, <3>1, <3>2 DEF IInv, TypeOK
  <2>3. CASE ~last /\ ~final
    <3>1. at' = "idle" /\ app' = NoApp /\ place' = 0 /\ restart' = FALSE /\ last' = FALSE
      BY <1>1, <2>3 DEF AfterReport, Finish
    <3>2. HarvestFits'
      BY <1>1, <3>1 DEF IInv, HarvestFits
    <3> QED BY <3>1, <3>2 DEF IInv, TypeOK
  <2> QED BY <2>1, <2>2, <2>3 DEF IInv, TypeOK
<1>4. TypeOK'
  BY <1>1, <1>2, <1>3 DEF IInv, TypeOK, data, profiler
<1>5. SessionsKeptApart'
  <2>1. \A a \in Apps : finished'[a] = finished[a] \/ finished'[a] = <<>>
    BY <1>1 DEF IInv, TypeOK
  <2>2. DOMAIN <<>> = {}
    OBVIOUS
  <2> QED BY <1>1, <2>1, <2>2 DEF IInv, SessionsKeptApart
<1> QED BY <1>1, <1>3, <1>4, <1>5, DataFrame, OrderFrame, ProfilerFrame DEF IInv, profiler

\* The application being shut down stops its session, and is down at the end.
LEMMA ShutdownKeeps == IInv /\ (Shutdown \/ Leave) => IInv'
<1> SUFFICES ASSUME IInv, Shutdown \/ Leave PROVE IInv'
  OBVIOUS
<1>1. CASE Shutdown
  <2>1. app \in Apps /\ Stop(app) /\ UNCHANGED <<owner, down>>
    BY <1>1 DEF IInv, HarvestFits, Shutdown
  <2>2. /\ full' \in Sessions \cup {0} /\ fullApp' \in Apps \cup {NoApp}
        /\ (full' = 0) <=> (fullApp' = NoApp)
        /\ finished' \in [Apps -> Seq(Sessions)]
        /\ SessionsKeptApart' /\ fullApp' # app
    BY <2>1, StopKeeps
  <2>3. TypeOK'
    BY <1>1, <2>2 DEF IInv, TypeOK, Shutdown, data, profiler
  <2>4. HarvestFits'
    BY <1>1, <2>2 DEF IInv, HarvestFits, Shutdown
  <2> QED BY <1>1, <2>2, <2>3, <2>4, DataFrame, OrderFrame, ProfilerFrame DEF IInv, Shutdown, profiler
<1>2. CASE Leave
  <2>1. /\ at = "leaving" /\ last /\ fullApp # app /\ app \in Apps /\ app \notin todo
        /\ down' = [down EXCEPT ![app] = ~restart] /\ Finish
        /\ UNCHANGED <<sessions, data, profiler, todo, final, payload, failures>>
    BY <1>2 DEF IInv, HarvestFits, Leave
  <2>2. down' \in [Apps -> BOOLEAN]
    BY <2>1 DEF IInv, TypeOK
  <2>3. TypeOK'
    BY <2>1, <2>2 DEF IInv, TypeOK, Finish, sessions, data, profiler
  <2>4. \A a \in Apps : a # app => down'[a] = down[a]
    BY <2>1 DEF IInv, TypeOK
  <2>5. HarvestFits'
    BY <2>1, <2>4 DEF IInv, TypeOK, HarvestFits, Finish
  <2>6. SessionsKeptApart'
    <3>1. full # 0 => fullApp \in Apps
      BY DEF IInv, TypeOK
    <3> QED BY <2>1, <2>4, <3>1 DEF IInv, SessionsKeptApart, sessions
  <2> QED BY <2>1, <2>3, <2>5, <2>6, DataFrame, OrderFrame, ProfilerFrame
          DEF IInv, profiler, sessions
<1> QED BY <1>1, <1>2

-----------------------------------------------------------------------------
\* Every step of the specification keeps the invariant.
LEMMA NextKeeps == IInv /\ [Next]_vars => IInv'
<1> SUFFICES ASSUME IInv, [Next]_vars PROVE IInv'
  OBVIOUS
<1>1. CASE StartCommand \/ StopCommand
  BY <1>1, StartKeeps, StopCommandKeeps
<1>2. ASSUME NEW t \in Sessions, ProfilerLoop(t) PROVE IInv'
  BY <1>2, ProfilerKeeps
<1>3. CASE HarvestSteps
  BY <1>3, BeginHarvestKeeps, HarvestAppKeeps, CommandsKeep, EncodeKeeps, SendKeeps,
     ReportDoneKeeps, ShutdownKeeps DEF HarvestSteps
<1>4. CASE CommandsRaise \/ EncodeRaises \/ SendRaises
  BY <1>4, CommandsKeep, EncodeKeeps, SendKeeps
<1>5. CASE UNCHANGED vars
  <2>1. TypeOK'
    BY <1>5 DEF IInv, TypeOK, vars, sessions, data, profiler, harvest
  <2>2. HarvestFits'
    BY <1>5 DEF IInv, HarvestFits, Reported, vars, sessions, data, harvest
  <2> QED BY <1>5, <2>1, <2>2, ControlKeeps DEF vars, harvest
<1> QED BY <1>1, <1>2, <1>3, <1>4, <1>5 DEF Next

\* The invariant holds in every state.
THEOREM Inductive == Spec => []IInv
BY Initially, NextKeeps, PTL DEF Spec

\* Every variable of the manager and its threads keeps its type.
THEOREM TypeCorrect == Spec => []TypeOK
<1>1. IInv => TypeOK
  BY DEF IInv
<1> QED BY Inductive, <1>1, PTL

\* Sessions come and go without a lock on the running flag, and yet no two
\* profiler threads ever walk the stacks at once.
THEOREM ProfilerIsAlone == Spec => []OneProfilerThread
<1>1. IInv => OneProfilerThread
  BY DEF IInv
<1> QED BY Inductive, <1>1, PTL

\* No stack trace is sent twice, whatever reports fail.
THEOREM SamplesGoOnce == Spec => []SampleSentOnce
<1>1. IInv => SampleSentOnce
  BY DEF IInv
<1> QED BY Inductive, <1>1, PTL

\* What is reported for an application was started by it, and an application
\* that is down runs no session.
THEOREM SessionsApart == Spec => []SessionsKeptApart
<1>1. IInv => SessionsKeptApart
  BY DEF IInv
<1> QED BY Inductive, <1>1, PTL
=============================================================================
