--------------------------- MODULE ProfileSessions ---------------------------
(***************************************************************************)
(* newrelic/core/profile_sessions.py: the ProfileSessionManager all        *)
(* applications of the process share, driven by the harvest thread (the    *)
(* profiler commands, the report of finished sessions and the shutdown of  *)
(* newrelic/core/application.py) and by the profiler thread it starts.     *)
(* The manager's _lock guards start, stop and report; the profiler thread  *)
(* reads full_profile_session and full_profile_app, and writes its running *)
(* flag, without it.                                                       *)
(* A step of the harvest thread that starts or stops a session is one      *)
(* action; a report holds the lock from session to session while it sends. *)
(***************************************************************************)
EXTENDS Naturals, Sequences, FiniteSets

CONSTANTS
  Apps,         \* applications of the process
  MaxSessions,  \* bound: profiler sessions started
  MaxSamples,   \* bound: stack traces merged
  MaxFailures,  \* bound: harvests that raise
  NoApp         \* None

ASSUME ProfileAssumption ==
  /\ MaxSessions \in Nat /\ MaxSamples \in Nat /\ MaxFailures \in Nat
  /\ NoApp \notin Apps

\* Sessions, and the profiler threads by the session whose start created them.
\* Session 0 is None.
Sessions == 1 .. MaxSessions
Samples  == 1 .. MaxSamples

VARIABLES
  full,      \* full_profile_session
  fullApp,   \* full_profile_app
  running,   \* _profiler_thread_running
  finished,  \* finished_sessions of each application
  owner,     \* application that started each session (history)
  tree,      \* samples in the call tree of each session
  sent,      \* samples sent (history)
  lost,      \* samples of a call tree that was reset and not sent (history)
  samples,   \* samples taken so far
  prof,      \* where each profiler thread is
  held,      \* the session object it merges into
  stopping,  \* the application it has read to stop its session
  at,        \* where the harvest thread is
  app,       \* the application it harvests
  todo,      \* the applications left in this harvest
  final,     \* the harvest of the process shutdown has begun
  restart,   \* argument of internal_agent_shutdown
  last,      \* the report is that of internal_agent_shutdown
  down,      \* _agent_shutdown of each application
  payload,   \* the profile the report has encoded
  place,     \* the session of the list it is at
  failures   \* harvests that raised

sessions == <<full, fullApp, finished, owner>>
data     == <<tree, sent, lost, samples>>
profiler == <<running, prof, held, stopping>>
harvest  == <<at, app, todo, final, restart, last, down, payload, place, failures>>
vars     == <<sessions, data, profiler, harvest>>

Init ==
  /\ full = 0 /\ fullApp = NoApp /\ running = FALSE
  /\ finished = [a \in Apps |-> <<>>]
  /\ owner = [s \in Sessions |-> NoApp]
  /\ tree = [s \in Sessions |-> {}] /\ sent = {} /\ lost = {} /\ samples = 0
  /\ prof = [t \in Sessions |-> "none"] /\ held = [t \in Sessions |-> 0]
  /\ stopping = [t \in Sessions |-> NoApp]
  /\ at = "idle" /\ app = NoApp /\ todo = {} /\ final = FALSE
  /\ restart = FALSE /\ last = FALSE /\ down = [a \in Apps |-> FALSE]
  /\ payload = {} /\ place = 0 /\ failures = 0

-----------------------------------------------------------------------------
\* A report holds _lock while it sends; nobody else holds it over a step.
LockFree == at \notin {"reporting", "sending"}

Started == Cardinality({s \in Sessions : owner[s] # NoApp})

\* Variant of StartSession: a thread is created for every session.
StartAlways ==
  /\ full = 0 /\ Started < MaxSessions
  /\ full' = Started + 1 /\ fullApp' = app
  /\ owner' = [owner EXCEPT ![Started + 1] = app]
  /\ running' = TRUE
  /\ prof' = [prof EXCEPT ![Started + 1] = "collect"]
  /\ UNCHANGED <<finished, data, held, stopping, harvest>>

\* start_profile_session: a second session is refused and changes nothing.
StartSession ==
  /\ full = 0 /\ Started < MaxSessions
  /\ full' = Started + 1 /\ fullApp' = app
  /\ owner' = [owner EXCEPT ![Started + 1] = app]
  /\ running' = TRUE
  /\ prof' = IF running THEN prof ELSE [prof EXCEPT ![Started + 1] = "collect"]
  /\ UNCHANGED <<finished, data, held, stopping, harvest>>

\* cmd_start_profiler; it changes nothing else, whatever it answers.
StartCommand == at = "commands" /\ StartSession

\* Variant of Stop: whichever application asks.
StopAny(a) ==
  IF full # 0
    THEN /\ finished' = [finished EXCEPT ![a] = Append(@, full)]
         /\ full' = 0 /\ fullApp' = NoApp
    ELSE UNCHANGED <<full, fullApp, finished>>

\* Variant of Stop: full_profile_app is not reset.
StopKeepsApp(a) ==
  IF full # 0 /\ a = fullApp
    THEN finished' = [finished EXCEPT ![a] = Append(@, full)] /\ full' = 0 /\ fullApp' = fullApp
    ELSE UNCHANGED <<full, fullApp, finished>>

\* stop_profile_session, under _lock.
Stop(a) ==
  IF full # 0 /\ a = fullApp
    THEN /\ finished' = [finished EXCEPT ![a] = Append(@, full)]
         /\ full' = 0 /\ fullApp' = NoApp
    ELSE UNCHANGED <<full, fullApp, finished>>

\* cmd_stop_profiler, for the session whose profile_id is the one running,
\* from whichever application the collector sends it to.
StopCommand ==
  /\ at = "commands" /\ full # 0
  /\ Stop(app)
  /\ UNCHANGED <<owner, data, profiler, harvest>>

-----------------------------------------------------------------------------
(* _profiler_loop of thread t.                                              *)

ProfilerAt(t, pc) == prof[t] = pc
Move(t, pc)       == prof' = [prof EXCEPT ![t] = pc]

\* A stack trace is at hand: the first read of full_profile_session.
Collect(t) ==
  /\ ProfilerAt(t, "collect")
  /\ Move(t, IF full # 0 THEN "merge" ELSE "update")
  /\ UNCHANGED <<sessions, data, running, held, stopping, harvest>>

\* The second read: None has no update_call_tree, and nothing catches the
\* AttributeError, so that the thread dies with its running flag set.
Merge(t) ==
  /\ ProfilerAt(t, "merge")
  /\ Move(t, IF full # 0 THEN "merging" ELSE "dead")
  /\ held' = [held EXCEPT ![t] = full]
  /\ UNCHANGED <<sessions, data, running, stopping, harvest>>

\* update_call_tree on the session object, which may be finished by now.
MergeInto(t) ==
  /\ ProfilerAt(t, "merging")
  /\ Move(t, "update")
  /\ held' = [held EXCEPT ![t] = 0]
  /\ IF samples < MaxSamples
       THEN /\ samples' = samples + 1
            /\ tree' = [tree EXCEPT ![held[t]] = @ \cup {samples + 1}]
       ELSE UNCHANGED <<samples, tree>>
  /\ UNCHANGED <<sessions, sent, lost, running, stopping, harvest>>

\* update_profile_sessions: its first read.
Update(t) ==
  /\ ProfilerAt(t, "update")
  /\ Move(t, IF full # 0 THEN "expire" ELSE "decide")
  /\ UNCHANGED <<sessions, data, running, held, stopping, harvest>>

\* Its further reads: the stop time of whatever session there is now has not
\* come, or has; without a session the thread dies as above.
NotExpired(t) ==
  /\ ProfilerAt(t, "expire")
  /\ Move(t, IF full # 0 THEN "decide" ELSE "dead")
  /\ UNCHANGED <<sessions, data, running, held, stopping, harvest>>

Expired(t) ==
  /\ ProfilerAt(t, "expire") /\ full # 0
  /\ Move(t, "expired")
  /\ UNCHANGED <<sessions, data, running, held, stopping, harvest>>

\* full_profile_app is read before stop_profile_session takes the lock.
ReadApp(t) ==
  /\ ProfilerAt(t, "expired")
  /\ stopping' = [stopping EXCEPT ![t] = fullApp]
  /\ Move(t, "stop")
  /\ UNCHANGED <<sessions, data, running, held, harvest>>

\* Variant of StopExpired: stopped by the thread, not by the application.
StopExpiredNoApp(t) ==
  /\ ProfilerAt(t, "stop") /\ LockFree
  /\ stopping' = [stopping EXCEPT ![t] = NoApp]
  /\ Move(t, "decide")
  /\ UNCHANGED <<sessions, data, running, held, harvest>>

\* The expired session is stopped, or the one the same application started
\* while the thread waited for the lock; that of another application is not.
StopExpired(t) ==
  /\ ProfilerAt(t, "stop") /\ LockFree
  /\ Stop(stopping[t])
  /\ stopping' = [stopping EXCEPT ![t] = NoApp]
  /\ Move(t, "decide")
  /\ UNCHANGED <<owner, data, running, held, harvest>>

\* The thread ends when it sees no session, after the wait for
\* sample_period_s it goes on otherwise.
Decide(t) ==
  /\ ProfilerAt(t, "decide")
  /\ Move(t, IF full = 0 THEN "clear" ELSE "collect")
  /\ UNCHANGED <<sessions, data, running, held, stopping, harvest>>

\* It clears its flag and returns, whatever was started meanwhile.
Clear(t) ==
  /\ ProfilerAt(t, "clear")
  /\ running' = FALSE
  /\ Move(t, "ended")
  /\ UNCHANGED <<sessions, data, held, stopping, harvest>>

-----------------------------------------------------------------------------
(* The harvest thread.                                                      *)

\* The harvest goes over all applications; the last one is that of the
\* process shutdown.
BeginHarvest ==
  /\ at = "idle" /\ todo = {} /\ ~final
  /\ todo' = {a \in Apps : ~down[a]}
  /\ final' \in BOOLEAN
  /\ UNCHANGED <<sessions, data, profiler, at, app, restart, last, down, payload, place, failures>>

\* One application is taken, whose metrics are sent and whose commands come.
HarvestApp(a) ==
  /\ at = "idle" /\ a \in todo
  /\ todo' = todo \ {a} /\ app' = a /\ at' = "commands"
  /\ UNCHANGED <<sessions, data, profiler, final, restart, last, down, payload, place, failures>>

\* process_agent_commands returns: report_profile_data takes the lock.
CommandsDone ==
  /\ at = "commands"
  /\ at' = "reporting" /\ place' = 1
  /\ UNCHANGED <<sessions, data, profiler, app, todo, final, restart, last, down, payload, failures>>

\* The harvest of the application is over.
Finish == at' = "idle" /\ app' = NoApp /\ place' = 0 /\ restart' = FALSE /\ last' = FALSE

\* It goes on to another part of internal_agent_shutdown.
GoOn(part) == at' = part /\ place' = 0 /\ UNCHANGED <<app, last>>

\* An exception in the harvest: a request of the collector to restart or to
\* disconnect leads to internal_agent_shutdown, any other ends the harvest of
\* this application.  The report of the shutdown itself swallows it.
Raised ==
  /\ failures < MaxFailures /\ failures' = failures + 1
  /\ IF last
       THEN GoOn("leaving") /\ UNCHANGED restart
       ELSE Finish \/ (GoOn("shutdown") /\ restart' \in BOOLEAN)

CommandsRaise ==
  /\ at = "commands"
  /\ Raised
  /\ UNCHANGED <<sessions, data, profiler, todo, final, down, payload>>

\* The session the report is at.
Reported == finished[app][place]

\* profile_data of the session flattens its call tree.
Encode ==
  /\ at = "reporting" /\ place <= Len(finished[app])
  /\ payload' = tree[Reported] /\ at' = "sending"
  /\ UNCHANGED <<sessions, data, profiler, app, todo, final, restart, last, down, place, failures>>

\* A tree that changes while it is flattened raises, and stays as it is.
EncodeRaises ==
  /\ at = "reporting" /\ place <= Len(finished[app])
  /\ \E t \in Sessions : ProfilerAt(t, "merging") /\ held[t] = Reported
  /\ Raised
  /\ UNCHANGED <<sessions, data, profiler, todo, final, down, payload>>

\* Variant of ResetTree: the tree of a session that was sent is kept.
ResetNothing(out) == tree' = tree /\ lost' = lost

\* reset_profile_data, after the encoding and before the sending.
ResetTree(out) ==
  /\ tree' = [tree EXCEPT ![Reported] = {}]
  /\ lost' = lost \cup (tree[Reported] \ out)

\* send_profile_data succeeds: on to the next session of the list.
SendProfile ==
  /\ at = "sending"
  /\ ResetTree(payload)
  /\ sent' = sent \cup payload /\ payload' = {}
  /\ place' = place + 1 /\ at' = "reporting"
  /\ UNCHANGED <<sessions, samples, profiler, app, todo, final, restart, last, down, failures>>

\* It raises: the whole list stays, with the trees reset so far.
SendRaises ==
  /\ at = "sending"
  /\ ResetTree({})
  /\ payload' = {} /\ Raised
  /\ UNCHANGED <<sessions, sent, samples, profiler, todo, final, down>>

\* Where the harvest goes after its report: the last harvest of the process,
\* and the report of a shutdown, go on to the end of the agent session.
AfterReport ==
  IF last THEN GoOn("leaving") /\ UNCHANGED restart
  ELSE IF final THEN GoOn("shutdown") /\ restart' = FALSE
  ELSE Finish

\* Variant of ReportDone: the list is kept.
ReportKeeps ==
  /\ at = "reporting" /\ place > Len(finished[app])
  /\ AfterReport
  /\ UNCHANGED <<sessions, data, profiler, todo, final, down, payload, failures>>

\* The generator is exhausted and forgets the list.
ReportDone ==
  /\ at = "reporting" /\ place > Len(finished[app])
  /\ finished' = [finished EXCEPT ![app] = <<>>]
  /\ AfterReport
  /\ UNCHANGED <<full, fullApp, owner, data, profiler, todo, final, down, payload, failures>>

\* internal_agent_shutdown: the session of this application is stopped, and
\* its profiles are reported once more.
Shutdown ==
  /\ at = "shutdown"
  /\ Stop(app)
  /\ at' = "reporting" /\ place' = 1 /\ last' = TRUE
  /\ UNCHANGED <<owner, data, profiler, app, todo, final, restart, down, payload, failures>>

\* Its end: a new agent session, or none ever.
Leave ==
  /\ at = "leaving"
  /\ down' = [down EXCEPT ![app] = ~restart]
  /\ Finish
  /\ UNCHANGED <<sessions, data, profiler, todo, final, payload, failures>>

-----------------------------------------------------------------------------
ProfilerLoop(t) ==
  Collect(t) \/ Merge(t) \/ MergeInto(t) \/ Update(t) \/ NotExpired(t)
    \/ Expired(t) \/ ReadApp(t) \/ StopExpired(t) \/ Decide(t) \/ Clear(t)

HarvestSteps ==
  \/ BeginHarvest
  \/ \E a \in Apps : HarvestApp(a)
  \/ CommandsDone \/ Encode \/ SendProfile \/ ReportDone
  \/ Shutdown \/ Leave

Next ==
  \/ StartCommand \/ StopCommand
  \/ \E t \in Sessions : ProfilerLoop(t)
  \/ HarvestSteps
  \/ CommandsRaise \/ EncodeRaises \/ SendRaises

Spec == Init /\ [][Next]_vars

\* Both threads go on, the stop time of a session comes, and the profiler
\* thread gets a lock that is free but for reports.  Nothing is assumed of the
\* commands that come, or of the collector but that it does not fail for ever.
Fairness ==
  /\ WF_vars(HarvestSteps)
  /\ \A t \in Sessions :
       WF_vars(ProfilerLoop(t)) /\ SF_vars(Expired(t)) /\ SF_vars(StopExpired(t))

FairSpec == Spec /\ Fairness

-----------------------------------------------------------------------------
TypeOK ==
  /\ full \in Sessions \cup {0} /\ fullApp \in Apps \cup {NoApp}
  /\ (full = 0) <=> (fullApp = NoApp)
  /\ running \in BOOLEAN /\ finished \in [Apps -> Seq(Sessions)]
  /\ owner \in [Sessions -> Apps \cup {NoApp}]
  /\ tree \in [Sessions -> SUBSET Samples]
  /\ sent \subseteq Samples /\ lost \subseteq Samples /\ samples \in 0 .. MaxSamples
  /\ prof \in [Sessions -> {"none", "collect", "merge", "merging", "update", "expire",
                            "expired", "stop", "decide", "clear", "ended", "dead"}]
  /\ held \in [Sessions -> Sessions \cup {0}]
  /\ stopping \in [Sessions -> Apps \cup {NoApp}]
  /\ at \in {"idle", "commands", "reporting", "sending", "shutdown", "leaving"}
  /\ app \in Apps \cup {NoApp} /\ todo \subseteq Apps
  /\ final \in BOOLEAN /\ restart \in BOOLEAN /\ last \in BOOLEAN
  /\ down \in [Apps -> BOOLEAN]
  /\ payload \subseteq Samples /\ place \in Nat /\ failures \in 0 .. MaxFailures

Profiling(t) == prof[t] \notin {"none", "ended", "dead"}

\* No two profiler threads walk the stacks at once, for any order of starts,
\* stops, expiries and ends of the thread (the unlocked running flag).
OneProfilerThread == \A t, u \in Sessions : Profiling(t) /\ Profiling(u) => t = u

\* A stack trace is sent at most once, in the profile of one session, though
\* a failed report keeps the sessions it has sent and reports them again.
SampleSentOnce ==
  /\ \A s \in Sessions : tree[s] \cap (sent \cup lost) = {}
  /\ sent \cap lost = {}
  /\ \A r, s \in Sessions : r # s => tree[r] \cap tree[s] = {}

\* The manager is shared, the sessions are not: what is reported for an
\* application was started by it, a session is in one list and not running,
\* and an application that is down runs none (stop, report and shutdown).
SessionsKeptApart ==
  /\ \A a \in Apps : \A k \in DOMAIN finished[a] :
       owner[finished[a][k]] = a /\ finished[a][k] # full
  /\ \A a \in Apps : \A k, l \in DOMAIN finished[a] :
       finished[a][k] = finished[a][l] => k = l
  /\ full # 0 => owner[full] = fullApp /\ ~down[fullApp]

\* Finished sessions are reported and forgotten, unless their application
\* went down or the process ended with a harvest that raised.
FinishedReported ==
  \A a \in Apps : finished[a] # <<>> ~> (finished[a] = <<>> \/ down[a] \/ final)

\* A session whose thread lives ends: by its stop time, a command or the
\* shutdown of its application.  (The thread may be lost: it dies of a session
\* stopped under its hands, or ends while the next one is started, and then no
\* thread serves that session.)
SessionsEnd ==
  \A s \in Sessions : full = s ~> (full # s \/ \A t \in Sessions : ~Profiling(t))
=============================================================================
