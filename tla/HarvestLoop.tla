----------------------------- MODULE HarvestLoop -----------------------------
(***************************************************************************)
(* newrelic/core/agent.py: the harvest thread of the Agent, which runs the *)
(* entries of a sched.scheduler, and shutdown_agent, which schedules the   *)
(* final harvests from another thread without holding a lock.  The timer   *)
(* of the scheduler is infinite once the shutdown is set, so that nothing  *)
(* is waited for any more.  Application.tla models what one harvest does;  *)
(* HarvestCalls.tla stands between the two.                                *)
(***************************************************************************)
EXTENDS Naturals

CONSTANTS
  Callers   \* threads that call shutdown_agent: the exit handler, the program

\* The entries of the scheduler and their priorities: _harvest_flexible and
\* _harvest_default, called periodically and with shutdown=True.
Priority == [flexible |-> 1, default |-> 2, final_flexible |-> 3, final_default |-> 4]
Callback == [flexible |-> "flexible", final_flexible |-> "flexible",
             default |-> "default", final_default |-> "default"]
Periodic == {"flexible", "default"}
Kinds    == DOMAIN Priority

\* An entry; "by" tells the entries of two shutdowns from each other.
Entry(kind, infinite, by) == [kind |-> kind, infinite |-> infinite, by |-> by]

VARIABLES
  queue,     \* entries of _scheduler
  shutdown,  \* _harvest_shutdown
  thread,    \* where _harvest_thread is
  current,   \* the entry it runs
  caller,    \* where each caller of shutdown_agent is
  disabled,  \* debug.disable_harvest_until_shutdown
  done       \* kinds of the harvests completed (history)

vars == <<queue, shutdown, thread, current, caller, disabled, done>>

Alive == thread \notin {"unstarted", "ended"}

Init ==
  /\ queue = {} /\ shutdown = FALSE
  /\ thread = "unstarted" /\ current = "none"
  /\ caller = [c \in Callers |-> "idle"]
  /\ disabled \in BOOLEAN
  /\ done = {}

-----------------------------------------------------------------------------
\* Variant of Enter: the arguments of the entry swapped.
EnterSwapped(kind, infinite, by) == queue' = queue \cup {Entry(by, infinite, kind)}

\* enter: the time of an entry is now plus its delay.
Enter(kind, infinite, by) == queue' = queue \cup {Entry(kind, infinite, by)}

ThreadMove(from, to) == thread = from /\ thread' = to

\* activate_agent, when an application has connected.
ActivateAgent ==
  /\ ~disabled
  /\ ThreadMove("unstarted", "enter_flexible")
  /\ UNCHANGED <<queue, shutdown, current, caller, disabled, done>>

\* _harvest_loop up to run.
EnterPeriodic(kind, from, to) ==
  /\ ThreadMove(from, to)
  /\ Enter(kind, shutdown, "loop")
  /\ UNCHANGED <<shutdown, current, caller, disabled, done>>

\* The scheduler orders entries by time and then by priority.  Which of two
\* finite times comes first is left open.
NotAfter(e, f) ==
  \/ ~e.infinite
  \/ f.infinite /\ Priority[e.kind] <= Priority[f.kind]

\* run takes the first entry when it is due: an infinite one is due when the
\* timer is infinite too.
Pop(e) ==
  /\ ThreadMove("running", "popped")
  /\ e \in queue /\ \A f \in queue : NotAfter(e, f)
  /\ e.infinite => shutdown
  /\ queue' = queue \ {e}
  /\ current' = e.kind
  /\ UNCHANGED <<shutdown, caller, disabled, done>>

\* Variant of TestShutdown: the callbacks do not test.
NoTest ==
  /\ ThreadMove("popped", "reenter")
  /\ UNCHANGED <<queue, shutdown, current, caller, disabled, done>>

\* The test of _harvest_shutdown that the callbacks start with.
TestShutdown ==
  /\ ThreadMove("popped", IF ~shutdown THEN "reenter"
                          ELSE IF current \in Periodic THEN "running" ELSE "harvesting")
  /\ UNCHANGED <<queue, shutdown, current, caller, disabled, done>>

\* Variant of Reenter: the next call is not scheduled.
NotReentered ==
  /\ ThreadMove("reenter", "harvesting")
  /\ UNCHANGED <<queue, shutdown, current, caller, disabled, done>>

\* A callback schedules its next call before it harvests.
Reenter ==
  /\ ThreadMove("reenter", "harvesting")
  /\ Enter(Callback[current], shutdown, "loop")
  /\ UNCHANGED <<shutdown, current, caller, disabled, done>>

\* The harvest of every application; an exception is logged.
HarvestDone ==
  /\ ThreadMove("harvesting", "running")
  /\ done' = done \cup {current}
  /\ UNCHANGED <<queue, shutdown, current, caller, disabled>>

LoopEnds ==
  /\ ThreadMove("running", "ended")
  /\ queue = {}
  /\ UNCHANGED <<queue, shutdown, current, caller, disabled, done>>

ThreadStep ==
  \/ EnterPeriodic("flexible", "enter_flexible", "enter_default")
  \/ EnterPeriodic("default", "enter_default", "running")
  \/ \E e \in queue : Pop(e)
  \/ TestShutdown \/ Reenter \/ HarvestDone \/ LoopEnds

-----------------------------------------------------------------------------
CallerMove(c, from, to) == caller[c] = from /\ caller' = [caller EXCEPT ![c] = to]

\* Variant of ShutdownAgent: the shutdown is set before the harvests are scheduled.
SetFirst(c) ==
  /\ CallerMove(c, "idle", IF shutdown THEN "returned" ELSE "enter_flexible")
  /\ shutdown' = TRUE
  /\ UNCHANGED <<queue, thread, current, disabled, done>>

ShutdownAgent(c) ==
  /\ CallerMove(c, "idle", IF shutdown THEN "returned" ELSE "enter_flexible")
  /\ UNCHANGED <<queue, shutdown, thread, current, disabled, done>>

\* Variant of EnterFinalFlexible: due at once.
FinalDueAtOnce(c) ==
  /\ CallerMove(c, "enter_flexible", "enter_default")
  /\ Enter("final_flexible", FALSE, c)
  /\ UNCHANGED <<shutdown, thread, current, disabled, done>>

EnterFinalFlexible(c) ==
  /\ CallerMove(c, "enter_flexible", "enter_default")
  /\ Enter("final_flexible", TRUE, c)
  /\ UNCHANGED <<shutdown, thread, current, disabled, done>>

EnterFinalDefault(c) ==
  /\ CallerMove(c, "enter_default", "set")
  /\ Enter("final_default", TRUE, c)
  /\ UNCHANGED <<shutdown, thread, current, disabled, done>>

SetShutdown(c) ==
  /\ CallerMove(c, "set", "join")
  /\ shutdown' = TRUE
  /\ UNCHANGED <<queue, thread, current, disabled, done>>

\* Start the thread if it was disabled until now; it raises if another caller has
\* started it.  The join that follows is bounded by a timeout.
JoinThread(c) ==
  /\ CallerMove(c, "join", "returned")
  /\ thread' = IF disabled /\ thread = "unstarted" THEN "enter_flexible" ELSE thread
  /\ UNCHANGED <<queue, shutdown, current, disabled, done>>

CallerStep(c) ==
  \/ ShutdownAgent(c) \/ EnterFinalFlexible(c) \/ EnterFinalDefault(c)
  \/ SetShutdown(c) \/ JoinThread(c)

Next == ActivateAgent \/ ThreadStep \/ \E c \in Callers : CallerStep(c)

Spec == Init /\ [][Next]_vars

\* The thread and the callers run.  An entry comes to be the first and due: the
\* others are entered again at ever later times.
Fairness ==
  /\ WF_vars(ThreadStep)
  /\ \A kind \in Periodic : SF_vars(\E e \in queue : Pop(e) /\ e.kind = kind)
  /\ \A c \in Callers : WF_vars(CallerStep(c) /\ caller[c] # "idle")

FairSpec == Spec /\ Fairness

-----------------------------------------------------------------------------
\* Every variable has its type.
TypeOK ==
  /\ queue \subseteq [kind : Kinds, infinite : BOOLEAN, by : Callers \cup {"loop"}]
  /\ shutdown \in BOOLEAN /\ disabled \in BOOLEAN
  /\ thread \in {"unstarted", "enter_flexible", "enter_default", "running", "popped",
                 "reenter", "harvesting", "ended"}
  /\ current \in Kinds \cup {"none"}
  /\ caller \in [Callers -> {"idle", "enter_flexible", "enter_default", "set", "join",
                             "returned"}]
  /\ done \subseteq Kinds

\* Once a final harvest was made there is no periodic one: nothing is harvested
\* behind the shutdown of the sessions.
NoPeriodicAfterFinal ==
  thread = "harvesting" /\ current \in Periodic => done \subseteq Periodic

\* A final harvest was begun: the thread makes it, or has made it.
Begun(kind) == kind \in done \/ (thread = "harvesting" /\ current = kind)

C == INSTANCE HarvestCalls WITH
  requested <- shutdown,
  finals    <- IF Begun("final_default") THEN 2 ELSE IF Begun("final_flexible") THEN 1 ELSE 0,
  loop      <- IF thread = "ended" THEN "ended"
               ELSE IF thread \notin {"reenter", "harvesting"} THEN "idle"
               ELSE IF current = "final_default" THEN "final" ELSE Callback[current]

\* However the threads that request the shutdown and the one that harvests
\* interleave, the applications are called as HarvestCalls promises: the final
\* default harvest, which ends their sessions, follows a final flexible one, and
\* the loop does not end before it has made both.
CallsImplemented == C!Spec

\* A shutdown ends the thread.
ShutdownEndsLoop == (shutdown /\ Alive) ~> (thread = "ended")

\* Until the shutdown both kinds of harvest keep being made.
HarvestsContinue ==
  \A kind \in Periodic :
    (thread = "running") ~> (shutdown \/ (thread = "harvesting" /\ current = kind))
=============================================================================
