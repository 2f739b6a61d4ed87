-------------------------- MODULE HarvestLoopProofs --------------------------
(***************************************************************************)
(* The safety properties of HarvestLoop, and that it makes the calls of    *)
(* HarvestCalls, proved for any threads that call shutdown_agent.          *)
(***************************************************************************)
EXTENDS HarvestLoop, TLAPS

Finals == {"final_flexible", "final_default"}

\* The kinds of queue entry, one by one.
LEMMA KindsEnumerated ==
  /\ Kinds = {"flexible", "default", "final_flexible", "final_default"}
  /\ Finals = Kinds \ Periodic
  /\ \A k \in Periodic : Callback[k] = k /\ k \in Kinds
  /\ \A k \in Finals, l \in Kinds : Priority[k] <= Priority[l] => l \in Finals
  /\ ~(Priority["final_default"] <= Priority["final_flexible"])
BY DEF Kinds, Priority, Finals, Periodic, Callback

-----------------------------------------------------------------------------
(***************************************************************************)
(* The invariant: what the scheduler, the thread and the callers of        *)
(* shutdown_agent know of each other.                                      *)
(***************************************************************************)
HasEntry == thread \in {"popped", "harvesting"}

FinalsInfinite == \A e \in queue : e.kind \in Finals => e.infinite

CurrentFits ==
  /\ HasEntry \/ thread = "reenter" => current \in Kinds
  /\ thread = "reenter" => current \in Periodic
  /\ current \in Finals => shutdown

\* The thread always finds a finite entry before the shutdown.
FiniteEntry ==
  thread \in {"running", "harvesting"} /\ ~shutdown => \E e \in queue : ~e.infinite

\* A harvest that was scheduled is in the queue, in progress or done.
Scheduled(kind) ==
  \/ kind \in done
  \/ \E e \in queue : e.kind = kind
  \/ HasEntry /\ current = kind

\* The shutdown is set only by a caller that has scheduled both final harvests.
FinalsScheduled ==
  /\ \A c \in Callers :
       caller[c] \in {"enter_default", "set", "join"} => Scheduled("final_flexible")
  /\ \A c \in Callers : caller[c] \in {"set", "join"} => Scheduled("final_default")
  /\ shutdown => Scheduled("final_flexible") /\ Scheduled("final_default")

\* "This is OK to schedule across threads since the entries will only be added to
\* the end of the list and won't be popped until harvest_shutdown is set": until
\* then the scheduler has a periodic entry to wait for, and never for a final one.
FinalsWaitForShutdown ==
  /\ thread = "running" /\ ~shutdown => \E e \in queue : ~e.infinite
  /\ current \in Kinds \ Periodic => shutdown

\* The last default harvest, which shuts the sessions down, comes after a last
\* flexible one: the events of the last seconds are sent first.
FinalFlexibleFirst ==
  thread = "harvesting" /\ current = "final_default" => "final_flexible" \in done

FlexibleDone == HasEntry /\ current = "final_default" => "final_flexible" \in done

\* Once a final harvest has begun no periodic entry is left, and none can come.
FinalBegun == done \cap Finals # {} \/ (HasEntry /\ current \in Finals)

OnlyFinalsLeft ==
  FinalBegun => /\ shutdown
                /\ thread \in {"running", "popped", "harvesting", "ended"}
                /\ HasEntry => current \in Finals
                /\ \A e \in queue : e.kind \in Finals

\* The thread ends only after both final harvests, whatever the order in which the
\* shutdown and the start of the thread meet.
EndsAfterFinals == thread = "ended" => Kinds \ Periodic \subseteq done

LoopInv ==
  /\ FinalsInfinite /\ CurrentFits /\ FiniteEntry /\ FinalsScheduled /\ FlexibleDone
  /\ OnlyFinalsLeft /\ EndsAfterFinals

-----------------------------------------------------------------------------
\* The initial states satisfy TypeOK and LoopInv.
LEMMA Initially == Init => TypeOK /\ LoopInv
BY KindsEnumerated DEF Init, TypeOK, LoopInv, FinalsInfinite, CurrentFits, FiniteEntry,
   FinalsScheduled, FlexibleDone, OnlyFinalsLeft, FinalBegun, EndsAfterFinals, HasEntry, Finals

\* Entering an entry of a kind of harvest keeps the type of the queue.
LEMMA EnterType ==
  ASSUME TypeOK, NEW kind \in Kinds, NEW infinite \in BOOLEAN, NEW by \in Callers \cup {"loop"},
         Enter(kind, infinite, by)
  PROVE  queue' \subseteq [kind : Kinds, infinite : BOOLEAN, by : Callers \cup {"loop"}]
BY DEF TypeOK, Enter, Entry

\* Every step keeps the types.
LEMMA TypeStep == TypeOK /\ LoopInv /\ [Next]_vars => TypeOK'
<1> SUFFICES ASSUME TypeOK, LoopInv, [Next]_vars PROVE TypeOK'
  OBVIOUS
<1> USE KindsEnumerated
<1>1. CASE ActivateAgent
  BY <1>1 DEF TypeOK, ActivateAgent, ThreadMove
<1>2. CASE EnterPeriodic("flexible", "enter_flexible", "enter_default")
  <2>1. queue' \subseteq [kind : Kinds, infinite : BOOLEAN, by : Callers \cup {"loop"}]
    BY <1>2, EnterType DEF EnterPeriodic, TypeOK
  <2> QED BY <1>2, <2>1 DEF TypeOK, EnterPeriodic, ThreadMove
<1>3. CASE EnterPeriodic("default", "enter_default", "running")
  <2>1. queue' \subseteq [kind : Kinds, infinite : BOOLEAN, by : Callers \cup {"loop"}]
    BY <1>3, EnterType DEF EnterPeriodic, TypeOK
  <2> QED BY <1>3, <2>1 DEF TypeOK, EnterPeriodic, ThreadMove
<1>4. ASSUME NEW e \in queue, Pop(e) PROVE TypeOK'
  BY <1>4 DEF TypeOK, Pop, ThreadMove
<1>5. CASE TestShutdown
  BY <1>5 DEF TypeOK, TestShutdown, ThreadMove
<1>6. CASE Reenter
  <2>1. Callback[current] \in Kinds
    BY <1>6 DEF LoopInv, CurrentFits, Reenter, ThreadMove
  <2>2. queue' \subseteq [kind : Kinds, infinite : BOOLEAN, by : Callers \cup {"loop"}]
    BY <1>6, <2>1, EnterType DEF Reenter, TypeOK
  <2> QED BY <1>6, <2>2 DEF TypeOK, Reenter, ThreadMove
<1>7. CASE HarvestDone
  BY <1>7 DEF TypeOK, HarvestDone, ThreadMove, LoopInv, CurrentFits, HasEntry
<1>8. CASE LoopEnds
  BY <1>8 DEF TypeOK, LoopEnds, ThreadMove
<1>9. ASSUME NEW c \in Callers, CallerStep(c) PROVE TypeOK'
  <2>1. CASE ShutdownAgent(c)
    BY <2>1 DEF TypeOK, ShutdownAgent, CallerMove
  <2>2. CASE EnterFinalFlexible(c)
    <3>1. queue' \subseteq [kind : Kinds, infinite : BOOLEAN, by : Callers \cup {"loop"}]
      BY <2>2, EnterType DEF EnterFinalFlexible
    <3> QED BY <2>2, <3>1 DEF TypeOK, EnterFinalFlexible, CallerMove
  <2>3. CASE EnterFinalDefault(c)
    <3>1. queue' \subseteq [kind : Kinds, infinite : BOOLEAN, by : Callers \cup {"loop"}]
      BY <2>3, EnterType DEF EnterFinalDefault
    <3> QED BY <2>3, <3>1 DEF TypeOK, EnterFinalDefault, CallerMove
  <2>4. CASE SetShutdown(c)
    BY <2>4 DEF TypeOK, SetShutdown, CallerMove
  <2>5. CASE JoinThread(c)
    BY <2>5 DEF TypeOK, JoinThread, CallerMove
  <2> QED BY <1>9, <2>1, <2>2, <2>3, <2>4, <2>5 DEF CallerStep
<1>10. CASE UNCHANGED vars
  BY <1>10 DEF TypeOK, vars
<1> QED BY <1>1, <1>2, <1>3, <1>4, <1>5, <1>6, <1>7, <1>8, <1>9, <1>10 DEF Next, ThreadStep
-----------------------------------------------------------------------------
(***************************************************************************)
(* The steps.  An entry is added (by the thread or by a caller), taken, or *)
(* neither; the conjuncts are disturbed by few of them.                    *)
(***************************************************************************)

\* What was scheduled stays so while entries are only added and the harvest in
\* progress, if any, goes on.
LEMMA ScheduledStays ==
  ASSUME queue \subseteq queue', done' = done, current' = current, HasEntry => HasEntry', NEW kind
  PROVE  Scheduled(kind) => Scheduled(kind)'
BY DEF Scheduled

\* Activation starts the thread and takes nothing from the queue.
LEMMA ActivateKeeps == TypeOK /\ LoopInv /\ ActivateAgent => LoopInv'
<1> SUFFICES ASSUME TypeOK, LoopInv, ActivateAgent PROVE LoopInv'
  OBVIOUS
<1> USE DEF ActivateAgent, ThreadMove, LoopInv
<1>1. FinalsInfinite' /\ CurrentFits' /\ FiniteEntry' /\ FlexibleDone' /\ EndsAfterFinals'
  BY DEF FinalsInfinite, CurrentFits, FiniteEntry, FlexibleDone, EndsAfterFinals, HasEntry
<1>2. FinalsScheduled'
  BY ScheduledStays DEF FinalsScheduled, HasEntry
<1>3. OnlyFinalsLeft'
  BY DEF OnlyFinalsLeft, FinalBegun, HasEntry
<1> QED BY <1>1, <1>2, <1>3

\* The thread's first two entries are the flexible, then the default harvest.
LEMMA EnterPeriodicKeeps ==
  ASSUME TypeOK, LoopInv, NEW kind \in Periodic, NEW from, NEW to, EnterPeriodic(kind, from, to),
         <<from, to>> \in {<<"enter_flexible", "enter_default">>, <<"enter_default", "running">>}
  PROVE  LoopInv'
<1> USE KindsEnumerated DEF EnterPeriodic, ThreadMove, LoopInv
<1>1. queue' = queue \cup {Entry(kind, shutdown, "loop")} /\ ~HasEntry /\ ~HasEntry'
  BY DEF Enter, HasEntry
<1>2. FinalsInfinite' /\ CurrentFits' /\ FlexibleDone' /\ EndsAfterFinals'
  BY <1>1 DEF FinalsInfinite, CurrentFits, FlexibleDone, EndsAfterFinals, HasEntry, Entry
<1>3. FiniteEntry'
  <2>1. Entry(kind, shutdown, "loop") \in queue' /\ (Entry(kind, shutdown, "loop").infinite <=> shutdown)
    BY <1>1 DEF Entry, TypeOK
  <2> QED BY <2>1 DEF FiniteEntry
<1>4. FinalsScheduled'
  BY <1>1, ScheduledStays DEF FinalsScheduled
<1>5. OnlyFinalsLeft'
  BY <1>1 DEF OnlyFinalsLeft, FinalBegun
<1> QED BY <1>2, <1>3, <1>4, <1>5

\* The test of _harvest_shutdown moves only the thread.
LEMMA TestKeeps == TypeOK /\ LoopInv /\ TestShutdown => LoopInv'
<1> SUFFICES ASSUME TypeOK, LoopInv, TestShutdown PROVE LoopInv'
  OBVIOUS
<1> USE KindsEnumerated DEF TestShutdown, ThreadMove, LoopInv
<1>1. current \in Finals => thread' = "harvesting"
  BY DEF CurrentFits
<1>2. current \in Kinds /\ HasEntry
  BY DEF CurrentFits, HasEntry
<1>3. FinalsInfinite' /\ CurrentFits' /\ FiniteEntry' /\ FlexibleDone' /\ EndsAfterFinals'
  BY <1>2 DEF FinalsInfinite, CurrentFits, FiniteEntry, FlexibleDone, EndsAfterFinals, HasEntry
<1>4. ASSUME NEW kind \in Finals PROVE Scheduled(kind) => Scheduled(kind)'
  BY <1>1, <1>4 DEF Scheduled, HasEntry
<1>5. FinalsScheduled'
  BY <1>4 DEF FinalsScheduled, Finals
<1>6. OnlyFinalsLeft'
  BY <1>1, <1>2 DEF OnlyFinalsLeft, FinalBegun, HasEntry
<1> QED BY <1>3, <1>5, <1>6

\* A step that takes entry e takes a final one only when nothing else is left.
LEMMA PopKeeps ==
  ASSUME TypeOK, LoopInv, NEW e \in queue, Pop(e)
  PROVE  LoopInv'
<1> USE KindsEnumerated DEF Pop, ThreadMove, LoopInv
<1>1. /\ queue' = queue \ {e} /\ current' = e.kind /\ e.kind \in Kinds
      /\ thread = "running" /\ thread' = "popped" /\ ~HasEntry /\ HasEntry'
  BY DEF TypeOK, HasEntry
<1>2. e.kind \in Finals => shutdown /\ \A f \in queue : f.kind \in Kinds /\ Priority[e.kind] <= Priority[f.kind]
  BY <1>1 DEF FinalsInfinite, NotAfter, TypeOK
<1>3. e.kind \in Finals => \A f \in queue : f.kind \in Finals
  BY <1>1, <1>2
<1>4. FinalsInfinite' /\ CurrentFits' /\ FiniteEntry' /\ EndsAfterFinals'
  BY <1>1, <1>2 DEF FinalsInfinite, CurrentFits, FiniteEntry, EndsAfterFinals, HasEntry
<1>5. ASSUME NEW kind PROVE Scheduled(kind) => Scheduled(kind)'
  BY <1>1 DEF Scheduled
<1>6. FinalsScheduled'
  BY <1>5 DEF FinalsScheduled
<1>7. FlexibleDone'
  <2>1. CASE e.kind # "final_default"
    BY <1>1, <2>1 DEF FlexibleDone
  <2>2. CASE e.kind = "final_default"
    <3>1. Scheduled("final_flexible")
      BY <1>2, <2>2 DEF FinalsScheduled, Finals
    <3>2. ~\E f \in queue : f.kind = "final_flexible"
      BY <1>2, <2>2 DEF Finals
    <3> QED BY <1>1, <3>1, <3>2 DEF Scheduled, FlexibleDone
  <2> QED BY <2>1, <2>2
<1>8. OnlyFinalsLeft'
  <2>1. CASE e.kind \in Finals
    BY <1>1, <1>2, <1>3, <2>1 DEF OnlyFinalsLeft
  <2>2. CASE e.kind \notin Finals
    BY <1>1, <2>2 DEF OnlyFinalsLeft, FinalBegun
  <2> QED BY <2>1, <2>2
<1> QED BY <1>4, <1>6, <1>7, <1>8

\* A periodic harvest puts itself back before it runs.
LEMMA ReenterKeeps == TypeOK /\ LoopInv /\ Reenter => LoopInv'
<1> SUFFICES ASSUME TypeOK, LoopInv, Reenter PROVE LoopInv'
  OBVIOUS
<1> USE KindsEnumerated DEF Reenter, ThreadMove, LoopInv
<1>1. /\ queue' = queue \cup {Entry(current, shutdown, "loop")} /\ current \in Periodic
      /\ ~HasEntry /\ HasEntry' /\ current' = current /\ current \in Kinds
  BY DEF CurrentFits, Enter, HasEntry
<1>2. FinalsInfinite' /\ CurrentFits' /\ FlexibleDone' /\ EndsAfterFinals'
  BY <1>1 DEF FinalsInfinite, CurrentFits, FlexibleDone, EndsAfterFinals, HasEntry, Entry, Finals, Periodic
<1>3. FiniteEntry'
  <2>1. Entry(current, shutdown, "loop") \in queue' /\ (Entry(current, shutdown, "loop").infinite <=> shutdown)
    BY <1>1 DEF Entry, TypeOK
  <2> QED BY <2>1 DEF FiniteEntry
<1>4. FinalsScheduled'
  BY <1>1, ScheduledStays DEF FinalsScheduled
<1>5. OnlyFinalsLeft'
  BY <1>1 DEF OnlyFinalsLeft, FinalBegun
<1> QED BY <1>2, <1>3, <1>4, <1>5

\* The end of a harvest, the thread then back at the queue.
LEMMA HarvestDoneKeeps == TypeOK /\ LoopInv /\ HarvestDone => LoopInv'
<1> SUFFICES ASSUME TypeOK, LoopInv, HarvestDone PROVE LoopInv'
  OBVIOUS
<1> USE KindsEnumerated DEF HarvestDone, ThreadMove, LoopInv
<1>1. HasEntry /\ ~HasEntry' /\ done' = done \cup {current} /\ current' = current
  BY DEF HasEntry
<1>2. FinalsInfinite' /\ CurrentFits' /\ FiniteEntry' /\ FlexibleDone' /\ EndsAfterFinals'
  BY <1>1 DEF FinalsInfinite, CurrentFits, FiniteEntry, FlexibleDone, EndsAfterFinals
<1>3. ASSUME NEW kind PROVE Scheduled(kind) => Scheduled(kind)'
  BY <1>1 DEF Scheduled
<1>4. FinalsScheduled'
  BY <1>3 DEF FinalsScheduled
<1>5. OnlyFinalsLeft'
  BY <1>1 DEF OnlyFinalsLeft, FinalBegun
<1> QED BY <1>2, <1>4, <1>5

\* The loop ends with an empty queue.
LEMMA LoopEndsKeeps == TypeOK /\ LoopInv /\ LoopEnds => LoopInv'
<1> SUFFICES ASSUME TypeOK, LoopInv, LoopEnds PROVE LoopInv'
  OBVIOUS
<1> USE KindsEnumerated DEF LoopEnds, ThreadMove, LoopInv
<1>1. shutdown /\ ~HasEntry /\ ~HasEntry'
  BY DEF FiniteEntry, HasEntry
<1>2. FinalsInfinite' /\ CurrentFits' /\ FiniteEntry' /\ FlexibleDone'
  BY <1>1 DEF FinalsInfinite, CurrentFits, FiniteEntry, FlexibleDone
<1>3. FinalsScheduled'
  BY <1>1, ScheduledStays DEF FinalsScheduled
<1>4. EndsAfterFinals'
  BY <1>1 DEF FinalsScheduled, Scheduled, EndsAfterFinals, Finals
<1>5. OnlyFinalsLeft'
  BY <1>1 DEF OnlyFinalsLeft, FinalBegun
<1> QED BY <1>2, <1>3, <1>4, <1>5

\* A caller enters a final harvest, which it is the first to wait for.
LEMMA EnterFinalKeeps ==
  ASSUME TypeOK, LoopInv, NEW c \in Callers, EnterFinalFlexible(c) \/ EnterFinalDefault(c)
  PROVE  LoopInv'
<1> USE KindsEnumerated DEF EnterFinalFlexible, EnterFinalDefault, CallerMove, LoopInv
<1>1. PICK kind \in Finals :
        /\ queue' = queue \cup {Entry(kind, TRUE, c)}
        /\ EnterFinalFlexible(c) => kind = "final_flexible"
        /\ EnterFinalDefault(c) => kind = "final_default"
  BY DEF Enter, Finals, TypeOK
<1>2. /\ UNCHANGED <<shutdown, thread, current, done>> /\ (HasEntry' <=> HasEntry)
      /\ queue \subseteq queue' /\ \E e \in queue' : e.kind = kind
  <2>1. Entry(kind, TRUE, c).kind = kind
    BY DEF Entry
  <2>2. UNCHANGED <<shutdown, thread, current, done>>
    OBVIOUS
  <2> QED BY <1>1, <2>1, <2>2 DEF HasEntry
<1>3. FinalsInfinite' /\ CurrentFits' /\ FiniteEntry' /\ FlexibleDone' /\ EndsAfterFinals'
  BY <1>1, <1>2 DEF FinalsInfinite, CurrentFits, FiniteEntry, FlexibleDone, EndsAfterFinals, Entry
<1>4. Scheduled(kind)' /\ \A k : Scheduled(k) => Scheduled(k)'
  BY <1>2 DEF Scheduled
<1>5. FinalsScheduled'
  <2>t. DOMAIN caller = Callers
    BY DEF TypeOK
  <2>1. /\ \A k \in Callers \ {c} : caller'[k] = caller[k]
        /\ EnterFinalFlexible(c) => caller'[c] = "enter_default"
        /\ EnterFinalDefault(c) => caller[c] = "enter_default" /\ caller'[c] = "set"
    <3>1. CASE EnterFinalFlexible(c)
      <4>1. caller' = [caller EXCEPT ![c] = "enter_default"] /\ caller[c] = "enter_flexible"
        BY <3>1
      <4> HIDE DEF EnterFinalFlexible
      <4>2. ~EnterFinalDefault(c)
        BY <4>1
      <4> QED BY <2>t, <4>1, <4>2
    <3>2. CASE EnterFinalDefault(c)
      <4>1. caller' = [caller EXCEPT ![c] = "set"] /\ caller[c] = "enter_default"
        BY <3>2
      <4> HIDE DEF EnterFinalDefault
      <4>2. ~EnterFinalFlexible(c)
        BY <4>1
      <4> QED BY <2>t, <4>1, <4>2
    <3> QED BY <3>1, <3>2
  <2>2. EnterFinalFlexible(c) => Scheduled("final_flexible")'
    BY <1>1, <1>4
  <2>3. EnterFinalDefault(c) => Scheduled("final_flexible")' /\ Scheduled("final_default")'
    BY <1>1, <1>4, <2>1 DEF FinalsScheduled
  <2>4. shutdown' => Scheduled("final_flexible")' /\ Scheduled("final_default")'
    BY <1>2, <1>4 DEF FinalsScheduled
  <2>5. ASSUME NEW k \in Callers
        PROVE  /\ caller'[k] \in {"enter_default", "set", "join"} => Scheduled("final_flexible")'
               /\ caller'[k] \in {"set", "join"} => Scheduled("final_default")'
    <3>1. CASE k # c
      BY <3>1, <1>4, <2>1 DEF FinalsScheduled
    <3>2. CASE k = c
      BY <3>2, <2>1, <2>2, <2>3
    <3> QED BY <3>1, <3>2
  <2> QED BY <2>4, <2>5 DEF FinalsScheduled
<1>6. OnlyFinalsLeft'
  BY <1>1, <1>2 DEF OnlyFinalsLeft, FinalBegun, Entry
<1> QED BY <1>3, <1>5, <1>6

\* A caller's steps other than the queue insertion leave the queue alone.
LEMMA OtherCallerStepKeeps ==
  ASSUME TypeOK, LoopInv, NEW c \in Callers, ShutdownAgent(c) \/ SetShutdown(c) \/ JoinThread(c)
  PROVE  LoopInv'
<1> USE KindsEnumerated DEF ShutdownAgent, SetShutdown, JoinThread, CallerMove, LoopInv
<1>1. /\ UNCHANGED <<queue, current, done>> /\ (HasEntry' <=> HasEntry)
      /\ thread' = thread \/ (thread = "unstarted" /\ thread' = "enter_flexible")
      /\ shutdown' = shutdown \/ (shutdown' /\ caller[c] = "set")
  BY DEF HasEntry
<1>2. FinalsInfinite' /\ CurrentFits' /\ FiniteEntry' /\ FlexibleDone' /\ EndsAfterFinals'
  BY <1>1 DEF FinalsInfinite, CurrentFits, FiniteEntry, FlexibleDone, EndsAfterFinals, HasEntry
<1>3. \A k : Scheduled(k)' <=> Scheduled(k)
  BY <1>1 DEF Scheduled
<1>4. FinalsScheduled'
  BY <1>1, <1>3 DEF FinalsScheduled, TypeOK
<1>5. OnlyFinalsLeft'
  BY <1>1 DEF OnlyFinalsLeft, FinalBegun, HasEntry
<1> QED BY <1>2, <1>4, <1>5

\* A stuttering step.
LEMMA StutterKeeps == LoopInv /\ UNCHANGED vars => LoopInv'
BY DEF vars, LoopInv, FinalsInfinite, CurrentFits, FiniteEntry, FinalsScheduled, Scheduled,
   FlexibleDone, OnlyFinalsLeft, FinalBegun, EndsAfterFinals, HasEntry

\* Every step of the specification keeps LoopInv.
LEMMA NextKeepsLoopInv == TypeOK /\ LoopInv /\ [Next]_vars => LoopInv'
<1> SUFFICES ASSUME TypeOK, LoopInv, [Next]_vars PROVE LoopInv'
  OBVIOUS
<1>1. CASE ActivateAgent
  BY <1>1, ActivateKeeps
<1>2. CASE EnterPeriodic("flexible", "enter_flexible", "enter_default")
  BY <1>2, EnterPeriodicKeeps DEF Periodic
<1>3. CASE EnterPeriodic("default", "enter_default", "running")
  BY <1>3, EnterPeriodicKeeps DEF Periodic
<1>4. ASSUME NEW e \in queue, Pop(e) PROVE LoopInv'
  BY <1>4, PopKeeps
<1>5. CASE TestShutdown \/ Reenter \/ HarvestDone \/ LoopEnds
  BY <1>5, TestKeeps, ReenterKeeps, HarvestDoneKeeps, LoopEndsKeeps
<1>6. ASSUME NEW c \in Callers, CallerStep(c) PROVE LoopInv'
  BY <1>6, EnterFinalKeeps, OtherCallerStepKeeps DEF CallerStep
<1>7. CASE UNCHANGED vars
  BY <1>7, StutterKeeps
<1> QED BY <1>1, <1>2, <1>3, <1>4, <1>5, <1>6, <1>7 DEF Next, ThreadStep

-----------------------------------------------------------------------------
\* Every step of the thread and of the callers keeps the invariant.
THEOREM Inductive == Spec => [](TypeOK /\ LoopInv)
<1>1. TypeOK /\ LoopInv /\ [Next]_vars => (TypeOK /\ LoopInv)'
  BY TypeStep, NextKeepsLoopInv
<1> QED BY Initially, <1>1, PTL DEF Spec

\* Every variable of the loop keeps its type.
THEOREM TypeCorrect == Spec => []TypeOK
BY Inductive, PTL

\* Until the shutdown the scheduler has a finite entry to wait for, and it pops a
\* final one only after it.
THEOREM FinalsWait == Spec => []FinalsWaitForShutdown
<1>1. TypeOK /\ LoopInv => FinalsWaitForShutdown
  BY KindsEnumerated DEF LoopInv, FiniteEntry, CurrentFits, FinalsWaitForShutdown
<1> QED BY Inductive, <1>1, PTL

\* The last default harvest follows a last flexible one.
THEOREM FlexibleFirst == Spec => []FinalFlexibleFirst
<1>1. LoopInv => FinalFlexibleFirst
  BY DEF LoopInv, FlexibleDone, HasEntry, FinalFlexibleFirst
<1> QED BY Inductive, <1>1, PTL

\* There is no periodic harvest after a final one.
THEOREM NothingAfterFinal == Spec => []NoPeriodicAfterFinal
<1>1. TypeOK /\ LoopInv => NoPeriodicAfterFinal
  BY KindsEnumerated DEF TypeOK, LoopInv, OnlyFinalsLeft, FinalBegun, HasEntry, NoPeriodicAfterFinal
<1> QED BY Inductive, <1>1, PTL

\* The thread ends only after both final harvests.
THEOREM EndMeansFinalsDone == Spec => []EndsAfterFinals
<1>1. LoopInv => EndsAfterFinals
  BY DEF LoopInv
<1> QED BY Inductive, <1>1, PTL

-----------------------------------------------------------------------------
(***************************************************************************)
(* The calls of the loop are those of HarvestCalls: one begins when the    *)
(* callback has tested _harvest_shutdown, and ends with the harvest.       *)
(***************************************************************************)
\* What is not seen by the applications.
LEMMA NoCall ==
  ASSUME UNCHANGED <<shutdown, done>>,
         \/ UNCHANGED <<thread, current>>
         \/ /\ thread \notin {"reenter", "harvesting", "ended"}
            /\ thread' \notin {"reenter", "harvesting", "ended"}
  PROVE  UNCHANGED C!vars
BY DEF C!vars, Begun

\* Where the callback tests _harvest_shutdown it makes a call or none.
LEMMA TestCalls == TypeOK /\ LoopInv /\ TestShutdown => [C!Next]_(C!vars)
<1> SUFFICES ASSUME TypeOK, LoopInv, TestShutdown PROVE [C!Next]_(C!vars)
  OBVIOUS
<1> DEFINE called == IF Begun("final_default") THEN 2 ELSE IF Begun("final_flexible") THEN 1 ELSE 0
<1>1. /\ thread = "popped" /\ UNCHANGED <<shutdown, done, current>>
      /\ thread' = IF ~shutdown THEN "reenter"
                   ELSE IF current \in Periodic THEN "running" ELSE "harvesting"
      /\ current \in Kinds /\ (current \in Finals => shutdown)
  BY DEF TestShutdown, ThreadMove, LoopInv, CurrentFits, HasEntry
<1>2. CASE ~shutdown
  <2>1. current \in {"flexible", "default"} /\ Callback[current] = current /\ current # "final_default"
    BY <1>1, <1>2, KindsEnumerated DEF Finals, Periodic
  <2>2. \A kind : Begun(kind)' <=> Begun(kind)
    BY <1>1, <1>2 DEF Begun
  <2> QED BY <1>1, <1>2, <2>1, <2>2 DEF C!Next, C!Call, C!Calls
<1>3. CASE shutdown /\ current \in Periodic
  BY <1>1, <1>3, NoCall
<1>4. CASE shutdown /\ current = "final_flexible"
  <2>1. /\ thread' = "harvesting" /\ Callback[current] = "flexible"
        /\ Begun("final_flexible")' /\ (Begun("final_default")' <=> Begun("final_default"))
    BY <1>1, <1>4 DEF Begun, Periodic, Callback
  <2>2. C!Calls = {<<"flexible", IF called = 0 THEN 1 ELSE called>>} \cup
                  (IF called = 0 THEN {} ELSE {<<"final", 2>>})
    BY <1>4 DEF C!Calls
  <2>3. called' = (IF called = 0 THEN 1 ELSE called)
    BY <2>1
  <2>4. C!Call
    <3> DEFINE n == IF called = 0 THEN 1 ELSE called
    <3>0. <<"flexible", n>> \in C!Calls /\ called' = n
      BY <2>2, <2>3
    <3> HIDE DEF called, n
    <3>1. \E call \in C!Calls : called' = call[2] /\ call[1] = "flexible"
      BY <3>0
    <3> QED BY <1>1, <1>4, <2>1, <3>1 DEF C!Call, called
  <2> QED BY <2>4 DEF C!Next
<1>5. CASE shutdown /\ current = "final_default"
  <2>1. /\ thread' = "harvesting" /\ Begun("final_default")' /\ Begun("final_flexible")
    BY <1>1, <1>5 DEF Begun, Periodic, LoopInv, FlexibleDone, HasEntry
  <2>2. <<"final", 2>> \in C!Calls
    BY <1>5, <2>1 DEF C!Calls
  <2>3. \E call \in C!Calls : call[2] = 2 /\ call[1] = "final"
    BY <2>2
  <2> QED BY <1>1, <1>5, <2>1, <2>3 DEF C!Next, C!Call
<1> QED BY <1>1, <1>2, <1>3, <1>4, <1>5, KindsEnumerated DEF Finals, Periodic

\* The other steps of the thread.
LEMMA ThreadCalls ==
  ASSUME TypeOK, LoopInv, ThreadStep
  PROVE  [C!Next]_(C!vars)
<1> USE DEF ThreadMove
<1>1. CASE EnterPeriodic("flexible", "enter_flexible", "enter_default")
            \/ EnterPeriodic("default", "enter_default", "running")
  BY <1>1, NoCall DEF EnterPeriodic
<1>2. ASSUME NEW e \in queue, Pop(e) PROVE UNCHANGED C!vars
  BY <1>2, NoCall DEF Pop
<1>3. CASE Reenter
  <2>1. /\ UNCHANGED <<shutdown, done, current>> /\ thread = "reenter" /\ thread' = "harvesting"
        /\ current \notin Finals
    BY <1>3, KindsEnumerated DEF Reenter, LoopInv, CurrentFits
  <2>2. Begun("final_default")' <=> Begun("final_default")
    BY <2>1 DEF Begun, Finals
  <2>3. Begun("final_flexible")' <=> Begun("final_flexible")
    BY <2>1 DEF Begun, Finals
  <2> QED BY <2>1, <2>2, <2>3 DEF C!vars
<1>4. CASE HarvestDone
  <2>1. /\ UNCHANGED <<shutdown, current>> /\ thread = "harvesting" /\ thread' = "running"
        /\ done' = done \cup {current} /\ current \in Kinds
    BY <1>4 DEF HarvestDone, LoopInv, CurrentFits, HasEntry
  <2>2. \A kind : Begun(kind)' <=> Begun(kind)
    BY <2>1 DEF Begun
  <2>3. Callback[current] \in {"flexible", "default"}
    BY <2>1, KindsEnumerated DEF Callback
  <2> QED BY <2>1, <2>2, <2>3 DEF C!Next, C!Return
<1>5. CASE LoopEnds
  <2>1. UNCHANGED <<shutdown, done, current>> /\ thread = "running" /\ thread' = "ended"
    BY <1>5 DEF LoopEnds
  <2>2. shutdown
    BY <1>5, <2>1 DEF LoopEnds, LoopInv, FiniteEntry
  <2>3. "final_default" \in done
    BY <1>5, LoopEndsKeeps, <2>1, KindsEnumerated DEF LoopInv, EndsAfterFinals, Finals
  <2>4. Begun("final_default") /\ Begun("final_default")'
    BY <2>1, <2>3 DEF Begun
  <2> QED BY <2>1, <2>2, <2>4 DEF C!Next, C!End
<1>6. CASE TestShutdown
  BY <1>6, TestCalls
<1> QED BY <1>1, <1>2, <1>3, <1>4, <1>5, <1>6 DEF ThreadStep

\* However the threads that request the shutdown and the one that harvests
\* interleave, the loop makes the calls of HarvestCalls: it keeps what
\* Application takes for granted.
THEOREM ImplementsHarvestCalls == Spec => CallsImplemented
<1>1. Init => C!Init
  BY DEF Init, C!Init, Begun
<1>2. TypeOK /\ LoopInv /\ [Next]_vars => [C!Next]_(C!vars)
  <2> SUFFICES ASSUME TypeOK, LoopInv, [Next]_vars PROVE [C!Next]_(C!vars)
    OBVIOUS
  <2>1. CASE ActivateAgent
    BY <2>1, NoCall DEF ActivateAgent, ThreadMove
  <2>2. CASE ThreadStep
    BY <2>2, ThreadCalls
  <2>3. ASSUME NEW c \in Callers, CallerStep(c) PROVE [C!Next]_(C!vars)
    <3>1. CASE ShutdownAgent(c) \/ EnterFinalFlexible(c) \/ EnterFinalDefault(c)
      BY <3>1, NoCall DEF ShutdownAgent, EnterFinalFlexible, EnterFinalDefault
    <3>2. CASE SetShutdown(c)
      <4>1. UNCHANGED <<thread, current, done>> /\ shutdown' = TRUE /\ shutdown \in BOOLEAN
        BY <3>2 DEF SetShutdown, TypeOK
      <4> QED BY <4>1 DEF C!Next, C!Request, C!vars, Begun
    <3>3. CASE JoinThread(c)
      BY <3>3, NoCall DEF JoinThread
    <3> QED BY <2>3, <3>1, <3>2, <3>3 DEF CallerStep
  <2>4. CASE UNCHANGED vars
    BY <2>4, NoCall DEF vars
  <2> QED BY <2>1, <2>2, <2>3, <2>4 DEF Next
<1> QED BY <1>1, <1>2, Inductive, PTL DEF Spec, CallsImplemented, C!Spec
=============================================================================
