------------------------------ MODULE TraceTree ------------------------------
(***************************************************************************)
(* The traces of one transaction under asyncio: newrelic/api/time_trace.py *)
(* (enter, exit and deferred completion), newrelic/core/trace_cache.py     *)
(* (the current trace of each task) and the Sentinel, the root trace of    *)
(* newrelic/api/transaction.py.  All tasks run on one event loop, so that  *)
(* what happens between two awaits is one step; complete_root, which is    *)
(* one step of the program too, is taken apart trace by trace while        *)
(* nothing else moves.                                                     *)
(*                                                                         *)
(* Tasks and traces are numbered in the order they are created: task 1     *)
(* runs the transaction, trace 0 is its Sentinel.                          *)
(***************************************************************************)
EXTENDS Naturals, Sequences, FiniteSets

CONSTANTS
  MaxTraces,  \* bound: traces entered below the root
  MaxTasks    \* bound: tasks

ASSUME TraceAssumption == MaxTraces \in Nat /\ MaxTasks \in Nat \ {0}

Root   == 0
None   == MaxTraces + 1
Traces == 1 .. MaxTraces
Tasks  == 1 .. MaxTasks

VARIABLES
  cache,     \* the current trace of each task, in the TraceCache
  live,      \* tasks that are not done
  tasks,     \* tasks created
  traces,    \* traces entered
  parent,    \* the parent each trace was entered under
  path,      \* each trace and its ancestors below the root (history of parent)
  thread,    \* thread_id: the task that entered it
  open,      \* the with blocks each task is in, the innermost last
  exited,    \* traces whose exited flag is set
  complete,  \* traces completed: each is a child node of its parent
  txn,       \* running, closing, recorded, or lost
  hidden,    \* a with block lost its place as the current trace (history)
  pending,   \* to_complete of complete_root: the entries found in the cache
  chain      \* and the ancestor appended last

tree    == <<traces, parent, path, thread>>
closing == <<pending, chain>>
vars    == <<cache, live, tasks, tree, open, exited, complete, txn, hidden, closing>>

Init ==
  /\ cache = [k \in Tasks |-> IF k = 1 THEN Root ELSE None]
  /\ live = {1} /\ tasks = 1 /\ traces = 0
  /\ parent = [x \in Traces |-> Root] /\ thread = [x \in Traces |-> 1]
  /\ path = [x \in 0 .. MaxTraces |-> {}]
  /\ open = [k \in Tasks |-> <<>>]
  /\ exited = {} /\ complete = {}
  /\ txn = "running" /\ hidden = FALSE /\ pending = {} /\ chain = None

-----------------------------------------------------------------------------
Entered == 1 .. traces
Kids(x) == {y \in Entered : parent[y] = x}

\* A trace and its descendants.
Below(x) == {y \in Entered : x \in path[y]}

\* The transaction has ended: the Transaction object may have been collected,
\* as the root only holds a weak reference to it.
Over == txn \in {"recorded", "lost"}

\* The root is exited when complete_root is through.
Exited(x) == IF x = Root THEN Over ELSE x \in exited

\* Variant of Completes: complete_trace of the parent is not called.
CompletesOnly(x) == {c \in {x} : Kids(x) \subseteq complete}

\* Variant of Completes: _ready_to_complete does not ask for the exit.
CompletesEarly(x) ==
  {c \in path[x] : \A d \in path[x] : d >= c => (Kids(d) \ path[x]) \subseteq complete}

\* The traces the exit of x completes: x when no child is outstanding, and
\* each ancestor that had exited and waited for this child alone.
Completes(x) ==
  {c \in path[x] : \A d \in path[x] :
     d >= c => (d = x \/ d \in exited) /\ (Kids(d) \ path[x]) \subseteq complete}

\* pop_current of all traces of done, from the innermost to the outermost:
\* the parent becomes current in the task that entered the trace.
Popped(done) ==
  [k \in Tasks |->
     LET mine == {c \in done : thread[c] = k}
     IN  IF mine = {} THEN cache[k]
         ELSE parent[CHOOSE c \in mine : \A d \in mine : c <= d]]

\* TimeTrace.__exit__ of x, once or, when complete_root forces it, again.  It
\* does nothing without a parent, or when the transaction has been collected.
ExitTrace(x) ==
  \/ /\ x \in complete \/ Over
     /\ UNCHANGED <<cache, exited, complete>>
  \/ /\ x \notin complete
     /\ exited' = exited \cup {x}
     /\ complete' = complete \cup Completes(x)
     /\ cache' = Popped({x} \cup Completes(x))

-----------------------------------------------------------------------------
Idle(k) == k \in live /\ txn # "closing"

\* __enter__ and save_trace; a trace whose parent has exited is not recorded.
Enter(k) ==
  /\ Idle(k) /\ traces < MaxTraces
  /\ cache[k] # None /\ ~Exited(cache[k]) /\ txn = "running"
  /\ traces' = traces + 1
  /\ parent' = [parent EXCEPT ![traces + 1] = cache[k]]
  /\ path' = [path EXCEPT ![traces + 1] = {traces + 1} \cup path[cache[k]]]
  /\ thread' = [thread EXCEPT ![traces + 1] = k]
  /\ cache' = [cache EXCEPT ![k] = traces + 1]
  /\ open' = [open EXCEPT ![k] = Append(@, traces + 1)]
  /\ UNCHANGED <<live, tasks, exited, complete, txn, hidden, closing>>

Innermost(blocks) == blocks[Len(blocks)]

\* __exit__ of the innermost with block of a task.
Exit(k) ==
  /\ Idle(k) /\ open[k] # <<>>
  /\ ExitTrace(Innermost(open[k]))
  /\ open' = [open EXCEPT ![k] = SubSeq(@, 1, Len(@) - 1)]
  /\ hidden' = (hidden \/ \E j \in live : open'[j] # <<>> /\ cache'[j] # Innermost(open'[j]))
  /\ UNCHANGED <<live, tasks, tree, txn, closing>>

\* create_task: the new task starts with the trace that is current.
CreateTask(k) ==
  /\ Idle(k) /\ tasks < MaxTasks
  /\ tasks' = tasks + 1 /\ live' = live \cup {tasks + 1}
  /\ cache' = [cache EXCEPT ![tasks + 1] = cache[k]]
  /\ UNCHANGED <<tree, open, exited, complete, txn, hidden, closing>>

\* The coroutine returns, and the done callback drops the entry.
TaskDone(k) ==
  /\ Idle(k) /\ open[k] = <<>>
  /\ k = 1 => txn # "running"
  /\ live' = live \ {k}
  /\ cache' = [cache EXCEPT ![k] = None]
  /\ UNCHANGED <<tasks, tree, open, exited, complete, txn, hidden, closing>>

-----------------------------------------------------------------------------
(* Transaction.__exit__ and complete_root.                                  *)

Outstanding(x) == ~ Kids(x) \subseteq complete

\* Variant of BeginClose: the traces of other tasks are left running.
BeginCloseAlone ==
  /\ txn = "running" /\ open[1] = <<>>
  /\ txn' = "closing" /\ UNCHANGED closing
  /\ UNCHANGED <<cache, live, tasks, tree, open, exited, complete, hidden>>

\* With children outstanding, the current traces of all tasks not done are
\* to be completed.  The list holds a trace once for each task it is current
\* in, and pending once: exits beyond its first change nothing in the end.
BeginClose ==
  /\ txn = "running" /\ open[1] = <<>>
  /\ txn' = "closing"
  /\ pending' = IF Outstanding(Root)
                  THEN {x \in {cache[k] : k \in live} : x \in Entered \ complete}
                  ELSE {}
  /\ UNCHANGED <<cache, live, tasks, tree, open, exited, complete, hidden, chain>>

\* One turn of the loop over to_complete: its last element is the parent
\* appended by the turn before, else any of the entries, as all_tasks is a set.
ForceExit ==
  /\ txn = "closing" /\ (pending # {} \/ chain # None)
  /\ \E x \in IF chain # None THEN {chain} ELSE pending :
       /\ chain' = IF x \notin complete /\ parent[x] # Root THEN parent[x] ELSE None
       /\ pending' = IF chain # None THEN pending ELSE pending \ {x}
       /\ ExitTrace(x)
  /\ UNCHANGED <<live, tasks, tree, open, txn, hidden>>

\* The root must be current, or complete_root raises and the transaction is
\* not recorded; it is exited in either case.
EndClose ==
  /\ txn = "closing" /\ pending = {} /\ chain = None
  /\ txn' = IF cache[1] = Root THEN "recorded" ELSE "lost"
  /\ cache' = IF cache[1] = Root THEN [cache EXCEPT ![1] = None] ELSE cache
  /\ UNCHANGED <<live, tasks, tree, open, exited, complete, hidden, closing>>

Next ==
  \/ \E k \in Tasks : Enter(k) \/ Exit(k) \/ CreateTask(k) \/ TaskDone(k)
  \/ BeginClose \/ ForceExit \/ EndClose

Spec == Init /\ [][Next]_vars
-----------------------------------------------------------------------------
TypeOK ==
  /\ cache \in [Tasks -> 0 .. None] /\ live \subseteq Tasks
  /\ tasks \in Tasks /\ traces \in 0 .. MaxTraces
  /\ parent \in [Traces -> 0 .. MaxTraces] /\ thread \in [Traces -> Tasks]
  /\ path \in [0 .. MaxTraces -> SUBSET Traces]
  /\ \A x \in Traces : parent[x] < x
  /\ open \in [Tasks -> Seq(Traces)]
  /\ exited \subseteq Entered /\ complete \subseteq exited
  /\ txn \in {"running", "closing", "recorded", "lost"}
  /\ pending \subseteq Entered /\ chain \in Traces \cup {None}

\* A trace becomes a node of its parent exactly when it and everything below
\* it has exited, in whichever tasks and order: no deferred completion comes
\* early, is missed or waits for a trace of another branch (_ready_to_complete
\* and complete_trace, and the loop of complete_root that exits for others).
CompleteWhenDone ==
  txn \in {"running", "closing"} =>
    \A x \in Entered : x \in complete <=> Below(x) \subseteq exited

\* Unless a trace has been hidden, closing the root with traces outstanding
\* in other tasks completes every one of them, records the transaction, and
\* leaves no trace current under which a task could go on tracing a
\* transaction that is gone (complete_root).
ClosedWhole ==
  (txn \in {"recorded", "lost"} /\ ~hidden) =>
    /\ txn = "recorded" /\ complete = Entered
    /\ \A k \in Tasks : cache[k] = None \/ Exited(cache[k])

\* The runtime check of complete_root, which logs an instrumentation error and
\* raises: the root is the current trace of its task when it is dropped.
RootIsCurrent == txn # "lost"

\* A bound for the search of a violation: no task is done before the
\* transaction ends, none but the first runs directly under the root.
Shape == live = 1 .. tasks /\ \A k \in 2 .. tasks : cache[k] # Root
=============================================================================
