--------------------------- MODULE TraceTreeClosing ---------------------------
(***************************************************************************)
(* That closing the root completes every trace, proved for any number of   *)
(* traces and tasks: complete_root only walks up from the current trace of *)
(* each task, and ends its walk at a trace that is complete.               *)
(***************************************************************************)
EXTENDS TraceTreeProofs

-----------------------------------------------------------------------------
(***************************************************************************)
(* The invariant: how the blocks a task is in lie in the tree.             *)
(***************************************************************************)
Going     == txn \in {"running", "closing"}
Blocks(s) == {s[i] : i \in DOMAIN s}

\* A task is in blocks it has entered itself, one after the other.
BlocksOwn ==
  \A k \in Tasks : \A i \in DOMAIN open[k] : thread[open[k][i]] = k /\ k \in live
BlocksOrdered ==
  \A k \in Tasks : \A i, j \in DOMAIN open[k] : i < j => open[k][i] < open[k][j]

LiveCreated == live \subseteq 1 .. tasks

\* Until the root is closed the traces that have not exited are those of the
\* blocks; closing it only exits more of them.
BlocksAreOpen == txn = "running" => \A k \in Tasks : \A x \in Blocks(open[k]) : x \notin exited
OpenAreBlocks == Going => \A x \in Entered \ exited : x \in Blocks(open[thread[x]])

\* While no block is hidden, the blocks of a task are a path of the tree, each
\* the parent of the next, and the last one is current.
BlocksNested ==
  Going /\ ~hidden =>
    \A k \in Tasks : \A i, j \in DOMAIN open[k] :
      i < j => open[k][i] \in path[open[k][j]] /\ parent[open[k][i + 1]] = open[k][i]
BlockCurrent ==
  txn = "running" /\ ~hidden =>
    \A k \in Tasks : open[k] # <<>> => cache[k] = Innermost(open[k])

\* The traces of the task that runs the transaction are a tree of their own,
\* and a completed one is not current in it.
FirstTask ==
  /\ \A x \in Entered : thread[x] = 1 => parent[x] = Root \/ thread[parent[x]] = 1
  /\ Going => cache[1] = Root \/ (cache[1] \in Entered \ complete /\ thread[cache[1]] = 1)

\* What has not exited is still to be reached from a block of its own task,
\* which is in to_complete.
InReach ==
  txn = "closing" /\ ~hidden =>
    \A x \in Entered \ exited :
      \E s \in (pending \cup {chain}) \cap (Blocks(open[thread[x]]) \ exited) : x \in path[s]

\* Once a block of a task has been exited from below, the walk up is at the
\* next one, and does not end before it has exited all of them.
ChainGoesOn ==
  txn = "closing" /\ ~hidden =>
    \A k \in Tasks : \A x \in Blocks(open[k]) \ exited, y \in Blocks(open[k]) \cap exited :
      x \in path[y] => chain \in (Blocks(open[k]) \ exited) \cap path[y] /\ x \in path[chain]

ClosingInv ==
  /\ BlocksOwn /\ BlocksOrdered /\ LiveCreated /\ BlocksAreOpen /\ OpenAreBlocks
  /\ BlocksNested /\ BlockCurrent /\ FirstTask /\ InReach /\ ChainGoesOn /\ ClosedWhole

-----------------------------------------------------------------------------
(***************************************************************************)
(* Paths and completion.                                                   *)
(***************************************************************************)
\* A trace is on its own path and on that of everything below it.
LEMMA PathFacts ==
  ASSUME IInv, NEW x \in Entered
  PROVE  /\ x \in path[x] /\ path[x] \subseteq Entered
         /\ \A d \in path[x] : d <= x /\ path[d] \subseteq path[x]
         /\ x \notin path[parent[x]]
         /\ \A d \in path[x] : d # x => d \in path[parent[x]]
         /\ \A d \in path[x] : d # x => parent[x] \in Entered /\ parent[x] # Root
         /\ parent[x] # Root => parent[x] \in Entered /\ parent[x] \in path[x]
<1>1. /\ path[x] = {x} \cup path[parent[x]] /\ path[x] \subseteq 1 .. x /\ path[Root] = {}
      /\ \A d \in path[x] : path[d] \subseteq path[x]
  BY DEF IInv, PathsFit
<1>2. path[x] \subseteq Entered /\ x \in Nat
  BY CompletesOnPath, Numbers DEF IInv
<1>3. /\ parent[x] \in Entered \cup {Root} /\ parent[x] < x
      /\ parent[x] \in Entered => parent[x] \in Nat /\ path[parent[x]] \subseteq 1 .. parent[x]
                                  /\ parent[x] \in path[parent[x]]
  BY Numbers DEF IInv, PathsFit
<1>4. x \notin path[parent[x]]
  BY <1>1, <1>2, <1>3
<1> QED BY <1>1, <1>2, <1>3, <1>4

\* Everything below a completed trace is completed.
LEMMA CompleteBelow ==
  ASSUME IInv, NEW x \in Entered, NEW y \in Entered, x \in complete, x \in path[y]
  PROVE  y \in complete
<1>1. \A z \in Below(y) : z \in Below(x)
  BY PathFacts DEF Below
<1>2. Below(x) \subseteq exited
  BY DEF IInv, AlwaysWhenDone
<1> QED BY <1>1, <1>2 DEF IInv, AlwaysWhenDone

\* When every trace has exited, every trace is completed.
LEMMA ExitedIsComplete ==
  ASSUME IInv, Entered \subseteq exited
  PROVE  complete = Entered
<1>1. \A x \in Entered : Below(x) \subseteq exited
  BY DEF Below
<1> QED BY <1>1 DEF IInv, AlwaysWhenDone, TypeOK

\* No child outstanding at the root: nothing is outstanding in the tree.
LEMMA RootDone ==
  ASSUME IInv, Kids(Root) \subseteq complete
  PROVE  complete = Entered
<1> SUFFICES ASSUME NEW x \in Entered PROVE x \in complete
  BY DEF IInv, TypeOK
<1>1. path[x] \subseteq Nat /\ path[x] # {} /\ path[x] \subseteq Entered
  BY PathFacts, Numbers DEF IInv
<1>2. PICK m \in path[x] : \A n \in path[x] : m <= n
  BY <1>1, LeastExists
<1>3. parent[m] = Root
  <2>1. m \in Entered /\ m \in Nat /\ parent[m] \in Entered \cup {Root} /\ parent[m] < m
    BY <1>1, <1>2, Numbers DEF IInv
  <2>2. parent[m] # Root => parent[m] \in path[x] /\ parent[m] \in Nat
    BY <1>1, <2>1, PathFacts
  <2> QED BY <1>2, <2>1, <2>2
<1>4. m \in complete /\ m \in Entered
  BY <1>1, <1>2, <1>3 DEF Kids
<1> QED BY <1>2, <1>4, CompleteBelow

\* The trace that becomes current in the first task is not completed.
LEMMA FirstTaskExits ==
  ASSUME IInv, FirstTask, Going, NEW x \in Entered, ExitTrace(x), UNCHANGED tree
  PROVE  cache'[1] = Root \/ (cache'[1] \in Entered \ complete' /\ thread[cache'[1]] = 1)
<1>0. 1 \in Tasks
  BY TraceAssumption DEF Tasks, TraceAssumption
<1>1. CASE x \in complete
  BY <1>1 DEF ExitTrace, Over, FirstTask, Going
<1>2. CASE x \notin complete
  <2> DEFINE done == {x} \cup Completes(x)
             mine == {c \in done : thread[c] = 1}
             first == CHOOSE c \in mine : \A d \in mine : c <= d
  <2>1. complete' = complete \cup Completes(x) /\ cache' = Popped(done)
    BY <1>2 DEF ExitTrace, Over, Going
  <2>2. done \subseteq Entered /\ Completes(x) \subseteq path[x]
    BY CompletesOnPath
  <2>3. CASE mine = {}
    <3>1. cache'[1] = cache[1]
      BY <1>0, <2>1, <2>3 DEF Popped
    <3> QED BY <2>1, <2>3, <3>1 DEF FirstTask
  <2>4. CASE mine # {}
    <3>1. cache'[1] = parent[first]
      BY <1>0, <2>1, <2>4 DEF Popped
    <3>2. mine \subseteq Nat
      BY <2>2, Numbers DEF IInv
    <3>3. \E c \in mine : \A d \in mine : c <= d
      BY <2>4, <3>2, LeastExists
    <3>4. first \in mine /\ \A d \in mine : first <= d
      BY <3>3
    <3> HIDE DEF first
    <3>5. first \in Entered /\ first \in done /\ thread[first] = 1
      BY <2>2, <3>4
    <3>6. first \notin complete
      <4>1. first \in path[x]
        BY <2>2, <3>5, PathFacts
      <4> QED BY <1>2, <3>5, <4>1, CompleteBelow
    <3> DEFINE p == parent[first]
    <3>7. CASE p # Root
      <4>1. p \in Entered /\ p \in path[first] /\ thread[p] = 1
        BY <3>5, <3>7, PathFacts DEF FirstTask
      <4>2. p < first /\ p \in Nat /\ first \in Nat
        BY <3>5, <4>1, Numbers DEF IInv
      <4>3. p \notin done
        BY <3>4, <4>1, <4>2
      <4>4. p \notin complete
        BY <3>5, <3>6, <4>1, CompleteBelow
      <4> QED BY <2>1, <3>1, <4>1, <4>3, <4>4
    <3> QED BY <3>1, <3>7
  <2> QED BY <2>3, <2>4
<1> QED BY <1>1, <1>2

-----------------------------------------------------------------------------
(***************************************************************************)
(* The blocks of the tasks.                                                *)
(***************************************************************************)
\* Blocks are traces that were entered.
LEMMA BlockFacts ==
  ASSUME IInv, NEW k \in Tasks
  PROVE  /\ open[k] \in Seq(Entered) /\ DOMAIN open[k] = 1 .. Len(open[k])
         /\ Blocks(open[k]) \subseteq Entered
         /\ open[k] # <<>> => Len(open[k]) \in DOMAIN open[k] /\ Innermost(open[k]) \in Blocks(open[k])
         /\ open[k] = <<>> => Blocks(open[k]) = {}
BY DEF IInv, EnteredOnly, Blocks, Innermost

\* The innermost block is below all blocks of its task.
LEMMA InnermostBelow ==
  ASSUME IInv, BlocksNested, Going, ~hidden, NEW k \in Tasks, NEW x \in Blocks(open[k])
  PROVE  x \in path[Innermost(open[k])] /\ open[k] # <<>>
<1>1. PICK i \in DOMAIN open[k] : x = open[k][i]
  BY DEF Blocks
<1>2. i \in 1 .. Len(open[k]) /\ Len(open[k]) \in DOMAIN open[k] /\ Len(open[k]) \in Nat
  BY <1>1, BlockFacts
<1>3. CASE i = Len(open[k])
  BY <1>1, <1>3, BlockFacts, PathFacts DEF Innermost
<1>4. CASE i < Len(open[k])
  BY <1>1, <1>2, <1>4 DEF BlocksNested, Innermost
<1> QED BY <1>1, <1>2, <1>3, <1>4

\* The parent of a block that has another one of its task above is a block.
LEMMA ParentIsBlock ==
  ASSUME IInv, BlocksOrdered, BlocksNested, Going, ~hidden, NEW k \in Tasks,
         NEW x \in Blocks(open[k]), NEW y \in Blocks(open[k]), y \in path[x], y # x
  PROVE  parent[x] \in Blocks(open[k])
<1>1. PICK i, j \in DOMAIN open[k] : x = open[k][i] /\ y = open[k][j]
  BY DEF Blocks
<1>2. /\ i \in 1 .. Len(open[k]) /\ j \in 1 .. Len(open[k]) /\ Len(open[k]) \in Nat
      /\ x \in Entered /\ y \in Entered /\ DOMAIN open[k] = 1 .. Len(open[k])
  BY <1>1, BlockFacts
<1>3. y < x
  BY <1>2, PathFacts, Numbers DEF IInv
<1>4. ~(i < j) /\ i # j
  BY <1>1, <1>2, <1>3, Numbers DEF IInv, BlocksOrdered
<1>5. i - 1 \in DOMAIN open[k] /\ i - 1 < i /\ (i - 1) + 1 = i
  BY <1>2, <1>4
<1>6. parent[open[k][(i - 1) + 1]] = open[k][i - 1]
  BY <1>5 DEF BlocksNested
<1> QED BY <1>1, <1>5, <1>6 DEF Blocks

\* What entering a trace does to the tree, and to the blocks of its task.
LEMMA EnterEffect ==
  ASSUME IInv, NEW k \in Tasks, Enter(k)
  PROVE  LET z == traces + 1 IN
         /\ Entered' = Entered \cup {z} /\ z \notin Entered /\ z \in Nat
         /\ \A x \in Entered : x < z /\ x \in Nat
         /\ \A x \in Entered \cup {Root} : path'[x] = path[x]
         /\ path'[z] = {z} \cup path[cache[k]]
         /\ \A x \in Entered : parent'[x] = parent[x] /\ thread'[x] = thread[x]
         /\ parent'[z] = cache[k] /\ thread'[z] = k
         /\ cache' = [cache EXCEPT ![k] = z] /\ cache[k] \in Entered \cup {Root}
         /\ open' = [open EXCEPT ![k] = Append(@, z)]
         /\ txn = "running" /\ k \in live
         /\ UNCHANGED <<live, tasks, exited, complete, txn, hidden, closing>>
<1> DEFINE z == traces + 1
<1>1. /\ traces' = z /\ parent' = [parent EXCEPT ![z] = cache[k]] /\ thread' = [thread EXCEPT ![z] = k]
      /\ path' = [path EXCEPT ![z] = {z} \cup path[cache[k]]]
      /\ cache' = [cache EXCEPT ![k] = z] /\ open' = [open EXCEPT ![k] = Append(@, z)]
      /\ cache[k] # None /\ txn = "running" /\ traces < MaxTraces /\ k \in live
      /\ UNCHANGED <<live, tasks, exited, complete, txn, hidden, closing>>
  BY DEF Enter, Idle
<1>2. /\ z \in Traces /\ z \notin Entered /\ Entered' = Entered \cup {z} /\ z # Root
      /\ z \in Nat /\ \A x \in Entered : x \in Nat /\ x < z
  <2>1. TypeOK
    BY DEF IInv
  <2>2. Entered' = 1 .. z
    BY <1>1 DEF Entered
  <2> QED BY <1>1, <2>1, <2>2, NextNumber
<1>3. Entered \cup {Root} \subseteq 0 .. MaxTraces /\ z \in 0 .. MaxTraces /\ Entered \subseteq Traces
  BY <1>2, Numbers DEF IInv
<1>4. cache[k] \in Entered \cup {Root}
  BY <1>1 DEF IInv, EnteredOnly
<1> HIDE DEF z
<1>5. /\ \A x \in Entered \cup {Root} : path'[x] = path[x]
      /\ path'[z] = {z} \cup path[cache[k]]
      /\ \A x \in Entered : parent'[x] = parent[x] /\ thread'[x] = thread[x]
      /\ parent'[z] = cache[k] /\ thread'[z] = k
  BY <1>1, <1>2, <1>3 DEF IInv, TypeOK
<1> QED BY <1>1, <1>2, <1>4, <1>5 DEF z

-----------------------------------------------------------------------------
(***************************************************************************)
(* The steps.                                                              *)
(***************************************************************************)
\* A new trace becomes the innermost block of its task.
LEMMA EnterCloses == ASSUME IInv, ClosingInv, NEW k \in Tasks, Enter(k) PROVE ClosingInv'
<1> DEFINE z == traces + 1
           n == Len(open[k])
<1>1. /\ Entered' = Entered \cup {z} /\ z \notin Entered /\ z \in Nat
      /\ \A x \in Entered : x < z /\ x \in Nat
      /\ \A x \in Entered \cup {Root} : path'[x] = path[x]
      /\ path'[z] = {z} \cup path[cache[k]]
      /\ \A x \in Entered : parent'[x] = parent[x] /\ thread'[x] = thread[x]
      /\ parent'[z] = cache[k] /\ thread'[z] = k
      /\ cache' = [cache EXCEPT ![k] = z] /\ cache[k] \in Entered \cup {Root}
      /\ open' = [open EXCEPT ![k] = Append(@, z)]
      /\ txn = "running" /\ k \in live
      /\ UNCHANGED <<live, tasks, exited, complete, txn, hidden, closing>>
  BY EnterEffect
<1>2. /\ n \in Nat /\ open[k] \in Seq(Entered) /\ DOMAIN open[k] = 1 .. n
      /\ \A i \in 1 .. n : open[k][i] \in Entered
  BY BlockFacts
<1> HIDE DEF z
<1>3. /\ open'[k] = Append(open[k], z) /\ DOMAIN open'[k] = 1 .. n + 1 /\ Len(open'[k]) = n + 1
      /\ \A i \in 1 .. n : open'[k][i] = open[k][i]
      /\ open'[k][n + 1] = z
      /\ \A j \in Tasks \ {k} : open'[j] = open[j]
  BY <1>1, <1>2 DEF IInv, TypeOK
<1> HIDE DEF n
<1>4. \A j \in Tasks \ {k} : Blocks(open'[j]) = Blocks(open[j]) /\ \A i \in DOMAIN open[j] : open[j][i] \in Entered
  BY <1>3, BlockFacts DEF Blocks
<1>5. Blocks(open'[k]) = Blocks(open[k]) \cup {z}
  <2>1. \A i \in 1 .. n + 1 : i \in 1 .. n \/ i = n + 1
    BY <1>2
  <2>2. n + 1 \in 1 .. n + 1 /\ 1 .. n \subseteq 1 .. n + 1
    BY <1>2
  <2> QED BY <1>2, <1>3, <2>1, <2>2 DEF Blocks
<1>6. BlocksOwn'
  <2> SUFFICES ASSUME NEW j \in Tasks, NEW i \in DOMAIN open'[j]
               PROVE  thread'[open'[j][i]] = j /\ j \in live'
    BY DEF BlocksOwn
  <2>1. CASE j = k /\ i = n + 1
    BY <1>1, <1>3, <2>1
  <2>2. CASE j = k /\ i # n + 1
    <3>1. i \in 1 .. n
      BY <1>2, <1>3, <2>2
    <3> QED BY <1>1, <1>2, <1>3, <2>2, <3>1 DEF ClosingInv, BlocksOwn
  <2>3. CASE j # k
    BY <1>1, <1>3, <1>4, <2>3 DEF ClosingInv, BlocksOwn
  <2> QED BY <2>1, <2>2, <2>3
<1>7. BlocksOrdered'
  <2> SUFFICES ASSUME NEW j \in Tasks, NEW a \in DOMAIN open'[j], NEW b \in DOMAIN open'[j], a < b
               PROVE  open'[j][a] < open'[j][b]
    BY DEF BlocksOrdered
  <2>1. CASE j = k /\ b = n + 1
    <3>1. a \in 1 .. n
      BY <1>2, <1>3, <2>1
    <3> QED BY <1>1, <1>2, <1>3, <2>1, <3>1
  <2>2. CASE j = k /\ b # n + 1
    <3>1. a \in 1 .. n /\ b \in 1 .. n
      BY <1>2, <1>3, <2>2
    <3> QED BY <1>2, <1>3, <2>2, <3>1 DEF ClosingInv, BlocksOrdered
  <2>3. CASE j # k
    BY <1>3, <2>3 DEF ClosingInv, BlocksOrdered
  <2> QED BY <2>1, <2>2, <2>3
<1>8. LiveCreated'
  BY <1>1 DEF ClosingInv, LiveCreated
<1>9. z \notin exited /\ z \notin complete
  BY <1>1 DEF IInv, TypeOK
<1>10. BlocksAreOpen' /\ OpenAreBlocks'
  <2>1. BlocksAreOpen'
    BY <1>1, <1>4, <1>5, <1>9 DEF ClosingInv, BlocksAreOpen
  <2>2. ASSUME NEW x \in Entered', x \notin exited PROVE x \in Blocks(open'[thread'[x]])
    <3>1. CASE x = z
      BY <1>1, <1>5, <3>1
    <3>2. CASE x \in Entered
      <4>1. x \in Blocks(open[thread[x]]) /\ thread'[x] = thread[x]
        BY <1>1, <2>2, <3>2 DEF ClosingInv, OpenAreBlocks, Going
      <4>2. thread[x] \in Tasks
        BY <3>2, Numbers DEF IInv, TypeOK
      <4> QED BY <1>4, <1>5, <4>1, <4>2
    <3> QED BY <1>1, <2>2, <3>1, <3>2
  <2> QED BY <1>1, <2>1, <2>2 DEF OpenAreBlocks
<1>11. BlocksNested'
  <2> SUFFICES ASSUME ~hidden, NEW j \in Tasks,
                      NEW a \in DOMAIN open'[j], NEW b \in DOMAIN open'[j], a < b
               PROVE  open'[j][a] \in path'[open'[j][b]] /\ parent'[open'[j][a + 1]] = open'[j][a]
    BY <1>1 DEF BlocksNested
  <2>1. Going /\ BlocksNested
    BY <1>1 DEF ClosingInv, Going
  <2>2. CASE j = k
    <3>1. a \in 1 .. n /\ (b \in 1 .. n \/ b = n + 1) /\ open[k] # <<>> /\ (a + 1 \in 1 .. n \/ a = n)
      BY <1>2, <1>3, <2>2 DEF n
    <3>2. cache[k] = open[k][n] /\ n \in 1 .. n
      BY <1>1, <1>2, <2>2, <3>1 DEF ClosingInv, BlockCurrent, Innermost, n
    <3>3. open[k][a] \in path[open[k][n]] /\ open[k][a] \in Entered
      <4>1. open[k][a] \in Blocks(open[k])
        BY <1>2, <3>1 DEF Blocks
      <4> QED BY <2>1, <4>1, InnermostBelow, <1>2, <3>1 DEF Innermost, n
    <3>4. open'[k][a] \in path'[open'[k][b]]
      <4>1. CASE b = n + 1
        BY <1>1, <1>3, <3>1, <3>2, <3>3, <4>1
      <4>2. CASE b \in 1 .. n
        <5>1. open[k][a] \in path[open[k][b]] /\ open[k][b] \in Entered
          BY <1>2, <2>1, <3>1, <4>2 DEF BlocksNested
        <5>2. open'[k][a] = open[k][a] /\ open'[k][b] = open[k][b]
          BY <1>3, <3>1, <4>2
        <5>3. path'[open[k][b]] = path[open[k][b]]
          BY <1>1, <5>1
        <5> QED BY <5>1, <5>2, <5>3
      <4> QED BY <3>1, <4>1, <4>2
    <3>5. parent'[open'[k][a + 1]] = open'[k][a]
      <4>1. CASE a = n
        BY <1>1, <1>3, <3>1, <3>2, <4>1
      <4>2. CASE a + 1 \in 1 .. n
        <5>1. a < a + 1
          BY <3>1
        <5>2. parent[open[k][a + 1]] = open[k][a] /\ open[k][a + 1] \in Entered
          BY <1>2, <2>1, <3>1, <4>2, <5>1 DEF BlocksNested
        <5> QED BY <1>1, <1>3, <3>1, <4>2, <5>2
      <4> QED BY <3>1, <4>1, <4>2
    <3> QED BY <2>2, <3>4, <3>5
  <2>3. CASE j # k
    <3>1. a + 1 \in DOMAIN open[j] /\ a \in DOMAIN open[j] /\ b \in DOMAIN open[j]
      BY <1>3, <2>3, BlockFacts
    <3> QED BY <1>1, <1>3, <1>4, <2>1, <2>3, <3>1 DEF BlocksNested
  <2> QED BY <2>2, <2>3
<1>12. BlockCurrent'
  <2> SUFFICES ASSUME ~hidden, NEW j \in Tasks, open'[j] # <<>> PROVE cache'[j] = Innermost(open'[j])
    BY <1>1 DEF BlockCurrent, Innermost
  <2>1. CASE j = k
    BY <1>1, <1>3, <2>1 DEF Innermost, IInv, TypeOK
  <2>2. CASE j # k
    BY <1>1, <1>3, <2>2 DEF ClosingInv, BlockCurrent, Innermost, IInv, TypeOK
  <2> QED BY <2>1, <2>2
<1>13. FirstTask'
  <2>0. 1 \in Tasks
    BY TraceAssumption DEF Tasks, TraceAssumption
  <2>1. cache[1] = Root \/ (cache[1] \in Entered \ complete /\ thread[cache[1]] = 1)
    BY <1>1 DEF ClosingInv, FirstTask, Going
  <2>2. ASSUME NEW x \in Entered', thread'[x] = 1 PROVE parent'[x] = Root \/ thread'[parent'[x]] = 1
    <3>1. CASE x = z
      BY <1>1, <2>1, <2>2, <3>1
    <3>2. CASE x \in Entered
      <4>1. parent[x] \in Entered \cup {Root}
        BY <3>2, Numbers DEF IInv
      <4> QED BY <1>1, <2>2, <3>2, <4>1 DEF ClosingInv, FirstTask
    <3> QED BY <1>1, <3>1, <3>2
  <2>3. cache'[1] = Root \/ (cache'[1] \in Entered' \ complete' /\ thread'[cache'[1]] = 1)
    <3>1. CASE k = 1
      BY <1>1, <1>9, <2>0, <3>1 DEF IInv, TypeOK
    <3>2. CASE k # 1
      BY <1>1, <2>0, <2>1, <3>2 DEF IInv, TypeOK
    <3> QED BY <3>1, <3>2
  <2> QED BY <2>2, <2>3 DEF FirstTask
<1>14. InReach' /\ ChainGoesOn' /\ ClosedWhole'
  BY <1>1 DEF InReach, ChainGoesOn, ClosedWhole
<1> QED BY <1>6, <1>7, <1>8, <1>10, <1>11, <1>12, <1>13, <1>14 DEF ClosingInv

\* Leaving a block: the blocks that are left.
LEMMA PopEffect ==
  ASSUME IInv, NEW k \in Tasks, open[k] # <<>>,
         open' = [open EXCEPT ![k] = SubSeq(@, 1, Len(@) - 1)]
  PROVE  /\ \A j \in Tasks : \A i \in DOMAIN open'[j] : i \in DOMAIN open[j] /\ open'[j][i] = open[j][i]
         /\ \A j \in Tasks : Blocks(open'[j]) \subseteq Blocks(open[j])
         /\ \A j \in Tasks : \A x \in Blocks(open[j]) :
              x \in Blocks(open'[j]) \/ (j = k /\ x = Innermost(open[k]))
         /\ \A j \in Tasks : \A i, l \in DOMAIN open'[j] : i < l => i + 1 \in DOMAIN open'[j]
         /\ \A i \in DOMAIN open'[k] : i < Len(open[k])
<1> DEFINE n == Len(open[k])
<1>1. /\ n \in Nat \ {0} /\ open[k] \in Seq(Entered) /\ DOMAIN open[k] = 1 .. n
  BY BlockFacts
<1>2. /\ open'[k] = SubSeq(open[k], 1, n - 1) /\ \A j \in Tasks \ {k} : open'[j] = open[j]
  BY DEF IInv, TypeOK
<1>3. /\ DOMAIN open'[k] = 1 .. n - 1 /\ \A i \in 1 .. n - 1 : open'[k][i] = open[k][i]
  BY <1>1, <1>2
<1>4. \A i \in 1 .. n : i \in 1 .. n - 1 \/ i = n
  BY <1>1
<1>5. 1 .. n - 1 \subseteq 1 .. n /\ \A i \in 1 .. n - 1 : i < n
  BY <1>1
<1>6. \A j \in Tasks : \A i \in DOMAIN open'[j] : i \in DOMAIN open[j] /\ open'[j][i] = open[j][i]
  BY <1>1, <1>2, <1>3, <1>5
<1> HIDE DEF n
<1>7. ASSUME NEW j \in Tasks, NEW x \in Blocks(open[j])
      PROVE  x \in Blocks(open'[j]) \/ (j = k /\ x = Innermost(open[k]))
  <2>1. CASE j = k
    <3>1. PICK i \in 1 .. n : x = open[k][i]
      BY <1>1, <1>7, <2>1 DEF Blocks
    <3>2. CASE i = n
      BY <2>1, <3>1, <3>2 DEF Innermost, n
    <3>3. CASE i \in 1 .. n - 1
      BY <1>3, <2>1, <3>1, <3>3 DEF Blocks
    <3> QED BY <1>4, <3>2, <3>3
  <2>2. CASE j # k
    BY <1>2, <1>7, <2>2
  <2> QED BY <2>1, <2>2
<1>8. ASSUME NEW j \in Tasks, NEW i \in DOMAIN open'[j], NEW l \in DOMAIN open'[j], i < l
      PROVE  i + 1 \in DOMAIN open'[j]
  <2>1. CASE j = k
    BY <1>1, <1>3, <1>8, <2>1
  <2>2. CASE j # k
    BY <1>2, <1>8, <2>2, BlockFacts
  <2> QED BY <2>1, <2>2
<1>9. \A j \in Tasks : Blocks(open'[j]) \subseteq Blocks(open[j])
  BY <1>6 DEF Blocks
<1>10. \A i \in DOMAIN open'[k] : i < Len(open[k])
  BY <1>3, <1>5 DEF n
<1> QED BY <1>6, <1>7, <1>8, <1>9, <1>10

\* A task leaves its innermost block, which exits, and no other.
LEMMA ExitCloses == ASSUME IInv, ClosingInv, NEW k \in Tasks, Exit(k) PROVE ClosingInv'
<1> DEFINE x == Innermost(open[k])
<1>1. /\ open[k] # <<>> /\ ExitTrace(x) /\ txn # "closing"
      /\ open' = [open EXCEPT ![k] = SubSeq(@, 1, Len(@) - 1)]
      /\ hidden' = (hidden \/ \E j \in live : open'[j] # <<>> /\ cache'[j] # Innermost(open'[j]))
      /\ UNCHANGED <<live, tasks, tree, txn, closing>>
  BY DEF Exit, Idle
<1>2. Entered' = Entered /\ x \in Blocks(open[k]) /\ x \in Entered
  BY <1>1, BlockFacts DEF Entered, tree
<1>3. /\ \A j \in Tasks : \A i \in DOMAIN open'[j] : i \in DOMAIN open[j] /\ open'[j][i] = open[j][i]
      /\ \A j \in Tasks : Blocks(open'[j]) \subseteq Blocks(open[j])
      /\ \A j \in Tasks : \A y \in Blocks(open[j]) : y \in Blocks(open'[j]) \/ (j = k /\ y = x)
      /\ \A j \in Tasks : \A i, l \in DOMAIN open'[j] : i < l => i + 1 \in DOMAIN open'[j]
      /\ \A i \in DOMAIN open'[k] : i < Len(open[k])
  BY <1>1, PopEffect
<1> HIDE DEF x
<1>4. UNCHANGED <<parent, path, thread>> /\ (Going' <=> Going) /\ (Going => txn = "running")
  BY <1>1 DEF tree, Going
<1>5. txn = "running" => exited' = exited \cup {x}
  <2>1. txn = "running" => x \notin complete
    BY <1>2 DEF ClosingInv, BlocksAreOpen, IInv, TypeOK
  <2> QED BY <1>1, <2>1 DEF ExitTrace, Over
<1>6. BlocksOwn' /\ BlocksOrdered' /\ LiveCreated'
  BY <1>1, <1>3, <1>4 DEF ClosingInv, BlocksOwn, BlocksOrdered, LiveCreated
<1>7. BlocksAreOpen'
  <2> SUFFICES ASSUME txn = "running", NEW j \in Tasks, NEW y \in Blocks(open'[j]) PROVE y \notin exited'
    BY <1>1 DEF BlocksAreOpen
  <2>1. y \in Blocks(open[j]) /\ y \notin exited
    BY <1>3 DEF ClosingInv, BlocksAreOpen
  <2>2. PICK i \in DOMAIN open'[j] : y = open[j][i] /\ i \in DOMAIN open[j]
    BY <1>3 DEF Blocks
  <2>3. y # x
    <3>1. CASE j = k
      <4>1. i < Len(open[k]) /\ Len(open[k]) \in DOMAIN open[k] /\ x = open[k][Len(open[k])]
        BY <1>1, <1>3, <2>2, <3>1, BlockFacts DEF x, Innermost
      <4>2. y < x /\ y \in Nat /\ x \in Nat
        BY <1>2, <2>1, <2>2, <3>1, <4>1, BlockFacts, Numbers DEF ClosingInv, BlocksOrdered, IInv
      <4> QED BY <4>2
    <3>2. CASE j # k
      <4>1. thread[y] = j
        BY <2>2 DEF ClosingInv, BlocksOwn
      <4>2. thread[x] = k
        BY <1>2 DEF Blocks, ClosingInv, BlocksOwn
      <4> QED BY <3>2, <4>1, <4>2
    <3> QED BY <3>1, <3>2
  <2> QED BY <1>5, <2>1, <2>3
<1>8. OpenAreBlocks'
  <2> SUFFICES ASSUME txn = "running", NEW y \in Entered, y \notin exited'
               PROVE  y \in Blocks(open'[thread[y]])
    BY <1>1, <1>2, <1>4 DEF OpenAreBlocks, Going
  <2>1. y \notin exited /\ y # x
    BY <1>5
  <2>2. y \in Blocks(open[thread[y]]) /\ thread[y] \in Tasks
    BY <2>1, Numbers DEF ClosingInv, OpenAreBlocks, Going, IInv, TypeOK
  <2> QED BY <1>3, <2>1, <2>2
<1>9. BlocksNested'
  <2> SUFFICES ASSUME Going, ~hidden, NEW j \in Tasks,
                      NEW a \in DOMAIN open'[j], NEW b \in DOMAIN open'[j], a < b
               PROVE  open'[j][a] \in path[open'[j][b]] /\ parent[open'[j][a + 1]] = open'[j][a]
    BY <1>1, <1>4 DEF BlocksNested
  <2>1. a + 1 \in DOMAIN open'[j]
    BY <1>3
  <2> QED BY <1>3, <2>1 DEF ClosingInv, BlocksNested
<1>10. BlockCurrent'
  <2> SUFFICES ASSUME ~hidden', NEW j \in Tasks, open'[j] # <<>> PROVE cache'[j] = Innermost(open'[j])
    BY DEF BlockCurrent, Innermost
  <2>1. j \in live
    <3>1. open[j] # <<>>
      BY <1>1 DEF IInv, TypeOK
    <3>2. Len(open[j]) \in DOMAIN open[j]
      BY <3>1, BlockFacts
    <3> QED BY <3>2 DEF ClosingInv, BlocksOwn
  <2> QED BY <1>1, <2>1
<1>11. FirstTask'
  <2>1. Going => cache'[1] = Root \/ (cache'[1] \in Entered \ complete' /\ thread[cache'[1]] = 1)
    BY <1>1, <1>2, FirstTaskExits DEF ClosingInv
  <2> QED BY <1>2, <1>4, <2>1 DEF ClosingInv, FirstTask
<1>12. InReach' /\ ChainGoesOn'
  BY <1>1 DEF InReach, ChainGoesOn
<1>13. ClosedWhole'
  <2> SUFFICES ASSUME txn \in {"recorded", "lost"}, ~hidden PROVE ClosedWhole'
    BY <1>1 DEF ClosedWhole
  <2>1. x \in complete
    BY <1>1, <1>2 DEF ClosingInv, ClosedWhole
  <2>2. UNCHANGED <<cache, exited, complete>>
    BY <1>1, <2>1 DEF ExitTrace
  <2> QED BY <1>1, <1>2, <2>2 DEF ClosingInv, ClosedWhole, Exited, Over
<1> QED BY <1>6, <1>7, <1>8, <1>9, <1>10, <1>11, <1>12, <1>13 DEF ClosingInv

\* A task starts without blocks, and is done when it has left all of its own.
LEMMA TaskCloses ==
  ASSUME IInv, ClosingInv, NEW k \in Tasks, CreateTask(k) \/ TaskDone(k)
  PROVE  ClosingInv'
<1>1. UNCHANGED <<tree, open, exited, complete, txn, hidden, closing>> /\ txn # "closing"
  BY DEF CreateTask, TaskDone, Idle
<1>2. Entered' = Entered /\ UNCHANGED <<parent, path, thread>>
  BY <1>1 DEF Entered, tree
<1>3. live \subseteq live' \cup {k} /\ (open[k] # <<>> => k \in live') /\ LiveCreated'
  <2>1. CASE CreateTask(k)
    BY <2>1 DEF CreateTask, ClosingInv, LiveCreated, IInv, TypeOK, Idle, Tasks
  <2>2. CASE TaskDone(k)
    BY <2>2 DEF TaskDone, ClosingInv, LiveCreated
  <2> QED BY <2>1, <2>2
<1>4. BlocksOwn' /\ BlocksOrdered'
  <2> SUFFICES ASSUME NEW j \in Tasks, NEW i \in DOMAIN open[j] PROVE thread[open[j][i]] = j /\ j \in live'
    BY <1>1, <1>2 DEF BlocksOwn, ClosingInv, BlocksOrdered
  <2>1. thread[open[j][i]] = j /\ j \in live
    BY DEF ClosingInv, BlocksOwn
  <2>2. open[j] # <<>>
    OBVIOUS
  <2> QED BY <1>3, <2>1, <2>2
<1>5. BlocksAreOpen' /\ OpenAreBlocks' /\ BlocksNested' /\ InReach' /\ ChainGoesOn'
  BY <1>1, <1>2 DEF ClosingInv, BlocksAreOpen, OpenAreBlocks, BlocksNested, InReach, ChainGoesOn, Going
\* The entries that change are of tasks without blocks, and not of the first
\* task while the transaction goes on.
<1>6. /\ \A j \in Tasks : open[j] # <<>> => cache'[j] = cache[j]
      /\ Going => cache'[1] = cache[1]
      /\ \A j \in Tasks : cache'[j] = None \/ \E i \in Tasks : cache'[j] = cache[i]
  <2>1. CASE CreateTask(k)
    <3>1. tasks + 1 \notin live /\ tasks + 1 # 1 /\ cache' = [cache EXCEPT ![tasks + 1] = cache[k]]
      BY <2>1 DEF CreateTask, ClosingInv, LiveCreated, IInv, TypeOK, Tasks
    <3>2. \A j \in Tasks : open[j] # <<>> => Len(open[j]) \in DOMAIN open[j]
      BY BlockFacts
    <3>3. \A j \in Tasks : open[j] # <<>> => j # tasks + 1
      BY <3>1, <3>2 DEF ClosingInv, BlocksOwn
    <3> QED BY <3>1, <3>3 DEF IInv, TypeOK
  <2>2. CASE TaskDone(k)
    <3>1. open[k] = <<>> /\ (Going => k # 1) /\ cache' = [cache EXCEPT ![k] = None]
      BY <1>1, <2>2 DEF TaskDone, Going
    <3> QED BY <3>1 DEF IInv, TypeOK
  <2> QED BY <2>1, <2>2
<1>7. BlockCurrent' /\ FirstTask' /\ ClosedWhole'
  <2>1. BlockCurrent'
    BY <1>1, <1>6 DEF ClosingInv, BlockCurrent, Innermost
  <2>2. FirstTask'
    BY <1>1, <1>2, <1>6 DEF ClosingInv, FirstTask, Going
  <2>3. ClosedWhole'
    <3>1. \A c : Exited(c)' <=> Exited(c)
      BY <1>1 DEF Exited, Over
    <3> QED BY <1>1, <1>2, <1>6, <3>1 DEF ClosingInv, ClosedWhole
  <2> QED BY <2>1, <2>2, <2>3
<1> QED BY <1>3, <1>4, <1>5, <1>7 DEF ClosingInv

\* The innermost block of every task is in to_complete.
LEMMA BeginCloses == IInv /\ ClosingInv /\ BeginClose => ClosingInv'
<1> SUFFICES ASSUME IInv, ClosingInv, BeginClose PROVE ClosingInv'
  OBVIOUS
<1>1. /\ txn = "running" /\ txn' = "closing" /\ UNCHANGED <<cache, live, tasks, tree, open, exited, complete, hidden>>
      /\ pending' = IF Outstanding(Root)
                      THEN {x \in {cache[k] : k \in live} : x \in Entered \ complete}
                      ELSE {}
  BY DEF BeginClose
<1>2. Entered' = Entered /\ UNCHANGED <<parent, path, thread>> /\ Going /\ Going'
  BY <1>1 DEF Entered, tree, Going
<1>3. /\ BlocksOwn' /\ BlocksOrdered' /\ LiveCreated' /\ BlocksAreOpen' /\ OpenAreBlocks'
      /\ BlocksNested' /\ BlockCurrent' /\ FirstTask' /\ ClosedWhole'
  BY <1>1, <1>2 DEF ClosingInv, BlocksOwn, BlocksOrdered, LiveCreated, BlocksAreOpen, OpenAreBlocks,
     BlocksNested, BlockCurrent, FirstTask, ClosedWhole
<1>4. InReach'
  <2> SUFFICES ASSUME ~hidden, NEW x \in Entered \ exited
               PROVE  \E s \in pending' \cap (Blocks(open[thread[x]]) \ exited) : x \in path[s]
    BY <1>1, <1>2 DEF InReach
  <2> DEFINE k == thread[x]
             s == Innermost(open[k])
  <2>1. k \in Tasks /\ x \in Blocks(open[k])
    BY <1>2, Numbers DEF ClosingInv, OpenAreBlocks, IInv, TypeOK
  <2>2. x \in path[s] /\ s \in Blocks(open[k]) /\ open[k] # <<>> /\ s \in Entered
    BY <1>2, <2>1, InnermostBelow, BlockFacts DEF ClosingInv
  <2>3. s \notin exited /\ s \notin complete
    BY <1>1, <2>1, <2>2 DEF ClosingInv, BlocksAreOpen, IInv, TypeOK
  <2>4. cache[k] = s /\ k \in live
    BY <1>1, <2>1, <2>2 DEF ClosingInv, BlockCurrent, BlocksOwn, Blocks
  <2>5. Outstanding(Root)
    BY <2>2, <2>3, RootDone DEF Outstanding
  <2> QED BY <1>1, <2>2, <2>3, <2>4, <2>5
<1>5. ChainGoesOn'
  BY <1>1, <1>2 DEF ClosingInv, BlocksAreOpen, ChainGoesOn
<1> QED BY <1>3, <1>4, <1>5 DEF ClosingInv

\* The walk goes on at the next block of the task while a block above it has
\* not exited.
LEMMA StepUp ==
  ASSUME IInv, ClosingInv, txn = "closing", ~hidden, NEW k \in Tasks,
         NEW x \in Blocks(open[k]) \ exited, NEW t \in Blocks(open[k]) \ exited,
         t \in path[x], t # x, chain # None => x = chain
  PROVE  /\ parent[x] \in Blocks(open[k]) \ exited /\ parent[x] # Root
         /\ t \in path[parent[x]] /\ parent[x] \in path[x] /\ parent[x] # x
<1> DEFINE p == parent[x]
<1>1. x \in Entered /\ Going
  BY BlockFacts DEF Going
<1>2. p \in Blocks(open[k])
  BY <1>1, ParentIsBlock DEF ClosingInv
<1>3. t \in path[p] /\ p \in Entered /\ p # Root /\ p \in path[x] /\ x \notin path[p]
  BY <1>1, PathFacts
<1>4. p # x
  BY <1>3, PathFacts
<1>5. p \notin exited
  <2> SUFFICES ASSUME p \in exited PROVE FALSE
    OBVIOUS
  <2>1. chain \in Blocks(open[k]) /\ chain \in path[p]
    BY <1>2, <1>3 DEF ClosingInv, ChainGoesOn
  <2>2. chain # None
    BY <2>1, BlockFacts, Numbers DEF IInv
  <2> QED BY <1>3, <2>1, <2>2
<1> QED BY <1>2, <1>3, <1>4, <1>5

\* One turn of the loop exits a trace, and what has not exited above it in its
\* task is reached from the next block.
LEMMA ForceCloses == IInv /\ ClosingInv /\ ForceExit => ClosingInv'
<1> SUFFICES ASSUME IInv, ClosingInv, ForceExit PROVE ClosingInv'
  OBVIOUS
<1>1. PICK z \in IF chain # None THEN {chain} ELSE pending :
        /\ chain' = IF z \notin complete /\ parent[z] # Root THEN parent[z] ELSE None
        /\ pending' = IF chain # None THEN pending ELSE pending \ {z}
        /\ ExitTrace(z)
  BY DEF ForceExit
<1>2. txn = "closing" /\ UNCHANGED <<live, tasks, tree, open, txn, hidden>>
  BY DEF ForceExit
<1>3. Entered' = Entered /\ UNCHANGED <<parent, path, thread>> /\ Going /\ Going'
  BY <1>2 DEF Entered, tree, Going
<1>4. z \in Entered /\ (chain # None => z = chain)
  BY <1>1 DEF IInv, TypeOK, EnteredOnly
<1>5. /\ exited \subseteq exited' /\ exited' \subseteq exited \cup {z}
      /\ z \notin exited => z \notin complete
  BY <1>1, <1>2 DEF ExitTrace, Over, IInv, TypeOK
<1>6. /\ BlocksOwn' /\ BlocksOrdered' /\ LiveCreated' /\ BlocksAreOpen' /\ OpenAreBlocks'
      /\ BlocksNested' /\ BlockCurrent' /\ ClosedWhole'
  BY <1>2, <1>3, <1>5 DEF ClosingInv, BlocksOwn, BlocksOrdered, LiveCreated, BlocksAreOpen,
     OpenAreBlocks, BlocksNested, BlockCurrent, ClosedWhole
<1>7. FirstTask'
  <2>1. cache'[1] = Root \/ (cache'[1] \in Entered \ complete' /\ thread[cache'[1]] = 1)
    BY <1>1, <1>2, <1>3, <1>4, FirstTaskExits DEF ClosingInv
  <2> QED BY <1>3, <2>1 DEF ClosingInv, FirstTask
\* What is above z in a task that has both in blocks.
<1>8. ASSUME ~hidden, NEW k \in Tasks, z \in Blocks(open[k]) \ exited,
             NEW t \in Blocks(open[k]) \ exited', t \in path[z], z \in exited'
      PROVE  /\ chain' \in Blocks(open[k]) \ exited' /\ t \in path[chain']
             /\ chain' \in path[z]
  <2>1. t \notin exited /\ t # z
    BY <1>5, <1>8
  <2>2. /\ parent[z] \in Blocks(open[k]) \ exited /\ parent[z] # Root
        /\ t \in path[parent[z]] /\ parent[z] \in path[z] /\ parent[z] # z
    BY <1>2, <1>4, <1>8, <2>1, StepUp
  <2>3. chain' = parent[z]
    BY <1>1, <1>5, <1>8, <2>2
  <2> QED BY <1>5, <2>2, <2>3
<1>9. z \notin exited => z \in exited'
  BY <1>1, <1>2, <1>5 DEF ExitTrace, Over
<1>10. InReach'
  <2> SUFFICES ASSUME ~hidden, NEW y \in Entered \ exited'
               PROVE  \E s \in (pending' \cup {chain'}) \cap (Blocks(open[thread[y]]) \ exited') : y \in path[s]
    BY <1>2, <1>3 DEF InReach
  <2> DEFINE k == thread[y]
  <2>1. y \in Entered \ exited /\ k \in Tasks /\ y \in Blocks(open[k])
    BY <1>3, <1>5, Numbers DEF ClosingInv, OpenAreBlocks, IInv, TypeOK
  <2>2. PICK s \in (pending \cup {chain}) \cap (Blocks(open[k]) \ exited) : y \in path[s]
    BY <1>2, <2>1 DEF ClosingInv, InReach
  <2> HIDE DEF k
  <2>3. CASE s = z
    <3>1. chain' \in Blocks(open[k]) \ exited' /\ y \in path[chain']
      BY <1>8, <1>9, <2>1, <2>2, <2>3
    <3> QED BY <3>1 DEF k
  <2>4. CASE s # z
    <3>1. s # None
      BY <2>1, <2>2, BlockFacts, Numbers DEF IInv
    <3>2. s \in pending'
      BY <1>1, <1>4, <2>2, <2>4, <3>1
    <3> QED BY <1>5, <2>2, <2>4, <3>2 DEF k
  <2> QED BY <2>3, <2>4
<1>11. ChainGoesOn'
  <2> SUFFICES ASSUME ~hidden, NEW k \in Tasks,
                      NEW x \in Blocks(open[k]) \ exited', NEW y \in Blocks(open[k]) \cap exited', x \in path[y]
               PROVE  chain' \in (Blocks(open[k]) \ exited') \cap path[y] /\ x \in path[chain']
    BY <1>2, <1>3 DEF ChainGoesOn
  <2>1. x \notin exited /\ y \in Entered
    BY <1>5, BlockFacts
  <2>2. CASE y \in exited
    <3>1. chain \in (Blocks(open[k]) \ exited) \cap path[y] /\ x \in path[chain]
      BY <1>2, <2>1, <2>2 DEF ClosingInv, ChainGoesOn
    <3>2. chain # None
      BY <3>1, BlockFacts, Numbers DEF IInv
    <3>3. z = chain
      BY <1>4, <3>2
    <3>4. chain' \in Blocks(open[k]) \ exited' /\ x \in path[chain'] /\ chain' \in path[z]
      BY <1>8, <1>9, <3>1, <3>3
    <3>5. path[z] \subseteq path[y]
      BY <2>1, <3>1, <3>3, PathFacts
    <3> QED BY <3>4, <3>5
  <2>3. CASE y \notin exited
    <3>1. y = z
      BY <1>5, <2>3
    <3> QED BY <1>8, <2>3, <3>1
  <2> QED BY <2>2, <2>3
<1> QED BY <1>6, <1>7, <1>10, <1>11 DEF ClosingInv

\* When nothing is left to walk every trace has exited, and so is completed:
\* none is current in the first task, in which the root is.
LEMMA EndCloses == IInv /\ ClosingInv /\ EndClose => ClosingInv'
<1> SUFFICES ASSUME IInv, ClosingInv, EndClose PROVE ClosingInv'
  OBVIOUS
<1>1. /\ txn = "closing" /\ pending = {} /\ chain = None
      /\ txn' = IF cache[1] = Root THEN "recorded" ELSE "lost"
      /\ cache' = IF cache[1] = Root THEN [cache EXCEPT ![1] = None] ELSE cache
      /\ UNCHANGED <<live, tasks, tree, open, exited, complete, hidden>>
  BY DEF EndClose
<1>2. Entered' = Entered /\ UNCHANGED <<parent, path, thread>> /\ Going /\ ~Going'
  BY <1>1 DEF Entered, tree, Going
<1>3. BlocksOwn' /\ BlocksOrdered' /\ LiveCreated'
  BY <1>1, <1>2 DEF ClosingInv, BlocksOwn, BlocksOrdered, LiveCreated
<1>4. /\ BlocksAreOpen' /\ OpenAreBlocks' /\ BlocksNested' /\ BlockCurrent'
      /\ InReach' /\ ChainGoesOn'
  BY <1>1, <1>2 DEF BlocksAreOpen, OpenAreBlocks, BlocksNested, BlockCurrent, InReach, ChainGoesOn
<1>5. FirstTask'
  BY <1>2 DEF ClosingInv, FirstTask
<1>6. ClosedWhole'
  <2> SUFFICES ASSUME ~hidden
               PROVE  txn' = "recorded" /\ complete = Entered /\ \A k \in Tasks : cache'[k] = None \/ Exited(cache[k])'
    <3>1. cache[1] = Root => Exited(Root)'
      BY <1>1 DEF Exited, Over
    <3> QED BY <1>1, <1>2, <3>1 DEF ClosedWhole, Exited, Over, IInv, TypeOK
  <2>1. Entered \subseteq exited
    <3> SUFFICES ASSUME NEW x \in Entered, x \notin exited PROVE FALSE
      OBVIOUS
    <3>1. thread[x] \in Tasks /\ Blocks(open[thread[x]]) \subseteq Entered
      BY Numbers, BlockFacts DEF IInv, TypeOK
    <3>2. None \in Entered
      BY <1>1, <3>1 DEF ClosingInv, InReach
    <3> QED BY <3>2, Numbers DEF IInv
  <2>2. complete = Entered
    BY <2>1, ExitedIsComplete
  <2>3. cache[1] = Root
    BY <1>2, <2>2 DEF ClosingInv, FirstTask
  <2>4. ASSUME NEW k \in Tasks PROVE cache'[k] = None \/ Exited(cache[k])'
    <3>1. cache'[k] \in Entered \cup {Root, None}
      BY <1>1 DEF IInv, EnteredOnly, TypeOK
    <3> QED BY <1>1, <2>1, <2>3, <3>1 DEF Exited, Over
  <2> QED BY <1>1, <2>2, <2>3, <2>4
<1> QED BY <1>3, <1>4, <1>5, <1>6 DEF ClosingInv

-----------------------------------------------------------------------------
(***************************************************************************)
(* The theorem.                                                            *)
(***************************************************************************)
LEMMA ClosingAtFirst == Init => ClosingInv
<1> SUFFICES ASSUME Init PROVE ClosingInv
  OBVIOUS
<1>1. Entered = {} /\ \A k \in Tasks : open[k] = <<>> /\ DOMAIN open[k] = {}
  BY DEF Init, Entered
<1>2. cache[1] = Root
  BY TraceAssumption DEF Init, Tasks, TraceAssumption
<1>3. \A k \in Tasks : Blocks(open[k]) = {}
  BY <1>1 DEF Blocks
<1>4. txn = "running" /\ live = {1} /\ tasks = 1
  BY DEF Init
<1>5. LiveCreated
  BY <1>4 DEF LiveCreated
<1>6. BlocksOwn /\ BlocksOrdered /\ BlocksNested /\ BlockCurrent
  BY <1>1 DEF BlocksOwn, BlocksOrdered, BlocksNested, BlockCurrent
<1>7. BlocksAreOpen /\ OpenAreBlocks /\ FirstTask
  BY <1>1, <1>2, <1>3 DEF BlocksAreOpen, OpenAreBlocks, FirstTask
<1>8. InReach /\ ChainGoesOn /\ ClosedWhole
  BY <1>4 DEF InReach, ChainGoesOn, ClosedWhole
<1> QED BY <1>5, <1>6, <1>7, <1>8 DEF ClosingInv

LEMMA NextCloses == IInv /\ ClosingInv /\ [Next]_vars => ClosingInv'
<1> SUFFICES ASSUME IInv, ClosingInv, [Next]_vars PROVE ClosingInv'
  OBVIOUS
<1>1. ASSUME NEW k \in Tasks, Enter(k) \/ Exit(k) \/ CreateTask(k) \/ TaskDone(k) PROVE ClosingInv'
  BY <1>1, EnterCloses, ExitCloses, TaskCloses
<1>2. CASE BeginClose \/ ForceExit \/ EndClose
  BY <1>2, BeginCloses, ForceCloses, EndCloses
<1>3. CASE UNCHANGED vars
  <2>1. UNCHANGED <<cache, live, tasks, tree, open, exited, complete, txn, hidden, closing>>
    BY <1>3 DEF vars
  <2>2. Entered' = Entered /\ UNCHANGED <<parent, path, thread, pending, chain>>
    BY <2>1 DEF Entered, tree, closing
  <2>3. \A c : Exited(c)' <=> Exited(c)
    BY <2>1 DEF Exited, Over
  <2>4. BlocksOwn' /\ BlocksOrdered' /\ LiveCreated' /\ BlocksAreOpen' /\ OpenAreBlocks' /\ BlocksNested'
    BY <2>1, <2>2 DEF ClosingInv, BlocksOwn, BlocksOrdered, LiveCreated, BlocksAreOpen, OpenAreBlocks,
       BlocksNested, Going
  <2>5. BlockCurrent' /\ FirstTask' /\ InReach' /\ ChainGoesOn'
    BY <2>1, <2>2 DEF ClosingInv, BlockCurrent, FirstTask, InReach, ChainGoesOn, Innermost, Going
  <2>6. ClosedWhole'
    BY <2>1, <2>2, <2>3 DEF ClosingInv, ClosedWhole
  <2> QED BY <2>4, <2>5, <2>6 DEF ClosingInv
<1> QED BY <1>1, <1>2, <1>3 DEF Next

\* The invariant holds throughout: the blocks of a task stay a path of the
\* tree, and closing the root passes all of them.
THEOREM ClosingInductive == Spec => [](IInv /\ ClosingInv)
<1>1. Init => IInv /\ ClosingInv
  BY Initially, ClosingAtFirst
<1>2. IInv /\ ClosingInv /\ [Next]_vars => (IInv /\ ClosingInv)'
  BY NextKeeps, NextCloses
<1> QED BY <1>1, <1>2, PTL DEF Spec

\* Closing the root, with whatever traces of whatever tasks outstanding, ends
\* with every trace completed, the transaction recorded and no trace current
\* under which a task could go on; unless a trace was hidden (complete_root).
THEOREM ClosingCompletesAll == Spec => []ClosedWhole
<1>1. ClosingInv => ClosedWhole
  BY DEF ClosingInv
<1> QED BY ClosingInductive, <1>1, PTL
=============================================================================
