--------------------------- MODULE TraceTreeProofs ---------------------------
(***************************************************************************)
(* That traces complete exactly when they are done, proved for any number  *)
(* of traces and tasks.                                                    *)
(***************************************************************************)
EXTENDS TraceTree, WellFoundedInduction, TLAPS

-----------------------------------------------------------------------------
(***************************************************************************)
(* The invariant.                                                          *)
(***************************************************************************)
\* The shape of the tree: paths go to the root.
PathsFit ==
  /\ path[Root] = {}
  /\ \A x \in Entered : path[x] = {x} \cup path[parent[x]]
  /\ \A x \in Entered : path[x] \subseteq 1 .. x
  /\ \A x \in Entered : \A d \in path[x] : path[d] \subseteq path[x]
  /\ \A x \in Entered : \A c, d \in path[x] : c <= d => c \in path[d]

\* Where a trace y that is below c leaves the path of x, which is too: at a
\* child of a trace of that path.
Branches ==
  \A x, y \in Entered : y \notin path[x] =>
    \A c \in path[x] \cap path[y] :
      \E b \in path[y] \ path[x] : parent[b] \in path[x] /\ c <= parent[b]

\* Only traces that were entered are current, left or completed.
EnteredOnly ==
  /\ \A k \in Tasks : cache[k] \in Entered \cup {Root, None}
  /\ \A k \in Tasks : open[k] \in Seq(Entered)
  /\ chain \in Entered \cup {None}

\* CompleteWhenDone at any time.
AlwaysWhenDone == \A x \in Entered : x \in complete <=> Below(x) \subseteq exited

\* The inductive invariant.
IInv == TypeOK /\ PathsFit /\ Branches /\ EnteredOnly /\ AlwaysWhenDone

-----------------------------------------------------------------------------
LEMMA LeastExists ==
  ASSUME NEW T, T \subseteq Nat, T # {}
  PROVE  \E m \in T : \A n \in T : m <= n
<1> DEFINE R == OpToRel(<, Nat)
<1>1. \A n, m \in Nat : n < m => <<n, m>> \in R
  BY Zenon DEF OpToRel
<1>2. IsWellFoundedOn(R, Nat)
  BY NatLessThanWellFounded
<1> HIDE DEF R
<1>3. \E m \in T : \A n \in T : ~ (<<n, m>> \in R)
  BY <1>2, WFMin
<1>4. PICK m \in T : \A n \in T : ~ (<<n, m>> \in R)
  BY <1>3
<1>5. \A n \in T : ~ (n < m)
  BY <1>1, <1>4
<1>6. \A n \in T : m <= n
  BY <1>5
<1> QED BY <1>6

\* The numbers of traces, tasks and the two that stand for none.
LEMMA Numbers ==
  ASSUME TypeOK
  PROVE  /\ MaxTraces \in Nat /\ traces \in Nat /\ traces <= MaxTraces
         /\ Entered \subseteq Traces /\ Entered \subseteq Nat /\ Traces \subseteq Nat
         /\ None \notin Traces /\ Root \notin Traces /\ None # Root /\ Root = 0
         /\ Traces \cup {Root} = 0 .. MaxTraces
         /\ 0 .. None = Traces \cup {Root, None}
         /\ \A x \in Entered : parent[x] \in Entered \cup {Root} /\ parent[x] < x
BY TraceAssumption DEF TypeOK, TraceAssumption, Traces, Entered, Root, None

\* The number of the next trace.
LEMMA NextNumber ==
  ASSUME TypeOK, traces < MaxTraces
  PROVE  /\ traces + 1 \in Traces /\ traces + 1 \notin Entered
         /\ traces + 1 \in Nat /\ traces + 1 # Root /\ traces + 1 # None /\ traces + 1 <= MaxTraces
         /\ 1 .. (traces + 1) = Entered \cup {traces + 1}
         /\ \A x \in Entered : x \in Nat /\ x < traces + 1
<1>1. traces \in Nat /\ MaxTraces \in Nat
  BY Numbers
<1> QED BY <1>1 DEF Traces, Entered, Root, None

\* The traces an exit completes are on the path of the trace.
LEMMA CompletesOnPath ==
  ASSUME IInv, NEW x \in Entered
  PROVE  Completes(x) \subseteq path[x] /\ path[x] \subseteq Entered
<1>1. path[x] \subseteq 1 .. x /\ x \in Nat /\ x <= traces
  BY Numbers DEF IInv, PathsFit, Entered
<1> QED BY <1>1, Numbers DEF Completes, Entered, IInv

\* What is current after traces were popped.
LEMMA PoppedType ==
  ASSUME IInv, NEW done, done \subseteq Entered
  PROVE  /\ Popped(done) \in [Tasks -> Entered \cup {Root, None}]
<1> SUFFICES ASSUME NEW k \in Tasks PROVE Popped(done)[k] \in Entered \cup {Root, None}
  BY DEF Popped
<1> DEFINE mine == {c \in done : thread[c] = k}
<1>1. CASE mine = {}
  BY <1>1 DEF Popped, IInv, EnteredOnly
<1>2. CASE mine # {}
  <2>1. mine \subseteq Entered /\ mine \subseteq Nat
    BY Numbers DEF IInv
  <2>2. \E c \in mine : \A d \in mine : c <= d
    BY <1>2, <2>1, LeastExists
  <2>3. (CHOOSE c \in mine : \A d \in mine : c <= d) \in mine
    BY <2>2
  <2>4. Popped(done)[k] = parent[CHOOSE c \in mine : \A d \in mine : c <= d]
    BY <1>2 DEF Popped
  <2> HIDE DEF mine
  <2> QED BY <2>1, <2>3, <2>4, Numbers DEF IInv
<1> QED BY <1>1, <1>2

-----------------------------------------------------------------------------
(***************************************************************************)
(* An exit completes what is done, and nothing else.                       *)
(***************************************************************************)
\* A trace that is completed has nothing below it that has not exited: what
\* is on the path of x has, and what is not hangs on a completed child.
LEMMA CompletedIsDone ==
  ASSUME IInv, NEW x \in Entered, NEW c \in Completes(x)
  PROVE  Below(c) \subseteq exited \cup {x}
<1>1. /\ c \in path[x] /\ c \in Entered
      /\ \A d \in path[x] :
           d >= c => (d = x \/ d \in exited) /\ (Kids(d) \ path[x]) \subseteq complete
  BY CompletesOnPath DEF Completes
<1> SUFFICES ASSUME NEW y \in Entered, c \in path[y] PROVE y \in exited \cup {x}
  BY DEF Below
<1>2. CASE y \in path[x]
  <2>1. c \in 1 .. y
    BY DEF IInv, PathsFit
  <2>2. y >= c
    BY <2>1, Numbers DEF IInv
  <2> QED BY <1>1, <1>2, <2>2
<1>3. CASE y \notin path[x]
  <2>1. PICK b \in path[y] \ path[x] : parent[b] \in path[x] /\ c <= parent[b]
    BY <1>1, <1>3 DEF IInv, Branches
  <2>2. b \in Entered
    BY CompletesOnPath, <2>1
  <2>3. b \in Kids(parent[b]) \ path[x]
    BY <2>1, <2>2 DEF Kids
  <2>4. parent[b] >= c
    BY <1>1, <2>1, <2>2, Numbers DEF IInv
  <2>5. b \in complete
    BY <1>1, <2>1, <2>3, <2>4
  <2>6. Below(b) \subseteq exited
    BY <2>2, <2>5 DEF IInv, AlwaysWhenDone
  <2> QED BY <2>1, <2>6 DEF Below
<1> QED BY <1>2, <1>3

\* A trace on the path of x with nothing else left below it is completed.
LEMMA DoneIsCompleted ==
  ASSUME IInv, NEW x \in Entered, NEW c \in path[x], Below(c) \subseteq exited \cup {x}
  PROVE  c \in Completes(x)
<1> SUFFICES ASSUME NEW d \in path[x], d >= c
             PROVE  (d = x \/ d \in exited) /\ (Kids(d) \ path[x]) \subseteq complete
  BY DEF Completes
<1>1. c \in Entered /\ d \in Entered /\ c <= d
  BY CompletesOnPath, Numbers DEF IInv
<1>2. c \in path[d]
  BY <1>1 DEF IInv, PathsFit
<1>3. d = x \/ d \in exited
  BY <1>1, <1>2 DEF Below
<1>4. ASSUME NEW b \in Kids(d), b \notin path[x] PROVE b \in complete
  <2>1. b \in Entered /\ d \in path[b]
    <3>1. b \in Entered /\ path[b] = {b} \cup path[d] /\ path[d] = {d} \cup path[parent[d]]
      BY <1>1 DEF Kids, IInv, PathsFit
    <3> QED BY <3>1
  <2>2. ASSUME NEW y \in Below(b) PROVE y \in exited
    <3>1. y \in Entered /\ b \in path[y]
      BY DEF Below
    <3>2. d \in path[y]
      BY <2>1, <3>1 DEF IInv, PathsFit
    <3>3. c \in path[y]
      BY <1>2, <3>1, <3>2 DEF IInv, PathsFit
    <3>4. y # x
      BY <1>4, <3>1
    <3> QED BY <3>1, <3>3, <3>4 DEF Below
  <2> QED BY <2>1, <2>2 DEF IInv, AlwaysWhenDone
<1> QED BY <1>3, <1>4

\* The exit of a trace.
LEMMA ExitTraceKeeps ==
  ASSUME IInv, NEW x \in Entered, ExitTrace(x), UNCHANGED tree
  PROVE  /\ cache' \in [Tasks -> Entered \cup {Root, None}]
         /\ exited' \subseteq Entered /\ complete' \subseteq exited'
         /\ AlwaysWhenDone'
<1>0. Entered' = Entered /\ \A c : Below(c)' = Below(c)
  BY DEF tree, Entered, Below
<1>1. CASE UNCHANGED <<cache, exited, complete>>
  BY <1>0, <1>1 DEF IInv, TypeOK, EnteredOnly, AlwaysWhenDone
<1>2. CASE ~UNCHANGED <<cache, exited, complete>>
  <2>1. /\ exited' = exited \cup {x} /\ complete' = complete \cup Completes(x)
        /\ cache' = Popped({x} \cup Completes(x))
    BY <1>2 DEF ExitTrace
  <2>2. Completes(x) \subseteq path[x] /\ path[x] \subseteq Entered
    BY CompletesOnPath
  <2>3. cache' \in [Tasks -> Entered \cup {Root, None}]
    BY <2>1, <2>2, PoppedType
  <2>4. ASSUME NEW c \in Entered PROVE c \in complete' <=> Below(c) \subseteq exited'
    <3>1. CASE c \in path[x]
      <4>1. c \in complete => Below(c) \subseteq exited
        BY DEF IInv, AlwaysWhenDone
      <4> QED BY <2>1, <3>1, <4>1, CompletedIsDone, DoneIsCompleted
    <3>2. CASE c \notin path[x]
      <4>1. x \notin Below(c)
        BY <3>2 DEF Below
      <4>2. c \in complete' <=> c \in complete
        BY <2>1, <2>2, <3>2
      <4>3. Below(c) \subseteq exited' <=> Below(c) \subseteq exited
        BY <2>1, <4>1
      <4> QED BY <4>2, <4>3 DEF IInv, AlwaysWhenDone
    <3> QED BY <3>1, <3>2
  <2>5. AlwaysWhenDone'
    BY <1>0, <2>4 DEF AlwaysWhenDone
  <2>6. exited' \subseteq Entered
    BY <2>1 DEF IInv, TypeOK
  <2>7. complete' \subseteq exited'
    <3>1. ASSUME NEW c \in Completes(x) PROVE c \in exited \cup {x}
      <4>1. c \in Entered /\ c \in Below(c)
        BY <2>2 DEF IInv, PathsFit, Below
      <4> QED BY <4>1, CompletedIsDone
    <3> QED BY <2>1, <3>1 DEF IInv, TypeOK
  <2> QED BY <2>3, <2>5, <2>6, <2>7
<1> QED BY <1>1, <1>2

-----------------------------------------------------------------------------
(***************************************************************************)
(* The steps.                                                              *)
(***************************************************************************)
\* A step that leaves the tree and what has exited alone.
LEMMA TreeFrame ==
  IInv /\ UNCHANGED <<tree, exited, complete>> => (PathsFit /\ Branches /\ AlwaysWhenDone)'
BY DEF IInv, PathsFit, Branches, AlwaysWhenDone, Entered, Below, tree

\* A new trace hangs below one that has not exited, and so below none that is
\* completed; the paths of the others are as they were.
LEMMA EnterKeeps == ASSUME IInv, NEW k \in Tasks, Enter(k) PROVE IInv'
<1> DEFINE z == traces + 1
           p == cache[k]
<1>1. /\ traces' = z /\ parent' = [parent EXCEPT ![z] = p] /\ thread' = [thread EXCEPT ![z] = k]
      /\ path' = [path EXCEPT ![z] = {z} \cup path[p]]
      /\ cache' = [cache EXCEPT ![k] = z] /\ open' = [open EXCEPT ![k] = Append(@, z)]
      /\ p # None /\ ~Exited(p) /\ txn = "running" /\ traces < MaxTraces
      /\ UNCHANGED <<live, tasks, exited, complete, txn, hidden, closing>>
  BY DEF Enter
<1>2. /\ z \in Traces /\ z \notin Entered /\ Entered' = Entered \cup {z} /\ z # Root /\ z # None
      /\ z \in Nat /\ traces \in Nat /\ z <= MaxTraces /\ MaxTraces \in Nat
      /\ \A x \in Entered : x \in Nat /\ x < z
  <2>1. TypeOK /\ traces \in Nat /\ MaxTraces \in Nat
    BY Numbers DEF IInv
  <2>2. Entered' = 1 .. z
    BY <1>1 DEF Entered
  <2> QED BY <1>1, <2>1, <2>2, NextNumber
<1>3. p \in Entered \cup {Root} /\ (p \in Entered => p \notin exited) /\ p < z /\ p \in 0 .. MaxTraces
  <2>1. p \in Entered \cup {Root}
    BY <1>1 DEF IInv, EnteredOnly
  <2> QED BY <1>1, <1>2, <2>1, Numbers DEF Exited, IInv, Root, Entered
<1>4. path[p] \subseteq Entered /\ z \notin path[p] /\ path[p] \subseteq 1 .. z
  <2>1. p = Root => path[p] = {}
    BY DEF IInv, PathsFit
  <2>2. p \in Entered => path[p] \subseteq Entered
    BY CompletesOnPath
  <2>3. Entered \subseteq 1 .. z
    BY <1>2 DEF Entered
  <2> QED BY <1>2, <1>3, <2>1, <2>2, <2>3
<1>5. /\ \A x \in Entered \cup {Root} : path'[x] = path[x]
      /\ path'[z] = {z} \cup path[p]
      /\ \A x \in Entered : parent'[x] = parent[x]
      /\ parent'[z] = p
  <2>1. Entered \cup {Root} \subseteq 0 .. MaxTraces /\ z \in 0 .. MaxTraces
    BY <1>2, Numbers DEF IInv
  <2> QED BY <1>1, <1>2, <2>1, Numbers DEF IInv, TypeOK
<1>6. \A x \in Entered : path[x] \subseteq Entered /\ parent[x] \in Entered \cup {Root} /\ z \notin path[x]
  BY <1>2, CompletesOnPath, Numbers DEF IInv
<1> HIDE DEF z, p
<1>7. TypeOK'
  <2>1. traces' \in 0 .. MaxTraces
    BY <1>1, <1>2
  <2>2. cache' \in [Tasks -> 0 .. None]
    <3>1. z \in 0 .. None
      BY <1>2, Numbers DEF IInv
    <3> QED BY <1>1, <3>1 DEF IInv, TypeOK
  <2>3. parent' \in [Traces -> 0 .. MaxTraces] /\ thread' \in [Traces -> Tasks]
    BY <1>1, <1>3 DEF IInv, TypeOK
  <2>4. \A x \in Traces : parent'[x] < x
    BY <1>1, <1>2, <1>3 DEF IInv, TypeOK
  <2>5. path' \in [0 .. MaxTraces -> SUBSET Traces]
    <3>1. {z} \cup path[p] \subseteq Traces
      BY <1>2, <1>4, Numbers DEF IInv
    <3> QED BY <1>1, <3>1 DEF IInv, TypeOK
  <2>6. open' \in [Tasks -> Seq(Traces)]
    BY <1>1, <1>2 DEF IInv, TypeOK
  <2>7. exited' \subseteq Entered' /\ pending' \subseteq Entered'
    BY <1>1, <1>2 DEF IInv, TypeOK, closing
  <2> QED BY <1>1, <2>1, <2>2, <2>3, <2>4, <2>5, <2>6, <2>7 DEF IInv, TypeOK, closing
<1>8. EnteredOnly'
  <2>1. \A j \in Tasks : cache'[j] \in Entered' \cup {Root, None}
    BY <1>1, <1>2 DEF IInv, TypeOK, EnteredOnly
  <2>2. ASSUME NEW j \in Tasks PROVE open'[j] \in Seq(Entered')
    <3>1. open[j] \in Seq(Entered)
      BY DEF IInv, EnteredOnly
    <3>2. open[j] \in Seq(Entered')
      BY <1>2, <3>1
    <3>3. Append(open[j], z) \in Seq(Entered')
      BY <1>2, <3>2
    <3> QED BY <1>1, <3>2, <3>3 DEF IInv, TypeOK
  <2> QED BY <1>1, <1>2, <2>1, <2>2 DEF IInv, EnteredOnly, closing
<1>9. PathsFit'
  <2>1. path'[Root] = {}
    BY <1>5 DEF IInv, PathsFit
  <2>2. ASSUME NEW x \in Entered' PROVE path'[x] = {x} \cup path'[parent'[x]]
    <3>1. CASE x = z
      BY <1>2, <1>3, <1>5, <3>1
    <3>2. CASE x \in Entered
      BY <1>5, <1>6, <3>2 DEF IInv, PathsFit
    <3> QED BY <1>2, <3>1, <3>2
  <2>3. ASSUME NEW x \in Entered' PROVE path'[x] \subseteq 1 .. x
    <3>1. CASE x = z
      <4>1. {z} \cup path[p] \subseteq 1 .. z
        <5>1. z \in 1 .. z
          BY <1>2 DEF Traces
        <5> QED BY <1>4, <5>1
      <4> QED BY <1>5, <3>1, <4>1
    <3>2. CASE x \in Entered
      BY <1>5, <3>2 DEF IInv, PathsFit
    <3> QED BY <1>2, <2>3, <3>1, <3>2
  <2>4. ASSUME NEW x \in Entered', NEW d \in path'[x] PROVE path'[d] \subseteq path'[x]
    <3>1. CASE x = z
      <4>1. CASE d = z
        BY <3>1, <4>1
      <4>2. CASE d # z
        <5>1. d \in path[p] /\ d \in Entered /\ p \in Entered
          BY <1>3, <1>4, <1>5, <2>4, <3>1, <4>2 DEF IInv, PathsFit
        <5>2. path[d] \subseteq path[p]
          BY <5>1 DEF IInv, PathsFit
        <5> QED BY <1>5, <3>1, <5>1, <5>2
      <4> QED BY <4>1, <4>2
    <3>2. CASE x \in Entered
      BY <1>5, <1>6, <2>4, <3>2 DEF IInv, PathsFit
    <3> QED BY <1>2, <2>4, <3>1, <3>2
  <2>5. ASSUME NEW x \in Entered', NEW c \in path'[x], NEW d \in path'[x], c <= d
        PROVE  c \in path'[d]
    <3>1. CASE x = z
      <4>1. CASE d = z
        BY <2>5, <3>1, <4>1
      <4>2. CASE d # z
        <5>1. d \in path[p] /\ d \in Entered /\ p \in Entered
          BY <1>3, <1>4, <1>5, <2>5, <3>1, <4>2 DEF IInv, PathsFit
        <5>2. c \in path[p]
          <6>1. c # z
            BY <1>2, <2>5, <5>1
          <6> QED BY <1>5, <2>5, <3>1, <6>1
        <5> QED BY <1>5, <2>5, <5>1, <5>2 DEF IInv, PathsFit
      <4> QED BY <4>1, <4>2
    <3>2. CASE x \in Entered
      BY <1>5, <1>6, <2>5, <3>2 DEF IInv, PathsFit
    <3> QED BY <1>2, <2>5, <3>1, <3>2
  <2> QED BY <2>1, <2>2, <2>3, <2>4, <2>5 DEF PathsFit
<1>10. Branches'
  <2> SUFFICES ASSUME NEW x \in Entered', NEW y \in Entered', y \notin path'[x],
                      NEW c \in path'[x] \cap path'[y]
               PROVE  \E b \in path'[y] \ path'[x] : parent'[b] \in path'[x] /\ c <= parent'[b]
    BY DEF Branches
  <2>1. CASE x \in Entered /\ y \in Entered
    <3>1. PICK b \in path[y] \ path[x] : parent[b] \in path[x] /\ c <= parent[b]
      BY <1>5, <2>1 DEF IInv, Branches
    <3> QED BY <1>5, <1>6, <2>1, <3>1
  <2>2. CASE x \in Entered /\ y = z
    <3>1. c \in path[p] /\ c \in path[x] /\ p \in Entered
      BY <1>3, <1>5, <1>6, <2>2 DEF IInv, PathsFit
    <3>2. CASE p \in path[x]
      <4>1. c <= p
        <5>1. path[p] \subseteq 1 .. p
          BY <3>1 DEF IInv, PathsFit
        <5> QED BY <1>2, <3>1, <5>1
      <4> QED BY <1>5, <1>6, <2>2, <3>2, <4>1
    <3>3. CASE p \notin path[x]
      <4>1. PICK b \in path[p] \ path[x] : parent[b] \in path[x] /\ c <= parent[b]
        BY <2>2, <3>1, <3>3 DEF IInv, Branches
      <4>2. b \in Entered
        BY <1>4, <4>1
      <4> QED BY <1>5, <2>2, <4>1, <4>2
    <3> QED BY <3>2, <3>3
  <2>3. CASE x = z /\ y \in Entered
    <3>1. c \in path[y] /\ c # z
      BY <1>5, <1>6, <2>3
    <3>2. c \in path[p] /\ p \in Entered /\ y \notin path[p]
      BY <1>3, <1>5, <2>3, <3>1 DEF IInv, PathsFit
    <3>3. PICK b \in path[y] \ path[p] : parent[b] \in path[p] /\ c <= parent[b]
      BY <2>3, <3>1, <3>2 DEF IInv, Branches
    <3>4. b \in Entered /\ b # z
      BY <1>2, <1>6, <2>3, <3>3
    <3> QED BY <1>5, <2>3, <3>3, <3>4
  <2>4. CASE x = z /\ y = z
    BY <1>5, <2>4
  <2> QED BY <1>2, <2>1, <2>2, <2>3, <2>4
<1>11. AlwaysWhenDone'
  <2> SUFFICES ASSUME NEW x \in Entered' PROVE x \in complete <=> Below(x)' \subseteq exited
    BY <1>1 DEF AlwaysWhenDone
  <2>1. z \notin exited /\ z \notin complete
    BY <1>2 DEF IInv, TypeOK
  <2>2. CASE x = z
    <3>1. z \in Below(x)'
      BY <1>2, <1>5, <2>2 DEF Below
    <3> QED BY <2>1, <2>2, <3>1
  <2>3. CASE x \in Entered /\ x \notin path[p]
    <3>1. Below(x)' = Below(x)
      BY <1>2, <1>5, <2>3 DEF Below
    <3> QED BY <2>3, <3>1 DEF IInv, AlwaysWhenDone
  <2>4. CASE x \in Entered /\ x \in path[p]
    <3>1. z \in Below(x)'
      BY <1>2, <1>5, <2>4 DEF Below
    <3>2. p \in Entered /\ p \in Below(x) /\ p \notin exited
      BY <1>3, <2>4 DEF IInv, PathsFit, Below
    <3>3. x \notin complete
      BY <2>4, <3>2 DEF IInv, AlwaysWhenDone
    <3> QED BY <2>1, <3>1, <3>3
  <2> QED BY <1>2, <2>2, <2>3, <2>4
<1> QED BY <1>7, <1>8, <1>9, <1>10, <1>11 DEF IInv

\* A task leaves its innermost block.
LEMMA ExitKeeps == ASSUME IInv, NEW k \in Tasks, Exit(k) PROVE IInv'
<1>1. /\ open[k] # <<>> /\ ExitTrace(Innermost(open[k]))
      /\ open' = [open EXCEPT ![k] = SubSeq(@, 1, Len(@) - 1)]
      /\ UNCHANGED <<live, tasks, tree, txn, closing>>
  BY DEF Exit
<1>2. open[k] \in Seq(Entered) /\ Entered' = Entered
  BY <1>1 DEF IInv, EnteredOnly, Entered, tree
<1>3. Innermost(open[k]) \in Entered
  BY <1>1, <1>2 DEF Innermost
<1>4. /\ cache' \in [Tasks -> Entered \cup {Root, None}]
      /\ exited' \subseteq Entered /\ complete' \subseteq exited'
      /\ AlwaysWhenDone'
  BY <1>1, <1>3, ExitTraceKeeps
<1>5. SubSeq(open[k], 1, Len(open[k]) - 1) \in Seq(Entered)
  BY <1>1, <1>2
<1>6. \A j \in Tasks : open'[j] \in Seq(Entered)
  BY <1>1, <1>5 DEF IInv, TypeOK, EnteredOnly
<1>7. EnteredOnly'
  BY <1>1, <1>2, <1>4, <1>6 DEF IInv, EnteredOnly, closing
<1>8. TypeOK'
  <2>1. cache' \in [Tasks -> 0 .. None]
    BY <1>4, Numbers DEF IInv
  <2>2. open' \in [Tasks -> Seq(Traces)]
    <3>1. SubSeq(open[k], 1, Len(open[k]) - 1) \in Seq(Traces)
      BY <1>5, Numbers DEF IInv
    <3> QED BY <1>1, <3>1 DEF IInv, TypeOK
  <2> QED BY <1>1, <1>2, <1>4, <2>1, <2>2 DEF IInv, TypeOK, tree, closing
<1>9. (PathsFit /\ Branches)'
  BY <1>1, <1>2 DEF IInv, PathsFit, Branches, tree
<1> QED BY <1>4, <1>7, <1>8, <1>9 DEF IInv

LEMMA TaskKeeps == ASSUME IInv, NEW k \in Tasks, CreateTask(k) \/ TaskDone(k) PROVE IInv'
<1>1. UNCHANGED <<tree, open, exited, complete, txn, closing>>
  BY DEF CreateTask, TaskDone
<1>2. Entered' = Entered
  BY <1>1 DEF Entered, tree
<1>3. live' \subseteq Tasks /\ tasks' \in Tasks
  <2>1. CASE CreateTask(k)
    <3>1. tasks + 1 \in Tasks
      BY <2>1, TraceAssumption DEF CreateTask, IInv, TypeOK, Tasks, TraceAssumption
    <3> QED BY <2>1, <3>1 DEF CreateTask, IInv, TypeOK
  <2>2. CASE TaskDone(k)
    BY <2>2 DEF TaskDone, IInv, TypeOK
  <2> QED BY <2>1, <2>2
<1>4. cache' \in [Tasks -> Entered \cup {Root, None}]
  BY DEF CreateTask, TaskDone, IInv, TypeOK, EnteredOnly
<1>5. TypeOK'
  <2>1. cache' \in [Tasks -> 0 .. None]
    BY <1>4, Numbers DEF IInv
  <2> QED BY <1>1, <1>2, <1>3, <2>1 DEF IInv, TypeOK, tree, closing
<1>6. EnteredOnly'
  BY <1>1, <1>2, <1>4 DEF IInv, EnteredOnly, closing
<1> QED BY <1>1, <1>5, <1>6, TreeFrame DEF IInv

\* The end of the transaction.
LEMMA CloseKeeps == IInv /\ (BeginClose \/ EndClose) => IInv'
<1> SUFFICES ASSUME IInv, BeginClose \/ EndClose PROVE IInv'
  OBVIOUS
<1>1. UNCHANGED <<live, tasks, tree, open, exited, complete, hidden, chain>>
  BY DEF BeginClose, EndClose, closing
<1>2. Entered' = Entered
  BY <1>1 DEF Entered, tree
<1>3. pending' \subseteq Entered
  BY DEF BeginClose, EndClose, closing, IInv, TypeOK
<1>4. txn' \in {"running", "closing", "recorded", "lost"}
  BY DEF BeginClose, EndClose
<1>5. cache' \in [Tasks -> Entered \cup {Root, None}]
  BY DEF BeginClose, EndClose, IInv, TypeOK, EnteredOnly
<1>6. TypeOK'
  <2>1. cache' \in [Tasks -> 0 .. None]
    BY <1>5, Numbers DEF IInv
  <2> QED BY <1>1, <1>2, <1>3, <1>4, <2>1 DEF IInv, TypeOK, tree
<1>7. EnteredOnly'
  BY <1>1, <1>2, <1>5 DEF IInv, EnteredOnly
<1> QED BY <1>1, <1>6, <1>7, TreeFrame DEF IInv

\* complete_root exits for another task.
LEMMA ForceExitKeeps == IInv /\ ForceExit => IInv'
<1> SUFFICES ASSUME IInv, ForceExit PROVE IInv'
  OBVIOUS
<1>1. PICK x \in IF chain # None THEN {chain} ELSE pending :
        /\ chain' = IF x \notin complete /\ parent[x] # Root THEN parent[x] ELSE None
        /\ pending' = IF chain # None THEN pending ELSE pending \ {x}
        /\ ExitTrace(x)
  BY DEF ForceExit
<1>2. UNCHANGED <<live, tasks, tree, open, txn, hidden>>
  BY DEF ForceExit
<1>3. x \in Entered /\ Entered' = Entered
  BY <1>2 DEF IInv, TypeOK, EnteredOnly, Entered, tree
<1>4. /\ cache' \in [Tasks -> Entered \cup {Root, None}]
      /\ exited' \subseteq Entered /\ complete' \subseteq exited'
      /\ AlwaysWhenDone'
  BY <1>1, <1>2, <1>3, ExitTraceKeeps
<1>5. chain' \in Entered \cup {None} /\ pending' \subseteq Entered
  BY <1>1, <1>3, Numbers DEF IInv, TypeOK
<1>6. EnteredOnly'
  BY <1>2, <1>3, <1>4, <1>5 DEF IInv, EnteredOnly
<1>7. TypeOK'
  <2>1. cache' \in [Tasks -> 0 .. None] /\ chain' \in Traces \cup {None}
    BY <1>4, <1>5, Numbers DEF IInv
  <2> QED BY <1>2, <1>3, <1>4, <1>5, <2>1 DEF IInv, TypeOK, tree
<1>8. (PathsFit /\ Branches)'
  BY <1>2, <1>3 DEF IInv, PathsFit, Branches, tree
<1> QED BY <1>4, <1>6, <1>7, <1>8 DEF IInv

-----------------------------------------------------------------------------
LEMMA Initially == Init => IInv
<1> SUFFICES ASSUME Init PROVE IInv
  OBVIOUS
<1> USE TraceAssumption DEF TraceAssumption
<1>1. Entered = {} /\ Root \in 0 .. None /\ None \in 0 .. None /\ Root \in 0 .. MaxTraces
  BY DEF Init, Entered, Root, None
<1>2. TypeOK
  <2>1. cache \in [Tasks -> 0 .. None] /\ live \subseteq Tasks /\ tasks \in Tasks
    BY <1>1 DEF Init, Tasks
  <2>2. /\ parent \in [Traces -> 0 .. MaxTraces] /\ thread \in [Traces -> Tasks]
        /\ path \in [0 .. MaxTraces -> SUBSET Traces]
    BY <1>1 DEF Init, Tasks
  <2>3. \A x \in Traces : parent[x] < x
    BY DEF Init, Traces, Root
  <2>4. open \in [Tasks -> Seq(Traces)]
    BY DEF Init
  <2>5. traces \in 0 .. MaxTraces
    BY DEF Init
  <2> QED BY <1>1, <2>1, <2>2, <2>3, <2>4, <2>5 DEF Init, TypeOK
<1>3. PathsFit /\ Branches /\ AlwaysWhenDone
  BY <1>1 DEF Init, PathsFit, Branches, AlwaysWhenDone
<1>4. EnteredOnly
  BY <1>1 DEF Init, EnteredOnly
<1> QED BY <1>2, <1>3, <1>4 DEF IInv

\* Every step of the specification keeps the invariant.
LEMMA NextKeeps == IInv /\ [Next]_vars => IInv'
<1> SUFFICES ASSUME IInv, [Next]_vars PROVE IInv'
  OBVIOUS
<1>1. ASSUME NEW k \in Tasks, Enter(k) \/ Exit(k) \/ CreateTask(k) \/ TaskDone(k) PROVE IInv'
  BY <1>1, EnterKeeps, ExitKeeps, TaskKeeps
<1>2. CASE BeginClose \/ ForceExit \/ EndClose
  BY <1>2, CloseKeeps, ForceExitKeeps
<1>3. CASE UNCHANGED vars
  <2>1. UNCHANGED <<cache, live, tasks, tree, open, exited, complete, txn, hidden, closing>>
    BY <1>3 DEF vars
  <2>2. Entered' = Entered
    BY <2>1 DEF Entered, tree
  <2>3. TypeOK' /\ EnteredOnly'
    BY <2>1, <2>2 DEF IInv, TypeOK, EnteredOnly, tree, closing
  <2> QED BY <2>1, <2>3, TreeFrame DEF IInv
<1> QED BY <1>1, <1>2, <1>3 DEF Next

\* The invariant holds in every state.
THEOREM Inductive == Spec => []IInv
BY Initially, NextKeeps, PTL DEF Spec

\* Every variable of the tree and the cache keeps its type.
THEOREM TypeCorrect == Spec => []TypeOK
<1>1. IInv => TypeOK
  BY DEF IInv
<1> QED BY Inductive, <1>1, PTL

\* A trace becomes a node of its parent exactly when it and all below it have
\* exited, in whichever order tasks leave them and whoever exits for them.
THEOREM CompletionIsExact == Spec => []CompleteWhenDone
<1>1. IInv => CompleteWhenDone
  BY DEF IInv, AlwaysWhenDone, CompleteWhenDone
<1> QED BY Inductive, <1>1, PTL
=============================================================================
