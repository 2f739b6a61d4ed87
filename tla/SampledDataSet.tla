--------------------------- MODULE SampledDataSet ---------------------------
(***************************************************************************)
(* newrelic/core/stats_engine.py: SampledDataSet, the reservoir that keeps *)
(* the samples of highest priority of those it was offered, and what       *)
(* StatsEngine does with it: "main" is the data set of the engine, "other" *)
(* the one of a transaction's work area or of a harvest's snapshot, which  *)
(* is merged into the main one when the transaction ends or the harvest is *)
(* rolled back.  The merge of a transaction holds _stats_lock and so is    *)
(* not interleaved with other operations, but its loop is modelled step by *)
(* step.  Application.harvest rolls back without the lock: what another    *)
(* thread may do during that merge is not modelled here.                   *)
(*                                                                         *)
(* The list pq is the set of its samples: its order matters only through   *)
(* the least entry, by priority and then by num_seen when it was added.    *)
(***************************************************************************)
EXTENDS Integers, FiniteSets

CONSTANTS
  Samples,   \* the samples, each offered once
  Priority,  \* their priorities
  Capacities \* the reservoir sizes the collector may ask for

ASSUME SamplingAssumption ==
  /\ Priority \in [Samples -> Int]
  /\ Capacities \subseteq Nat

VARIABLES
  capacity, \* the reservoir size of every data set of an agent run
  pq,       \* the samples kept by each data set
  heap,     \* pq is ordered as a heap
  numSeen,  \* num_seen
  seenAt,   \* num_seen when a kept sample was added, the second part of its entry
  offered,  \* every sample a data set was offered, by add or merge (history)
  merging,  \* other is being merged into main
  left      \* what the loop of the merge has still to add

vars == <<capacity, pq, heap, numSeen, seenAt, offered, merging, left>>

DataSets  == {"main", "other"}
Unstamped == [s \in Samples |-> 0]

Init ==
  /\ capacity \in Capacities
  /\ pq = [d \in DataSets |-> {}]
  /\ heap = [d \in DataSets |-> FALSE]
  /\ numSeen = [d \in DataSets |-> 0]
  /\ seenAt = [d \in DataSets |-> Unstamped]
  /\ offered = [d \in DataSets |-> {}]
  /\ merging = FALSE
  /\ left = {}

-----------------------------------------------------------------------------
\* The order of heap entries; the sample itself is never compared.
Before(d, r, s) ==
  \/ Priority[r] < Priority[s]
  \/ Priority[r] = Priority[s] /\ seenAt[d][r] < seenAt[d][s]

\* r is pq[0] of the heap of d.
IsRoot(d, r) == r \in pq[d] /\ \A s \in pq[d] \ {r} : Before(d, r, s)

\* Variant of ShouldSample: the newest sample always gets in.
NewestKept(s, r) == TRUE

\* should_sample, for a data set that is a heap with root r.
ShouldSample(s, r) == Priority[s] > Priority[r]

Keep(d, S) == pq' = [pq EXCEPT ![d] = S]

\* The cases of SampledDataSet.add, with num_seen already counted: without
\* capacity it only counts.
CountOnly(d, s, seen) ==
  /\ capacity = 0
  /\ UNCHANGED <<pq, heap>>

\* Variant of AppendSample: a full reservoir grows as well.
AppendAlways(d, s, seen) ==
  /\ capacity # 0 /\ seen # capacity
  /\ Keep(d, pq[d] \cup {s})
  /\ UNCHANGED heap

AppendSample(d, s, seen) ==
  /\ capacity # 0 /\ seen # capacity /\ ~heap[d]
  /\ Keep(d, pq[d] \cup {s})
  /\ UNCHANGED heap

\* Variant of AppendAndHeapify: the flag is what heapify returns, None.
HeapifyResult(d, s, seen) ==
  /\ capacity # 0 /\ seen = capacity
  /\ Keep(d, pq[d] \cup {s})
  /\ UNCHANGED heap

AppendAndHeapify(d, s, seen) ==
  /\ capacity # 0 /\ seen = capacity
  /\ Keep(d, pq[d] \cup {s})
  /\ heap' = [heap EXCEPT ![d] = TRUE]

ReplaceLeast(d, s, seen) ==
  /\ seen # capacity /\ heap[d]
  /\ \E r \in pq[d] :
       /\ IsRoot(d, r)
       /\ Keep(d, IF ShouldSample(s, r) THEN (pq[d] \ {r}) \cup {s} ELSE pq[d])
  /\ UNCHANGED heap

\* Variant of Stamped: a merge keeps the stamp of the other data set.
StampKept(d, s, seen) ==
  [r \in Samples |->
     IF r \notin pq'[d] THEN 0
     ELSE IF r # s THEN seenAt[d][r]
     ELSE IF merging THEN seenAt["other"][s] ELSE seen]

Stamped(d, s, seen) ==
  [r \in Samples |-> IF r \notin pq'[d] THEN 0 ELSE IF r = s THEN seen ELSE seenAt[d][r]]

AddSample(d, s) ==
  LET seen == numSeen[d] + 1
  IN  /\ numSeen' = [numSeen EXCEPT ![d] = seen]
      /\ offered' = [offered EXCEPT ![d] = @ \cup {s}]
      /\ \/ CountOnly(d, s, seen)
         \/ AppendSample(d, s, seen)
         \/ AppendAndHeapify(d, s, seen)
         \/ ReplaceLeast(d, s, seen)
      /\ seenAt' = [seenAt EXCEPT ![d] = Stamped(d, s, seen)]
      /\ UNCHANGED capacity

-----------------------------------------------------------------------------
\* Recording in the engine, or in the work area of a transaction.
Add(d, s) ==
  /\ ~merging
  /\ s \notin offered["main"] \cup offered["other"]
  /\ AddSample(d, s)
  /\ UNCHANGED <<merging, left>>

Empty(f, d, value) == [f EXCEPT ![d] = value]

\* reset_..._events: a new, empty data set.
Reset(d) ==
  /\ ~merging
  /\ pq' = Empty(pq, d, {}) /\ heap' = Empty(heap, d, FALSE)
  /\ numSeen' = Empty(numSeen, d, 0) /\ offered' = Empty(offered, d, {})
  /\ seenAt' = Empty(seenAt, d, Unstamped)
  /\ UNCHANGED <<capacity, merging, left>>

\* harvest_snapshot: the data set moves to the snapshot, the engine gets a new one.
Snapshot ==
  /\ ~merging
  /\ pq' = [main |-> {}, other |-> pq["main"]]
  /\ heap' = [main |-> FALSE, other |-> heap["main"]]
  /\ numSeen' = [main |-> 0, other |-> numSeen["main"]]
  /\ seenAt' = [main |-> Unstamped, other |-> seenAt["main"]]
  /\ offered' = [main |-> {}, other |-> offered["main"]]
  /\ UNCHANGED <<capacity, merging, left>>

\* SampledDataSet.merge: the loop over the samples of the other data set ...
MergeStart ==
  /\ ~merging
  /\ merging' = TRUE
  /\ left' = pq["other"]
  /\ UNCHANGED <<capacity, pq, heap, numSeen, seenAt, offered>>

MergeAdd(s) ==
  /\ merging /\ s \in left
  /\ AddSample("main", s)
  /\ left' = left \ {s}
  /\ UNCHANGED merging

\* Variant of NotAdded: the other data set is taken to be full.
TakenToBeFull(kept, seen) == seen - capacity

\* What the other data set was offered beyond the samples added in the loop.
NotAdded(kept, seen) == seen - kept

\* ... and then the samples that one was offered and did not keep.  The other
\* data set is not used again.
MergeEnd ==
  /\ merging /\ left = {}
  /\ merging' = FALSE
  /\ numSeen' = [main  |-> numSeen["main"] + NotAdded(Cardinality(pq["other"]), numSeen["other"]),
                 other |-> 0]
  /\ offered' = [main |-> offered["main"] \cup offered["other"], other |-> {}]
  /\ pq' = Empty(pq, "other", {}) /\ heap' = Empty(heap, "other", FALSE)
  /\ seenAt' = Empty(seenAt, "other", Unstamped)
  /\ UNCHANGED <<capacity, left>>

Next ==
  \/ \E d \in DataSets : Reset(d) \/ \E s \in Samples : Add(d, s)
  \/ Snapshot \/ MergeStart \/ MergeEnd
  \/ \E s \in Samples : MergeAdd(s)

Spec == Init /\ [][Next]_vars

-----------------------------------------------------------------------------
\* Every variable has its type.
TypeOK ==
  /\ capacity \in Capacities
  /\ pq \in [DataSets -> SUBSET Samples]
  /\ heap \in [DataSets -> BOOLEAN]
  /\ numSeen \in [DataSets -> Nat]
  /\ seenAt \in [DataSets -> [Samples -> Nat]]
  /\ offered \in [DataSets -> SUBSET Samples]
  /\ merging \in BOOLEAN
  /\ left \in SUBSET Samples

\* No two entries of a data set have the same num_seen, so ordering the heap
\* never goes on to compare the samples, which have no order (TypeError).
EntriesComparable ==
  \A d \in DataSets : \A r, s \in pq[d] : r # s => seenAt[d][r] # seenAt[d][s]

\* A data set holds as many of the samples it was offered as it has room for: the
\* reservoir never exceeds its capacity, nothing is left out while it has room, and
\* num_seen counts every sample once, however it came: by add, by merge of a
\* transaction or by rollback of a harvest.
ReservoirIsFull ==
  \A d \in DataSets :
    /\ numSeen[d] = Cardinality(offered[d])
    /\ pq[d] \subseteq offered[d]
    /\ Cardinality(pq[d]) = IF numSeen[d] < capacity THEN numSeen[d] ELSE capacity

\* It becomes a heap exactly when it gets full, also when a merge makes it full:
\* add tests num_seen = capacity, which a jump of num_seen would step over.
HeapWhenFull ==
  \A d \in DataSets : capacity > 0 => (heap[d] <=> numSeen[d] >= capacity)

\* The samples left out have no higher priority than those kept, whatever the
\* order of adds, merges and rollbacks: sampling is by priority alone.
KeepsHighestPriorities ==
  \A d \in DataSets : \A r \in offered[d] \ pq[d] : \A s \in pq[d] : Priority[r] <= Priority[s]
=============================================================================
