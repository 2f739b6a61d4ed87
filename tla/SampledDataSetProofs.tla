------------------------ MODULE SampledDataSetProofs ------------------------
(***************************************************************************)
(* The invariants of SampledDataSet, proved for all samples, priorities    *)
(* and reservoir sizes.                                                    *)
(***************************************************************************)
EXTENDS SampledDataSet, FiniteSetTheorems, TLAPS

(***************************************************************************)
(* What is true of one data set: K the samples it keeps, O those it was    *)
(* offered, n its num_seen, h its heap flag, at the stamps of its entries  *)
(* and cap its capacity.                                                   *)
(***************************************************************************)
Counted(O, n) == IsFiniteSet(O) /\ n \in Nat /\ n = Cardinality(O)

Filled(K, O, n, cap) ==
  K \subseteq O /\ Cardinality(K) = IF n < cap THEN n ELSE cap

HeapFlag(n, h, cap) ==
  /\ cap > 0 /\ h => n >= cap
  /\ cap > 0 /\ ~h => n < cap

StampsDiffer(K, n, at) ==
  /\ \A s \in K : at[s] <= n
  /\ \A r, s \in K : r # s => at[r] # at[s]

KeepsHighest(K, O) == \A r \in O \ K : \A s \in K : Priority[r] <= Priority[s]

Reservoir(K, O, n, h, at, cap) ==
  /\ Counted(O, n)
  /\ Filled(K, O, n, cap)
  /\ HeapFlag(n, h, cap)
  /\ StampsDiffer(K, n, at)
  /\ KeepsHighest(K, O)

DataSetInv(d) == Reservoir(pq[d], offered[d], numSeen[d], heap[d], seenAt[d], capacity)

\* What the merge in progress has added is all that the two data sets share.
MergeInv ==
  /\ left \subseteq pq["other"]
  /\ offered["main"] \cap offered["other"] = IF merging THEN pq["other"] \ left ELSE {}
  /\ ~merging => left = {}

IInv == TypeOK /\ MergeInv /\ \A d \in DataSets : DataSetInv(d)

-----------------------------------------------------------------------------
\* A data set that was offered no more than it has room for keeps all of it.
LEMMA NothingLeftOut ==
  ASSUME NEW cap \in Nat, NEW K, NEW O, NEW n, Counted(O, n), Filled(K, O, n, cap), n <= cap
  PROVE  K = O
<1>1. Cardinality(K) = n
  BY DEF Filled, Counted
<1>2. K \in SUBSET O
  BY DEF Filled
<1> QED BY <1>1, <1>2, FS_Subset DEF Counted

\* A new data set is a reservoir.
LEMMA EmptyReservoir ==
  ASSUME NEW cap \in Nat
  PROVE  Reservoir({}, {}, 0, FALSE, Unstamped, cap)
<1>1. Counted({}, 0) /\ Filled({}, {}, 0, cap)
  BY FS_EmptySet DEF Counted, Filled
<1> QED BY <1>1 DEF Reservoir, HeapFlag, StampsDiffer, KeepsHighest

\* Stamping the sample that was added last keeps the stamps different.
LEMMA StampedDiffer ==
  ASSUME NEW n \in Nat, NEW K \in SUBSET Samples, NEW L \in SUBSET Samples,
         NEW s \in Samples, NEW at \in [Samples -> Nat], NEW bt \in [Samples -> Nat],
         s \notin K, L \subseteq K \cup {s}, StampsDiffer(K, n, at),
         \A r \in L : bt[r] = IF r = s THEN n + 1 ELSE at[r]
  PROVE  StampsDiffer(L, n + 1, bt)
BY DEF StampsDiffer

\* What add does when the sample s is offered to K: K becomes L, the flag h
\* becomes g.
AddCase(K, L, n, h, g, s, cap) ==
  \/ cap = 0 /\ L = K /\ g = h
  \/ cap # 0 /\ n + 1 # cap /\ ~h /\ L = K \cup {s} /\ g = h
  \/ cap # 0 /\ n + 1 = cap /\ L = K \cup {s} /\ g = TRUE
  \/ /\ n + 1 # cap /\ h /\ g = h
     /\ \E r \in K : /\ \A q \in K \ {r} : Priority[r] <= Priority[q]
                     /\ L = IF Priority[s] > Priority[r] THEN (K \ {r}) \cup {s} ELSE K

\* Every case of add keeps a reservoir one.
LEMMA AddKeepsReservoir ==
  ASSUME NEW cap \in Nat, NEW K \in SUBSET Samples, NEW L \in SUBSET Samples,
         NEW O \in SUBSET Samples, NEW n \in Nat, NEW h \in BOOLEAN, NEW g \in BOOLEAN,
         NEW at \in [Samples -> Nat], NEW bt \in [Samples -> Nat], NEW s \in Samples \ O,
         Reservoir(K, O, n, h, at, cap),
         \A r \in L : bt[r] = IF r = s THEN n + 1 ELSE at[r],
         AddCase(K, L, n, h, g, s, cap)
  PROVE  Reservoir(L, O \cup {s}, n + 1, g, bt, cap)
<1> DEFINE P == O \cup {s}
<1>k. /\ IsFiniteSet(O) /\ n = Cardinality(O) /\ K \subseteq O
      /\ Cardinality(K) = (IF n < cap THEN n ELSE cap)
      /\ HeapFlag(n, h, cap)
      /\ StampsDiffer(K, n, at) /\ KeepsHighest(K, O)
      /\ Counted(O, n) /\ Filled(K, O, n, cap)
  BY DEF Reservoir, Counted, Filled, HeapFlag
<1>h. /\ cap # 0 /\ h => n >= cap
      /\ cap # 0 /\ ~h => n < cap
  <2>1. cap # 0 => cap > 0
    OBVIOUS
  <2> QED BY <2>1, <1>k, Zenon DEF HeapFlag
<1>f. IsFiniteSet(K)
  BY <1>k, FS_Subset
<1>p. Priority \in [Samples -> Int]
  BY SamplingAssumption
<1>1. Counted(P, n + 1)
  BY <1>k, FS_AddElement DEF Counted
<1>2. L \subseteq K \cup {s}
  BY DEF AddCase
<1>3. StampsDiffer(L, n + 1, bt)
  BY <1>2, <1>k, StampedDiffer
<1>4. Cardinality(K \cup {s}) = Cardinality(K) + 1
  BY <1>f, <1>k, FS_AddElement
<1>5. CASE cap = 0 /\ L = K /\ g = h
  <2>1. K = {}
    BY <1>5, <1>k, <1>f, FS_EmptySet
  <2> QED BY <1>5, <2>1, <1>1, <1>3, <1>k DEF Reservoir, Filled, HeapFlag, KeepsHighest
<1>6. ASSUME cap # 0, L = K \cup {s},
             (n + 1 # cap /\ ~h /\ g = h) \/ (n + 1 = cap /\ g = TRUE)
      PROVE  Reservoir(L, P, n + 1, g, bt, cap)
  <2>1. n < cap
    <3>1. CASE ~h
      BY <3>1, <1>6, <1>h, Zenon
    <3>2. CASE n + 1 = cap
      BY <3>2
    <3> QED BY <3>1, <3>2, <1>6
  <2>2. K = O
    BY <2>1, <1>k, NothingLeftOut
  <2>3. Filled(L, P, n + 1, cap)
    BY <1>6, <2>1, <1>4, <1>k DEF Filled
  <2>4. HeapFlag(n + 1, g, cap)
    <3>1. CASE ~h /\ n + 1 # cap /\ g = h
      <4>1. n + 1 < cap
        BY <2>1, <3>1
      <4> QED BY <3>1, <4>1, Zenon DEF HeapFlag
    <3>2. CASE n + 1 = cap /\ g = TRUE
      <4>1. n + 1 >= cap
        BY <3>2
      <4> QED BY <3>2, <4>1, Zenon DEF HeapFlag
    <3> QED BY <3>1, <3>2, <1>6
  <2>5. KeepsHighest(L, P)
    BY <1>6, <2>2 DEF KeepsHighest
  <2> QED BY <1>1, <1>3, <2>3, <2>4, <2>5 DEF Reservoir
<1>7. ASSUME n + 1 # cap, h, g = h, cap # 0,
             NEW r \in K, \A q \in K \ {r} : Priority[r] <= Priority[q],
             L = IF Priority[s] > Priority[r] THEN (K \ {r}) \cup {s} ELSE K
      PROVE  Reservoir(L, P, n + 1, g, bt, cap)
  <2>1. n >= cap
    BY <1>7, <1>h, Zenon
  <2>2. Cardinality(L) = cap
    <3>1. Cardinality(K) = cap
      BY <2>1, <1>k
    <3>2. CASE L = K
      BY <3>1, <3>2
    <3>3. CASE L = (K \ {r}) \cup {s}
      <4>1. IsFiniteSet(K \ {r}) /\ Cardinality(K \ {r}) = cap - 1
        BY <3>1, <1>7, <1>f, FS_RemoveElement
      <4>2. s \notin K \ {r}
        BY <1>k
      <4>3. Cardinality((K \ {r}) \cup {s}) = (cap - 1) + 1
        BY <4>1, <4>2, FS_AddElement
      <4> QED BY <3>3, <4>3
    <3> QED BY <3>2, <3>3, <1>7
  <2>3. Filled(L, P, n + 1, cap)
    BY <2>1, <2>2, <1>2, <1>k DEF Filled
  <2>4. HeapFlag(n + 1, g, cap)
    <3>1. n + 1 >= cap
      BY <2>1
    <3> QED BY <3>1, <1>7, Zenon DEF HeapFlag
  <2>5. KeepsHighest(L, P)
    <3>1. \A q \in K : Priority[r] <= Priority[q]
      BY <1>7, <1>p
    <3>2. \A x \in O \ K : \A q \in K : Priority[x] <= Priority[q]
      BY <1>k DEF KeepsHighest
    <3>3. \A x \in Samples : Priority[x] \in Int
      BY <1>p
    <3>4. CASE Priority[s] > Priority[r]
      <4>1. L = (K \ {r}) \cup {s}
        BY <1>7, <3>4
      <4>2. ASSUME NEW x \in P \ L, NEW q \in L PROVE Priority[x] <= Priority[q]
        <5>1. x \in (O \ K) \cup {r} /\ q \in K \cup {s} /\ r \in K
          BY <4>1, <4>2
        <5>2. Priority[x] <= Priority[r]
          BY <5>1, <3>1, <3>2, <3>3
        <5>3. Priority[r] <= Priority[q]
          BY <5>1, <3>1, <3>3, <3>4
        <5>4. x \in Samples /\ q \in Samples
          BY <5>1
        <5> QED BY <5>2, <5>3, <5>4, <3>3
      <4> QED BY <4>2 DEF KeepsHighest
    <3>5. CASE ~(Priority[s] > Priority[r])
      <4>1. L = K
        BY <1>7, <3>5
      <4>2. ASSUME NEW x \in P \ K, NEW q \in K PROVE Priority[x] <= Priority[q]
        <5>1. CASE x \in O
          BY <5>1, <4>2, <3>2
        <5>2. CASE x = s
          <6>1. Priority[s] <= Priority[r] /\ Priority[r] <= Priority[q] /\ q \in Samples
            BY <3>5, <3>1, <3>3, <4>2
          <6> QED BY <6>1, <5>2, <3>3
        <5> QED BY <5>1, <5>2, <4>2
      <4> QED BY <4>1, <4>2 DEF KeepsHighest
    <3> QED BY <3>4, <3>5
  <2> QED BY <1>1, <1>3, <2>3, <2>4, <2>5 DEF Reservoir
<1>a. CASE cap # 0 /\ n + 1 # cap /\ ~h /\ L = K \cup {s} /\ g = h
  BY <1>a, <1>6, Zenon
<1>b. CASE cap # 0 /\ n + 1 = cap /\ L = K \cup {s} /\ g = TRUE
  BY <1>b, <1>6, Zenon
<1>8. CASE n + 1 # cap /\ h /\ g = h /\ \E r \in K :
              /\ \A q \in K \ {r} : Priority[r] <= Priority[q]
              /\ L = IF Priority[s] > Priority[r] THEN (K \ {r}) \cup {s} ELSE K
  <2>1. cap = 0 => K = {}
    BY <1>k, <1>f, FS_EmptySet
  <2>2. cap # 0
    BY <1>8, <2>1
  <2> QED BY <1>8, <1>7, <2>2
<1> QED BY <1>5, <1>a, <1>b, <1>8, Zenon DEF AddCase

\* The end of a merge: K is offered what the other data set was offered and did
\* not keep, which changes its count only.
LEMMA MergeKeepsReservoir ==
  ASSUME NEW cap \in Nat,
         NEW K \in SUBSET Samples, NEW O \in SUBSET Samples, NEW n \in Nat, NEW h \in BOOLEAN,
         NEW at \in [Samples -> Nat], Reservoir(K, O, n, h, at, cap),
         NEW M \in SUBSET Samples, NEW R \in SUBSET Samples, NEW m \in Nat,
         Counted(R, m), Filled(M, R, m, cap), KeepsHighest(M, R),
         O \cap R = M
  PROVE  /\ n + (m - Cardinality(M)) \in Nat
         /\ Reservoir(K, O \cup R, n + (m - Cardinality(M)), h, at, cap)
<1> DEFINE c == Cardinality(M)
           total == n + (m - c)
<1>k. /\ IsFiniteSet(O) /\ n = Cardinality(O) /\ K \subseteq O
      /\ Cardinality(K) = (IF n < cap THEN n ELSE cap)
      /\ Counted(O, n) /\ Filled(K, O, n, cap) /\ HeapFlag(n, h, cap)
      /\ StampsDiffer(K, n, at) /\ KeepsHighest(K, O)
  BY DEF Reservoir, Counted, Filled
<1>m. /\ IsFiniteSet(R) /\ m = Cardinality(R) /\ M \subseteq R
      /\ c = (IF m < cap THEN m ELSE cap)
      /\ Counted(R, m) /\ Filled(M, R, m, cap) /\ KeepsHighest(M, R)
  BY DEF Reservoir, Counted, Filled
<1>p. \A x \in Samples : Priority[x] \in Int
  BY SamplingAssumption
<1>1. IsFiniteSet(O \cup R) /\ Cardinality(O \cup R) = n + m - c
  <2>1. O \cap R = M
    BY <1>m
  <2> QED BY <2>1, <1>k, <1>m, FS_Union
<1>2. c \in Nat /\ c <= m
  BY <1>m
<1>3. total \in Nat /\ total >= n
  BY <1>2
<1>4. Counted(O \cup R, total)
  BY <1>1, <1>2, <1>3 DEF Counted
<1>5. total = n \/ n >= cap
  <2>1. CASE m < cap
    BY <2>1, <1>m
  <2>2. CASE m >= cap
    <3>1. c = cap
      BY <2>2, <1>m
    <3>2. c <= n
      BY <1>k, FS_Subset
    <3> QED BY <3>1, <3>2
  <2> QED BY <2>1, <2>2
<1>6. Filled(K, O \cup R, total, cap)
  BY <1>3, <1>5, <1>k DEF Filled
<1>7. HeapFlag(total, h, cap)
  <2>1. CASE total = n
    BY <2>1, <1>k
  <2>2. CASE n >= cap
    <3>1. total >= cap /\ ~(n < cap)
      BY <2>2, <1>3
    <3> QED BY <3>1, <1>k, Zenon DEF HeapFlag
  <2> QED BY <2>1, <2>2, <1>5
<1>8. StampsDiffer(K, total, at)
  BY <1>3, <1>k DEF StampsDiffer
<1>9. ASSUME NEW x \in (O \cup R) \ K, NEW q \in K
      PROVE  Priority[x] <= Priority[q]
  <2>1. CASE x \in O
    BY <2>1, <1>9, <1>k DEF KeepsHighest
  <2>2. CASE x \notin O
    <3> SUFFICES ASSUME Priority[q] < Priority[x] PROVE FALSE
      BY <1>p
    <3>1. x \in R \ M
      BY <2>2, <1>9
    <3>2. \A y \in M : Priority[x] <= Priority[y]
      BY <3>1, <1>m DEF KeepsHighest
    <3>3. c = cap
      <4>1. ~(m <= cap)
        BY <3>1, <1>m, NothingLeftOut
      <4> QED BY <4>1, <1>m
    <3>4. M \subseteq K
      <4> SUFFICES ASSUME NEW y \in M, y \notin K PROVE FALSE
        OBVIOUS
      <4>1. Priority[y] <= Priority[q]
        BY <1>k DEF KeepsHighest
      <4>2. Priority[x] <= Priority[y]
        BY <3>2
      <4>3. x \in Samples /\ y \in Samples /\ q \in Samples
        OBVIOUS
      <4> QED BY <4>1, <4>2, <4>3, <1>p
    <3>5. q \notin M
      <4>1. x \in Samples /\ q \in Samples
        OBVIOUS
      <4> QED BY <3>2, <4>1, <1>p
    <3>6. IsFiniteSet(K) /\ IsFiniteSet(M)
      BY <1>k, <1>m, FS_Subset
    <3>7. Cardinality(M \cup {q}) = cap + 1
      BY <3>3, <3>5, <3>6, FS_AddElement
    <3>8. Cardinality(M \cup {q}) <= Cardinality(K)
      <4>1. M \cup {q} \in SUBSET K
        BY <3>4
      <4> QED BY <4>1, <3>6, FS_Subset
    <3> QED BY <3>7, <3>8, <1>k
  <2> QED BY <2>1, <2>2
<1> QED BY <1>3, <1>4, <1>6, <1>7, <1>8, <1>9 DEF Reservoir, KeepsHighest

-----------------------------------------------------------------------------
\* The initial states satisfy IInv.
LEMMA Initially == Init => IInv
<1> SUFFICES ASSUME Init PROVE IInv
  OBVIOUS
<1> USE SamplingAssumption
<1>1. TypeOK
  BY DEF Init, TypeOK, DataSets, Unstamped
<1>2. MergeInv
  BY DEF Init, MergeInv, DataSets
<1>3. ASSUME NEW d \in DataSets PROVE DataSetInv(d)
  <2>1. capacity \in Nat
    BY <1>1 DEF TypeOK
  <2>2. DataSetInv(d) <=> Reservoir({}, {}, 0, FALSE, Unstamped, capacity)
    BY <1>3 DEF Init, DataSetInv
  <2> QED BY <2>1, <2>2, EmptyReservoir
<1> QED BY <1>1, <1>2, <1>3 DEF IInv

\* Adding a sample that was not offered to the data set before, to any of them.
LEMMA AddStep ==
  ASSUME IInv, NEW d \in DataSets, NEW s \in Samples, s \notin offered[d], AddSample(d, s),
         UNCHANGED merging, left' \in SUBSET Samples
  PROVE  TypeOK' /\ \A e \in DataSets : DataSetInv(e)'
<1> USE SamplingAssumption
<1>t. TypeOK /\ DataSetInv(d) /\ capacity \in Nat /\ capacity' = capacity
  BY DEF IInv, TypeOK, AddSample
<1> DEFINE seen == numSeen[d] + 1
<1>1. numSeen' = [numSeen EXCEPT ![d] = seen] /\ offered' = [offered EXCEPT ![d] = @ \cup {s}]
      /\ seenAt' = [seenAt EXCEPT ![d] = Stamped(d, s, seen)]
  BY DEF AddSample
<1>2. \/ CountOnly(d, s, seen) \/ AppendSample(d, s, seen)
      \/ AppendAndHeapify(d, s, seen) \/ ReplaceLeast(d, s, seen)
  BY DEF AddSample
<1>3. /\ pq' \in [DataSets -> SUBSET Samples] /\ heap' \in [DataSets -> BOOLEAN]
      /\ \A e \in DataSets \ {d} : pq'[e] = pq[e] /\ heap'[e] = heap[e]
  <2>1. CASE CountOnly(d, s, seen)
    BY <2>1, <1>t DEF CountOnly, TypeOK
  <2>2. CASE AppendSample(d, s, seen)
    BY <2>2, <1>t DEF AppendSample, Keep, TypeOK
  <2>3. CASE AppendAndHeapify(d, s, seen)
    BY <2>3, <1>t DEF AppendAndHeapify, Keep, TypeOK
  <2>4. CASE ReplaceLeast(d, s, seen)
    <3>1. \E K \in SUBSET Samples : Keep(d, K)
      BY <2>4, <1>t DEF ReplaceLeast, TypeOK
    <3>2. heap' = heap
      BY <2>4 DEF ReplaceLeast
    <3> QED BY <3>1, <3>2, <1>t DEF Keep, TypeOK
  <2> QED BY <1>2, <2>1, <2>2, <2>3, <2>4
<1>4. Stamped(d, s, seen) \in [Samples -> Nat]
  BY <1>t DEF Stamped, TypeOK
<1>5. TypeOK'
  BY <1>1, <1>3, <1>4, <1>t DEF TypeOK
<1>6. AddCase(pq[d], pq'[d], numSeen[d], heap[d], heap'[d], s, capacity)
  <2>1. CASE CountOnly(d, s, seen)
    BY <2>1 DEF CountOnly, AddCase
  <2>2. CASE AppendSample(d, s, seen)
    BY <2>2, <1>t DEF AppendSample, Keep, TypeOK, AddCase
  <2>3. CASE AppendAndHeapify(d, s, seen)
    BY <2>3, <1>t DEF AppendAndHeapify, Keep, TypeOK, AddCase
  <2>4. CASE ReplaceLeast(d, s, seen)
    <3>1. PICK r \in pq[d] : /\ IsRoot(d, r)
                             /\ Keep(d, IF ShouldSample(s, r) THEN (pq[d] \ {r}) \cup {s} ELSE pq[d])
      BY <2>4 DEF ReplaceLeast
    <3>2. \A q \in pq[d] \ {r} : Priority[r] <= Priority[q]
      BY <3>1, <1>t DEF IsRoot, Before, TypeOK
    <3>3. pq'[d] = IF Priority[s] > Priority[r] THEN (pq[d] \ {r}) \cup {s} ELSE pq[d]
      BY <3>1, <1>t DEF Keep, ShouldSample, TypeOK
    <3>4. seen # capacity /\ heap[d] /\ heap'[d] = heap[d]
      BY <2>4 DEF ReplaceLeast
    <3> QED BY <3>2, <3>3, <3>4 DEF AddCase
  <2> QED BY <1>2, <2>1, <2>2, <2>3, <2>4
<1>7. DataSetInv(d)'
  <2>1. \A r \in pq'[d] : seenAt'[d][r] = IF r = s THEN numSeen[d] + 1 ELSE seenAt[d][r]
    BY <1>1, <1>3, <1>t DEF Stamped, TypeOK
  <2>2. /\ pq[d] \in SUBSET Samples /\ pq'[d] \in SUBSET Samples /\ offered[d] \in SUBSET Samples
        /\ numSeen[d] \in Nat /\ heap[d] \in BOOLEAN /\ heap'[d] \in BOOLEAN
        /\ seenAt[d] \in [Samples -> Nat] /\ seenAt'[d] \in [Samples -> Nat]
    BY <1>t, <1>5 DEF TypeOK
  <2>3. Reservoir(pq[d], offered[d], numSeen[d], heap[d], seenAt[d], capacity)
    BY <1>t DEF DataSetInv
  <2>4. Reservoir(pq'[d], offered[d] \cup {s}, numSeen[d] + 1, heap'[d], seenAt'[d], capacity)
    BY <2>1, <2>2, <2>3, <1>6, <1>t, AddKeepsReservoir
  <2>5. offered'[d] = offered[d] \cup {s} /\ numSeen'[d] = numSeen[d] + 1
    BY <1>1, <1>t DEF TypeOK
  <2> QED BY <2>4, <2>5, <1>t DEF DataSetInv
<1>8. ASSUME NEW e \in DataSets \ {d} PROVE DataSetInv(e)'
  <2>1. /\ offered'[e] = offered[e] /\ numSeen'[e] = numSeen[e] /\ seenAt'[e] = seenAt[e]
        /\ pq'[e] = pq[e] /\ heap'[e] = heap[e]
    BY <1>1, <1>3, <1>t DEF TypeOK
  <2>2. DataSetInv(e)
    BY DEF IInv
  <2> QED BY <2>1, <2>2, <1>t DEF DataSetInv
<1> QED BY <1>5, <1>7, <1>8

\* A record with a field for each data set is a function on them.
LEMMA PairType ==
  ASSUME NEW S, NEW a \in S, NEW b \in S
  PROVE  [main |-> a, other |-> b] \in [DataSets -> S]
BY DEF DataSets

\* Every step of the specification keeps IInv.
LEMMA NextKeepsIInv == IInv /\ [Next]_vars => IInv'
<1> SUFFICES ASSUME IInv, [Next]_vars PROVE IInv'
  OBVIOUS
<1> USE SamplingAssumption
<1>t. /\ TypeOK /\ MergeInv /\ capacity \in Nat
      /\ DataSetInv("main") /\ DataSetInv("other")
  BY DEF IInv, TypeOK, DataSets
<1>e. Reservoir({}, {}, 0, FALSE, Unstamped, capacity)
  BY <1>t, EmptyReservoir
<1>u. Unstamped \in [Samples -> Nat]
  BY DEF Unstamped
<1>1. ASSUME NEW d \in DataSets, NEW s \in Samples, Add(d, s) PROVE IInv'
  <2>1. s \notin offered["main"] /\ s \notin offered["other"] /\ s \notin offered[d]
    BY <1>1 DEF Add, DataSets
  <2>2. ~merging /\ merging' = merging /\ left' = left /\ left \in SUBSET Samples
    BY <1>1, <1>t DEF Add, TypeOK
  <2>3. TypeOK' /\ \A e \in DataSets : DataSetInv(e)'
    BY <1>1, <2>1, <2>2, AddStep DEF Add
  <2>4. MergeInv'
    <3>1. offered' = [offered EXCEPT ![d] = @ \cup {s}]
      BY <1>1 DEF Add, AddSample
    <3>2. offered'["main"] \cap offered'["other"] = {}
      BY <3>1, <2>1, <2>2, <1>t DEF MergeInv, TypeOK, DataSets
    <3>3. left = {}
      BY <2>2, <1>t DEF MergeInv
    <3> QED BY <3>2, <3>3, <2>2 DEF MergeInv
  <2> QED BY <2>2, <2>3, <2>4 DEF IInv
<1>2. ASSUME NEW d \in DataSets, Reset(d) PROVE IInv'
  <2>1. TypeOK'
    BY <1>2, <1>t, <1>u DEF Reset, Empty, TypeOK
  <2>2. MergeInv'
    BY <1>2, <1>t DEF Reset, Empty, TypeOK, MergeInv, DataSets
  <2>3. ASSUME NEW e \in DataSets PROVE DataSetInv(e)'
    <3>1. CASE e = d
      <4>1. /\ pq'[e] = {} /\ offered'[e] = {} /\ numSeen'[e] = 0 /\ heap'[e] = FALSE
            /\ seenAt'[e] = Unstamped /\ capacity' = capacity
        BY <3>1, <1>2, <1>t DEF Reset, Empty, TypeOK
      <4> QED BY <4>1, <1>e DEF DataSetInv
    <3>2. CASE e # d
      <4>1. /\ pq'[e] = pq[e] /\ offered'[e] = offered[e] /\ numSeen'[e] = numSeen[e]
            /\ heap'[e] = heap[e] /\ seenAt'[e] = seenAt[e] /\ capacity' = capacity
        BY <3>2, <1>2, <1>t DEF Reset, Empty, TypeOK
      <4>2. DataSetInv(e)
        BY DEF IInv
      <4> QED BY <4>1, <4>2 DEF DataSetInv
    <3> QED BY <3>1, <3>2
  <2> QED BY <2>1, <2>2, <2>3 DEF IInv
<1>3. CASE Snapshot
  <2>1. TypeOK'
    <3>1. /\ {} \in SUBSET Samples /\ pq["main"] \in SUBSET Samples
          /\ offered["main"] \in SUBSET Samples /\ heap["main"] \in BOOLEAN
          /\ numSeen["main"] \in Nat /\ seenAt["main"] \in [Samples -> Nat]
      BY <1>t DEF TypeOK, DataSets
    <3>2. pq' \in [DataSets -> SUBSET Samples] /\ offered' \in [DataSets -> SUBSET Samples]
      BY <1>3, <3>1, PairType DEF Snapshot
    <3>3. heap' \in [DataSets -> BOOLEAN] /\ numSeen' \in [DataSets -> Nat]
      BY <1>3, <3>1, PairType DEF Snapshot
    <3>4. seenAt' \in [DataSets -> [Samples -> Nat]]
      BY <1>3, <3>1, <1>u, PairType DEF Snapshot
    <3> QED BY <1>3, <1>t, <3>2, <3>3, <3>4 DEF Snapshot, TypeOK
  <2>2. MergeInv'
    BY <1>3, <1>t DEF Snapshot, TypeOK, MergeInv
  <2>3. DataSetInv("main")' /\ DataSetInv("other")'
    BY <1>3, <1>t, <1>e DEF Snapshot, DataSetInv
  <2> QED BY <2>1, <2>2, <2>3 DEF IInv, DataSets
<1>4. CASE MergeStart
  <2>1. TypeOK'
    BY <1>4, <1>t DEF MergeStart, TypeOK, DataSets
  <2>2. MergeInv'
    BY <1>4, <1>t DEF MergeStart, TypeOK, MergeInv
  <2>3. DataSetInv("main")' /\ DataSetInv("other")'
    BY <1>4, <1>t DEF MergeStart, DataSetInv
  <2> QED BY <2>1, <2>2, <2>3 DEF IInv, DataSets
<1>5. ASSUME NEW s \in Samples, MergeAdd(s) PROVE IInv'
  <2>1. s \in left /\ merging /\ merging' = merging /\ left' = left \ {s} /\ AddSample("main", s)
    BY <1>5 DEF MergeAdd
  <2>2. s \in pq["other"] /\ pq["other"] \subseteq offered["other"]
    BY <2>1, <1>t DEF MergeInv, DataSetInv, Reservoir, Filled
  <2>3. s \notin offered["main"]
    BY <2>1, <2>2, <1>t DEF MergeInv
  <2>4. left' \in SUBSET Samples
    BY <2>1, <1>t DEF TypeOK
  <2>5. TypeOK' /\ \A e \in DataSets : DataSetInv(e)'
    BY <2>1, <2>3, <2>4, AddStep DEF DataSets
  <2>6. MergeInv'
    <3>1. /\ offered'["main"] = offered["main"] \cup {s}
          /\ offered'["other"] = offered["other"]
      BY <2>1, <1>t DEF AddSample, TypeOK, DataSets
    <3>2. pq'["other"] = pq["other"]
      BY <2>1, <1>t DEF AddSample, CountOnly, AppendSample, AppendAndHeapify, ReplaceLeast,
                        Keep, TypeOK, DataSets
    <3> QED BY <3>1, <3>2, <2>1, <2>2, <1>t DEF MergeInv
  <2> QED BY <2>5, <2>6 DEF IInv
<1>6. CASE MergeEnd
  <2> DEFINE total == numSeen["main"] + (numSeen["other"] - Cardinality(pq["other"]))
  <2>1. offered["main"] \cap offered["other"] = pq["other"]
    BY <1>6, <1>t DEF MergeEnd, MergeInv
  <2>2. /\ total \in Nat
        /\ Reservoir(pq["main"], offered["main"] \cup offered["other"], total, heap["main"],
                     seenAt["main"], capacity)
    <3> DEFINE K == pq["main"]  O == offered["main"]  n == numSeen["main"]  h == heap["main"]
               at == seenAt["main"]
               M == pq["other"] R == offered["other"] m == numSeen["other"]
    <3>1. /\ K \in SUBSET Samples /\ O \in SUBSET Samples /\ n \in Nat /\ h \in BOOLEAN
          /\ at \in [Samples -> Nat]
      BY <1>t DEF TypeOK, DataSets
    <3>2. M \in SUBSET Samples /\ R \in SUBSET Samples /\ m \in Nat
      BY <1>t DEF TypeOK, DataSets
    <3>3. /\ Reservoir(K, O, n, h, at, capacity)
          /\ Counted(R, m) /\ Filled(M, R, m, capacity) /\ KeepsHighest(M, R)
      BY <1>t DEF DataSetInv, Reservoir
    <3>4. O \cap R = M /\ capacity \in Nat
      BY <2>1, <1>t
    <3> HIDE DEF K, O, n, h, at, M, R, m
    <3>5. /\ n + (m - Cardinality(M)) \in Nat
          /\ Reservoir(K, O \cup R, n + (m - Cardinality(M)), h, at, capacity)
      BY <3>1, <3>2, <3>3, <3>4, MergeKeepsReservoir
    <3> QED BY <3>5 DEF K, O, n, h, at, M, R, m
  <2>3. TypeOK'
    <3>1. numSeen' \in [DataSets -> Nat]
      <4>1. 0 \in Nat /\ numSeen' = [main |-> total, other |-> 0]
        BY <1>6 DEF MergeEnd, NotAdded
      <4> QED BY <4>1, <2>2, PairType
    <3>2. offered' \in [DataSets -> SUBSET Samples]
      <4>1. {} \in SUBSET Samples /\ offered["main"] \cup offered["other"] \in SUBSET Samples
        BY <1>t DEF TypeOK, DataSets
      <4> QED BY <1>6, <4>1, PairType DEF MergeEnd
    <3>3. /\ pq' \in [DataSets -> SUBSET Samples] /\ heap' \in [DataSets -> BOOLEAN]
          /\ seenAt' \in [DataSets -> [Samples -> Nat]]
      BY <1>6, <1>t, <1>u DEF MergeEnd, Empty, TypeOK
    <3> QED BY <1>6, <1>t, <3>1, <3>2, <3>3 DEF MergeEnd, TypeOK
  <2>4. MergeInv'
    BY <1>6, <1>t DEF MergeEnd, Empty, MergeInv, TypeOK, DataSets
  <2>5. DataSetInv("main")'
    <3>1. /\ pq'["main"] = pq["main"] /\ heap'["main"] = heap["main"]
          /\ seenAt'["main"] = seenAt["main"] /\ capacity' = capacity
          /\ offered'["main"] = offered["main"] \cup offered["other"]
          /\ numSeen'["main"] = total
      BY <1>6, <1>t DEF MergeEnd, Empty, NotAdded, TypeOK, DataSets
    <3> QED BY <3>1, <2>2 DEF DataSetInv
  <2>6. DataSetInv("other")'
    <3>1. /\ pq'["other"] = {} /\ heap'["other"] = FALSE /\ seenAt'["other"] = Unstamped
          /\ capacity' = capacity /\ offered'["other"] = {} /\ numSeen'["other"] = 0
      BY <1>6, <1>t DEF MergeEnd, Empty, TypeOK, DataSets
    <3> QED BY <3>1, <1>e DEF DataSetInv
  <2> QED BY <2>3, <2>4, <2>5, <2>6 DEF IInv, DataSets
<1>7. CASE UNCHANGED vars
  BY <1>7, <1>t DEF vars, IInv, TypeOK, MergeInv, DataSetInv, DataSets
<1> QED BY <1>1, <1>2, <1>3, <1>4, <1>5, <1>6, <1>7 DEF Next

\* The inductive invariant holds in every reachable state.
THEOREM Inductive == Spec => []IInv
BY Initially, NextKeepsIInv, PTL DEF Spec

-----------------------------------------------------------------------------
\* Every variable has its type.
THEOREM TypeCorrect == Spec => []TypeOK
<1>1. IInv => TypeOK
  BY DEF IInv
<1> QED BY <1>1, Inductive, PTL

\* No heap of SampledDataSet ever compares two samples.
THEOREM HeapNeverComparesSamples == Spec => []EntriesComparable
<1>1. IInv => EntriesComparable
  BY DEF IInv, DataSetInv, Reservoir, StampsDiffer, EntriesComparable
<1> QED BY <1>1, Inductive, PTL

\* The reservoirs never exceed their capacity and leave no room unused, and
\* events_seen is the number of the samples offered, each counted once.
THEOREM ReservoirBounded == Spec => []ReservoirIsFull
<1>1. IInv => ReservoirIsFull
  BY DEF IInv, DataSetInv, Reservoir, Filled, Counted, ReservoirIsFull
<1> QED BY <1>1, Inductive, PTL

\* A data set is a heap exactly while it is full, whatever was merged into it.
THEOREM HeapExactlyWhenFull == Spec => []HeapWhenFull
<1>1. ASSUME IInv PROVE HeapWhenFull
  <2>1. SUFFICES ASSUME NEW d \in DataSets, capacity > 0 PROVE heap[d] <=> numSeen[d] >= capacity
    BY DEF HeapWhenFull
  <2>2. (heap[d] => numSeen[d] >= capacity) /\ (~heap[d] => numSeen[d] < capacity)
    BY <1>1, <2>1, Zenon DEF IInv, DataSetInv, Reservoir, HeapFlag
  <2>3. numSeen[d] < capacity => ~(numSeen[d] >= capacity)
    BY <1>1, SamplingAssumption DEF IInv, TypeOK
  <2> QED BY <2>2, <2>3, Zenon
<1> QED BY <1>1, Inductive, PTL

\* Whatever the order of adds, merges, harvests and rollbacks, the reservoir
\* holds the samples of highest priority of those it was offered.
THEOREM HighestPrioritiesKept == Spec => []KeepsHighestPriorities
<1>1. IInv => KeepsHighestPriorities
  BY DEF IInv, DataSetInv, Reservoir, KeepsHighest, KeepsHighestPriorities
<1> QED BY <1>1, Inductive, PTL
=============================================================================
