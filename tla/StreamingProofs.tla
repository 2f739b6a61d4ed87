--------------------------- MODULE StreamingProofs ---------------------------
(***************************************************************************)
(* The safety properties of Streaming, and that all its streams are one    *)
(* channel as SpanChannel has it, proved for queues of any size, with and  *)
(* without batches, and for any number of spans and streams.               *)
(***************************************************************************)
EXTENDS Streaming, FiniteSetTheorems, SequenceTheorems, TLAPS

-----------------------------------------------------------------------------
(***************************************************************************)
(* The invariant.                                                          *)
(***************************************************************************)
\* The spans that have left the queue are those up to this one.
Gone == puts - Len(queue)

\* The queue holds the spans put last, in order.
QueueIsLast == Gone \in Nat /\ \A k \in 1 .. Len(queue) : queue[k] = Gone + k

\* Each span that has left the queue is in one place.
GoneInOnePlace ==
  /\ discarded \cup sent \cup lost \subseteq 1 .. Gone
  /\ \A i \in Streams : hand[i] \subseteq 1 .. Gone
  /\ \A s \in 1 .. Gone :
       s \in discarded \cup sent \cup lost \/ \E i \in Streams : s \in hand[i]
  /\ discarded \cap sent = {} /\ discarded \cap lost = {} /\ sent \cap lost = {}
  /\ \A i \in Streams : hand[i] \cap (discarded \cup sent \cup lost) = {}
  /\ \A i, j \in Streams : i # j => hand[i] \cap hand[j] = {}

\* What a stream that has not ended holds comes after all that was sent.
HandsFollow ==
  \A i \in Streams : ~Ended(i) => \A s \in hand[i], t \in sent : t < s

\* Only a thread about to send holds spans.
HandsSend == \A i \in Streams : hand[i] # {} => consumer[i] = "sending"

\* Streams are opened one after the other, each when its predecessor ended.
StreamsInOrder ==
  /\ \A i \in Streams : stream[i] = "none" <=> i > current
  /\ \A i \in Streams : consumer[i] = "none" <=> i > current
  /\ \A i \in Streams : stream[i] = "open" => i = current
  /\ \A i \in Streams : stream[i] = "UNIMPLEMENTED" => i = current

\* What process_responses knows of its stream where it is.
ThreadFits ==
  /\ thread = "reconnect" => ~closed
  /\ thread \in {"reconnect", "backoff"} /\ current > 0 =>
       stream[current] \in Codes \ {"UNIMPLEMENTED"}
  /\ thread \in {"backoff", "reading"} => current > 0
  /\ thread = "top" /\ current > 0 => Ended(current)
  /\ thread = "closing" => closed \/ (current > 0 /\ Ended(current))
  /\ closer # "no" => closed
  /\ closed /\ closer # "closing" => \A i \in Streams : stream[i] # "open"

BufferInv == QueueIsLast /\ GoneInOnePlace /\ CountsAddUp
StreamInv == HandsFollow /\ HandsSend /\ StreamsInOrder /\ ThreadFits

\* The inductive invariant.
IInv == TypeOK /\ BufferInv /\ StreamInv

-----------------------------------------------------------------------------
(***************************************************************************)
(* The deque.                                                              *)
(***************************************************************************)
\* What a full deque keeps.
LEMMA NewestProperties ==
  ASSUME NEW S, NEW q \in Seq(S), NEW n \in Nat
  PROVE  /\ Newest(q, n) \in Seq(S)
         /\ Len(Newest(q, n)) = IF Len(q) <= n THEN Len(q) ELSE n
         /\ \A k \in 1 .. Len(Newest(q, n)) :
              Newest(q, n)[k] = q[Len(q) - Len(Newest(q, n)) + k]
<1>1. CASE Len(q) <= n
  BY <1>1 DEF Newest
<1>2. CASE Len(q) > n
  <2>1. Newest(q, n) = SubSeq(q, Len(q) - n + 1, Len(q))
    BY <1>2 DEF Newest
  <2> DEFINE m == Len(q) - n + 1
  <2>2. m \in Nat /\ m >= 1 /\ Len(q) \in Nat /\ m <= Len(q) + 1
    BY <1>2
  <2>3. \A i \in m .. Len(q) : q[i] \in S
    BY <2>2
  <2> HIDE DEF m
  <2>4. /\ SubSeq(q, m, Len(q)) \in Seq(S)
        /\ Len(SubSeq(q, m, Len(q))) = IF m <= Len(q) THEN Len(q) - m + 1 ELSE 0
        /\ \A i \in 1 .. Len(q) - m + 1 : SubSeq(q, m, Len(q))[i] = q[m + i - 1]
    BY <2>2, <2>3, SubSeqProperties
  <2>5. Len(SubSeq(q, m, Len(q))) = n
    BY <2>2, <2>4 DEF m
  <2> QED BY <1>2, <2>1, <2>2, <2>4, <2>5 DEF m
<1> QED BY <1>1, <1>2

\* The items of a sequence of consecutive numbers.
LEMMA ItemsConsecutive ==
  ASSUME NEW q, NEW g \in Nat, Len(q) \in Nat, \A k \in 1 .. Len(q) : q[k] = g + k
  PROVE  Items(q) = (g + 1) .. (g + Len(q))
<1>1. ASSUME NEW s \in (g + 1) .. (g + Len(q)) PROVE s \in Items(q)
  <2>1. s - g \in 1 .. Len(q) /\ g + (s - g) = s
    OBVIOUS
  <2>2. q[s - g] = s
    BY <2>1
  <2> QED BY <2>1, <2>2 DEF Items
<1>2. ASSUME NEW k \in 1 .. Len(q) PROVE q[k] \in (g + 1) .. (g + Len(q))
  OBVIOUS
<1> QED BY <1>1, <1>2 DEF Items

\* The spans in the queue are the last ones put.
LEMMA ItemsOfQueue == TypeOK /\ QueueIsLast => Items(queue) = (Gone + 1) .. puts
<1> SUFFICES ASSUME TypeOK, QueueIsLast PROVE Items(queue) = (Gone + 1) .. puts
  OBVIOUS
<1>1. Len(queue) \in Nat /\ puts \in Nat /\ Gone \in Nat /\ Gone + Len(queue) = puts
  BY DEF TypeOK, QueueIsLast, Gone
<1> QED BY <1>1, ItemsConsecutive DEF QueueIsLast

\* A put leaves the queue the spans put last: it throws out the oldest one
\* when the queue is full, the new one itself when nothing fits.
LEMMA PutEffect ==
  ASSUME IInv, Put
  PROVE  /\ queue' \in Seq(Spans) /\ Len(queue') <= MaxLen
         /\ QueueIsLast'
         /\ Gone' = IF Len(queue) >= MaxLen THEN Gone + 1 ELSE Gone
         /\ discarded' = IF Len(queue) >= MaxLen THEN discarded \cup {Gone + 1} ELSE discarded
<1> DEFINE q == Append(queue, puts + 1)
<1>1. /\ puts \in Nat /\ puts' = puts + 1 /\ puts + 1 \in Spans
      /\ queue \in Seq(Spans) /\ Len(queue) \in Nat /\ Len(queue) <= MaxLen /\ MaxLen \in Nat
      /\ Gone \in Nat /\ Gone + Len(queue) = puts
  BY StreamingAssumption DEF IInv, TypeOK, BufferInv, QueueIsLast, Gone, Put, Spans, StreamingAssumption
<1>2. /\ q \in Seq(Spans) /\ Len(q) = Len(queue) + 1
      /\ \A k \in 1 .. Len(q) : q[k] = Gone + k
  BY <1>1 DEF IInv, BufferInv, QueueIsLast
<1>3. queue' = Newest(q, MaxLen) /\ discarded' = discarded \cup (Items(q) \ Items(queue'))
  BY DEF Put
<1> HIDE DEF q
<1>4. /\ queue' \in Seq(Spans)
      /\ Len(queue') = IF Len(q) <= MaxLen THEN Len(q) ELSE MaxLen
      /\ \A k \in 1 .. Len(queue') : queue'[k] = q[Len(q) - Len(queue') + k]
  BY <1>1, <1>2, <1>3, NewestProperties
<1>5. Gone' = puts + 1 - Len(queue')
  BY <1>1 DEF Gone
<1>6. Items(q) = (Gone + 1) .. (Gone + Len(q))
  BY <1>1, <1>2, ItemsConsecutive
<1>7. /\ Len(queue') \in Nat
      /\ Gone' = (IF Len(queue) >= MaxLen THEN Gone + 1 ELSE Gone)
      /\ Gone' \in Nat /\ Gone' + Len(queue') = puts + 1
  <2>1. CASE Len(queue) >= MaxLen
    <3>1. Len(queue') = MaxLen /\ Len(queue) = MaxLen
      BY <1>1, <1>2, <1>4, <2>1
    <3> QED BY <1>1, <1>5, <2>1, <3>1
  <2>2. CASE ~(Len(queue) >= MaxLen)
    <3>1. Len(queue') = Len(queue) + 1
      BY <1>1, <1>2, <1>4, <2>2
    <3> QED BY <1>1, <1>5, <2>2, <3>1
  <2> QED BY <2>1, <2>2
<1>8. ASSUME NEW k \in 1 .. Len(queue') PROVE queue'[k] = Gone' + k
  <2>1. Len(q) - Len(queue') + k \in 1 .. Len(q)
    BY <1>1, <1>2, <1>4, <1>7
  <2> DEFINE r == Len(queue')
             g == Gone'
  <2>2. Gone + (Len(q) - r + k) = g + k
    <3>1. r \in Nat /\ g \in Nat /\ g + r = puts + 1 /\ k \in 1 .. r
      BY <1>7
    <3> HIDE DEF r, g
    <3> QED BY <1>1, <1>2, <3>1
  <2> QED BY <1>2, <1>4, <2>1, <2>2
<1>9. Items(queue') = (Gone' + 1) .. (Gone' + Len(queue'))
  <2> DEFINE r == queue'
             g == Gone'
  <2>1. g \in Nat /\ Len(r) \in Nat /\ \A k \in 1 .. Len(r) : r[k] = g + k
    BY <1>7, <1>8
  <2> HIDE DEF r, g
  <2>2. Items(r) = (g + 1) .. (g + Len(r))
    BY <2>1, ItemsConsecutive
  <2> QED BY <2>2 DEF r, g
<1>10. Items(q) \ Items(queue') = IF Len(queue) >= MaxLen THEN {Gone + 1} ELSE {}
  BY <1>1, <1>2, <1>6, <1>7, <1>9
<1> QED BY <1>1, <1>2, <1>3, <1>4, <1>7, <1>8, <1>10 DEF QueueIsLast

\* A batch is the oldest spans of the queue.
LEMMA TakeEffect ==
  ASSUME IInv, NEW i \in Streams, Take(i)
  PROVE  /\ queue' \in Seq(Spans) /\ Len(queue') <= MaxLen
         /\ QueueIsLast'
         /\ Gone' \in Nat /\ Gone <= Gone' /\ Gone' <= puts
         /\ hand'[i] = (Gone + 1) .. Gone'
<1> DEFINE n == BatchSize
<1>1. /\ puts \in Nat /\ puts' = puts /\ queue \in Seq(Spans) /\ queue # <<>>
      /\ Len(queue) \in Nat /\ Len(queue) > 0 /\ Len(queue) <= MaxLen /\ MaxLen \in Nat
      /\ Gone \in Nat /\ Gone + Len(queue) = puts
  BY StreamingAssumption DEF IInv, TypeOK, BufferInv, QueueIsLast, Gone, Take, StreamingAssumption
<1>2. n \in 1 .. Len(queue)
  BY <1>1, StreamingAssumption DEF BatchSize, StreamingAssumption
<1>3. queue' = SubSeq(queue, n + 1, Len(queue)) /\ hand' = [hand EXCEPT ![i] = Items(SubSeq(queue, 1, n))]
  BY DEF Take
<1> HIDE DEF n
<1>4. /\ queue' \in Seq(Spans) /\ Len(queue') = Len(queue) - n
      /\ \A k \in 1 .. Len(queue') : queue'[k] = queue[n + k]
  <2>1. \A k \in (n + 1) .. Len(queue) : queue[k] \in Spans
    BY <1>1, <1>2
  <2>2. /\ SubSeq(queue, n + 1, Len(queue)) \in Seq(Spans)
        /\ Len(SubSeq(queue, n + 1, Len(queue))) =
             IF n + 1 <= Len(queue) THEN Len(queue) - (n + 1) + 1 ELSE 0
        /\ \A k \in 1 .. Len(queue) - (n + 1) + 1 :
             SubSeq(queue, n + 1, Len(queue))[k] = queue[(n + 1) + k - 1]
    BY <1>1, <1>2, <2>1, SubSeqProperties
  <2>3. Len(queue') = Len(queue) - n
    BY <1>1, <1>2, <1>3, <2>2
  <2>4. \A k \in 1 .. Len(queue') : queue'[k] = queue[n + k]
    BY <1>1, <1>2, <1>3, <2>2, <2>3
  <2> QED BY <1>3, <2>2, <2>3, <2>4
<1>5. Gone' = Gone + n
  BY <1>1, <1>2, <1>4 DEF Gone
<1>6. Items(SubSeq(queue, 1, n)) = (Gone + 1) .. (Gone + n)
  <2> DEFINE b == SubSeq(queue, 1, n)
  <2>1. Len(b) = n /\ \A k \in 1 .. n : b[k] = Gone + k
    <3>1. \A k \in 1 .. n : queue[k] \in Spans
      BY <1>1, <1>2
    <3>2. /\ Len(SubSeq(queue, 1, n)) = IF 1 <= n THEN n - 1 + 1 ELSE 0
          /\ \A k \in 1 .. n - 1 + 1 : SubSeq(queue, 1, n)[k] = queue[1 + k - 1]
      BY <1>2, <3>1, SubSeqProperties
    <3>3. \A k \in 1 .. n : SubSeq(queue, 1, n)[k] = queue[k]
      BY <1>2, <3>2
    <3> QED BY <1>1, <1>2, <3>2, <3>3 DEF IInv, BufferInv, QueueIsLast
  <2> HIDE DEF b
  <2>2. Items(b) = (Gone + 1) .. (Gone + n)
    BY <1>1, <1>2, <2>1, ItemsConsecutive
  <2> QED BY <2>2 DEF b
<1>7. ASSUME NEW k \in 1 .. Len(queue') PROVE queue'[k] = Gone' + k
  <2>1. n + k \in 1 .. Len(queue)
    BY <1>1, <1>2, <1>4
  <2> QED BY <1>1, <1>2, <1>4, <1>5, <2>1 DEF IInv, BufferInv, QueueIsLast
<1>8. hand'[i] = Items(SubSeq(queue, 1, n))
  BY <1>3 DEF IInv, TypeOK
<1> QED BY <1>1, <1>2, <1>4, <1>5, <1>6, <1>7, <1>8 DEF QueueIsLast

-----------------------------------------------------------------------------
(***************************************************************************)
(* Frames: what a step leaves alone stays as it is.                        *)
(***************************************************************************)
ConsumerStates == {"none", "next", "take", "waiting", "sending", "ended"}

LEMMA WokenProperties ==
  ASSUME TypeOK, NEW except
  PROVE  /\ Woken(except) \in [Streams -> ConsumerStates]
         /\ \A i \in Streams : \/ Woken(except)[i] = consumer[i]
                               \/ consumer[i] = "waiting" /\ Woken(except)[i] = "next"
BY DEF TypeOK, Woken, ConsumerStates

LEMMA BufferFrame == BufferInv /\ UNCHANGED <<buffer, sent, lost, hand>> => BufferInv'
BY DEF BufferInv, QueueIsLast, Gone, GoneInOnePlace, CountsAddUp, buffer

\* Iterators that are woken, or move on with empty hands, disturb nothing.
LEMMA HandsFrame ==
  ASSUME StreamInv, UNCHANGED <<sent, hand, stream>>,
         \A i \in Streams : consumer[i] = "sending" => consumer'[i] = "sending"
  PROVE  (HandsFollow /\ HandsSend)'
BY DEF StreamInv, HandsFollow, HandsSend, Ended

LEMMA OrderFrame ==
  ASSUME StreamInv, UNCHANGED <<stream, current>>,
         \A i \in Streams : consumer'[i] = "none" <=> consumer[i] = "none"
  PROVE  StreamsInOrder'
BY DEF StreamInv, StreamsInOrder

LEMMA ThreadFrame == StreamInv /\ UNCHANGED <<stream, current, rpc>> => ThreadFits'
BY DEF StreamInv, ThreadFits, rpc, Ended

-----------------------------------------------------------------------------
(***************************************************************************)
(* The buffer's operations.                                                *)
(***************************************************************************)
LEMMA PutKeeps == IInv /\ Put => IInv'
<1> SUFFICES ASSUME IInv, Put PROVE IInv'
  OBVIOUS
<1>1. /\ queue' \in Seq(Spans) /\ Len(queue') <= MaxLen /\ QueueIsLast'
      /\ Gone' = (IF Len(queue) >= MaxLen THEN Gone + 1 ELSE Gone)
      /\ discarded' = (IF Len(queue) >= MaxLen THEN discarded \cup {Gone + 1} ELSE discarded)
  BY PutEffect
<1>2. /\ puts \in Nat /\ puts < MaxSpans /\ puts' = puts + 1 /\ seen' = seen + 1
      /\ dropped' = (IF Len(queue) >= MaxLen THEN dropped + 1 ELSE dropped)
      /\ consumer' = Woken({})
      /\ UNCHANGED <<reported, sent, lost, stream, shut, hand, current, rpc>>
  BY DEF Put, IInv, TypeOK
<1>3. Gone \in Nat /\ Gone <= puts /\ Gone + 1 \notin discarded
  <2>1. Gone \in Nat /\ Len(queue) \in Nat
    BY DEF IInv, BufferInv, QueueIsLast, TypeOK
  <2>2. discarded \subseteq 1 .. Gone
    BY DEF IInv, BufferInv, GoneInOnePlace
  <2> QED BY <1>2, <2>1, <2>2 DEF Gone
<1>4. TypeOK'
  <2>1. MaxSpans \in Nat
    BY StreamingAssumption DEF StreamingAssumption
  <2>2. puts' \in 0 .. MaxSpans /\ Gone + 1 \in Spans
    BY <1>2, <1>3, <2>1 DEF Spans
  <2>3. discarded' \subseteq Spans
    BY <1>1, <2>2 DEF IInv, TypeOK
  <2>4. consumer' \in [Streams -> ConsumerStates]
    BY <1>2, WokenProperties DEF IInv
  <2>5. seen' \in Nat /\ dropped' \in Nat
    BY <1>2 DEF IInv, TypeOK
  <2> QED BY <1>1, <1>2, <2>2, <2>3, <2>4, <2>5 DEF IInv, TypeOK, ConsumerStates, rpc
<1>5. GoneInOnePlace'
  <2>1. CASE Len(queue) >= MaxLen
    <3>1. Gone' = Gone + 1 /\ discarded' = discarded \cup {Gone + 1} /\ UNCHANGED <<sent, lost, hand>>
      BY <1>1, <1>2, <2>1
    <3>2. 1 .. (Gone + 1) = (1 .. Gone) \cup {Gone + 1} /\ Gone + 1 \notin 1 .. Gone
      BY <1>3
    <3> QED BY <3>1, <3>2 DEF IInv, BufferInv, GoneInOnePlace
  <2>2. CASE ~(Len(queue) >= MaxLen)
    <3>1. Gone' = Gone /\ UNCHANGED <<discarded, sent, lost, hand>>
      BY <1>1, <1>2, <2>2
    <3> QED BY <3>1 DEF IInv, BufferInv, GoneInOnePlace
  <2> QED BY <2>1, <2>2
<1>6. CountsAddUp'
  <2>1. reported.seen \in Nat /\ reported.dropped \in Nat /\ seen \in Nat /\ dropped \in Nat
    BY DEF IInv, TypeOK
  <2>2. IsFiniteSet(discarded)
    <3>1. IsFiniteSet(Spans)
      BY StreamingAssumption, FS_Interval DEF Spans, StreamingAssumption
    <3> QED BY <3>1, FS_Subset DEF IInv, TypeOK
  <2>3. Cardinality(discarded) \in Nat /\ Cardinality(discarded \cup {Gone + 1}) = Cardinality(discarded) + 1
    BY <1>3, <2>2, FS_CardinalityType, FS_AddElement
  <2>4. reported.seen' + seen' = puts'
    BY <1>2, <2>1 DEF IInv, BufferInv, CountsAddUp
  <2>5. reported.dropped' + dropped' = Cardinality(discarded')
    BY <1>1, <1>2, <2>1, <2>3 DEF IInv, BufferInv, CountsAddUp
  <2> QED BY <2>4, <2>5 DEF CountsAddUp
<1>7. StreamInv'
  <2>1. \A i \in Streams : \/ consumer'[i] = consumer[i]
                           \/ consumer[i] = "waiting" /\ consumer'[i] = "next"
    BY <1>2, WokenProperties DEF IInv
  <2> QED BY <1>2, <2>1, HandsFrame, OrderFrame, ThreadFrame DEF IInv, StreamInv
<1> QED BY <1>1, <1>4, <1>5, <1>6, <1>7 DEF IInv, BufferInv

LEMMA StatsKeeps == IInv /\ Stats => IInv'
<1> SUFFICES ASSUME IInv, Stats PROVE IInv'
  OBVIOUS
<1>1. /\ reported' = [seen |-> reported.seen + seen, dropped |-> reported.dropped + dropped]
      /\ seen' = 0 /\ dropped' = 0
      /\ UNCHANGED <<puts, queue, discarded, streams, rpc>>
  BY DEF Stats
<1>2. reported.seen \in Nat /\ reported.dropped \in Nat /\ seen \in Nat /\ dropped \in Nat
  BY DEF IInv, TypeOK
<1>3. TypeOK'
  BY <1>1, <1>2 DEF IInv, TypeOK, streams, rpc
<1>4. CountsAddUp'
  BY <1>1, <1>2 DEF IInv, BufferInv, CountsAddUp
<1>5. QueueIsLast' /\ GoneInOnePlace'
  BY <1>1 DEF IInv, BufferInv, QueueIsLast, Gone, GoneInOnePlace, streams
<1>6. StreamInv'
  BY <1>1, HandsFrame, OrderFrame, ThreadFrame DEF IInv, StreamInv, streams
<1> QED BY <1>3, <1>4, <1>5, <1>6 DEF IInv, BufferInv

\* The stream gets the batch: later than all that left the queue before.
LEMMA TakeKeeps == ASSUME IInv, NEW i \in Streams, Take(i) PROVE IInv'
<1>1. /\ queue' \in Seq(Spans) /\ Len(queue') <= MaxLen /\ QueueIsLast'
      /\ Gone' \in Nat /\ Gone <= Gone' /\ Gone' <= puts
      /\ hand'[i] = (Gone + 1) .. Gone'
  BY TakeEffect
<1>2. /\ consumer[i] = "take" /\ consumer' = [consumer EXCEPT ![i] = "sending"]
      /\ \A j \in Streams : j # i => hand'[j] = hand[j]
      /\ DOMAIN hand' = Streams /\ hand' = [hand EXCEPT ![i] = hand'[i]]
      /\ UNCHANGED <<puts, seen, dropped, reported, discarded, sent, lost, stream, shut, current, rpc>>
  BY DEF IInv, TypeOK, Take
<1>3. Gone \in Nat /\ puts \in 0 .. MaxSpans /\ MaxSpans \in Nat
  BY StreamingAssumption DEF IInv, BufferInv, QueueIsLast, TypeOK, StreamingAssumption
<1>4. TypeOK'
  <2>1. hand'[i] \subseteq Spans
    BY <1>1, <1>3 DEF Spans
  <2>2. hand' \in [Streams -> SUBSET Spans]
    BY <1>2, <2>1 DEF IInv, TypeOK
  <2> QED BY <1>1, <1>2, <2>2 DEF IInv, TypeOK, rpc
<1>5. hand[i] = {}
  BY <1>2 DEF IInv, StreamInv, HandsSend
<1>6. GoneInOnePlace'
  <2> DEFINE g == Gone
             h == Gone'
  <2>1. g \in Nat /\ h \in Nat /\ g <= h
    BY <1>1, <1>3
  <2>2. 1 .. h = (1 .. g) \cup ((g + 1) .. h) /\ (1 .. g) \cap ((g + 1) .. h) = {}
    <3> HIDE DEF g, h
    <3> QED BY <2>1
  <2>3. discarded \cup sent \cup lost \subseteq 1 .. g /\ \A j \in Streams : hand[j] \subseteq 1 .. g
    BY DEF IInv, BufferInv, GoneInOnePlace
  <2>4. hand'[i] = (g + 1) .. h
    BY <1>1
  <2>5. discarded \cup sent \cup lost \subseteq 1 .. h /\ \A j \in Streams : hand'[j] \subseteq 1 .. h
    <3> HIDE DEF g, h
    <3> QED BY <1>2, <2>2, <2>3, <2>4
  <2>6. \A s \in 1 .. h : s \in discarded \cup sent \cup lost \/ \E j \in Streams : s \in hand'[j]
    <3> TAKE s \in 1 .. h
    <3>1. CASE s \in 1 .. g
      <4>1. s \in discarded \cup sent \cup lost \/ \E j \in Streams : s \in hand[j]
        BY <3>1 DEF IInv, BufferInv, GoneInOnePlace
      <4> QED BY <1>2, <1>5, <4>1
    <3>2. CASE s \in (g + 1) .. h
      BY <2>4, <3>2
    <3> QED BY <2>2, <3>1, <3>2
  <2>7. \A j \in Streams : hand'[j] \cap (discarded \cup sent \cup lost) = {}
    <3> HIDE DEF g, h
    <3> QED BY <1>2, <2>2, <2>3, <2>4 DEF IInv, BufferInv, GoneInOnePlace
  <2>8. ASSUME NEW j \in Streams, NEW k \in Streams, j # k PROVE hand'[j] \cap hand'[k] = {}
    <3>1. \A l \in Streams : l # i => hand'[l] \cap hand'[i] = {}
      <4> HIDE DEF g, h
      <4> QED BY <1>2, <2>2, <2>3, <2>4
    <3>2. hand[j] \cap hand[k] = {}
      BY <2>8 DEF IInv, BufferInv, GoneInOnePlace
    <3> QED BY <1>2, <2>8, <3>1, <3>2
  <2>9. discarded \cap sent = {} /\ discarded \cap lost = {} /\ sent \cap lost = {}
    BY DEF IInv, BufferInv, GoneInOnePlace
  <2> QED BY <1>2, <2>5, <2>6, <2>7, <2>8, <2>9 DEF GoneInOnePlace
<1>7. CountsAddUp'
  BY <1>2 DEF IInv, BufferInv, CountsAddUp
<1>8. HandsFollow'
  <2>1. \A s \in hand'[i], t \in sent : t < s
    <3>1. sent \subseteq 1 .. Gone
      BY DEF IInv, BufferInv, GoneInOnePlace
    <3> QED BY <1>1, <1>3, <3>1
  <2> QED BY <1>2, <2>1 DEF IInv, StreamInv, HandsFollow, Ended
<1>9. HandsSend'
  BY <1>2 DEF IInv, TypeOK, StreamInv, HandsSend
<1>10. StreamsInOrder' /\ ThreadFits'
  <2>1. \A j \in Streams : consumer'[j] = "none" <=> consumer[j] = "none"
    BY <1>2 DEF IInv, TypeOK
  <2> QED BY <1>2, <2>1, OrderFrame, ThreadFrame DEF IInv
<1> QED BY <1>1, <1>4, <1>6, <1>7, <1>8, <1>9, <1>10 DEF IInv, BufferInv, StreamInv

\* A batch is sent by the stream that is open, or lost with one that ended.
LEMMA SendKeeps == ASSUME IInv, NEW i \in Streams, Send(i) PROVE IInv'
<1>1. /\ consumer[i] = "sending" /\ hand' = [hand EXCEPT ![i] = {}]
      /\ UNCHANGED <<buffer, stream, shut, current, rpc>>
  BY DEF Send
<1>2. \/ Ended(i) /\ lost' = lost \cup hand[i] /\ sent' = sent
           /\ consumer' = [consumer EXCEPT ![i] = "ended"]
      \/ ~Ended(i) /\ sent' = sent \cup hand[i] /\ lost' = lost
           /\ consumer' = [consumer EXCEPT ![i] = "next"]
  BY DEF Send
<1>3. \A j \in Streams : hand'[j] = IF j = i THEN {} ELSE hand[j]
  BY <1>1 DEF IInv, TypeOK
<1>4. TypeOK'
  <2>1. hand' \in [Streams -> SUBSET Spans] /\ hand[i] \subseteq Spans
    BY <1>1 DEF IInv, TypeOK
  <2>2. consumer' \in [Streams -> ConsumerStates]
    BY <1>2 DEF IInv, TypeOK, ConsumerStates
  <2>3. sent' \subseteq Spans /\ lost' \subseteq Spans
    BY <1>2, <2>1 DEF IInv, TypeOK
  <2> QED BY <1>1, <2>1, <2>2, <2>3 DEF IInv, TypeOK, ConsumerStates, buffer, rpc
<1>5. BufferInv'
  <2>1. QueueIsLast' /\ CountsAddUp' /\ Gone' = Gone
    BY <1>1 DEF IInv, BufferInv, QueueIsLast, CountsAddUp, Gone, buffer
  <2>2. discarded' = discarded
    BY <1>1 DEF buffer
  <2>3. GoneInOnePlace'
    <3>1. (discarded \cup sent \cup lost)' = discarded \cup sent \cup lost \cup hand[i]
      BY <1>2, <2>2
    <3>2. \A s \in 1 .. Gone : s \in (discarded \cup sent \cup lost)' \/ \E j \in Streams : s \in hand'[j]
      BY <1>3, <3>1 DEF IInv, BufferInv, GoneInOnePlace
    <3>3. (discarded \cup sent \cup lost)' \subseteq 1 .. Gone /\ \A j \in Streams : hand'[j] \subseteq 1 .. Gone
      BY <1>3, <3>1 DEF IInv, BufferInv, GoneInOnePlace
    <3>4. (discarded \cap sent = {} /\ discarded \cap lost = {} /\ sent \cap lost = {})'
      BY <1>2, <2>2 DEF IInv, BufferInv, GoneInOnePlace
    <3>5. \A j \in Streams : hand'[j] \cap (discarded \cup sent \cup lost)' = {}
      BY <1>3, <3>1 DEF IInv, BufferInv, GoneInOnePlace
    <3>6. \A j, k \in Streams : j # k => hand'[j] \cap hand'[k] = {}
      BY <1>3 DEF IInv, BufferInv, GoneInOnePlace
    <3> QED BY <2>1, <3>2, <3>3, <3>4, <3>5, <3>6 DEF GoneInOnePlace
  <2> QED BY <2>1, <2>3 DEF BufferInv
<1>6. HandsFollow'
  <2>1. CASE Ended(i)
    BY <1>1, <1>2, <1>3, <2>1 DEF IInv, StreamInv, HandsFollow, Ended
  <2>2. CASE ~Ended(i)
    <3>1. stream[i] = "open" /\ i = current
      BY <1>1, <2>2 DEF IInv, TypeOK, StreamInv, StreamsInOrder, Ended
    <3>2. \A j \in Streams : j # i /\ ~Ended(j) => hand[j] = {}
      <4> SUFFICES ASSUME NEW j \in Streams, j # i, ~Ended(j) PROVE hand[j] = {}
        OBVIOUS
      <4>1. stream[j] = "none"
        BY <3>1 DEF IInv, TypeOK, StreamInv, StreamsInOrder, Ended
      <4>2. consumer[j] = "none"
        BY <4>1 DEF IInv, StreamInv, StreamsInOrder
      <4> QED BY <4>2 DEF IInv, StreamInv, HandsSend
    <3> QED BY <1>1, <1>3, <3>2 DEF HandsFollow, Ended
  <2> QED BY <2>1, <2>2
<1>7. HandsSend'
  BY <1>2, <1>3 DEF IInv, TypeOK, StreamInv, HandsSend
<1>8. StreamsInOrder' /\ ThreadFits'
  <2>1. \A j \in Streams : consumer'[j] = "none" <=> consumer[j] = "none"
    BY <1>1, <1>2 DEF IInv, TypeOK
  <2> QED BY <1>1, <2>1, OrderFrame, ThreadFrame DEF IInv
<1> QED BY <1>4, <1>5, <1>6, <1>7, <1>8 DEF IInv, StreamInv

-----------------------------------------------------------------------------
(***************************************************************************)
(* The iterators, the server and the response thread.                      *)
(***************************************************************************)
\* A consumer thread that takes nothing, while others may be woken.
LEMMA ConsumerKeeps ==
  ASSUME IInv, consumer' \in [Streams -> ConsumerStates], shut' \in [Streams -> BOOLEAN],
         \A i \in Streams : consumer'[i] = "none" <=> consumer[i] = "none",
         \A i \in Streams : consumer[i] = "sending" => consumer'[i] = "sending",
         UNCHANGED <<buffer, sent, lost, stream, hand, current>>,
         TypeOK => thread' \in {"top", "reconnect", "reading", "backoff", "closing", "ended"},
         UNCHANGED <<closed, closer>>, ThreadFits'
  PROVE  IInv'
<1>1. TypeOK'
  BY DEF IInv, TypeOK, ConsumerStates, buffer
<1> QED BY <1>1, BufferFrame, HandsFrame, OrderFrame DEF IInv, StreamInv

LEMMA IteratorKeeps == ASSUME IInv, NEW i \in Streams, Next1(i) \/ Wait(i) PROVE IInv'
<1>1. CASE Next1(i)
  <2>1. consumer[i] = "next" /\ UNCHANGED <<buffer, sent, lost, stream, hand, current, rpc>>
    BY <1>1 DEF Next1
  <2>2. shut' \in [Streams -> BOOLEAN]
    BY <1>1 DEF Next1, IInv, TypeOK
  <2>3. \A c \in {consumer, Woken({i})} :
           /\ c \in [Streams -> ConsumerStates]
           /\ \A j \in Streams : c[j] = consumer[j] \/ (consumer[j] = "waiting" /\ c[j] = "next")
    BY WokenProperties DEF IInv, TypeOK, ConsumerStates
  <2>4. \E c \in {consumer, Woken({i})}, pc \in {"ended", "take"} : consumer' = [c EXCEPT ![i] = pc]
    BY <1>1 DEF Next1
  <2>5. PICK c \in {consumer, Woken({i})}, pc \in {"ended", "take"} : consumer' = [c EXCEPT ![i] = pc]
    BY <2>4
  <2>6. /\ consumer' \in [Streams -> ConsumerStates]
        /\ \A j \in Streams : consumer'[j] = IF j = i THEN pc ELSE c[j]
    BY <2>3, <2>5 DEF ConsumerStates
  <2>7. /\ \A j \in Streams : consumer'[j] = "none" <=> consumer[j] = "none"
        /\ \A j \in Streams : consumer[j] = "sending" => consumer'[j] = "sending"
    BY <2>1, <2>3, <2>5, <2>6
  <2>8. ThreadFits'
    BY <2>1, ThreadFrame DEF IInv
  <2> QED BY <2>1, <2>2, <2>6, <2>7, <2>8, ConsumerKeeps DEF IInv, TypeOK, rpc
<1>2. CASE Wait(i)
  <2>1. /\ consumer[i] = "take" /\ UNCHANGED <<buffer, sent, lost, stream, shut, hand, current, rpc>>
        /\ \E pc \in {"next", "waiting"} : consumer' = [consumer EXCEPT ![i] = pc]
    BY <1>2 DEF Wait
  <2>2. /\ consumer' \in [Streams -> ConsumerStates]
        /\ \A j \in Streams : consumer'[j] = "none" <=> consumer[j] = "none"
        /\ \A j \in Streams : consumer[j] = "sending" => consumer'[j] = "sending"
    BY <2>1 DEF IInv, TypeOK, ConsumerStates
  <2>3. ThreadFits'
    BY <2>1, ThreadFrame DEF IInv
  <2> QED BY <2>1, <2>2, <2>3, ConsumerKeeps DEF IInv, TypeOK, rpc
<1> QED BY <1>1, <1>2

\* An open stream ends.
LEMMA EndsKeep ==
  ASSUME IInv, stream' \in [Streams -> {"none", "open"} \cup Codes],
         \A i \in Streams : stream'[i] = stream[i] \/ (stream[i] = "open" /\ stream'[i] \in Codes),
         UNCHANGED <<buffer, sent, lost, shut, consumer, hand, current, thread, closed>>,
         closer' = closer \/ (closer = "closing" /\ closer' = "done"
                                /\ \A i \in Streams : stream'[i] # "open")
  PROVE  IInv'
<1>0. "open" \notin Codes /\ "none" \notin Codes /\ "UNIMPLEMENTED" \in Codes
  BY DEF Codes
<1>1. TypeOK'
  BY DEF IInv, TypeOK, buffer
<1>2. (HandsFollow /\ HandsSend)'
  BY <1>0 DEF IInv, StreamInv, HandsFollow, HandsSend, Ended
<1>3. StreamsInOrder'
  BY <1>0 DEF IInv, StreamInv, StreamsInOrder
<1>4. ThreadFits'
  <2>1. current > 0 => current \in Streams
    BY DEF IInv, TypeOK, Streams
  <2> QED BY <1>0, <2>1 DEF IInv, StreamInv, ThreadFits, Ended
<1> QED BY <1>1, <1>2, <1>3, <1>4, BufferFrame DEF IInv, StreamInv

LEMMA ServerEndsKeeps ==
  ASSUME IInv, NEW i \in Streams, NEW code \in Codes \ {"CANCELLED"}, ServerEnds(i, code)
  PROVE  IInv'
<1>1. stream[i] = "open" /\ stream' = [stream EXCEPT ![i] = code]
  BY DEF ServerEnds
<1> QED BY <1>1, EndsKeep DEF ServerEnds, IInv, TypeOK, rpc

LEMMA CloseChannelKeeps == IInv /\ CloseChannel => IInv'
<1> SUFFICES ASSUME IInv, CloseChannel PROVE IInv'
  OBVIOUS
<1>1. stream' = [i \in Streams |-> IF stream[i] = "open" THEN "CANCELLED" ELSE stream[i]]
  BY DEF CloseChannel
<1>2. "CANCELLED" \in Codes /\ "CANCELLED" # "open"
  BY DEF Codes
<1>3. stream' \in [Streams -> {"none", "open"} \cup Codes]
  BY <1>1, <1>2 DEF IInv, TypeOK
<1> QED BY <1>1, <1>2, <1>3, EndsKeep DEF CloseChannel, IInv, TypeOK

\* The response thread and close move on while streams stay as they are.
LEMMA RpcKeeps ==
  ASSUME IInv, UNCHANGED <<buffer, streams>>, ThreadFits',
         thread' \in {"top", "reconnect", "reading", "backoff", "closing", "ended"},
         closed' \in BOOLEAN, closer' \in {"no", "closing", "done"}
  PROVE  IInv'
<1>1. TypeOK'
  BY DEF IInv, TypeOK, buffer, streams
<1> QED BY <1>1, BufferFrame, HandsFrame, OrderFrame DEF IInv, StreamInv, streams

LEMMA ThreadKeeps ==
  ASSUME IInv, \/ FirstTop \/ TopClosed \/ TopUnimplemented \/ BackoffEnds
               \/ ResponsesEnd \/ ThreadCloses \/ Close
  PROVE  IInv'
<1> USE DEF IInv, StreamInv, TypeOK
<1>0. "UNIMPLEMENTED" \in Codes /\ "open" \notin Codes /\ (current > 0 => current \in Streams)
  BY DEF Codes, Streams
<1>1. CASE FirstTop
  <2>1. ThreadFits'
    BY <1>0, <1>1 DEF FirstTop, ThreadFits, streams, Ended
  <2> QED BY <1>1, <2>1, RpcKeeps DEF FirstTop
<1>2. CASE TopClosed
  <2>1. ThreadFits'
    BY <1>0, <1>2 DEF TopClosed, ThreadFits, streams, Ended
  <2> QED BY <1>2, <2>1, RpcKeeps DEF TopClosed
<1>3. CASE TopUnimplemented
  <2>1. ThreadFits'
    BY <1>0, <1>3 DEF TopUnimplemented, ThreadFits, streams, Ended
  <2> QED BY <1>3, <2>1, RpcKeeps DEF TopUnimplemented
<1>4. CASE BackoffEnds
  <2>1. ThreadFits'
    BY <1>0, <1>4 DEF BackoffEnds, ThreadFits, streams, Ended
  <2> QED BY <1>4, <2>1, RpcKeeps DEF BackoffEnds
<1>5. CASE ResponsesEnd
  <2>1. ThreadFits'
    BY <1>0, <1>5 DEF ResponsesEnd, ThreadFits, streams, Ended
  <2> QED BY <1>5, <2>1, RpcKeeps DEF ResponsesEnd
<1>6. CASE ThreadCloses
  <2>1. \A i \in Streams : closed \/ stream[i] # "open"
    BY <1>0, <1>6 DEF ThreadCloses, ThreadFits, StreamsInOrder, Ended
  <2>2. ThreadFits'
    BY <1>0, <1>6, <2>1 DEF ThreadCloses, ThreadFits, streams, Ended
  <2> QED BY <1>6, <2>2, RpcKeeps DEF ThreadCloses
<1>7. CASE Close
  <2>1. ThreadFits'
    BY <1>0, <1>7 DEF Close, ThreadFits, streams, Ended
  <2> QED BY <1>7, <2>1, RpcKeeps DEF Close
<1> QED BY <1>1, <1>2, <1>3, <1>4, <1>5, <1>6, <1>7

\* The old iterator is shut down before the next stream.
LEMMA ShutKeeps == IInv /\ (TopOK \/ TopError) => IInv'
<1> SUFFICES ASSUME IInv, TopOK \/ TopError PROVE IInv'
  OBVIOUS
<1>1. /\ thread = "top" /\ current > 0 /\ ~closed
      /\ stream[current] \in Codes \ {"UNIMPLEMENTED"}
      /\ shut' = [shut EXCEPT ![current] = TRUE] /\ consumer' = Woken({})
      /\ thread' \in {"reconnect", "backoff"}
      /\ UNCHANGED <<buffer, sent, lost, stream, hand, current, closed, closer>>
  BY DEF TopOK, TopError, ShutIterator, Codes
<1>2. /\ consumer' \in [Streams -> ConsumerStates]
      /\ \A i \in Streams : \/ consumer'[i] = consumer[i]
                            \/ consumer[i] = "waiting" /\ consumer'[i] = "next"
  BY <1>1, WokenProperties DEF IInv
<1>3. ThreadFits'
  BY <1>1 DEF IInv, StreamInv, ThreadFits
<1>4. shut' \in [Streams -> BOOLEAN]
  BY <1>1 DEF IInv, TypeOK
<1> QED BY <1>1, <1>2, <1>3, <1>4, ConsumerKeeps

\* The next stream is opened when no other is.
LEMMA ReconnectKeeps == IInv /\ Reconnect => IInv'
<1> SUFFICES ASSUME IInv, Reconnect PROVE IInv'
  OBVIOUS
<1> DEFINE i == current + 1
<1>1. /\ thread = "reconnect" /\ current' = i /\ thread' = "reading"
      /\ stream' = [stream EXCEPT ![i] = "open"] /\ consumer' = [consumer EXCEPT ![i] = "next"]
      /\ UNCHANGED <<buffer, sent, lost, shut, hand, closed, closer>>
  BY DEF Reconnect
<1>2. i \in Streams /\ i \in 0 .. MaxStreams /\ current \in 0 .. MaxStreams
  BY StreamingAssumption DEF IInv, TypeOK, Reconnect, Streams, StreamingAssumption
<1>3. \A j \in Streams : j \in Nat /\ j > 0
  BY DEF Streams
<1>4. stream[i] = "none" /\ consumer[i] = "none"
  BY <1>2 DEF IInv, StreamInv, StreamsInOrder
<1>5. current > 0 => stream[current] \in Codes \ {"UNIMPLEMENTED"}
  BY <1>1 DEF IInv, StreamInv, ThreadFits
<1>6. \A j \in Streams : stream[j] # "open" /\ stream[j] # "UNIMPLEMENTED"
  <2>1. "open" \notin Codes
    BY DEF Codes
  <2> QED BY <1>3, <1>5, <2>1 DEF IInv, StreamInv, StreamsInOrder
<1>7. \A j \in Streams : /\ stream'[j] = IF j = i THEN "open" ELSE stream[j]
                         /\ consumer'[j] = IF j = i THEN "next" ELSE consumer[j]
  BY <1>1, <1>2 DEF IInv, TypeOK
<1>8. TypeOK'
  <2>1. stream' \in [Streams -> {"none", "open"} \cup Codes] /\ consumer' \in [Streams -> ConsumerStates]
    BY <1>1 DEF IInv, TypeOK, ConsumerStates
  <2>2. current' \in 0 .. MaxStreams
    BY <1>1, <1>2
  <2> HIDE DEF i
  <2> QED BY <1>1, <2>1, <2>2 DEF IInv, TypeOK, ConsumerStates, buffer
<1>9. BufferInv'
  BY <1>1, BufferFrame DEF IInv
<1>10. hand[i] = {}
  BY <1>2, <1>4 DEF IInv, StreamInv, HandsSend
<1>11. (HandsFollow /\ HandsSend)'
  BY <1>1, <1>7, <1>10 DEF IInv, StreamInv, HandsFollow, HandsSend, Ended
<1>12. StreamsInOrder'
  <2>1. \A j \in Streams : j > i <=> j > current /\ j # i
    BY <1>2, <1>3
  <2> HIDE DEF i
  <2> QED BY <1>1, <1>6, <1>7, <2>1 DEF IInv, StreamInv, StreamsInOrder
<1>13. ThreadFits'
  <2>1. ~closed /\ closer = "no"
    BY <1>1 DEF IInv, StreamInv, ThreadFits
  <2>2. current' > 0
    BY <1>1, <1>2, <1>3
  <2> QED BY <1>1, <2>1, <2>2 DEF ThreadFits
<1> QED BY <1>8, <1>9, <1>11, <1>12, <1>13 DEF IInv, StreamInv

-----------------------------------------------------------------------------
LEMMA Initially == Init => IInv
<1> SUFFICES ASSUME Init PROVE IInv
  OBVIOUS
<1> USE StreamingAssumption DEF StreamingAssumption
<1>1. TypeOK
  <2>1. queue \in Seq(Spans) /\ Len(queue) = 0
    BY DEF Init
  <2>2. /\ stream \in [Streams -> {"none", "open"} \cup Codes] /\ shut \in [Streams -> BOOLEAN]
        /\ consumer \in [Streams -> ConsumerStates] /\ hand \in [Streams -> SUBSET Spans]
    BY DEF Init, ConsumerStates
  <2>3. reported \in [seen : Nat, dropped : Nat]
    BY DEF Init
  <2>4. puts \in 0 .. MaxSpans /\ current \in 0 .. MaxStreams
    BY DEF Init
  <2>5. /\ seen \in Nat /\ dropped \in Nat
        /\ discarded \subseteq Spans /\ sent \subseteq Spans /\ lost \subseteq Spans
        /\ thread \in {"top", "reconnect", "reading", "backoff", "closing", "ended"}
        /\ closed \in BOOLEAN /\ closer \in {"no", "closing", "done"}
    BY DEF Init
  <2>6. Len(queue) <= MaxLen
    BY <2>1
  <2> QED BY <2>1, <2>2, <2>3, <2>4, <2>5, <2>6 DEF TypeOK, ConsumerStates
<1>2. QueueIsLast /\ Gone = 0
  <2>1. Len(queue) = 0 /\ puts = 0
    BY DEF Init
  <2> QED BY <2>1 DEF QueueIsLast, Gone
<1>3. GoneInOnePlace
  BY <1>2 DEF Init, GoneInOnePlace
<1>4. CountsAddUp
  BY FS_EmptySet DEF Init, CountsAddUp
<1>5. StreamInv
  BY DEF Init, StreamInv, HandsFollow, HandsSend, StreamsInOrder, ThreadFits, Ended, Streams, Codes
<1> QED BY <1>1, <1>2, <1>3, <1>4, <1>5 DEF IInv, BufferInv

\* Every step of the specification keeps the invariant.
LEMMA NextKeeps == IInv /\ [Next]_vars => IInv'
<1> SUFFICES ASSUME IInv, [Next]_vars PROVE IInv'
  OBVIOUS
<1>1. CASE Put \/ Stats
  BY <1>1, PutKeeps, StatsKeeps
<1>2. ASSUME NEW i \in Streams, Consume(i) PROVE IInv'
  BY <1>2, IteratorKeeps, TakeKeeps, SendKeeps DEF Consume
<1>3. ASSUME NEW i \in Streams, NEW code \in Codes \ {"CANCELLED"}, ServerEnds(i, code) PROVE IInv'
  BY <1>3, ServerEndsKeeps
<1>4. CASE ProcessResponses \/ Close
  BY <1>4, ThreadKeeps, ShutKeeps, ReconnectKeeps DEF ProcessResponses
<1>5. CASE CloseChannel
  BY <1>5, CloseChannelKeeps
<1>6. CASE UNCHANGED vars
  BY <1>6, BufferFrame, HandsFrame, OrderFrame, ThreadFrame
     DEF vars, buffer, streams, rpc, IInv, TypeOK, StreamInv
<1> QED BY <1>1, <1>2, <1>3, <1>4, <1>5, <1>6 DEF Next

\* The invariant holds in every state.
THEOREM Inductive == Spec => []IInv
BY Initially, NextKeeps, PTL DEF Spec

\* Every variable of the buffer and its streams keeps its type.
THEOREM TypeCorrect == Spec => []TypeOK
<1>1. IInv => TypeOK
  BY DEF IInv
<1> QED BY Inductive, <1>1, PTL

\* Every span put is in exactly one place, over all streams and reconnections.
THEOREM SpansInOnePlace == Spec => []NothingVanishes
<1>1. IInv => NothingVanishes
  <2> SUFFICES ASSUME IInv PROVE NothingVanishes
    OBVIOUS
  <2>1. Items(queue) = (Gone + 1) .. puts /\ Gone \in Nat /\ puts \in Nat /\ Gone <= puts
    <3>1. Gone \in Nat /\ puts \in Nat /\ Len(queue) \in Nat
      BY DEF IInv, TypeOK, BufferInv, QueueIsLast
    <3> QED BY <3>1, ItemsOfQueue DEF IInv, BufferInv, Gone
  <2> DEFINE Q == Items(queue)
             g == 1 .. Gone
  <2>2. 1 .. puts = g \cup Q /\ g \cap Q = {}
    BY <2>1
  <2>3. /\ discarded \subseteq g /\ sent \subseteq g /\ lost \subseteq g
        /\ \A i \in Streams : hand[i] \subseteq g
        /\ \A s \in g : s \in discarded \cup sent \cup lost \/ \E i \in Streams : s \in hand[i]
        /\ discarded \cap sent = {} /\ discarded \cap lost = {} /\ sent \cap lost = {}
        /\ \A i \in Streams : hand[i] \cap (discarded \cup sent \cup lost) = {}
        /\ \A i, j \in Streams : i # j => hand[i] \cap hand[j] = {}
    BY DEF IInv, BufferInv, GoneInOnePlace
  <2> HIDE DEF Q, g
  <2>4. /\ \A w \in {"queue", "discarded", "sent", "lost"} :
             [where |-> w, of |-> 0] \in Holders
        /\ \A i \in Streams : [where |-> "hand", of |-> i] \in Holders
        /\ \A h \in Holders :
             \/ h = [where |-> "queue", of |-> 0] \/ h = [where |-> "discarded", of |-> 0]
             \/ h = [where |-> "sent", of |-> 0] \/ h = [where |-> "lost", of |-> 0]
             \/ \E i \in Streams : h = [where |-> "hand", of |-> i]
    BY DEF Holders
  <2>5. /\ Held([where |-> "queue", of |-> 0]) = Q
        /\ Held([where |-> "discarded", of |-> 0]) = discarded
        /\ Held([where |-> "sent", of |-> 0]) = sent
        /\ Held([where |-> "lost", of |-> 0]) = lost
        /\ \A i \in Streams : Held([where |-> "hand", of |-> i]) = hand[i]
    BY DEF Held, Q
  <2>6. \A h \in Holders : Held(h) \subseteq 1 .. puts
    <3> TAKE h \in Holders
    <3> QED BY <2>2, <2>3, <2>4, <2>5
  <2>7. \A s \in 1 .. puts : \E h \in Holders : s \in Held(h)
    <3> TAKE s \in 1 .. puts
    <3>1. CASE s \in Q
      BY <3>1, <2>4, <2>5
    <3>2. CASE s \in discarded \/ s \in sent \/ s \in lost
      BY <3>2, <2>4, <2>5
    <3>3. ASSUME NEW i \in Streams, s \in hand[i] PROVE \E h \in Holders : s \in Held(h)
      BY <3>3, <2>4, <2>5
    <3> QED BY <2>2, <2>3, <3>1, <3>2, <3>3
  <2>8. ASSUME NEW f \in Holders, NEW h \in Holders, f # h PROVE Held(f) \cap Held(h) = {}
    <3>1. ASSUME NEW i \in Streams, f = [where |-> "hand", of |-> i] PROVE Held(f) \cap Held(h) = {}
      BY <2>2, <2>3, <2>4, <2>5, <2>8, <3>1
    <3>2. ASSUME NEW i \in Streams, h = [where |-> "hand", of |-> i] PROVE Held(f) \cap Held(h) = {}
      BY <2>2, <2>3, <2>4, <2>5, <2>8, <3>2
    <3>3. CASE f.where # "hand" /\ h.where # "hand"
      BY <2>2, <2>3, <2>4, <2>5, <2>8, <3>3
    <3> QED BY <2>4, <3>1, <3>2, <3>3
  <2>9. 1 .. puts = UNION {Held(h) : h \in Holders}
    BY <2>6, <2>7
  <2> QED BY <2>8, <2>9 DEF NothingVanishes
<1> QED BY Inductive, <1>1, PTL

\* The totals of seen and dropped are exact.
THEOREM CountsExact == Spec => []CountsAddUp
<1>1. IInv => CountsAddUp
  BY DEF IInv, BufferInv
<1> QED BY Inductive, <1>1, PTL

\* After close() no stream is left open, and none but the newest ever is.
THEOREM ClosedForGood == Spec => []NoStreamAfterClose
<1>1. IInv => NoStreamAfterClose
  BY DEF IInv, StreamInv, StreamsInOrder, ThreadFits, NoStreamAfterClose
<1> QED BY Inductive, <1>1, PTL

\* The spans arrive in the order they were put, over all streams: an old
\* stream sends nothing after the one that replaced it.
SentInOrder ==
  [][\A s \in sent' \ sent, t \in sent : t < s]_vars

\* Spans are sent in the order they were put, over all streams.
THEOREM OrderKept == Spec => SentInOrder
<1>1. IInv /\ [Next]_vars => [\A s \in sent' \ sent, t \in sent : t < s]_vars
  <2> SUFFICES ASSUME IInv, [Next]_vars, sent' # sent
               PROVE  \A s \in sent' \ sent, t \in sent : t < s
    BY DEF vars, streams
  <2>1. PICK i \in Streams : Send(i)
    BY DEF Next, Consume, ProcessResponses, Put, Stats, Next1, Take, Wait, ServerEnds, FirstTop,
       TopClosed, TopOK, TopUnimplemented, TopError, BackoffEnds, Reconnect, ResponsesEnd,
       ThreadCloses, Close, CloseChannel, vars, streams
  <2>2. ~Ended(i) /\ sent' = sent \cup hand[i]
    BY <2>1 DEF Send
  <2> QED BY <2>2 DEF IInv, StreamInv, HandsFollow
<1> QED BY Inductive, <1>1, PTL DEF Spec, SentInOrder

\* The iterator of an ended stream, once it waits, has taken its last span.
HasTakenAll(i) ==
  Ended(i) /\ consumer[i] \in {"waiting", "next", "ended"} /\ hand[i] = {}

\* An iterator that waits for a span when its stream ends never takes one.
THEOREM EndedTakesNothing == Spec => WaitingTakesNothing
<1> SUFFICES ASSUME NEW CONSTANT i \in Streams
             PROVE  Spec => []((consumer[i] = "waiting" /\ Ended(i)) => [](hand[i] = {}))
  BY DEF WaitingTakesNothing
<1>1. IInv /\ consumer[i] = "waiting" /\ Ended(i) => HasTakenAll(i)
  BY DEF IInv, StreamInv, HandsSend, HasTakenAll
<1>2. IInv /\ HasTakenAll(i) /\ [Next]_vars => HasTakenAll(i)'
  <2> SUFFICES ASSUME IInv, HasTakenAll(i), [Next]_vars PROVE HasTakenAll(i)'
    OBVIOUS
  <2>0. /\ Ended(i) /\ i <= current /\ stream[i] \notin {"none", "open"} /\ "CANCELLED" \in Codes
        /\ current \in Nat /\ i \in Nat
    BY DEF IInv, TypeOK, StreamInv, StreamsInOrder, HasTakenAll, Ended, Codes, Streams
  <2>1. \A except : Woken(except)[i] = consumer[i]
                      \/ (consumer[i] = "waiting" /\ Woken(except)[i] = "next")
    BY WokenProperties DEF IInv
  <2>2. CASE Put \/ Stats
    BY <2>1, <2>2 DEF Put, Stats, HasTakenAll, Ended, streams
  <2>3. ASSUME NEW j \in Streams, Next1(j) PROVE HasTakenAll(i)'
    <3>1. \A except : Woken(except) \in [Streams -> ConsumerStates]
      BY WokenProperties DEF IInv
    <3>2. CASE j = i
      BY <2>0, <2>3, <3>1, <3>2 DEF Next1, StreamClosed, HasTakenAll, Ended, IInv, TypeOK
    <3>3. CASE j # i
      BY <2>1, <2>3, <3>1, <3>3 DEF Next1, HasTakenAll, Ended, IInv, TypeOK
    <3> QED BY <3>2, <3>3
  <2>4. ASSUME NEW j \in Streams, Take(j) \/ Wait(j) \/ Send(j) PROVE HasTakenAll(i)'
    <3>1. j # i
      BY <2>4 DEF Take, Wait, Send, HasTakenAll
    <3> QED BY <2>4, <3>1 DEF Take, Wait, Send, HasTakenAll, Ended, IInv, TypeOK
  <2>5. ASSUME NEW j \in Streams, NEW code \in Codes \ {"CANCELLED"}, ServerEnds(j, code)
        PROVE  HasTakenAll(i)'
    <3>1. j # i
      BY <2>0, <2>5 DEF ServerEnds
    <3> QED BY <2>5, <3>1 DEF ServerEnds, HasTakenAll, Ended, IInv, TypeOK
  <2>6. CASE TopOK \/ TopError
    BY <2>1, <2>6 DEF TopOK, TopError, ShutIterator, HasTakenAll, Ended
  <2>7. CASE Reconnect
    <3>1. current + 1 # i
      BY <2>0
    <3> QED BY <2>7, <3>1 DEF Reconnect, HasTakenAll, Ended, IInv, TypeOK
  <2>8. CASE CloseChannel
    BY <2>0, <2>8 DEF CloseChannel, HasTakenAll, Ended
  <2>9. CASE \/ FirstTop \/ TopClosed \/ TopUnimplemented \/ BackoffEnds
             \/ ResponsesEnd \/ ThreadCloses \/ Close \/ UNCHANGED vars
    <3>1. UNCHANGED <<stream, consumer, hand>>
      BY <2>9 DEF FirstTop, TopClosed, TopUnimplemented, BackoffEnds, ResponsesEnd,
         ThreadCloses, Close, vars, streams
    <3> QED BY <3>1 DEF HasTakenAll, Ended
  <2> QED BY <2>2, <2>3, <2>4, <2>5, <2>6, <2>7, <2>8, <2>9 DEF Next, Consume, ProcessResponses
<1>3. HasTakenAll(i) => hand[i] = {}
  BY DEF HasTakenAll
<1> QED BY Inductive, <1>1, <1>2, <1>3, PTL DEF Spec

-----------------------------------------------------------------------------
(***************************************************************************)
(* The channel.                                                            *)
(***************************************************************************)
InHand == UNION {hand[i] : i \in Streams}

\* What waits before a step and after it.
LEMMA WaitingSpans ==
  ASSUME IInv, IInv'
  PROVE  /\ Items(queue) = (Gone + 1) .. puts /\ Items(queue') = (Gone' + 1) .. puts'
         /\ Gone \in Nat /\ puts \in Nat /\ Gone <= puts /\ Len(queue) = puts - Gone
         /\ Gone' \in Nat /\ Len(queue) <= MaxLen /\ MaxLen \in Nat
<1>1. /\ Items(queue) = (Gone + 1) .. puts /\ Gone \in Nat /\ puts \in Nat /\ Len(queue) \in Nat
      /\ Len(queue) <= MaxLen /\ MaxLen \in Nat
  BY ItemsOfQueue, StreamingAssumption DEF IInv, TypeOK, BufferInv, QueueIsLast, StreamingAssumption
<1>2. Gone <= puts /\ Len(queue) = puts - Gone
  BY <1>1 DEF Gone
<1>3. Items(queue') = (Gone' + 1) .. puts' /\ Gone' \in Nat
  <2> DEFINE r == queue'
             g == Gone'
             n == puts'
  <2>1. g \in Nat /\ Len(r) \in Nat /\ n \in Nat /\ g = n - Len(r) /\ \A k \in 1 .. Len(r) : r[k] = g + k
    BY DEF IInv, TypeOK, BufferInv, QueueIsLast, Gone
  <2> HIDE DEF r, g, n
  <2>2. Items(r) = (g + 1) .. (g + Len(r))
    BY <2>1, ItemsConsecutive
  <2> QED BY <2>1, <2>2 DEF r, g, n
<1> QED BY <1>1, <1>2, <1>3

\* put is a put: of a full queue the oldest span is lost.
LEMMA PutIsPut == IInv /\ IInv' /\ Put => Channel!Put
<1> SUFFICES ASSUME IInv, IInv', Put PROVE Channel!Put
  OBVIOUS
<1> DEFINE all == Items(queue) \cup {puts + 1}
           old == IF Len(queue) >= MaxLen THEN {Gone + 1} ELSE {}
<1>1. /\ Items(queue) = (Gone + 1) .. puts /\ Items(queue') = (Gone' + 1) .. puts'
      /\ Gone \in Nat /\ puts \in Nat /\ Gone <= puts /\ Len(queue) = puts - Gone
      /\ Len(queue) <= MaxLen /\ MaxLen \in Nat
  BY WaitingSpans
<1>2. /\ puts' = puts + 1 /\ UNCHANGED <<hand, sent, lost>>
      /\ Gone' = IF Len(queue) >= MaxLen THEN Gone + 1 ELSE Gone
      /\ discarded' = discarded \cup old
  BY PutEffect DEF Put
<1>3. all = (Gone + 1) .. (puts + 1)
  BY <1>1
<1>4. old \in SUBSET all /\ Channel!Before(old, all \ old)
  BY <1>1, <1>3 DEF Channel!Before
<1>5. Items(queue') = all \ old
  BY <1>1, <1>2, <1>3
<1>6. (discarded \cup lost)' = (discarded \cup lost) \cup old
  BY <1>2
<1> DEFINE full == Len(queue) >= MaxLen
<1>7. IF full THEN old = {Gone + 1} ELSE old = {}
  OBVIOUS
<1> HIDE DEF all, old, full
<1>8. Cardinality(all) = Len(queue) + 1
  <2> DEFINE low == Gone + 1
             high == puts + 1
  <2>1. low \in Int /\ high \in Int /\ low <= high /\ high - low + 1 = Len(queue) + 1
    BY <1>1
  <2>2. all = low .. high
    BY <1>3
  <2> HIDE DEF low, high
  <2>3. Cardinality(low .. high) = IF low > high THEN 0 ELSE high - low + 1
    BY <2>1, FS_Interval
  <2> QED BY <2>1, <2>2, <2>3
<1>9. full <=> Cardinality(all) > MaxLen
  BY <1>1, <1>8 DEF full
<1>10. Cardinality(old) = IF Cardinality(all) > MaxLen THEN 1 ELSE 0
  <2>1. CASE full
    BY <1>7, <1>9, <2>1, FS_Singleton
  <2>2. CASE ~full
    BY <1>7, <1>9, <2>2, FS_EmptySet
  <2> QED BY <2>1, <2>2
<1>11. \E o \in SUBSET all :
         /\ Cardinality(o) = IF Cardinality(all) > MaxLen THEN 1 ELSE 0
         /\ Channel!Before(o, all \ o)
         /\ Items(queue') = all \ o /\ (discarded \cup lost)' = (discarded \cup lost) \cup o
  BY <1>4, <1>5, <1>6, <1>10
<1>12. UNCHANGED <<UNION {hand[i] : i \in Streams}, sent>>
  BY <1>2
<1>13. \A S : Channel!Cardinality(S) = Cardinality(S)
  BY DEF Channel!Cardinality, Cardinality
<1> QED BY <1>2, <1>11, <1>12, <1>13 DEF Channel!Put, all, Items

\* A batch is taken from the front of what waits.
LEMMA TakeIsTake ==
  ASSUME IInv, IInv', NEW i \in Streams, Take(i)
  PROVE  Channel!Next
<1> DEFINE B == hand'[i]
<1>1. /\ Items(queue) = (Gone + 1) .. puts /\ Items(queue') = (Gone' + 1) .. puts'
      /\ Gone \in Nat /\ puts \in Nat
  BY WaitingSpans
<1>2. /\ Gone' \in Nat /\ Gone <= Gone' /\ Gone' <= puts /\ B = (Gone + 1) .. Gone'
      /\ puts' = puts /\ UNCHANGED <<sent, lost, discarded>>
  BY TakeEffect DEF Take
<1>3. hand[i] = {} /\ \A j \in Streams : j # i => hand'[j] = hand[j]
  BY DEF Take, IInv, TypeOK, StreamInv, HandsSend
<1> HIDE DEF B
<1>4. InHand' = InHand \cup B
  BY <1>3 DEF InHand, B
<1>5. /\ B \subseteq Items(queue) /\ Items(queue') = Items(queue) \ B
      /\ \A s \in B, t \in Items(queue) \ B : s < t
  BY <1>1, <1>2
<1>6. Channel!Take(B)
  BY <1>2, <1>4, <1>5 DEF Channel!Take, Channel!Before, InHand
<1>7. \E S \in SUBSET Items(queue) : Channel!Take(S)
  BY <1>5, <1>6 DEF Channel!Take
<1> QED BY <1>7 DEF Channel!Next

\* What a thread has taken is sent behind all that was sent, or lost.
LEMMA SendIsSend ==
  ASSUME IInv, NEW i \in Streams, Send(i)
  PROVE  Channel!Next
<1> DEFINE B == hand[i]
<1>1. /\ hand' = [hand EXCEPT ![i] = {}] /\ UNCHANGED <<puts, queue, discarded>>
      /\ \/ Ended(i) /\ lost' = lost \cup B /\ sent' = sent
         \/ ~Ended(i) /\ sent' = sent \cup B /\ lost' = lost
  BY DEF Send, buffer
<1>2. \A j \in Streams : j # i => hand[j] \cap B = {}
  BY DEF IInv, BufferInv, GoneInOnePlace
<1>3. InHand' = InHand \ B /\ B \subseteq InHand
  BY <1>1, <1>2 DEF InHand, IInv, TypeOK
<1> HIDE DEF B
<1>4. CASE Ended(i)
  <2>1. Channel!Lose(B)
    BY <1>1, <1>3, <1>4 DEF Channel!Lose, InHand
  <2>2. \E S \in SUBSET InHand : Channel!Lose(S)
    BY <1>3, <2>1 DEF Channel!Lose
  <2> QED BY <2>2 DEF Channel!Next, InHand
<1>5. CASE ~Ended(i)
  <2>1. Channel!Before(sent, B)
    BY <1>5 DEF Channel!Before, IInv, StreamInv, HandsFollow, B
  <2>2. Channel!Send(B)
    BY <1>1, <1>3, <1>5, <2>1 DEF Channel!Send, InHand
  <2>3. \E S \in SUBSET InHand : Channel!Send(S)
    BY <1>3, <2>2 DEF Channel!Send
  <2> QED BY <2>3 DEF Channel!Next, InHand
<1> QED BY <1>4, <1>5

\* All the streams together are one bounded channel that may lose spans and
\* never reorders or repeats them, whoever ends or replaces a stream and when.
THEOREM ImplementsChannel == Spec => ChannelImplemented
<1>1. Init => Channel!Init
  BY DEF Init, Channel!Init, Items
<1>2. IInv /\ IInv' /\ [Next]_vars => [Channel!Next]_(Channel!vars)
  <2> SUFFICES ASSUME IInv, IInv', [Next]_vars PROVE [Channel!Next]_(Channel!vars)
    OBVIOUS
  <2>1. CASE Put
    BY <2>1, PutIsPut DEF Channel!Next
  <2>2. ASSUME NEW i \in Streams, Take(i) \/ Send(i) PROVE Channel!Next
    BY <2>2, TakeIsTake, SendIsSend
  <2>3. CASE UNCHANGED <<puts, queue, hand, sent, lost, discarded>>
    BY <2>3 DEF Channel!vars, Items
  <2>4. ASSUME NEW i \in Streams, Next1(i) \/ Wait(i)
        PROVE  UNCHANGED <<puts, queue, hand, sent, lost, discarded>>
    BY <2>4 DEF Next1, Wait, buffer
  <2>5. CASE Stats \/ CloseChannel \/ Close \/ \E i \in Streams, code \in Codes \ {"CANCELLED"} : ServerEnds(i, code)
    BY <2>3, <2>5 DEF Stats, CloseChannel, Close, ServerEnds, buffer, streams
  <2>6. CASE ProcessResponses
    BY <2>3, <2>6 DEF ProcessResponses, FirstTop, TopClosed, TopOK, TopUnimplemented, TopError, BackoffEnds,
       Reconnect, ResponsesEnd, ThreadCloses, buffer, streams
  <2>7. CASE UNCHANGED vars
    BY <2>3, <2>7 DEF vars, buffer, streams
  <2> QED BY <2>1, <2>2, <2>3, <2>4, <2>5, <2>6, <2>7 DEF Next, Consume
<1> QED BY <1>1, <1>2, Inductive, PTL DEF Spec, ChannelImplemented, Channel!Spec
=============================================================================
