------------------------------ MODULE Streaming ------------------------------
(***************************************************************************)
(* Infinite tracing: newrelic/common/streaming_utils.py (the StreamBuffer  *)
(* the stats engine puts spans into, and the iterator a gRPC stream takes  *)
(* them from) and newrelic/core/agent_streaming.py (StreamingRpc, which    *)
(* keeps one stream to the trace observer alive).  The actors are the      *)
(* application threads that put spans, the harvest thread (stats, close),  *)
(* the thread of process_responses, and one consumer thread per stream     *)
(* that belongs to gRPC and calls the request iterator.                    *)
(*                                                                         *)
(* Two locks: the buffer's _notify, held between the closed test of        *)
(* __next__ and the pop (consumer in "take"; every other operation of the  *)
(* buffer is one step), and StreamingRpc.notify, held from the "top" of    *)
(* process_responses until it reads responses, waits or breaks.            *)
(***************************************************************************)
EXTENDS Naturals, Sequences, FiniteSets

CONSTANTS
  MaxSpans,    \* bound: spans the application puts, numbered in order
  MaxLen,      \* infinite_tracing.span_queue_size, the maxlen of the deque
  Batching,    \* infinite_tracing.batching
  MaxBatch,    \* MAX_BATCH_SIZE, 100 in the code
  MaxStreams   \* bound: streams opened, the last one ends only for good

ASSUME StreamingAssumption ==
  /\ MaxSpans \in Nat /\ MaxLen \in Nat /\ Batching \in BOOLEAN
  /\ MaxBatch \in Nat \ {0} /\ MaxStreams \in Nat \ {0}

Streams == 1 .. MaxStreams
Spans   == 1 .. MaxSpans

\* Status codes the cases of process_responses tell apart; CANCELLED is what
\* closing the channel leaves on its open stream.
Codes == {"OK", "UNIMPLEMENTED", "UNAVAILABLE", "CANCELLED"}

VARIABLES
  puts,       \* spans put so far
  queue,      \* StreamBuffer._queue
  seen,       \* StreamBuffer._seen
  dropped,    \* StreamBuffer._dropped
  reported,   \* totals the harvests took with stats (history)
  discarded,  \* spans the full deque threw out (history)
  sent, lost, \* spans sent, and spans taken by a stream that could not send them (history)
  stream,     \* state or code of each stream
  shut,       \* _shutdown of the iterator of each stream
  consumer,   \* where the gRPC thread that iterates each stream is
  hand,       \* the batch it took and has not sent
  current,    \* the stream of self.request_iterator, 0 before the first
  thread,     \* where process_responses is
  closed,     \* StreamingRpc.closed (the channel is None)
  closer      \* where the harvest thread is in close()

buffer  == <<puts, queue, seen, dropped, reported, discarded>>
streams == <<sent, lost, stream, shut, consumer, hand, current>>
rpc     == <<thread, closed, closer>>
vars    == <<buffer, streams, rpc>>

Init ==
  /\ puts = 0 /\ queue = <<>> /\ seen = 0 /\ dropped = 0
  /\ reported = [seen |-> 0, dropped |-> 0]
  /\ discarded = {} /\ sent = {} /\ lost = {}
  /\ stream = [i \in Streams |-> "none"]
  /\ shut = [i \in Streams |-> FALSE]
  /\ consumer = [i \in Streams |-> "none"]
  /\ hand = [i \in Streams |-> {}]
  /\ current = 0
  /\ thread = "top" /\ closed = FALSE /\ closer = "no"

-----------------------------------------------------------------------------
Ended(i) == stream[i] \in Codes

\* stream_closed
StreamClosed(i) == shut[i] \/ Ended(i)

\* Nobody is between the closed test and the pop of __next__.
LockFree == \A i \in Streams : consumer[i] # "take"

\* notify_all wakes every waiting iterator but those of except.
Woken(except) ==
  [i \in Streams |-> IF consumer[i] = "waiting" /\ i \notin except THEN "next" ELSE consumer[i]]

\* The spans of a sequence.
Items(q) == {q[k] : k \in 1 .. Len(q)}

\* Variant of Newest: a deque without maxlen.
NewestAll(q, n) == q

\* The newest n of a sequence: what a deque of maxlen n keeps.
Newest(q, n) == IF Len(q) <= n THEN q ELSE SubSeq(q, Len(q) - n + 1, Len(q))

\* Variant of Put: a full queue drops the new span and does not count it.
PutUncounted ==
  /\ LockFree /\ puts < MaxSpans
  /\ puts' = puts + 1 /\ seen' = seen + 1
  /\ queue' = IF Len(queue) < MaxLen THEN Append(queue, puts + 1) ELSE queue
  /\ discarded' = IF Len(queue) < MaxLen THEN discarded ELSE discarded \cup {puts + 1}
  /\ consumer' = Woken({})
  /\ UNCHANGED <<dropped, reported, sent, lost, stream, shut, hand, current, rpc>>

\* Variant of Put: nobody is notified.
PutSilent ==
  /\ LockFree /\ puts < MaxSpans
  /\ puts' = puts + 1 /\ seen' = seen + 1
  /\ dropped' = IF Len(queue) >= MaxLen THEN dropped + 1 ELSE dropped
  /\ queue' = Newest(Append(queue, puts + 1), MaxLen)
  /\ discarded' = discarded \cup (Items(Append(queue, puts + 1)) \ Items(queue'))
  /\ UNCHANGED <<reported, streams, rpc>>

\* put: a full deque throws its oldest span out.
Put ==
  /\ LockFree /\ puts < MaxSpans
  /\ puts' = puts + 1 /\ seen' = seen + 1
  /\ dropped' = IF Len(queue) >= MaxLen THEN dropped + 1 ELSE dropped
  /\ queue' = Newest(Append(queue, puts + 1), MaxLen)
  /\ discarded' = discarded \cup (Items(Append(queue, puts + 1)) \ Items(queue'))
  /\ consumer' = Woken({})
  /\ UNCHANGED <<reported, sent, lost, stream, shut, hand, current, rpc>>

\* stats, called by every default harvest.
Stats ==
  /\ LockFree
  /\ reported' = [seen |-> reported.seen + seen, dropped |-> reported.dropped + dropped]
  /\ seen' = 0 /\ dropped' = 0
  /\ UNCHANGED <<puts, queue, discarded, streams, rpc>>

-----------------------------------------------------------------------------
(* One gRPC stream: __next__ on its consumer thread, and the network.        *)

\* Variant of Next1: an iterator whose stream has ended goes on to the pop.
NextBlind(i) ==
  /\ consumer[i] = "next" /\ LockFree
  /\ IF shut[i]
       THEN consumer' = [Woken({i}) EXCEPT ![i] = "ended"]
       ELSE consumer' = [consumer EXCEPT ![i] = "take"]
  /\ UNCHANGED <<buffer, sent, lost, stream, shut, hand, current, rpc>>

\* The top of the loop of __next__: a closed stream shuts its iterator down,
\* which notifies, and ends the iteration.
Next1(i) ==
  /\ consumer[i] = "next" /\ LockFree
  /\ IF StreamClosed(i)
       THEN /\ shut' = [shut EXCEPT ![i] = TRUE]
            /\ consumer' = [(IF shut[i] THEN consumer ELSE Woken({i})) EXCEPT ![i] = "ended"]
       ELSE consumer' = [consumer EXCEPT ![i] = "take"] /\ UNCHANGED shut
  /\ UNCHANGED <<buffer, sent, lost, stream, hand, current, rpc>>

\* How many spans one call of __next__ takes.
BatchSize == IF Batching /\ Len(queue) > 1
               THEN IF Len(queue) > MaxBatch THEN MaxBatch ELSE Len(queue)
               ELSE 1

\* Variant of Take: the batch is copied and stays in the queue.
TakeCopies(i) ==
  /\ consumer[i] = "take" /\ queue # <<>>
  /\ consumer' = [consumer EXCEPT ![i] = "sending"]
  /\ hand' = [hand EXCEPT ![i] = Items(SubSeq(queue, 1, BatchSize))]
  /\ UNCHANGED <<buffer, sent, lost, stream, shut, current, rpc>>

\* Variant of Take: the newest span is popped.
TakeNewest(i) ==
  /\ consumer[i] = "take" /\ queue # <<>>
  /\ consumer' = [consumer EXCEPT ![i] = "sending"]
  /\ hand' = [hand EXCEPT ![i] = {queue[Len(queue)]}]
  /\ queue' = SubSeq(queue, 1, Len(queue) - 1)
  /\ UNCHANGED <<puts, seen, dropped, reported, discarded, sent, lost, stream, shut, current, rpc>>

\* The rest of __next__ when the queue holds something.
Take(i) ==
  /\ consumer[i] = "take" /\ queue # <<>>
  /\ consumer' = [consumer EXCEPT ![i] = "sending"]
  /\ hand' = [hand EXCEPT ![i] = Items(SubSeq(queue, 1, BatchSize))]
  /\ queue' = SubSeq(queue, BatchSize + 1, Len(queue))
  /\ UNCHANGED <<puts, seen, dropped, reported, discarded, sent, lost, stream, shut, current, rpc>>

\* The rest of __next__ when it is empty: wait, which lets the lock go, or
\* back to the top when the stream ended meanwhile.
Wait(i) ==
  /\ consumer[i] = "take" /\ queue = <<>>
  /\ consumer' = [consumer EXCEPT ![i] = IF StreamClosed(i) THEN "next" ELSE "waiting"]
  /\ UNCHANGED <<buffer, sent, lost, stream, shut, hand, current, rpc>>

\* gRPC sends what __next__ returned, unless the stream has ended: then the
\* consumer thread stops and what it holds is lost.
Send(i) ==
  /\ consumer[i] = "sending"
  /\ hand' = [hand EXCEPT ![i] = {}]
  /\ IF Ended(i)
       THEN /\ lost' = lost \cup hand[i] /\ UNCHANGED sent
            /\ consumer' = [consumer EXCEPT ![i] = "ended"]
       ELSE /\ sent' = sent \cup hand[i] /\ UNCHANGED lost
            /\ consumer' = [consumer EXCEPT ![i] = "next"]
  /\ UNCHANGED <<buffer, stream, shut, current, rpc>>

\* The server, or the connection, ends a stream; the last one of the bound
\* ends only with the code that is not retried.
ServerEnds(i, code) ==
  /\ stream[i] = "open"
  /\ i = MaxStreams => code = "UNIMPLEMENTED"
  /\ stream' = [stream EXCEPT ![i] = code]
  /\ UNCHANGED <<buffer, sent, lost, shut, consumer, hand, current, rpc>>

-----------------------------------------------------------------------------
(* process_responses and close.                                             *)

\* The top of the loop under notify, before there is a stream: __init__ has
\* made a channel, so only close() keeps it from connecting.
FirstTop ==
  /\ thread = "top" /\ current = 0
  /\ thread' = IF closed THEN "closing" ELSE "reconnect"
  /\ UNCHANGED <<buffer, streams, closed, closer>>

\* close() won the lock while a stream was read.
TopClosed ==
  /\ thread = "top" /\ current > 0 /\ closed
  /\ thread' = "closing"
  /\ UNCHANGED <<buffer, streams, closed, closer>>

\* request_iterator.shutdown() under the buffer's lock.
ShutIterator ==
  /\ LockFree
  /\ shut' = [shut EXCEPT ![current] = TRUE]
  /\ consumer' = Woken({})

\* Variant of TopOK: the iterator of the old stream is not shut down.
TopOKForgets ==
  /\ thread = "top" /\ current > 0 /\ ~closed /\ stream[current] = "OK"
  /\ thread' = "reconnect"
  /\ UNCHANGED <<buffer, streams, closed, closer>>

\* The server ended the stream with OK: reconnect at once, on a new channel.
TopOK ==
  /\ thread = "top" /\ current > 0 /\ ~closed /\ stream[current] = "OK"
  /\ ShutIterator
  /\ thread' = "reconnect"
  /\ UNCHANGED <<buffer, sent, lost, stream, hand, current, closed, closer>>

\* UNIMPLEMENTED: no retry, the loop ends.
TopUnimplemented ==
  /\ thread = "top" /\ current > 0 /\ ~closed /\ stream[current] = "UNIMPLEMENTED"
  /\ thread' = "closing"
  /\ UNCHANGED <<buffer, streams, closed, closer>>

\* Any other code: wait, with the lock let go, for the time of RETRY_POLICY.
TopError ==
  /\ thread = "top" /\ current > 0 /\ ~closed
  /\ stream[current] \in Codes \ {"OK", "UNIMPLEMENTED"}
  /\ ShutIterator
  /\ thread' = "backoff"
  /\ UNCHANGED <<buffer, sent, lost, stream, hand, current, closed, closer>>

\* Variant of BackoffEnds: closed is not tested after the wait.
BackoffRetries ==
  /\ thread = "backoff" /\ thread' = "reconnect"
  /\ UNCHANGED <<buffer, streams, closed, closer>>

\* The wait times out or close() notifies.
BackoffEnds ==
  /\ thread = "backoff"
  /\ thread' = IF closed THEN "closing" ELSE "reconnect"
  /\ UNCHANGED <<buffer, streams, closed, closer>>

\* create_response_iterator: a new iterator and a new stream, under both
\* locks; gRPC starts its consumer thread.
Reconnect ==
  /\ thread = "reconnect" /\ LockFree /\ current < MaxStreams
  /\ current' = current + 1
  /\ stream' = [stream EXCEPT ![current'] = "open"]
  /\ consumer' = [consumer EXCEPT ![current'] = "next"]
  /\ thread' = "reading"
  /\ UNCHANGED <<buffer, sent, lost, shut, hand, closed, closer>>

\* The responses end, or raise, when the stream has ended.
ResponsesEnd ==
  /\ thread = "reading" /\ Ended(current)
  /\ thread' = "top"
  /\ UNCHANGED <<buffer, streams, closed, closer>>

\* Ending the loop, the thread closes the RPC itself: its stream has ended
\* already, and the join of itself raises and is swallowed.
ThreadCloses ==
  /\ thread = "closing"
  /\ closed' = TRUE /\ thread' = "ended"
  /\ UNCHANGED <<buffer, streams, closer>>

\* close() by the harvest thread, under notify: not while process_responses
\* holds it on its way to a new stream.
Close ==
  /\ closer = "no" /\ thread # "reconnect"
  /\ closer' = IF closed THEN "done" ELSE "closing"
  /\ closed' = TRUE
  /\ UNCHANGED <<buffer, streams, thread>>

\* channel.close(), after the lock, cancels an open stream; the join that
\* follows waits at most 5 seconds and changes nothing.
CloseChannel ==
  /\ closer = "closing" /\ closer' = "done"
  /\ stream' = [i \in Streams |-> IF stream[i] = "open" THEN "CANCELLED" ELSE stream[i]]
  /\ UNCHANGED <<buffer, sent, lost, shut, consumer, hand, current, thread, closed>>

-----------------------------------------------------------------------------
ProcessResponses ==
  FirstTop \/ TopClosed \/ TopOK \/ TopUnimplemented \/ TopError
    \/ BackoffEnds \/ Reconnect \/ ResponsesEnd \/ ThreadCloses

Consume(i) == Next1(i) \/ Take(i) \/ Wait(i) \/ Send(i)

Next ==
  \/ Put \/ Stats
  \/ \E i \in Streams : Consume(i)
  \/ \E i \in Streams, code \in Codes \ {"CANCELLED"} : ServerEnds(i, code)
  \/ ProcessResponses
  \/ Close \/ CloseChannel

Spec == Init /\ [][Next]_vars

\* Threads that can run do; a wait times out; an open stream takes what is
\* sent on it.  Nothing is assumed of the application, of the server ending
\* a stream, or of anybody calling close.
Fairness ==
  /\ WF_vars(ProcessResponses)
  /\ \A i \in Streams : WF_vars(Consume(i))
  /\ WF_vars(CloseChannel)

FairSpec == Spec /\ Fairness

-----------------------------------------------------------------------------
TypeOK ==
  /\ puts \in 0 .. MaxSpans /\ seen \in Nat /\ dropped \in Nat
  /\ queue \in Seq(Spans) /\ Len(queue) <= MaxLen
  /\ reported \in [seen : Nat, dropped : Nat]
  /\ discarded \subseteq Spans /\ sent \subseteq Spans /\ lost \subseteq Spans
  /\ stream \in [Streams -> {"none", "open"} \cup Codes]
  /\ shut \in [Streams -> BOOLEAN]
  /\ consumer \in [Streams -> {"none", "next", "take", "waiting", "sending", "ended"}]
  /\ hand \in [Streams -> SUBSET Spans]
  /\ current \in 0 .. MaxStreams
  /\ thread \in {"top", "reconnect", "reading", "backoff", "closing", "ended"}
  /\ closed \in BOOLEAN /\ closer \in {"no", "closing", "done"}

(* The spans a holder keeps: the queue, the hand of each stream, and the     *)
(* three ends a span can come to.                                            *)
Holders == [where : {"queue", "discarded", "sent", "lost"}, of : {0}]
             \cup [where : {"hand"}, of : Streams]
Held(h) == CASE h.where = "queue"     -> Items(queue)
             [] h.where = "hand"      -> hand[h.of]
             [] h.where = "discarded" -> discarded
             [] h.where = "sent"      -> sent
             [] h.where = "lost"      -> lost

\* Every span put is in exactly one place: no stream sends or loses what
\* another one took, and nothing vanishes between the queue, the streams and
\* reconnections (put, __next__ and the old and new iterator on one buffer).
NothingVanishes ==
  /\ 1 .. puts = UNION {Held(h) : h \in Holders}
  /\ \A g, h \in Holders : g # h => Held(g) \cap Held(h) = {}

\* The supportability metrics are exact over any number of harvests: the
\* totals reported and the counters not yet taken are the spans put and the
\* spans the full queue threw out, never a span a stream lost or took (put
\* and stats; the comment in put expects dropped to be over-counted).
CountsAddUp ==
  /\ reported.seen + seen = puts
  /\ reported.dropped + dropped = Cardinality(discarded)

\* A stream that ended while its iterator waits for a span never takes one
\* again: the span goes to the next stream, whatever wakes the iterator (the
\* comment in __next__ and the test of data lost on a reconnect).
WaitingTakesNothing ==
  \A i \in Streams : []((consumer[i] = "waiting" /\ Ended(i)) => [](hand[i] = {}))

\* A closed RPC has no live stream once close() returned, and no stream but
\* the newest is open; a stream refused with UNIMPLEMENTED is the last one.
NoStreamAfterClose ==
  \A i \in Streams :
    /\ stream[i] = "open" => i = current /\ (closed => closer = "closing")
    /\ stream[i] = "UNIMPLEMENTED" => i = current

\* All the streams together are one channel as SpanChannel has it: the spans
\* arrive in the order they were put and once each, an old stream sends nothing
\* after the one that replaced it, and only the oldest of too many is thrown out.
Channel == INSTANCE SpanChannel WITH
  Capacity <- MaxLen,
  waiting  <- Items(queue),
  taken    <- UNION {hand[i] : i \in Streams},
  lost     <- discarded \cup lost

ChannelImplemented == Channel!Spec

\* A span does not stay in the queue while the RPC is open: it is sent, lost
\* or thrown out, however often the server ends the stream.
SpansLeave ==
  \A s \in Spans : s \in Items(queue) ~> (s \notin Items(queue) \/ closed)

\* close() ends the response thread, wherever it waits, and a stream that has
\* been replaced ends the gRPC thread that iterates it, even when no span is
\* ever put again.
ThreadsEnd ==
  /\ closed ~> thread = "ended"
  /\ \A i \in Streams : (i < current) ~> consumer[i] = "ended"
=============================================================================
