------------------------------ MODULE SpanChannel ------------------------------
(***************************************************************************)
(* What infinite tracing promises for the spans an application puts: one   *)
(* channel to the trace observer, of bounded capacity, that may lose spans *)
(* and never reorders or repeats them, however many streams come and go.   *)
(***************************************************************************)
EXTENDS Naturals, FiniteSets

CONSTANT Capacity

VARIABLES
  puts,     \* spans put, numbered in order
  waiting,  \* spans that wait for a stream
  taken,    \* spans a stream is about to send
  sent,     \* spans sent
  lost      \* spans that never will be

vars == <<puts, waiting, taken, sent, lost>>

Init == puts = 0 /\ waiting = {} /\ taken = {} /\ sent = {} /\ lost = {}

Before(S, T) == \A s \in S, t \in T : s < t

\* A span is put; one too many, the oldest that waits is lost.
Put ==
  /\ puts' = puts + 1
  /\ LET all == waiting \cup {puts + 1}
     IN  \E old \in SUBSET all :
           /\ Cardinality(old) = IF Cardinality(all) > Capacity THEN 1 ELSE 0
           /\ Before(old, all \ old)
           /\ waiting' = all \ old /\ lost' = lost \cup old
  /\ UNCHANGED <<taken, sent>>

\* Spans are taken from the front.
Take(S) ==
  /\ Before(S, waiting \ S)
  /\ waiting' = waiting \ S /\ taken' = taken \cup S
  /\ UNCHANGED <<puts, sent, lost>>

\* And are sent behind all that were sent before, or lost.
Send(S) ==
  /\ Before(sent, S)
  /\ taken' = taken \ S /\ sent' = sent \cup S
  /\ UNCHANGED <<puts, waiting, lost>>

Lose(S) ==
  /\ taken' = taken \ S /\ lost' = lost \cup S
  /\ UNCHANGED <<puts, waiting, sent>>

Next ==
  \/ Put
  \/ \E S \in SUBSET waiting : Take(S)
  \/ \E S \in SUBSET taken : Send(S) \/ Lose(S)

Spec == Init /\ [][Next]_vars
=============================================================================
