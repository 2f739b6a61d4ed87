----------------------------- MODULE HarvestCalls -----------------------------
(***************************************************************************)
(* What the agent's harvest loop promises each application: its calls of   *)
(* harvest come one at a time, periodic ones only until the shutdown, the  *)
(* final default one after a final flexible one, and the loop does not end *)
(* before it has made both.  HarvestLoop keeps the promise, and the calls  *)
(* Application answers are these.                                          *)
(***************************************************************************)
EXTENDS Naturals

VARIABLES
  requested,  \* the shutdown is requested
  finals,     \* 0; 1 once a final flexible harvest was begun, 2 a final default one
  loop        \* "idle", the kind of the call in progress, or "ended"

vars == <<requested, finals, loop>>

Init == requested = FALSE /\ finals = 0 /\ loop = "idle"

\* The calls that may come next: the kind of each and "finals" once it has begun.
\* Shutdowns requested by several threads have their final harvests each.
Calls ==
  IF ~requested
    THEN {<<"flexible", finals>>, <<"default", finals>>}
    ELSE {<<"flexible", IF finals = 0 THEN 1 ELSE finals>>} \cup
         (IF finals = 0 THEN {} ELSE {<<"final", 2>>})

Request ==
  /\ ~requested /\ requested' = TRUE
  /\ UNCHANGED <<finals, loop>>

\* A call is begun; it may return at once.
Call ==
  /\ loop = "idle"
  /\ \E call \in Calls : finals' = call[2] /\ loop' \in {"idle", call[1]}
  /\ UNCHANGED requested

Return ==
  /\ loop \notin {"idle", "ended"} /\ loop' = "idle"
  /\ UNCHANGED <<requested, finals>>

End ==
  /\ loop = "idle" /\ loop' = "ended"
  /\ requested /\ finals = 2
  /\ UNCHANGED <<requested, finals>>

Next == Request \/ Call \/ Return \/ End

Spec == Init /\ [][Next]_vars
=============================================================================
