------------------------------ MODULE Delivery ------------------------------
(***************************************************************************)
(* What an Application promises for the event data recorded under the      *)
(* locks of its stats engines: a datum is taken in once, then leaves the   *)
(* agent once, either acknowledged by the data collector or thrown away.   *)
(* Neither is undone: a harvest that is rolled back reports nothing again. *)
(***************************************************************************)
EXTENDS Naturals

CONSTANT Data

VARIABLES
  pending,   \* recorded, and still to be reported
  reported,  \* acknowledged by the collector
  dropped    \* thrown away

vars == <<pending, reported, dropped>>

Init == pending = {} /\ reported = {} /\ dropped = {}

Accept(S) ==
  /\ S \cap (pending \cup reported \cup dropped) = {}
  /\ pending' = pending \cup S
  /\ UNCHANGED <<reported, dropped>>

Report(S) ==
  /\ pending' = pending \ S
  /\ reported' = reported \cup S
  /\ UNCHANGED dropped

Drop(S) ==
  /\ pending' = pending \ S
  /\ dropped' = dropped \cup S
  /\ UNCHANGED reported

Next ==
  \/ \E S \in SUBSET Data : Accept(S)
  \/ \E S \in SUBSET pending : Report(S) \/ Drop(S)

Spec == Init /\ [][Next]_vars
=============================================================================
