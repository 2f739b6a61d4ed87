---------------------------- MODULE MCApplication ----------------------------
(***************************************************************************)
(* A small instance of Application: one event type in the allowlist, one   *)
(* outside it, and every kind of record operation the run asks for.        *)
(***************************************************************************)
EXTENDS Application

MCEventTypes == {"transaction_events", "custom_events"}
MCAllowlist  == {"custom_event_data"}

\* A transaction contributes an event and metrics; the other operations
\* contribute to one data set each.
MCTypesOf ==
  [o \in Ops |->
     IF o \in Transactions THEN {"transaction_events", "metric_data"}
     ELSE IF o \in DirectEvents THEN {"custom_events"}
     ELSE IF o \in CustomMetrics THEN {"metric_data"}
     ELSE {"dimensional_metric_data"}]
=============================================================================
