SPECIFICATION Spec
CONSTANTS
  Transactions = {}
  DirectEvents = {e1}
  CustomMetrics = {}
  DimensionalMetrics = {}
  EventTypes <- MCEventTypes
  TraceTypes = {"error_data", "trace_data"}
  Allowlist <- MCAllowlist
  TypesOf <- MCTypesOf
  MaxRuns = 2
INVARIANT
  DirectEventsConserved
CHECK_DEADLOCK FALSE
