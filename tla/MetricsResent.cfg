SPECIFICATION Spec
CONSTANTS
  Transactions = {t1}
  DirectEvents = {}
  CustomMetrics = {}
  DimensionalMetrics = {d1}
  EventTypes <- MCEventTypes
  TraceTypes = {"error_data", "trace_data"}
  Allowlist <- MCAllowlist
  TypesOf <- MCTypesOf
  MaxRuns = 2
INVARIANT
  MetricsReportedOnce
CHECK_DEADLOCK FALSE
