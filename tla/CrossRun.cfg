SPECIFICATION Spec
CONSTANTS
  Transactions = {t1}
  DirectEvents = {}
  CustomMetrics = {}
  DimensionalMetrics = {}
  EventTypes <- MCEventTypes
  TraceTypes = {"error_data", "trace_data"}
  Allowlist <- MCAllowlist
  TypesOf <- MCTypesOf
  MaxRuns = 2
INVARIANT
  TransactionsReportedToTheirRun
CHECK_DEADLOCK FALSE
