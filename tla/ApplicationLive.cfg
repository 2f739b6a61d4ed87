SPECIFICATION FairSpec
CONSTANTS
  Transactions = {t1}
  DirectEvents = {}
  CustomMetrics = {}
  DimensionalMetrics = {d1}
  EventTypes = {"transaction_events"}
  TraceTypes = {}
  Allowlist <- MCAllowlist
  TypesOf <- MCTypesOf
  MaxRuns = 2
PROPERTIES
  DimensionalLossesKnown
  ShutdownEndsHarvests
  RecordedDataLeave
  RestartReconnects
CHECK_DEADLOCK FALSE
