SPECIFICATION Spec
CONSTANTS
  Transactions = {t1}
  DirectEvents = {e1}
  CustomMetrics = {m1}
  DimensionalMetrics = {}
  EventTypes <- MCEventTypes
  TraceTypes = {}
  Allowlist <- MCAllowlist
  TypesOf <- MCTypesOf
  MaxRuns = 2
INVARIANTS
  TypeOK
  OnePlace
  SessionStable
  AgentShutdownIsFinal
PROPERTIES
  DeliveryImplemented
  CallsAnswered
  LossesAreKnown
  ReportedStaysOut
  TransactionsKeepTheirRun
CHECK_DEADLOCK FALSE
