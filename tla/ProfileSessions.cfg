SPECIFICATION FairSpec
CONSTANTS
  Apps = {a1, a2}
  MaxSessions = 2
  MaxSamples = 1
  MaxFailures = 1
  NoApp = NoApp
INVARIANTS
  TypeOK
  OneProfilerThread
  SampleSentOnce
  SessionsKeptApart
PROPERTIES
  FinishedReported
  SessionsEnd
CHECK_DEADLOCK FALSE
