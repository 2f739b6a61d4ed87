SPECIFICATION FairSpec
CONSTANTS
  Callers = {c1, c2}
INVARIANTS
  TypeOK
  NoPeriodicAfterFinal
PROPERTIES
  CallsImplemented
  ShutdownEndsLoop
  HarvestsContinue
CHECK_DEADLOCK FALSE
