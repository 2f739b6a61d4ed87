SPECIFICATION Spec
CONSTANTS
  MaxTraces = 5
  MaxTasks = 4
INVARIANTS
  TypeOK
  CompleteWhenDone
  ClosedWhole
CHECK_DEADLOCK FALSE
