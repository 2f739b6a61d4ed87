SPECIFICATION Spec
CONSTANTS
  MaxTraces = 6
  MaxTasks = 4
INVARIANT RootIsCurrent
CONSTRAINT Shape
CHECK_DEADLOCK FALSE
