SPECIFICATION Spec
CONSTANTS
  Samples <- MCSamples
  Priority <- MCPriority
  Capacities = {0, 1, 2, 3}
INVARIANTS
  TypeOK
  EntriesComparable
  ReservoirIsFull
  HeapWhenFull
  KeepsHighestPriorities
