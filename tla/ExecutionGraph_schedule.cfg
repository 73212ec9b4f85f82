CONSTANTS
  Job = {1, 2, 3, 4}
  Graphs <- MCGraphs
  HeapOrder <- MCHeapOrder
  NumWorkers = 2
SPECIFICATION Spec
INVARIANT InFlightExact
PROPERTIES ImplementsSchedule ExecuteEnds
CHECK_DEADLOCK FALSE
