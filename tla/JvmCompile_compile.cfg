CONSTANTS
  Target = {"a", "b"}
  Closure <- MCClosure
  Version <- MCVersion
  Job <- MCJob
  Graphs <- MCGraphs
  Workflows <- MCWorkflows
  MaxRuns = 2
  MaxFaults = 1
SPECIFICATION CompileSpec
INVARIANTS ValidIsBuilt CachedIsRight SuccessIsComplete
PROPERTY InvocationEnds
CHECK_DEADLOCK FALSE
