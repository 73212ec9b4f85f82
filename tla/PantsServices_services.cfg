CONSTANTS
  Service <- MCService
  File = {"source", "pantsini"}
  InvalidatingFile = "pantsini"
  Request = {"loop", "once"}
  LoopMax <- MCLoopMax
  PollLimit <- MCPollLimit
  ShutdownAfterRun = TRUE
  QueueSize = 1
  MaxEdits = 1
  MaxFailures = 1
SPECIFICATION Spec
INVARIANTS HandledAlone SettledIsFresh
PROPERTIES DaemonEnds RequestEnds
CHECK_DEADLOCK FALSE
