CONSTANTS
  MaxWrites = 2
  SocketSize = 2
  PipeSize = 1
SPECIFICATION SessionSpec
INVARIANTS OutputBeforeExit NoReadAfterShutdown
 
CHECK_DEADLOCK FALSE
