\* The server with -o; SIGINT goes to the main thread, at any point of it.
CONSTANTS
  c1 = c1  c2 = c2  c3 = c3  c4 = c4  c5 = c5
  NULL = NULL
  Cells <- CellSet
  NumThreads = 2
  NonBlocking = TRUE
  MaxClients = 1
  MaxShared = 1
  MaxSignals = 1
SPECIFICATION Spec
ACTION_CONSTRAINT SignalToMain
PROPERTY ShutdownCompletes
CHECK_DEADLOCK FALSE
