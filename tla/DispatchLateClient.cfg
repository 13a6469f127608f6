\* The proxy (blocking accept): a connection accepted just before SIGINT.
CONSTANTS
  c1 = c1  c2 = c2  c3 = c3  c4 = c4  c5 = c5
  NULL = NULL
  Cells <- CellSet
  NumThreads = 2
  NonBlocking = FALSE
  MaxClients = 1
  MaxShared = 0
  MaxSignals = 1
SPECIFICATION Spec
ACTION_CONSTRAINT SignalToMain
INVARIANT ConnectionsAnswered
CHECK_DEADLOCK FALSE
