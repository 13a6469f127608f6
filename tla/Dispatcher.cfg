\* The server started with -o: two workers, one connection, one proxy
\* request, one SIGINT, never delivered to the holder of mConList.  The
\* process exits once every worker is joined, so that state is final.
CONSTANTS
  c1 = c1  c2 = c2  c3 = c3  c4 = c4  c5 = c5
  NULL = NULL
  Cells <- CellSet
  NumThreads = 2
  NonBlocking = TRUE
  MaxClients = 1
  MaxShared = 1
  MaxSignals = 1
SPECIFICATION Spec
ACTION_CONSTRAINT SignalNotToHolder
INVARIANT TypeOK
PROPERTY QueueIsFifo
PROPERTY ClientsServed
PROPERTY ShutdownCompletes
CHECK_DEADLOCK FALSE
