\* The same messages; the proxy, run with -o, is asked for the remote host.
CONSTANTS
  Requests <- AllRequests
  Responses <- WellFormedResponses
  LocalNames <- LocalHosts
  OPTIMIZED = TRUE
  ServerPort = 80
  FileSystem <- MCFileSystem
  RecvWhole = TRUE
SPECIFICATION Spec
INVARIANT SharedOnlyLocal
CHECK_DEADLOCK FALSE
