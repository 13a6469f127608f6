\* The same messages; a client whose request has no space in its first line.
CONSTANTS
  Requests <- AllRequests
  Responses <- WellFormedResponses
  LocalNames <- LocalHosts
  OPTIMIZED = TRUE
  ServerPort = 80
  FileSystem <- MCFileSystem
  RecvWhole = TRUE
SPECIFICATION Spec
INVARIANT ProxySurvives
CHECK_DEADLOCK FALSE
