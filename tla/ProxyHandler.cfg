\* Absolute-form requests to local and remote hosts, requests without a
\* Host line or malformed, well-formed responses, each cut off by the peer
\* after any prefix; the proxy runs with -o, and the server's one recv may
\* return any prefix of the request.
CONSTANTS
  Requests <- AllRequests
  Responses <- WellFormedResponses
  LocalNames <- LocalHosts
  OPTIMIZED = TRUE
  ServerPort = 80
  FileSystem <- MCFileSystem
  RecvWhole = FALSE
SPECIFICATION Spec
INVARIANT HeaderFramed
INVARIANT DeclaredLength
INVARIANT BodyForwarded
INVARIANT RequestRewritten
INVARIANT SuccessAsRequested
INVARIANT ClientCountsBody
CHECK_DEADLOCK FALSE
