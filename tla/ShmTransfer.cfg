\* One proxy thread, two server threads, one node: segmented transfer in
\* both directions, node reuse across requests, server workers overlapping.
CONSTANTS
  p1 = p1  p2 = p2  s1 = s1  s2 = s2
  NoThread = NoThread
  ProxyThreads <- OneProxy
  ServerThreads <- TwoServers
  NumNodes = 1
  SegmentSize = 2
  ReqLens = {1, 2}
  RespLens = {1, 3}
  MaxRequests = 2
SPECIFICATION Spec
INVARIANT TypeOK
INVARIANT ResponseMatchesRequest
INVARIANT NoFatalExit
PROPERTY RequestAnswered
PROPERTY NodeReleased
