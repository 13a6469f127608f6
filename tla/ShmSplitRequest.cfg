\* One proxy thread posting a request longer than one segment.
CONSTANTS
  p1 = p1  p2 = p2  s1 = s1  s2 = s2
  NoThread = NoThread
  ProxyThreads <- OneProxy
  ServerThreads <- TwoServers
  NumNodes = 1
  SegmentSize = 2
  ReqLens = {3}
  RespLens = {1, 3}
  MaxRequests = 2
SPECIFICATION Spec
INVARIANT ResponseMatchesRequest
