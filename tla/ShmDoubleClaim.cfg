\* Two proxy threads, one node, single-segment requests.
CONSTANTS
  p1 = p1  p2 = p2  s1 = s1  s2 = s2
  NoThread = NoThread
  ProxyThreads <- TwoProxies
  ServerThreads <- TwoServers
  NumNodes = 1
  SegmentSize = 2
  ReqLens = {1}
  RespLens = {1, 3}
  MaxRequests = 2
SPECIFICATION Spec
INVARIANT ResponseMatchesRequest
