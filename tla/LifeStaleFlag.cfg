\* Starts and SIGINT stops one at a time; the proxy keeps running.
CONSTANTS
  ThreadCounts = {1, 2}
  NUMSEGMENTS = 2
  MaxStarts = 2
  MaxDeletes = 0
  MaxRequests = 1
SPECIFICATION Spec
CONSTRAINT OneAtATime
PROPERTY SharedPathToLiveServer
CHECK_DEADLOCK FALSE
