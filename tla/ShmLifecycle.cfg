\* The two processes start (the server with 1 or 2 workers, NUMSEGMENTS = 2)
\* and stop with SIGINT in any interleaving of their steps.
CONSTANTS
  ThreadCounts = {1, 2}
  NUMSEGMENTS = 2
  MaxStarts = 2
  MaxDeletes = 0
  MaxRequests = 1
SPECIFICATION Spec
INVARIANT NodesInMapping
CHECK_DEADLOCK FALSE
