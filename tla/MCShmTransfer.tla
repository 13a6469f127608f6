---------------------------- MODULE MCShmTransfer ----------------------------
(* Model values and bounds for checking ShmTransfer with TLC.               *)
EXTENDS ShmTransfer

CONSTANTS p1, p2, s1, s2

\* One proxy worker (proxy started with 1 thread), two server workers.
OneProxy    == {p1}
TwoProxies  == {p1, p2}
TwoServers  == {s1, s2}

\* State constraint: explore only the behaviours in which no two proxy
\* threads hold the same node at once, to look at what remains once the
\* unlocked findState(IDLE) of sharedProxy is ruled out.
ClaimsDistinct ==
  \A p, q \in ProxyThreads :
    (p # q /\ pc[p] \notin {"idle", "claim"} /\ pc[q] \notin {"idle", "claim"})
      => nd[p] # nd[q]
=============================================================================
