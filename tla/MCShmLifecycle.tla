---------------------------- MODULE MCShmLifecycle ----------------------------
(* A state constraint for checking ShmLifecycle with TLC.                   *)
EXTENDS ShmLifecycle

\* State constraint: the two processes are started and stopped one at a time,
\* never while the other is still in its initializeGlobals or its
\* cleanUpGlobals (both may run side by side once started).
SrvTransit == {"getmeta", "online", "numnodes", "destroymeta"}
PrxTransit == {"checkflag", "setnodes", "getlist", "online", "destroylist",
               "destroymeta"}
OneAtATime == ~(srvPc \in SrvTransit /\ prxPc \in PrxTransit)
=============================================================================
