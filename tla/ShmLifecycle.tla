----------------------------- MODULE ShmLifecycle ----------------------------
(***************************************************************************)
(* The life of the two named POSIX shared-memory objects the proxy and the *)
(* server share when both are started with -o: the metanode (METANODENAME: *)
(* serverFlag, proxyFlag, numNodes) and the memnode list (SEGMENTNAME, an  *)
(* array of numNodes memnodes).                                            *)
(*                                                                         *)
(*  - memOps_Create/memOps_Destroy, getMetanode, getMemList,               *)
(*    destroyMemList, destroyMetanode of headers/memList.c;                *)
(*  - the shared-memory part of initializeGlobals and cleanUpGlobals of    *)
(*    server.c and proxy.c, and the serverFlag test of sharedProxy;        *)
(*  - the administrative "server DELETE" command (server.c main).          *)
(*                                                                         *)
(* A name is bound to at most one object at a time; shm_unlink removes the *)
(* binding, and a process that has the object mapped keeps using it.      *)
(* Objects are numbered in order of creation.  A process step is one       *)
(* statement of the code that touches the objects; each process also may  *)
(* be killed at any point, which unmaps without any cleanup; crashes and  *)
(* the administrator's DELETE are in NextWithFailures only.              *)
(***************************************************************************)
EXTENDS Naturals

CONSTANTS
  ThreadCounts,   \* numThreads the server may be started with (argv[2])
  NUMSEGMENTS,    \* constants.h: node count the proxy uses on its own
  MaxStarts,      \* starts of each process (bound)
  MaxDeletes,     \* runs of "server DELETE" (bound)
  MaxRequests     \* shared-path requests the proxy posts (bound)

ASSUME /\ ThreadCounts \subseteq Nat \ {0} /\ NUMSEGMENTS \in Nat \ {0}
       /\ MaxStarts \in Nat /\ MaxDeletes \in Nat /\ MaxRequests \in Nat

\* Each start and each DELETE creates at most two objects.
MaxObjects == 2 * (2 * MaxStarts + MaxDeletes)
Ids   == 1..MaxObjects
NoObj == 0

VARIABLES
  metaName, listName,       \* object bound to METANODENAME / SEGMENTNAME
  nextId,                   \* id the next created object gets
  serverFlag, proxyFlag,    \* metanode fields, per metanode object
  numNodes,
  listSize,                 \* memnodes an object was ftruncate'd to
  srvPc, srvMeta, srvList,  \* server: where it is, objects it has mapped,
  srvMap, srvNodes,         \*   memnodes it mapped, its local "nodes"
  prxPc, prxMeta, prxList,  \* proxy: the same
  prxMap,
  starts, deletes, posted   \* bounds: starts per process, DELETEs, requests

vars == <<metaName, listName, nextId, serverFlag, proxyFlag, numNodes,
          listSize, srvPc, srvMeta, srvList, srvMap, srvNodes, prxPc,
          prxMeta, prxList, prxMap, starts, deletes, posted>>

objVars == <<metaName, listName, nextId, serverFlag, proxyFlag, numNodes, listSize>>
srvVars == <<srvPc, srvMeta, srvList, srvMap, srvNodes>>
prxVars == <<prxPc, prxMeta, prxList, prxMap>>

-----------------------------------------------------------------------------
(* memList.c                                                               *)

\* memOps_Create: the object shm_open(O_CREAT | O_EXCL) makes, or on EEXIST
\* the one already bound to the name (exists = 1).
Opened(name) == IF name # NoObj THEN name ELSE nextId

\* getMetanode(): create-or-attach; only a new metanode gets
\* serverFlag = proxyFlag = OFFLINE, numNodes = 0.
getMetanode ==
  /\ metaName' = Opened(metaName)
  /\ IF metaName # NoObj
     THEN UNCHANGED <<nextId, serverFlag, proxyFlag, numNodes>>
     ELSE /\ nextId'     = nextId + 1
          /\ serverFlag' = [serverFlag EXCEPT ![nextId] = "OFFLINE"]
          /\ proxyFlag'  = [proxyFlag EXCEPT ![nextId] = "OFFLINE"]
          /\ numNodes'   = [numNodes EXCEPT ![nextId] = 0]

\* getMemList(k): create-or-attach a list of k memnodes (a new one is
\* ftruncate'd to k nodes; the node states are set only then).
getMemList(k) ==
  /\ listName' = Opened(listName)
  /\ IF listName # NoObj
     THEN UNCHANGED <<nextId, listSize>>
     ELSE /\ nextId'   = nextId + 1
          /\ listSize' = [listSize EXCEPT ![nextId] = k]

\* mmap() of zero bytes fails with EINVAL: getMemList(0) returns NULL
\* (after shm_open has already created and named the object).
MapFails(k) == k = 0

-----------------------------------------------------------------------------
(* Server: initializeGlobals (OPTIMIZED), cleanUpGlobals.                   *)

\* nodes = numThreads; shList = getMemList(nodes).
SrvGetList ==
  /\ srvPc = "down"
  /\ starts["server"] < MaxStarts
  /\ \E k \in ThreadCounts :
       /\ getMemList(k)
       /\ srvList'  = Opened(listName)
       /\ srvMap'   = k
       /\ srvNodes' = k
  /\ srvPc'  = "getmeta"
  /\ starts' = [starts EXCEPT !["server"] = @ + 1]
  /\ UNCHANGED <<metaName, serverFlag, proxyFlag, numNodes, srvMeta,
                 prxVars, deletes, posted>>

\* shMeta = getMetanode().
SrvGetMeta ==
  /\ srvPc = "getmeta"
  /\ getMetanode
  /\ srvMeta' = Opened(metaName)
  /\ srvPc'   = "online"
  /\ UNCHANGED <<listName, listSize, srvList, srvMap, srvNodes, prxVars,
                 starts, deletes, posted>>

\* shMeta->serverFlag = ONLINE.
SrvSetOnline ==
  /\ srvPc = "online"
  /\ serverFlag' = [serverFlag EXCEPT ![srvMeta] = "ONLINE"]
  /\ srvPc'      = "numnodes"
  /\ UNCHANGED <<metaName, listName, nextId, proxyFlag, numNodes, listSize,
                 srvMeta, srvList, srvMap, srvNodes, prxVars, starts,
                 deletes, posted>>

\* shMeta->numNodes = nodes; the server then runs.
SrvSetNumNodes ==
  /\ srvPc = "numnodes"
  /\ numNodes' = [numNodes EXCEPT ![srvMeta] = srvNodes]
  /\ srvPc'    = "up"
  /\ UNCHANGED <<metaName, listName, nextId, serverFlag, proxyFlag, listSize,
                 srvMeta, srvList, srvMap, srvNodes, prxVars, starts,
                 deletes, posted>>

\* SIGINT, workers joined: destroyMemList -> memOps_Destroy(SEGMENTNAME):
\* munmap, shm_unlink of whatever the name is bound to now.
SrvDestroyList ==
  /\ srvPc = "up"
  /\ listName' = NoObj
  /\ srvPc'    = "destroymeta"
  /\ UNCHANGED <<metaName, nextId, serverFlag, proxyFlag, numNodes, listSize,
                 srvMeta, srvList, srvMap, srvNodes, prxVars, starts,
                 deletes, posted>>

\* destroyMetanode -> memOps_Destroy(METANODENAME); the process exits.
\* serverFlag is left ONLINE in the object.
SrvDestroyMeta ==
  /\ srvPc = "destroymeta"
  /\ metaName' = NoObj
  /\ srvPc'    = "down"
  /\ srvMeta'  = NoObj /\ srvList' = NoObj /\ srvMap' = 0 /\ srvNodes' = 0
  /\ UNCHANGED <<listName, nextId, serverFlag, proxyFlag, numNodes, listSize,
                 prxVars, starts, deletes, posted>>

\* The server dies (kill, exit(MEMALLOC_FAILURE), a fault): no cleanup.
SrvCrash ==
  /\ srvPc # "down"
  /\ srvPc'   = "down"
  /\ srvMeta' = NoObj /\ srvList' = NoObj /\ srvMap' = 0 /\ srvNodes' = 0
  /\ UNCHANGED <<objVars, prxVars, starts, deletes, posted>>

-----------------------------------------------------------------------------
(* Proxy: initializeGlobals (OPTIMIZED), sharedProxy, cleanUpGlobals.       *)

\* shMeta = getMetanode().
PrxGetMeta ==
  /\ prxPc = "down"
  /\ starts["proxy"] < MaxStarts
  /\ getMetanode
  /\ prxMeta' = Opened(metaName)
  /\ prxPc'   = "checkflag"
  /\ starts'  = [starts EXCEPT !["proxy"] = @ + 1]
  /\ UNCHANGED <<listName, listSize, srvVars, prxList, prxMap, deletes, posted>>

\* if (shMeta->serverFlag == OFFLINE) shMeta->numNodes = NUMSEGMENTS.
PrxCheckFlag ==
  /\ prxPc = "checkflag"
  /\ prxPc' = IF serverFlag[prxMeta] = "OFFLINE" THEN "setnodes" ELSE "getlist"
  /\ UNCHANGED <<objVars, srvVars, prxMeta, prxList, prxMap, starts,
                 deletes, posted>>

PrxSetNodes ==
  /\ prxPc = "setnodes"
  /\ numNodes' = [numNodes EXCEPT ![prxMeta] = NUMSEGMENTS]
  /\ prxPc'    = "getlist"
  /\ UNCHANGED <<metaName, listName, nextId, serverFlag, proxyFlag, listSize,
                 srvVars, prxMeta, prxList, prxMap, starts, deletes, posted>>

\* shList = getMemList(shMeta->numNodes); NULL: exit(MEMALLOC_FAILURE).
PrxGetList ==
  LET k == numNodes[prxMeta] IN
  /\ prxPc = "getlist"
  /\ getMemList(k)
  /\ IF MapFails(k)
     THEN /\ prxPc' = "failed"
          /\ UNCHANGED <<prxList, prxMap>>
     ELSE /\ prxList' = Opened(listName)
          /\ prxMap'  = k
          /\ prxPc'   = "online"
  /\ UNCHANGED <<metaName, serverFlag, proxyFlag, numNodes, srvVars, prxMeta,
                 starts, deletes, posted>>

\* shMeta->proxyFlag = ONLINE; the proxy then runs.
PrxSetOnline ==
  /\ prxPc = "online"
  /\ proxyFlag' = [proxyFlag EXCEPT ![prxMeta] = "ONLINE"]
  /\ prxPc'     = "up"
  /\ UNCHANGED <<metaName, listName, nextId, serverFlag, numNodes, listSize,
                 srvVars, prxMeta, prxList, prxMap, starts, deletes, posted>>

\* sharedProxy for a request to the local server: serverFlag OFFLINE means
\* sockets; otherwise the request is posted on a node of shList.
PrxRequest ==
  /\ prxPc = "up"
  /\ posted < MaxRequests
  /\ serverFlag[prxMeta] = "ONLINE"
  /\ posted' = posted + 1
  /\ UNCHANGED <<objVars, srvVars, prxVars, starts, deletes>>

\* SIGINT, workers joined: the shared objects are destroyed only if the
\* metanode says the server is OFFLINE.
PrxCleanUp ==
  /\ prxPc = "up"
  /\ IF serverFlag[prxMeta] = "OFFLINE"
     THEN prxPc' = "destroylist" /\ UNCHANGED <<prxMeta, prxList, prxMap>>
     ELSE prxPc' = "down" /\ prxMeta' = NoObj /\ prxList' = NoObj /\ prxMap' = 0
  /\ UNCHANGED <<objVars, srvVars, starts, deletes, posted>>

\* destroyMemList(shList, shMeta->numNodes): shm_unlink(SEGMENTNAME).
PrxDestroyList ==
  /\ prxPc = "destroylist"
  /\ listName' = NoObj
  /\ prxPc'    = "destroymeta"
  /\ UNCHANGED <<metaName, nextId, serverFlag, proxyFlag, numNodes, listSize,
                 srvVars, prxMeta, prxList, prxMap, starts, deletes, posted>>

\* destroyMetanode(shMeta): shm_unlink(METANODENAME); the process exits.
PrxDestroyMeta ==
  /\ prxPc = "destroymeta"
  /\ metaName' = NoObj
  /\ prxPc'    = "down"
  /\ prxMeta'  = NoObj /\ prxList' = NoObj /\ prxMap' = 0
  /\ UNCHANGED <<listName, nextId, serverFlag, proxyFlag, numNodes, listSize,
                 srvVars, starts, deletes, posted>>

\* The proxy dies without cleanup.
PrxCrash ==
  /\ prxPc \notin {"down", "failed"}
  /\ prxPc'   = "down"
  /\ prxMeta' = NoObj /\ prxList' = NoObj /\ prxMap' = 0
  /\ UNCHANGED <<objVars, srvVars, starts, deletes, posted>>

-----------------------------------------------------------------------------
(* "server DELETE": the administrator's cleanup of abandoned objects.  It  *)
(* runs to completion in one step.                                         *)

\* getMetanode(); numNodes == 0: "Accidental use", exit; otherwise
\* getMemList(numNodes), destroyMemList, destroyMetanode.
AdminDelete ==
  LET m == Opened(metaName)
      n == IF metaName # NoObj THEN numNodes[metaName] ELSE 0
  IN /\ deletes < MaxDeletes
     /\ deletes' = deletes + 1
     /\ IF n = 0
        THEN /\ getMetanode
             /\ UNCHANGED <<listName, listSize>>
        ELSE /\ metaName' = NoObj
             /\ listName' = NoObj
             /\ IF listName # NoObj
                THEN UNCHANGED <<nextId, listSize>>
                ELSE /\ nextId'   = nextId + 1
                     /\ listSize' = [listSize EXCEPT ![nextId] = n]
             /\ UNCHANGED <<serverFlag, proxyFlag, numNodes>>
     /\ UNCHANGED <<srvVars, prxVars, starts, posted>>

-----------------------------------------------------------------------------

Init ==
  /\ metaName = NoObj /\ listName = NoObj /\ nextId = 1
  /\ serverFlag = [i \in Ids |-> "OFFLINE"]
  /\ proxyFlag  = [i \in Ids |-> "OFFLINE"]
  /\ numNodes   = [i \in Ids |-> 0]
  /\ listSize   = [i \in Ids |-> 0]
  /\ srvPc = "down" /\ srvMeta = NoObj /\ srvList = NoObj
  /\ srvMap = 0 /\ srvNodes = 0
  /\ prxPc = "down" /\ prxMeta = NoObj /\ prxList = NoObj /\ prxMap = 0
  /\ starts = [p \in {"server", "proxy"} |-> 0]
  /\ deletes = 0 /\ posted = 0

Server ==
  \/ SrvGetList \/ SrvGetMeta \/ SrvSetOnline \/ SrvSetNumNodes
  \/ SrvDestroyList \/ SrvDestroyMeta

Proxy ==
  \/ PrxGetMeta \/ PrxCheckFlag \/ PrxSetNodes \/ PrxGetList \/ PrxSetOnline
  \/ PrxRequest \/ PrxCleanUp \/ PrxDestroyList \/ PrxDestroyMeta

\* Both processes started and stopped with SIGINT.  They may stay stopped
\* for good, so no fairness is assumed.
Next == Server \/ Proxy

Spec == Init /\ [][Next]_vars

\* The same, with processes killed and the administrator's cleanup.
NextWithFailures == Next \/ SrvCrash \/ PrxCrash \/ AdminDelete

SpecWithFailures == Init /\ [][NextWithFailures]_vars

-----------------------------------------------------------------------------
(* Properties.                                                             *)

\* findState() scans shMeta->numNodes memnodes of shList, in the server's
\* poll and in every sharedProxy: while a process runs, the numNodes its
\* metanode holds never exceeds the memnodes it mapped, nor the size the
\* list object was created with (mmap past the object raises SIGBUS).
\* Spec section 3 sizes the region nodeCount * sizeof(node) for every
\* caller; getMemList attaches an existing object with the caller's count.
NodesInMapping ==
  /\ srvPc = "up" =>
       numNodes[srvMeta] <= srvMap /\ numNodes[srvMeta] <= listSize[srvList]
  /\ prxPc = "up" =>
       numNodes[prxMeta] <= prxMap /\ numNodes[prxMeta] <= listSize[prxList]

\* Spec section 8: a proxy request goes over shared memory only while a
\* server runs (or has published ONLINE and is about to run its poll loop)
\* on the same metanode and memnode list; otherwise sharedProxy must fall
\* back to sockets (serverFlag OFFLINE).
SharedPathToLiveServer ==
  [][posted' > posted =>
       /\ srvPc \in {"numnodes", "up"}
       /\ srvMeta = prxMeta /\ srvList = prxList]_vars

=============================================================================
