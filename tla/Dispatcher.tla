------------------------------ MODULE Dispatcher -----------------------------
(***************************************************************************)
(* The worker pool of the server and of the proxy, which are built the     *)
(* same way:                                                               *)
(*                                                                         *)
(*  - the main thread's loop (server.c / proxy.c main): while LOOP, accept *)
(*    a connection and addTail a PROCESS item; the server started with -o  *)
(*    first polls the memnodes and addTails a SHARED item, and its socket  *)
(*    is non-blocking;                                                     *)
(*  - the workers' handleClient loop: lock mConList, wait on the condition *)
(*    variable while the list is empty, removeHead, unlock, then exit on   *)
(*    TERMINATE or serve the item;                                         *)
(*  - catchInterrupt, the SIGINT handler: LOOP = 0, then one TERMINATE     *)
(*    item per worker, each under mConList with a broadcast;               *)
(*  - cleanUpGlobals: pthread_join of every worker, then destroyAll.       *)
(*                                                                         *)
(* The handler runs on whichever thread the kernel delivers SIGINT to; that *)
(* thread's own code is suspended until the handler returns.  Serving an   *)
(* item (checkAndSend, the proxy's forwarding, the shared transfer) is one *)
(* step here; ShmTransfer models the shared one.                           *)
(***************************************************************************)
EXTENDS ConList, Integers

CONSTANTS
  NumThreads,     \* numThreads (argv): size of the worker pool
  NonBlocking,    \* TRUE: the server with -o (non-blocking accept, shm poll)
  MaxClients,     \* connections accepted (bound)
  MaxShared,      \* proxy requests found by the shared-memory poll (bound)
  MaxSignals      \* SIGINTs delivered (bound)

ASSUME NumThreads \in Nat \ {0} /\ NonBlocking \in BOOLEAN
       /\ MaxClients \in Nat /\ MaxShared \in Nat /\ MaxSignals \in Nat

Main     == 0
Workers  == 1..NumThreads        \* workers[0..numThreads-1], joined in order
Threads  == {Main} \cup Workers
NoThread == -1

VARIABLES
  LOOP,         \* the global loop flag
  mtx,          \* holder of mConList
  waiters,      \* threads blocked in pthread_cond_wait(&free_conn)
  pc,           \* each thread's place in its own code
  hpc,          \* each thread's place in catchInterrupt ("none": not in it)
  hi,           \* catchInterrupt's loop counter i, per thread
  item,         \* the block a worker took with removeHead
  clients,      \* connections accepted so far (conn ids 1..clients)
  shared,       \* proxy requests the poll found so far
  sigs,         \* SIGINTs delivered so far
  intr,         \* the main thread's accept was interrupted by the handler
  joined,       \* the next worker cleanUpGlobals joins
  served,       \* connections a worker has served
  preStop       \* connections queued before the first TERMINATE item

dispVars == <<LOOP, mtx, waiters, pc, hpc, hi, item, clients, shared, sigs,
              intr, joined, served, preStop>>
vars == <<listVars, dispVars>>

Running(t) == hpc[t] = "none"

\* Some thread has started putting TERMINATE items on the list.
Stopping == \E t \in Threads : hi[t] > 0

\* pthread_mutex_lock(&mConList) by t, then t goes on at label to.
Acquire(t, to) ==
  /\ mtx = NoThread
  /\ mtx' = t
  /\ pc' = [pc EXCEPT ![t] = to]

-----------------------------------------------------------------------------
(* Main thread.                                                            *)

\* while (LOOP): the -o server polls shared memory first.
MainTop ==
  /\ Running(Main) /\ pc[Main] = "top"
  /\ pc' = [pc EXCEPT ![Main] = IF ~LOOP THEN "join"
                                ELSE IF NonBlocking THEN "poll" ELSE "accept"]
  /\ UNCHANGED <<listVars, LOOP, mtx, waiters, hpc, hi, item, clients, shared,
                 sigs, intr, joined, served, preStop>>

\* proxyFlag ONLINE and a memnode WAITING_INIT_SRVR with serverState IDLE:
\* serverState = BUSY.
MainPollHit ==
  /\ Running(Main) /\ pc[Main] = "poll"
  /\ shared < MaxShared
  /\ shared' = shared + 1
  /\ pc' = [pc EXCEPT ![Main] = "lockS"]
  /\ UNCHANGED <<listVars, LOOP, mtx, waiters, hpc, hi, item, clients, sigs,
                 intr, joined, served, preStop>>

MainPollMiss ==
  /\ Running(Main) /\ pc[Main] = "poll"
  /\ pc' = [pc EXCEPT ![Main] = "accept"]
  /\ UNCHANGED <<listVars, LOOP, mtx, waiters, hpc, hi, item, clients, shared,
                 sigs, intr, joined, served, preStop>>

MainLockShared ==
  /\ Running(Main) /\ pc[Main] = "lockS"
  /\ Acquire(Main, "addS")
  /\ UNCHANGED <<listVars, LOOP, waiters, hpc, hi, item, clients, shared, sigs,
                 intr, joined, served, preStop>>

\* addTail(0, SHARED), broadcast, unlock.
MainAddShared ==
  /\ Running(Main) /\ pc[Main] = "addS"
  /\ addTail(0, "SHARED")
  /\ waiters' = {}
  /\ mtx' = NoThread
  /\ pc' = [pc EXCEPT ![Main] = "accept"]
  /\ UNCHANGED <<LOOP, hpc, hi, item, clients, shared, sigs, intr, joined,
                 served, preStop>>

\* accept() returns a connection (not once the handler has interrupted it).
MainAccept ==
  /\ Running(Main) /\ pc[Main] = "accept"
  /\ ~intr
  /\ clients < MaxClients
  /\ clients' = clients + 1
  /\ pc' = [pc EXCEPT ![Main] = "lockP"]
  /\ UNCHANGED <<listVars, LOOP, mtx, waiters, hpc, hi, item, shared, sigs,
                 intr, joined, served, preStop>>

\* accept() returns -1: EAGAIN on the non-blocking socket, or EINTR after
\* the handler ran on this thread.  !LOOP: break; EAGAIN: continue; any
\* other error: exit(SOCKET_FAILURE).
MainAcceptFails ==
  /\ Running(Main) /\ pc[Main] = "accept"
  /\ NonBlocking \/ intr
  /\ intr' = FALSE
  /\ pc' = [pc EXCEPT ![Main] = IF ~LOOP THEN "join"
                                ELSE IF NonBlocking THEN "top" ELSE "failed"]
  /\ UNCHANGED <<listVars, LOOP, mtx, waiters, hpc, hi, item, clients, shared,
                 sigs, joined, served, preStop>>

MainLockClient ==
  /\ Running(Main) /\ pc[Main] = "lockP"
  /\ Acquire(Main, "addP")
  /\ UNCHANGED <<listVars, LOOP, waiters, hpc, hi, item, clients, shared, sigs,
                 intr, joined, served, preStop>>

\* Mutant: the accepted connection is queued without a broadcast.
MainAddClientNoBroadcast ==
  /\ Running(Main) /\ pc[Main] = "addP"
  /\ addTail(clients, "PROCESS")
  /\ mtx' = NoThread
  /\ pc' = [pc EXCEPT ![Main] = "top"]
  /\ preStop' = IF Stopping THEN preStop ELSE preStop \cup {clients}
  /\ UNCHANGED <<LOOP, waiters, hpc, hi, item, clients, shared, sigs, intr,
                 joined, served>>

\* addTail(clientSock, PROCESS), broadcast, unlock.
MainAddClient ==
  /\ Running(Main) /\ pc[Main] = "addP"
  /\ addTail(clients, "PROCESS")
  /\ waiters' = {}
  /\ mtx' = NoThread
  /\ pc' = [pc EXCEPT ![Main] = "top"]
  /\ preStop' = IF Stopping THEN preStop ELSE preStop \cup {clients}
  /\ UNCHANGED <<LOOP, hpc, hi, item, clients, shared, sigs, intr, joined,
                 served>>

\* cleanUpGlobals: pthread_join(workers[i]) for each i in turn.
MainJoin ==
  /\ Running(Main) /\ pc[Main] = "join"
  /\ joined \in Workers
  /\ pc[joined] = "exited"
  /\ joined' = joined + 1
  /\ UNCHANGED <<listVars, LOOP, mtx, waiters, pc, hpc, hi, item, clients,
                 shared, sigs, intr, served, preStop>>

\* All joined: destroyAll(list); the process exits.
MainDestroy ==
  /\ Running(Main) /\ pc[Main] = "join"
  /\ joined = NumThreads + 1
  /\ destroyAll
  /\ pc' = [pc EXCEPT ![Main] = "done"]
  /\ UNCHANGED <<LOOP, mtx, waiters, hpc, hi, item, clients, shared, sigs,
                 intr, joined, served, preStop>>

-----------------------------------------------------------------------------
(* Workers: handleClient.                                                  *)

WLock(w) ==
  /\ Running(w) /\ pc[w] = "lock"
  /\ Acquire(w, "check")
  /\ UNCHANGED <<listVars, LOOP, waiters, hpc, hi, item, clients, shared,
                 sigs, intr, joined, served, preStop>>

\* while (isEmpty(list)) pthread_cond_wait(...); c = removeHead(list);
\* pthread_mutex_unlock(&mConList).
WCheck(w) ==
  /\ Running(w) /\ pc[w] = "check"
  /\ mtx' = NoThread
  /\ IF isEmpty
     THEN /\ waiters' = waiters \cup {w}
          /\ pc' = [pc EXCEPT ![w] = "wait"]
          /\ UNCHANGED <<listVars, item>>
     ELSE /\ removeHead
          /\ item' = [item EXCEPT ![w] = head]
          /\ pc' = [pc EXCEPT ![w] = "got"]
          /\ UNCHANGED waiters
  /\ UNCHANGED <<LOOP, hpc, hi, clients, shared, sigs, intr, joined, served,
                 preStop>>

\* pthread_cond_wait returns after a broadcast, with mConList held again.
WWake(w) ==
  /\ Running(w) /\ pc[w] = "wait"
  /\ w \notin waiters
  /\ Acquire(w, "check")
  /\ UNCHANGED <<listVars, LOOP, waiters, hpc, hi, item, clients, shared,
                 sigs, intr, joined, served, preStop>>

\* pthread_cond_wait may also return with no broadcast at all.
WSpurious(w) ==
  /\ Running(w) /\ pc[w] = "wait"
  /\ w \in waiters
  /\ waiters' = waiters \ {w}
  /\ Acquire(w, "check")
  /\ UNCHANGED <<listVars, LOOP, hpc, hi, item, clients, shared, sigs, intr,
                 joined, served, preStop>>

\* TERMINATE: free(c), pthread_exit.  Otherwise serve the connection (or
\* the memnode), close it, free(c), and loop.
WServe(w) ==
  LET c == cell[item[w]] IN
  /\ Running(w) /\ pc[w] = "got"
  /\ freeBlock(item[w])
  /\ pc' = [pc EXCEPT ![w] = IF c.action = "TERMINATE" THEN "exited" ELSE "lock"]
  /\ served' = IF c.action = "PROCESS" THEN served \cup {c.conn} ELSE served
  /\ item' = [item EXCEPT ![w] = NULL]
  /\ UNCHANGED <<LOOP, mtx, waiters, hpc, hi, clients, shared, sigs, intr,
                 joined, preStop>>

-----------------------------------------------------------------------------
(* catchInterrupt, run by thread t.                                        *)

\* The kernel runs the handler on a thread that has not exited and is not
\* already in it (SIGINT is blocked while its own handler runs).
Deliver(t) ==
  /\ sigs < MaxSignals
  /\ Running(t) /\ pc[t] \notin {"exited", "done", "failed"}
  /\ sigs' = sigs + 1
  /\ hpc' = [hpc EXCEPT ![t] = "check"]
  /\ intr' = (intr \/ (t = Main /\ pc[Main] = "accept"))
  /\ UNCHANGED <<listVars, LOOP, mtx, waiters, pc, hi, item, clients, shared,
                 joined, served, preStop>>

\* if (!LOOP) return;
HCheck(t) ==
  /\ hpc[t] = "check"
  /\ hpc' = [hpc EXCEPT ![t] = IF LOOP THEN "set" ELSE "none"]
  /\ UNCHANGED <<listVars, LOOP, mtx, waiters, pc, hi, item, clients, shared,
                 sigs, intr, joined, served, preStop>>

\* LOOP = 0; i = 0.
HSet(t) ==
  /\ hpc[t] = "set"
  /\ LOOP' = FALSE
  /\ hi' = [hi EXCEPT ![t] = 0]
  /\ hpc' = [hpc EXCEPT ![t] = "lock"]
  /\ UNCHANGED <<listVars, mtx, waiters, pc, item, clients, shared, sigs, intr,
                 joined, served, preStop>>

\* Mutants: the loop runs to i <= numThreads, or stops one short.
HLockExtra(t) ==
  /\ hpc[t] = "lock"
  /\ IF hi[t] <= NumThreads
     THEN /\ mtx = NoThread
          /\ mtx' = t
          /\ hpc' = [hpc EXCEPT ![t] = "add"]
     ELSE /\ hpc' = [hpc EXCEPT ![t] = "none"]
          /\ UNCHANGED mtx
  /\ UNCHANGED <<listVars, LOOP, waiters, pc, hi, item, clients, shared, sigs,
                 intr, joined, served, preStop>>

HLockShort(t) ==
  /\ hpc[t] = "lock"
  /\ IF hi[t] < NumThreads - 1
     THEN /\ mtx = NoThread
          /\ mtx' = t
          /\ hpc' = [hpc EXCEPT ![t] = "add"]
     ELSE /\ hpc' = [hpc EXCEPT ![t] = "none"]
          /\ UNCHANGED mtx
  /\ UNCHANGED <<listVars, LOOP, waiters, pc, hi, item, clients, shared, sigs,
                 intr, joined, served, preStop>>

\* for (i < numThreads) pthread_mutex_lock(&mConList); on a thread that
\* already holds mConList this never returns.  i = numThreads: return.
HLock(t) ==
  /\ hpc[t] = "lock"
  /\ IF hi[t] < NumThreads
     THEN /\ mtx = NoThread
          /\ mtx' = t
          /\ hpc' = [hpc EXCEPT ![t] = "add"]
     ELSE /\ hpc' = [hpc EXCEPT ![t] = "none"]
          /\ UNCHANGED mtx
  /\ UNCHANGED <<listVars, LOOP, waiters, pc, hi, item, clients, shared, sigs,
                 intr, joined, served, preStop>>

\* addTail(0, TERMINATE), broadcast, unlock, i++.
HAdd(t) ==
  /\ hpc[t] = "add"
  /\ addTail(0, "TERMINATE")
  /\ waiters' = {}
  /\ mtx' = NoThread
  /\ hi' = [hi EXCEPT ![t] = @ + 1]
  /\ hpc' = [hpc EXCEPT ![t] = "lock"]
  /\ UNCHANGED <<LOOP, pc, item, clients, shared, sigs, intr, joined, served,
                 preStop>>

-----------------------------------------------------------------------------

Init ==
  /\ newConList
  /\ LOOP = TRUE
  /\ mtx = NoThread
  /\ waiters = {}
  /\ pc = [t \in Threads |-> IF t = Main THEN "top" ELSE "lock"]
  /\ hpc = [t \in Threads |-> "none"]
  /\ hi = [t \in Threads |-> 0]
  /\ item = [w \in Workers |-> NULL]
  /\ clients = 0 /\ shared = 0 /\ sigs = 0 /\ intr = FALSE
  /\ joined = 1 /\ served = {} /\ preStop = {}

\* The main thread's own steps; new connections and proxy requests arrive
\* when clients send them.
MainStep ==
  \/ MainTop \/ MainPollMiss \/ MainLockShared \/ MainAddShared
  \/ MainAcceptFails \/ MainLockClient \/ MainAddClient \/ MainJoin
  \/ MainDestroy

Arrival == MainPollHit \/ MainAccept

WorkerStep(w) == WLock(w) \/ WCheck(w) \/ WWake(w) \/ WServe(w)

Handler(t) == HCheck(t) \/ HSet(t) \/ HLock(t) \/ HAdd(t)

Next ==
  \/ MainStep \/ Arrival
  \/ \E w \in Workers : WorkerStep(w) \/ WSpurious(w)
  \/ \E t \in Threads : Deliver(t) \/ Handler(t)

\* Every thread is scheduled (preemptive OS threads), and a thread that is
\* again and again able to take mConList eventually gets it (strong
\* fairness): no thread starves on the mutex forever.  Clients, the proxy,
\* the user's SIGINT and spurious wakeups come when they come.
Fairness ==
  /\ SF_vars(MainStep)
  /\ \A w \in Workers : SF_vars(WorkerStep(w))
  /\ \A t \in Threads : SF_vars(Handler(t))

Spec == Init /\ [][Next]_vars /\ Fairness

-----------------------------------------------------------------------------
(* Properties.                                                             *)

Pcs == {"top", "poll", "lockS", "addS", "lockP", "accept", "addP", "join", "done", "failed",
        "lock", "check", "wait", "got", "exited"}

TypeOK ==
  /\ LOOP \in BOOLEAN
  /\ mtx \in Threads \cup {NoThread}
  /\ waiters \subseteq Workers
  /\ pc \in [Threads -> Pcs]
  /\ hpc \in [Threads -> {"none", "check", "set", "lock", "add"}]
  /\ hi \in [Threads -> 0..NumThreads]
  /\ item \in [Workers -> Cells \cup {NULL}]
  /\ head \in Cells \cup {NULL} /\ tail \in Cells \cup {NULL}
  /\ allocated \subseteq Cells
  /\ served \subseteq 1..clients

\* conList.c, as the two processes use it under mConList, is a FIFO: the
\* items the linked blocks hold change only by an append at the back or
\* the removal of the front.
ItemSet == [conn : 0..MaxClients, action : Instructions]

Fifo == INSTANCE WorkQueue WITH queue <- Contents, Items <- ItemSet

QueueIsFifo == Fifo!Spec

\* handleClient's wait loop and the broadcasts of main: a connection queued
\* before shutdown began is eventually served by some worker (no lost
\* wakeup, and no worker leaves while it is ahead of the TERMINATE items).
ClientsServed == \A c \in 1..MaxClients : c \in preStop ~> c \in served

\* catchInterrupt and cleanUpGlobals: after SIGINT every worker takes a
\* TERMINATE item, is joined, and the process gets to exit.
ShutdownCompletes == sigs > 0 ~> pc[Main] = "done"

\* Every connection main accepted has been served (and closed) by the time
\* the process exits.
ConnectionsAnswered == pc[Main] = "done" => 1..clients \subseteq served

=============================================================================
