----------------------------- MODULE ShmTransfer -----------------------------
(***************************************************************************)
(* The shared-memory request/response channel between the proxy and the    *)
(* origin server (both started with -o on one host).                       *)
(*                                                                         *)
(*  - the memnode list of headers/memList.c: per node a buffer (mem,       *)
(*    spaceUsed), the two state flags proxyState/serverState, a mutex and  *)
(*    a condition variable;                                                *)
(*  - the proxy worker's sharedProxy() (proxy.c), which claims an IDLE     *)
(*    node, posts the request and reads the response back;                 *)
(*  - the server main loop's shared-memory poll (server.c main), which     *)
(*    spots a claimed node and queues a SHARED work item;                  *)
(*  - the server worker's SHARED branch of handleClient() and the shared   *)
(*    half of checkAndSend() and sendResponse() (server.c);                *)
(*  - sendShared()/receiveShared() (functions/processShared.c), the        *)
(*    segmented ping-pong transfer used by both sides.                     *)
(*                                                                         *)
(* A payload is abstracted to its identity and length; a segment written   *)
(* by setMapping() is the record [msg, off, len] of the bytes it holds.    *)
(* Steps taken while holding a node's mutex are atomic with respect to the *)
(* other holders of that mutex; the state writes the code does outside the *)
(* mutex (claiming, serverState := WAITING_CONT_PRXY / IDLE, proxyState := *)
(* IDLE) are steps of their own.                                           *)
(***************************************************************************)
EXTENDS Naturals, Sequences, SequencesExt, FiniteSets

CONSTANTS
  ProxyThreads,   \* proxy worker threads (proxy.c handleClient)
  ServerThreads,  \* server worker threads (server.c handleClient)
  NumNodes,       \* shMeta->numNodes, memnodes in the shared list
  SegmentSize,    \* SEGMENTSIZE, bytes one memnode buffer holds
  ReqLens,        \* lengths of the request headers clients send
  RespLens,       \* lengths (header + body) of the responses checkAndSend builds
  MaxRequests,    \* requests each proxy thread serves (bound)
  NoThread        \* model value: a mutex nobody holds

ASSUME /\ ProxyThreads # {} /\ ServerThreads # {}
       /\ ProxyThreads \cap ServerThreads = {}
       /\ NoThread \notin ProxyThreads \cup ServerThreads
       /\ NumNodes \in Nat \ {0} /\ SegmentSize \in Nat \ {0}
       /\ ReqLens \subseteq Nat /\ RespLens \subseteq Nat
       /\ MaxRequests \in Nat

Threads == ProxyThreads \cup ServerThreads
Nodes   == 1..NumNodes

\* state_t of memList.h
States == {"IDLE", "BUSY", "WAITING_INIT_SRVR", "WAITING_CONT_PRXY",
           "WAITING_CONT_SRVR", "COMPLETE"}

VARIABLES
  proxyState, serverState,  \* memnode.proxyState / memnode.serverState
  mem, spaceUsed,           \* memnode.mem (last segment written) / .spaceUsed
  owner,                    \* holder of memnode.mutex, or NoThread
  waiters,                  \* threads blocked on memnode.condition
  queue,                    \* the server's conlist of work items
  accPc, accNode,           \* server main loop: where it is, node it found
  pc,                       \* program counter of every worker thread
  nd,                       \* the memnode a thread works on (0: none)
  role, msg, total, sent,   \* sendShared locals: isServer, payload, length, totalBytes
  reqLen, served, got,      \* proxy thread: request length, requests done, response read
  line                      \* server thread: checkAndSend's line[] as segments

vars == <<proxyState, serverState, mem, spaceUsed, owner, waiters, queue,
          accPc, accNode, pc, nd, role, msg, total, sent, reqLen, served,
          got, line>>

-----------------------------------------------------------------------------
(* Payloads and segments.                                                  *)

\* Identity of the k-th request of proxy thread p, and of a response.
ReqId(p, k) == <<p, k>>
RespTo(r)   == <<"resp", r>>
Garbled     == <<"garbled">>        \* what the server made of a mixed-up line[]

\* The memory of a node before anything is written: ftruncate'd zeros.
NoMsg     == <<"none">>
NoSegment == [msg |-> NoMsg, off |-> 0, len |-> 0]

MinOf(a, b) == IF a < b THEN a ELSE b

\* Reference: the segments a payload of length len is cut into, SEGMENTSIZE
\* bytes each but the last, in order; ceil(len / SEGMENTSIZE) of them.
RECURSIVE SegmentsFrom(_, _, _)
SegmentsFrom(m, o, len) ==
  IF o >= len THEN <<>>
  ELSE <<[msg |-> m, off |-> o, len |-> MinOf(SegmentSize, len - o)]>>
         \o SegmentsFrom(m, o + SegmentSize, len)
Segments(m, len) == SegmentsFrom(m, 0, len)

\* Number of bytes in a sequence of segments.
Bytes(segs) == FoldLeft(LAMBDA acc, s : acc + s.len, 0, segs)

\* The request checkAndSend parses out of line[]: well formed only if line[]
\* is exactly the segmentation of one request.
ReqOf(segs) ==
  IF segs # <<>> /\ segs = Segments(segs[1].msg, Bytes(segs))
  THEN segs[1].msg ELSE Garbled

-----------------------------------------------------------------------------
(* memList.c helpers and the pthread primitives on a memnode.              *)

\* findState(): index of the first node whose proxyState is s, 0 for NULL.
findState(s) == SelectInSeq([n \in Nodes |-> proxyState[n]], LAMBDA v : v = s)

\* setMapping(): copy a segment into the node and record its length.
setMapping(n, seg) ==
  /\ mem'       = [mem EXCEPT ![n] = seg]
  /\ spaceUsed' = [spaceUsed EXCEPT ![n] = seg.len]

\* receiveShared(): a copy of the node's segment, NULL (here NoSegment) when
\* spaceUsed is 0.
receiveShared(n) == IF spaceUsed[n] = 0 THEN NoSegment ELSE mem[n]

\* pthread_cond_signal: wake one thread blocked on the node, if any.
Signal(n) ==
  \/ waiters[n] = {} /\ UNCHANGED waiters
  \/ \E w \in waiters[n] : waiters' = [waiters EXCEPT ![n] = @ \ {w}]

\* pthread_cond_signal followed by pthread_cond_wait by t: the mutex is
\* released and t joins the waiters (a signal never wakes its own sender).
SignalAndWait(t, n) ==
  /\ owner' = [owner EXCEPT ![n] = NoThread]
  /\ \/ waiters[n] = {} /\ waiters' = [waiters EXCEPT ![n] = {t}]
     \/ \E w \in waiters[n] :
          waiters' = [waiters EXCEPT ![n] = (@ \ {w}) \cup {t}]

\* pthread_cond_wait by t alone.
Wait(t, n) ==
  /\ owner'   = [owner EXCEPT ![n] = NoThread]
  /\ waiters' = [waiters EXCEPT ![n] = @ \cup {t}]

\* Where a thread blocked in pthread_cond_wait goes once it has the mutex back.
WaitPcs == {"p_initwait", "p_recvwait", "s_reqwait", "send_wait", "send_lastwait"}

AfterSend(t) == IF t \in ProxyThreads THEN "p_recvcheck" ELSE "s_unlock"

Resume(t) ==
  CASE pc[t] = "p_initwait"    -> "p_send"
    [] pc[t] = "p_recvwait"    -> "p_recvread"
    [] pc[t] = "s_reqwait"     -> "s_read"
    [] pc[t] = "send_wait"     -> "send_seg"
    [] pc[t] = "send_lastwait" -> AfterSend(t)

\* Return from pthread_cond_wait: signalled, and the mutex is free again.
Wake(t) ==
  /\ pc[t] \in WaitPcs
  /\ t \notin waiters[nd[t]]
  /\ owner[nd[t]] = NoThread
  /\ owner' = [owner EXCEPT ![nd[t]] = t]
  /\ pc'    = [pc EXCEPT ![t] = Resume(t)]
  /\ UNCHANGED <<proxyState, serverState, mem, spaceUsed, waiters, queue,
                 accPc, accNode, nd, role, msg, total, sent, reqLen, served,
                 got, line>>

-----------------------------------------------------------------------------
(* sendShared(): entered with the node's mutex held.  The caller's role is *)
(* decided by proxyState == COMPLETE at entry; theState is then            *)
(* serverState for the "server" role and proxyState for the "proxy" role.  *)

SetTheState(t, n, v) ==
  IF role[t] = "server"
  THEN serverState' = [serverState EXCEPT ![n] = v] /\ UNCHANGED proxyState
  ELSE proxyState'  = [proxyState EXCEPT ![n] = v]  /\ UNCHANGED serverState

\* Entry: choose theState, copy header+body (payload m of length len).
sendSharedEntry(t, m, len) ==
  /\ role'  = [role EXCEPT ![t] = IF proxyState[nd[t]] = "COMPLETE"
                                  THEN "server" ELSE "proxy"]
  /\ msg'   = [msg EXCEPT ![t] = m]
  /\ total' = [total EXCEPT ![t] = len]
  /\ sent'  = [sent EXCEPT ![t] = 0]
  /\ pc'    = [pc EXCEPT ![t] = IF len = 0 THEN AfterSend(t) ELSE "send_seg"]

\* Mutant: setMapping() handed the whole remainder, SEGMENTSIZE ignored.
sendSharedSegmentNoClamp(t) ==
  LET n       == nd[t]
      toWrite == total[t] - sent[t]
  IN /\ pc[t] = "send_seg"
     /\ setMapping(n, [msg |-> msg[t], off |-> sent[t], len |-> toWrite])
     /\ sent'      = [sent EXCEPT ![t] = total[t]]
     /\ SetTheState(t, n, "COMPLETE")
     /\ IF role[t] = "proxy"
        THEN /\ Signal(n) /\ UNCHANGED owner
             /\ pc' = [pc EXCEPT ![t] = AfterSend(t)]
        ELSE /\ SignalAndWait(t, n)
             /\ pc' = [pc EXCEPT ![t] = "send_lastwait"]
     /\ UNCHANGED <<queue, accPc, accNode, nd, role, msg, total, reqLen,
                    served, got, line>>

\* One pass of the while loop: theState = BUSY, setMapping() of the next
\* min(remaining, SEGMENTSIZE) bytes, then COMPLETE or WAITING_CONT_*,
\* signal, and wait (the last pass waits only in the server role).
sendSharedSegment(t) ==
  LET n       == nd[t]
      toWrite == MinOf(SegmentSize, total[t] - sent[t])
      done    == sent[t] + toWrite = total[t]
  IN /\ pc[t] = "send_seg"
     /\ setMapping(n, [msg |-> msg[t], off |-> sent[t], len |-> toWrite])
     /\ sent'      = [sent EXCEPT ![t] = sent[t] + toWrite]
     /\ SetTheState(t, n, IF done THEN "COMPLETE"
                          ELSE IF role[t] = "server" THEN "WAITING_CONT_PRXY"
                          ELSE "WAITING_CONT_SRVR")
     /\ IF done /\ role[t] = "proxy"
        THEN /\ Signal(n) /\ UNCHANGED owner
             /\ pc' = [pc EXCEPT ![t] = AfterSend(t)]
        ELSE /\ SignalAndWait(t, n)
             /\ pc' = [pc EXCEPT ![t] = IF done THEN "send_lastwait" ELSE "send_wait"]
     /\ UNCHANGED <<queue, accPc, accNode, nd, role, msg, total, reqLen,
                    served, got, line>>

-----------------------------------------------------------------------------
(* Proxy worker: handleClient() and sharedProxy() of proxy.c.              *)

\* A client request has been dequeued and its header received.
ProxyRequest(p) ==
  /\ pc[p] = "idle"
  /\ served[p] < MaxRequests
  /\ \E len \in ReqLens : reqLen' = [reqLen EXCEPT ![p] = len]
  /\ got' = [got EXCEPT ![p] = <<>>]
  /\ pc'  = [pc EXCEPT ![p] = "claim"]
  /\ UNCHANGED <<proxyState, serverState, mem, spaceUsed, owner, waiters,
                 queue, accPc, accNode, nd, role, msg, total, sent, served, line>>

\* findState(IDLE), scanning without any lock; no IDLE node: socket fallback.
ProxyClaim(p) ==
  LET n == findState("IDLE") IN
  /\ pc[p] = "claim"
  /\ IF n = 0
     THEN /\ pc'     = [pc EXCEPT ![p] = "idle"]
          /\ served' = [served EXCEPT ![p] = @ + 1]
          /\ UNCHANGED nd
     ELSE /\ pc' = [pc EXCEPT ![p] = "p_lock"]
          /\ nd' = [nd EXCEPT ![p] = n]
          /\ UNCHANGED served
  /\ UNCHANGED <<proxyState, serverState, mem, spaceUsed, owner, waiters,
                 queue, accPc, accNode, role, msg, total, sent, reqLen, got, line>>

\* pthread_mutex_lock; proxyState = WAITING_INIT_SRVR.
ProxyLock(p) ==
  /\ pc[p] = "p_lock"
  /\ owner[nd[p]] = NoThread
  /\ owner'      = [owner EXCEPT ![nd[p]] = p]
  /\ proxyState' = [proxyState EXCEPT ![nd[p]] = "WAITING_INIT_SRVR"]
  /\ pc'         = [pc EXCEPT ![p] = "p_initcheck"]
  /\ UNCHANGED <<serverState, mem, spaceUsed, waiters, queue, accPc, accNode,
                 nd, role, msg, total, sent, reqLen, served, got, line>>

\* if (serverState != WAITING_CONT_PRXY) pthread_cond_wait.
ProxyInitCheck(p) ==
  /\ pc[p] = "p_initcheck"
  /\ IF serverState[nd[p]] # "WAITING_CONT_PRXY"
     THEN Wait(p, nd[p]) /\ pc' = [pc EXCEPT ![p] = "p_initwait"]
     ELSE UNCHANGED <<owner, waiters>> /\ pc' = [pc EXCEPT ![p] = "p_send"]
  /\ UNCHANGED <<proxyState, serverState, mem, spaceUsed, queue, accPc,
                 accNode, nd, role, msg, total, sent, reqLen, served, got, line>>

\* stripAbsURL(); sendShared(header, headerLength, NULL, 0, node).
ProxySend(p) ==
  /\ pc[p] = "p_send"
  /\ sendSharedEntry(p, ReqId(p, served[p] + 1), reqLen[p])
  /\ UNCHANGED <<proxyState, serverState, mem, spaceUsed, owner, waiters,
                 queue, accPc, accNode, nd, reqLen, served, got, line>>

\* Mutant: the proxy reads the node without waiting for the server.
ProxyRecvCheckNoWait(p) ==
  /\ pc[p] = "p_recvcheck"
  /\ pc' = [pc EXCEPT ![p] = "p_recvread"]
  /\ UNCHANGED <<proxyState, serverState, mem, spaceUsed, owner, waiters,
                 queue, accPc, accNode, nd, role, msg, total, sent, reqLen,
                 served, got, line>>

\* Top of the receive loop: if (serverState != COMPLETE) pthread_cond_wait.
ProxyRecvCheck(p) ==
  /\ pc[p] = "p_recvcheck"
  /\ IF serverState[nd[p]] # "COMPLETE"
     THEN Wait(p, nd[p]) /\ pc' = [pc EXCEPT ![p] = "p_recvwait"]
     ELSE UNCHANGED <<owner, waiters>> /\ pc' = [pc EXCEPT ![p] = "p_recvread"]
  /\ UNCHANGED <<proxyState, serverState, mem, spaceUsed, queue, accPc,
                 accNode, nd, role, msg, total, sent, reqLen, served, got, line>>

\* receiveShared() (NULL on spaceUsed == 0: exit(MEMALLOC_FAILURE)), forward
\* the segment to the client, signal; loop while serverState != COMPLETE,
\* otherwise pthread_mutex_unlock.
ProxyRecvRead(p) ==
  LET n == nd[p] IN
  /\ pc[p] = "p_recvread"
  /\ IF receiveShared(n) = NoSegment
     THEN pc' = [pc EXCEPT ![p] = "fatal"] /\ UNCHANGED <<owner, waiters, got>>
     ELSE /\ got' = [got EXCEPT ![p] = Append(@, receiveShared(n))]
          /\ IF serverState[n] # "COMPLETE"
             THEN SignalAndWait(p, n) /\ pc' = [pc EXCEPT ![p] = "p_recvwait"]
             ELSE /\ Signal(n)
                  /\ owner' = [owner EXCEPT ![n] = NoThread]
                  /\ pc' = [pc EXCEPT ![p] = "p_reset"]
  /\ UNCHANGED <<proxyState, serverState, mem, spaceUsed, queue, accPc,
                 accNode, nd, role, msg, total, sent, reqLen, served, line>>

\* node->proxyState = IDLE after the unlock; the request is done.
ProxyReset(p) ==
  /\ pc[p] = "p_reset"
  /\ proxyState' = [proxyState EXCEPT ![nd[p]] = "IDLE"]
  /\ served'     = [served EXCEPT ![p] = @ + 1]
  /\ pc'         = [pc EXCEPT ![p] = "idle"]
  /\ UNCHANGED <<serverState, mem, spaceUsed, owner, waiters, queue, accPc,
                 accNode, nd, role, msg, total, sent, reqLen, got, line>>

-----------------------------------------------------------------------------
(* Server main loop (server.c main, OPTIMIZED, proxyFlag ONLINE): it polls *)
(* forever, the listening socket being non-blocking.                       *)

\* findState(WAITING_INIT_SRVR) and the serverState == IDLE test.
AcceptorScan ==
  LET n == findState("WAITING_INIT_SRVR") IN
  /\ accPc = "scan"
  /\ IF n # 0 /\ serverState[n] = "IDLE"
     THEN accNode' = n /\ accPc' = "mark"
     ELSE UNCHANGED <<accNode, accPc>>
  /\ UNCHANGED <<proxyState, serverState, mem, spaceUsed, owner, waiters,
                 queue, pc, nd, role, msg, total, sent, reqLen, served, got, line>>

\* serverState = BUSY; addTail(0, SHARED) under mConList; broadcast.
AcceptorMark ==
  /\ accPc = "mark"
  /\ serverState' = [serverState EXCEPT ![accNode] = "BUSY"]
  /\ queue'       = Append(queue, "SHARED")
  /\ accPc'       = "scan"
  /\ UNCHANGED <<proxyState, mem, spaceUsed, owner, waiters, accNode, pc, nd,
                 role, msg, total, sent, reqLen, served, got, line>>

-----------------------------------------------------------------------------
(* Server worker: handleClient(), checkAndSend() and sendResponse().       *)

\* Wait for a non-empty list, removeHead().
ServerDequeue(s) ==
  /\ pc[s] = "s_idle"
  /\ queue # <<>>
  /\ queue' = Tail(queue)
  /\ pc'    = [pc EXCEPT ![s] = "s_find"]
  /\ UNCHANGED <<proxyState, serverState, mem, spaceUsed, owner, waiters,
                 accPc, accNode, nd, role, msg, total, sent, reqLen, served,
                 got, line>>

\* SHARED: findState(WAITING_INIT_SRVR) again (a NULL result is dereferenced:
\* the server dies), node->serverState = WAITING_CONT_PRXY.
ServerFind(s) ==
  LET n == findState("WAITING_INIT_SRVR") IN
  /\ pc[s] = "s_find"
  /\ IF n = 0
     THEN pc' = [pc EXCEPT ![s] = "segv"] /\ UNCHANGED <<nd, serverState>>
     ELSE /\ nd' = [nd EXCEPT ![s] = n]
          /\ serverState' = [serverState EXCEPT ![n] = "WAITING_CONT_PRXY"]
          /\ pc' = [pc EXCEPT ![s] = "s_lock"]
  /\ UNCHANGED <<proxyState, mem, spaceUsed, owner, waiters, queue, accPc,
                 accNode, role, msg, total, sent, reqLen, served, got, line>>

\* Mutant: checkAndSend reads at once instead of waiting for the proxy.
ServerLockNoWait(s) ==
  LET n == nd[s] IN
  /\ pc[s] = "s_lock"
  /\ owner[n] = NoThread
  /\ line' = [line EXCEPT ![s] = <<>>]
  /\ Signal(n)
  /\ owner' = [owner EXCEPT ![n] = s]
  /\ pc' = [pc EXCEPT ![s] = "s_read"]
  /\ UNCHANGED <<proxyState, serverState, mem, spaceUsed, queue, accPc,
                 accNode, nd, role, msg, total, sent, reqLen, served, got>>

\* Mutant: the signal to the proxy left out (commented out at server.c:249).
ServerLockNoSignal(s) ==
  LET n == nd[s] IN
  /\ pc[s] = "s_lock"
  /\ owner[n] = NoThread
  /\ line' = [line EXCEPT ![s] = <<>>]
  /\ IF proxyState[n] # "COMPLETE"
     THEN /\ Wait(s, n)
          /\ pc' = [pc EXCEPT ![s] = "s_reqwait"]
     ELSE /\ owner' = [owner EXCEPT ![n] = s]
          /\ pc' = [pc EXCEPT ![s] = "s_read"]
          /\ UNCHANGED waiters
  /\ UNCHANGED <<proxyState, serverState, mem, spaceUsed, queue, accPc,
                 accNode, nd, role, msg, total, sent, reqLen, served, got>>

\* pthread_mutex_lock; checkAndSend: signal the proxy, then the top of the
\* receive loop: if (proxyState != COMPLETE) pthread_cond_wait.
ServerLock(s) ==
  LET n == nd[s] IN
  /\ pc[s] = "s_lock"
  /\ owner[n] = NoThread
  /\ line' = [line EXCEPT ![s] = <<>>]
  /\ IF proxyState[n] # "COMPLETE"
     THEN /\ SignalAndWait(s, n)
          /\ pc' = [pc EXCEPT ![s] = "s_reqwait"]
     ELSE /\ Signal(n)
          /\ owner' = [owner EXCEPT ![n] = s]
          /\ pc' = [pc EXCEPT ![s] = "s_read"]
  /\ UNCHANGED <<proxyState, serverState, mem, spaceUsed, queue, accPc,
                 accNode, nd, role, msg, total, sent, reqLen, served, got>>

\* receiveShared() (NULL: exit(MEMALLOC_FAILURE)), memcpy to line + bytes;
\* while proxyState != COMPLETE signal and wait again, else serverState = BUSY.
ServerRead(s) ==
  LET n == nd[s] IN
  /\ pc[s] = "s_read"
  /\ IF receiveShared(n) = NoSegment
     THEN /\ pc' = [pc EXCEPT ![s] = "fatal"]
          /\ UNCHANGED <<owner, waiters, line, serverState>>
     ELSE /\ line' = [line EXCEPT ![s] = Append(@, receiveShared(n))]
          /\ IF proxyState[n] # "COMPLETE"
             THEN /\ SignalAndWait(s, n)
                  /\ pc' = [pc EXCEPT ![s] = "s_reqwait"]
                  /\ UNCHANGED serverState
             ELSE /\ serverState' = [serverState EXCEPT ![n] = "BUSY"]
                  /\ pc' = [pc EXCEPT ![s] = "s_respond"]
                  /\ UNCHANGED <<owner, waiters>>
  /\ UNCHANGED <<proxyState, mem, spaceUsed, queue, accPc, accNode, nd, role,
                 msg, total, sent, reqLen, served, got>>

\* checkAndSend answers the request it parsed (a file, a listing or an
\* error page) through sendResponse -> sendShared(header, body).
ServerRespond(s) ==
  /\ pc[s] = "s_respond"
  /\ \E len \in RespLens : sendSharedEntry(s, RespTo(ReqOf(line[s])), len)
  /\ UNCHANGED <<proxyState, serverState, mem, spaceUsed, owner, waiters,
                 queue, accPc, accNode, nd, reqLen, served, got, line>>

\* sendResponse: pthread_mutex_unlock after sendShared returns.
ServerUnlock(s) ==
  /\ pc[s] = "s_unlock"
  /\ owner' = [owner EXCEPT ![nd[s]] = NoThread]
  /\ pc'    = [pc EXCEPT ![s] = "s_reset"]
  /\ UNCHANGED <<proxyState, serverState, mem, spaceUsed, waiters, queue,
                 accPc, accNode, nd, role, msg, total, sent, reqLen, served,
                 got, line>>

\* Mutant: the worker forgets to hand the node back (serverState kept).
ServerResetKeep(s) ==
  /\ pc[s] = "s_reset"
  /\ pc' = [pc EXCEPT ![s] = "s_idle"]
  /\ UNCHANGED <<proxyState, serverState, mem, spaceUsed, owner, waiters,
                 queue, accPc, accNode, nd, role, msg, total, sent, reqLen,
                 served, got, line>>

\* handleClient: node->serverState = IDLE.
ServerReset(s) ==
  /\ pc[s] = "s_reset"
  /\ serverState' = [serverState EXCEPT ![nd[s]] = "IDLE"]
  /\ pc'          = [pc EXCEPT ![s] = "s_idle"]
  /\ UNCHANGED <<proxyState, mem, spaceUsed, owner, waiters, queue, accPc,
                 accNode, nd, role, msg, total, sent, reqLen, served, got, line>>

-----------------------------------------------------------------------------

\* getMemList() on first creation: every node IDLE/IDLE, spaceUsed 0.
Init ==
  /\ proxyState  = [n \in Nodes |-> "IDLE"]
  /\ serverState = [n \in Nodes |-> "IDLE"]
  /\ mem         = [n \in Nodes |-> NoSegment]
  /\ spaceUsed   = [n \in Nodes |-> 0]
  /\ owner       = [n \in Nodes |-> NoThread]
  /\ waiters     = [n \in Nodes |-> {}]
  /\ queue       = <<>>
  /\ accPc       = "scan"
  /\ accNode     = 0
  /\ pc          = [t \in Threads |-> IF t \in ProxyThreads THEN "idle" ELSE "s_idle"]
  /\ nd          = [t \in Threads |-> 0]
  /\ role        = [t \in Threads |-> "proxy"]
  /\ msg         = [t \in Threads |-> NoMsg]
  /\ total       = [t \in Threads |-> 0]
  /\ sent        = [t \in Threads |-> 0]
  /\ reqLen      = [p \in ProxyThreads |-> 0]
  /\ served      = [p \in ProxyThreads |-> 0]
  /\ got         = [p \in ProxyThreads |-> <<>>]
  /\ line        = [s \in ServerThreads |-> <<>>]

SendStep(t) == Wake(t) \/ sendSharedSegment(t)

ProxyStep(p) ==
  \/ ProxyClaim(p) \/ ProxyLock(p) \/ ProxyInitCheck(p) \/ ProxySend(p)
  \/ ProxyRecvCheck(p) \/ ProxyRecvRead(p) \/ ProxyReset(p) \/ SendStep(p)

ServerStep(s) ==
  \/ ServerDequeue(s) \/ ServerFind(s) \/ ServerLock(s) \/ ServerRead(s)
  \/ ServerRespond(s) \/ ServerUnlock(s) \/ ServerReset(s) \/ SendStep(s)

Acceptor == AcceptorScan \/ AcceptorMark

Next ==
  \/ \E p \in ProxyThreads : ProxyRequest(p) \/ ProxyStep(p)
  \/ \E s \in ServerThreads : ServerStep(s)
  \/ Acceptor

\* Threads are preemptively scheduled OS threads: none stops forever while it
\* can run.  Clients are not obliged to send requests.
Fairness ==
  /\ \A p \in ProxyThreads : WF_vars(ProxyStep(p))
  /\ \A s \in ServerThreads : WF_vars(ServerStep(s))
  /\ WF_vars(Acceptor)

Spec == Init /\ [][Next]_vars /\ Fairness

-----------------------------------------------------------------------------
(* Properties.                                                             *)

Pcs == {"idle", "claim", "p_lock", "p_initcheck", "p_send", "p_recvcheck",
        "p_recvread", "p_reset", "s_idle", "s_find", "s_lock", "s_read",
        "s_respond", "s_unlock", "s_reset", "send_seg", "fatal", "segv"}
        \cup WaitPcs

TypeOK ==
  /\ proxyState  \in [Nodes -> States]
  /\ serverState \in [Nodes -> States]
  /\ spaceUsed   \in [Nodes -> 0..SegmentSize]
  /\ owner       \in [Nodes -> Threads \cup {NoThread}]
  /\ waiters     \in [Nodes -> SUBSET Threads]
  /\ queue       \in Seq({"SHARED"})
  /\ accPc       \in {"scan", "mark"}
  /\ accNode     \in 0..NumNodes
  /\ pc          \in [Threads -> Pcs]
  /\ nd          \in [Threads -> 0..NumNodes]
  /\ role        \in [Threads -> {"proxy", "server"}]
  /\ served      \in [ProxyThreads -> 0..MaxRequests]

\* End to end: when sharedProxy finishes a request, what it forwarded to the
\* client is, segment by segment and in order, a whole response that the
\* server built for exactly this request (the request crossed the node
\* intact and the response was neither overwritten nor mixed with another).
ResponseMatchesRequest ==
  \A p \in ProxyThreads :
    pc[p] = "p_reset" =>
      /\ Bytes(got[p]) \in RespLens
      /\ got[p] = Segments(RespTo(ReqId(p, served[p] + 1)), Bytes(got[p]))

\* Neither process dies on the shared path: no receiveShared() of an empty
\* node (exit(MEMALLOC_FAILURE)) and no SHARED work item for which the
\* server worker's findState() comes back NULL.
NoFatalExit == \A t \in Threads : pc[t] \notin {"fatal", "segv"}

\* The server main loop queues one SHARED work item per node it marks BUSY,
\* and a worker that takes the item must serve that node: every node still
\* waiting for the server (WAITING_INIT_SRVR) but already marked BUSY has a
\* work item queued or a worker about to look for it.  Otherwise the
\* acceptor, which only marks nodes whose serverState is IDLE, never
\* queues it again and its proxy thread waits forever.
MarkedNodesHaveWorkers ==
  Cardinality({n \in Nodes : serverState[n] = "BUSY"
                             /\ proxyState[n] = "WAITING_INIT_SRVR"})
    <= Len(queue) + Cardinality({s \in ServerThreads : pc[s] = "s_find"})

\* Every request the proxy posts on a node is eventually answered.
RequestAnswered == \A p \in ProxyThreads : pc[p] = "p_lock" ~> pc[p] = "idle"

\* A node that is claimed is eventually IDLE on both sides again.
NodeReleased ==
  \A n \in Nodes :
    proxyState[n] # "IDLE" ~> (proxyState[n] = "IDLE" /\ serverState[n] = "IDLE")

=============================================================================
