# ittybittyserver: TLA+ models

These modules model the ittybittyserver web server, its caching proxy and the
shared-memory channel between them. They are written from the C sources under
`src/` and checked with TLC. `PROJECT.json` lists the components, the runs,
the mutants, the source lines each definition models (`map`), the findings
and the hazards.

## The system

| Part | Source | State it keeps | Operations |
|---|---|---|---|
| Server main loop | `server.c` `main`, `initializeGlobals`, `cleanUpGlobals`, `catchInterrupt` | `LOOP`, the connection list, the listening socket, the shared-memory mappings | accept a socket; poll the memnodes for a proxy request (`-o`); SIGINT queues one TERMINATE per worker |
| Server workers | `server.c` `handleClient`, `checkAndSend`; `functions/sendResponse.c`, `sendError.c` | per request: `line[20000]`, the parsed method/path | dequeue; serve a socket (PROCESS) or a memnode (SHARED); parse, check the path, stat, answer with a file, a listing or an error |
| Proxy main loop and workers | `proxy.c` `main`, `handleClient`, `sharedProxy`, init/cleanup | the connection list, the global `serverSock` | dequeue a client; `recvHeader`; take the shared-memory path if the server is local and online, otherwise forward over a socket (`recvAll_Forward`) |
| Memnode list and metanode | `headers/memList.c`, `memList.h` | per node: `mem[SEGMENTSIZE]`, `spaceUsed`, `proxyState`, `serverState`, a mutex and a condition variable; metanode: `serverFlag`, `proxyFlag`, `numNodes` | create or attach (`shm_open`/`mmap`), `findState`, `setMapping`, destroy (`munmap`/`shm_unlink`) |
| Segmented transfer | `functions/processShared.c` | `totalBytes`, the role (`isServer`) | `sendShared`: one segment per pass with a signal/wait ping-pong; `receiveShared` |
| Connection list | `headers/conList.c` | a FIFO of `{conn, action}` | `addTail`, `removeHead`, `isEmpty`, `destroyAll` |
| HTTP framing | `headers/recvAll.c`, `functions/getHeaderField.c`, `strcasestr.c`, `getStatusCode.c`, `xmlrpc.c` | bytes read so far, a 4-byte window | `recvHeader` (find CRLFCRLF), `recvAll`, `recvAll_NoData`, `recvAll_Forward`, header-field and status parsing |
| Image compression | `rpc/`, `functions/xmlrpc.c`, `isJPG.c` | an XML-RPC client | compress a JPEG response |
| Client load generator | `client.c`, `generateSpam.c` | sockets, counters | send N requests and read the responses |

### How the parts interact

The proxy and the server are separate processes on one host. When both run
with `-o`, they share the metanode and a list of memnodes. A proxy worker
claims an IDLE node and sets `proxyState = WAITING_INIT_SRVR`. The server main
loop sees this and queues a SHARED item. A server worker takes the node's
mutex and reads the request segment by segment. It then writes the response
back the same way, and both sides hand the node back to IDLE. Within each
process, worker threads share a connection list protected by a mutex and a
condition variable.

### The hard behaviours

- Proxy threads and server workers interleave on the node flags, and some of
  those flags are written without the mutex (`proxy.c:733`, `:812`;
  `server.c:246-247`, `:261`).
- Each wait is a single `if` with no predicate loop. Whether a segment is lost
  depends on who holds the mutex when a signal is sent.
- Processes start, stop and crash independently while the segments persist.
  A stale mapping or stale flags can outlive the process that set them.
- Buffers have fixed bounds (`line[20000]`, `SEGMENTSIZE`), and lengths are
  parsed from headers.

### What makes each part correct

- Transfer: every request reaches the server whole and in order, and every
  response reaches the proxy whole and goes to the right client. No process
  dies on the shared path. Every posted request is answered, and the node
  returns to IDLE on both sides.
- Lifecycle: a proxy only takes the shared path while a server serves the
  same segments. No node index is used past the mapping. The segments do not
  outlive both processes.
- Connection list and shutdown: FIFO order, no item lost or duplicated, and
  every worker exits after SIGINT.
- Framing: the header ends exactly at the first CRLFCRLF, the right field is
  found case-insensitively, and the body length is read correctly.
- Routing: the proxy connects to the host and port the Host line names,
  sends the request in origin form, and uses shared memory only for a server
  on its own machine.
- Serving: a request that passes through the proxy to this machine's server
  comes back to the client as the answer HTTP gives for the file it names.

## Modules

| Module | Models | Status |
|---|---|---|
| `ShmTransfer` | the shared-memory request/response transfer: `sharedProxy`, the server's shared poll and SHARED worker branch, the shared half of `checkAndSend`/`sendResponse`, `sendShared`/`receiveShared`, `findState`, `setMapping` | done |
| `MCShmTransfer` | model values and the `ClaimsDistinct` state constraint for TLC | done |
| `ShmLifecycle` | the metanode and memnode list across the start, stop and crash of both processes: `getMetanode`/`getMemList`/`memOps_Create`, the shared-memory part of both `initializeGlobals` and `cleanUpGlobals`, the `serverFlag` test of `sharedProxy`, `server DELETE` | done |
| `MCShmLifecycle` | the `OneAtATime` state constraint | done |
| `ConList` | `headers/conList.c` at the level of blocks and `next` pointers | done |
| `WorkQueue` | the abstract FIFO work queue that `Dispatcher` implements | done |
| `Dispatcher` | the main thread's accept/poll loop, the workers' dequeue loop, `catchInterrupt` and `cleanUpGlobals`, shared by the server and the proxy | done |
| `MCDispatcher` | model values for the heap blocks and the two signal-delivery constraints | done |
| `Framer` | `recvHeader`, `getHeaderField`, `strcasestr`, `getStatusCode`, `atoi` and the non-compressing loop of `recvAll_Forward`, as a library of operators and actions | done |
| `ProxyHandler` | one request through the proxy's `handleClient`: Host, `chopPortNum`, `getPortNumber`, resolution, the shared-memory decision of `sharedProxy`, connect, `stripAbsURL`, the server's response | partly |
| `ServerHandler` | the server's socket path: `checkAndSend` after one `recv`, `sscanf`, `strDecode`, the forbidden-name, `stat`, redirect and index checks, `fileContents`, and the bytes `sendResponse`/`sendError` write | partly |
| `Client` | one access of the load generator's `accessServer`: the request it writes for the proxy and the outcomes of `recvAll_NoData` on what comes back | partly |
| `MCProxyHandler` | the token messages and the server's file system the proxy is checked on | done |

### ShmTransfer

The variables are the memnode fields (`proxyState`, `serverState`, `mem`,
`spaceUsed`), the holder of each node mutex (`owner`), and the threads blocked
on each condition variable (`waiters`). There is also the server's connection
list (`queue`, SHARED items only) and one program counter per thread. A
payload is reduced to its identity and its length. A segment is the record
`[msg, off, len]` that `setMapping` leaves in the node. `Segments(m, len)` is
the reference cut of a payload into `SEGMENTSIZE` pieces.

Steps taken under a node mutex are atomic: signal, then wait or unlock. Each
write the code does outside the mutex is a step of its own:
- `ProxyClaim`, the `findState(IDLE)` at `proxy.c:733`;
- `ServerFind`, `server.c:246-247`;
- `ServerReset`, `server.c:261`;
- `ProxyReset`, `proxy.c:812`;
- the main loop's `AcceptorScan`/`AcceptorMark`.

`pthread_cond_signal` removes one waiter, if there is one. A thread returns
from `pthread_cond_wait` (`Wake`) once it has been signalled and the mutex is
free. `sendShared` takes its role from `proxyState == COMPLETE` at entry,
exactly as the code does. A thread that enters it on a node where the other
side already posted COMPLETE therefore takes the server role.

The server main loop polls forever, because its listening socket is
non-blocking. `AcceptorScan` may therefore change nothing, and deadlock
checking does not stop runs early.

**Fairness.** `WF` on each worker thread's steps and on the main loop. They
are preemptively scheduled OS threads. Request arrival (`ProxyRequest`) has no
fairness, because clients need not send.

### Runs

| Run | Config | Expect | What it shows |
|---|---|---|---|
| `shm_transfer` | `ShmTransfer.cfg` | pass | One proxy thread, two server workers, one node, two requests. Requests of 1-2 bytes fit one segment (`SEGMENTSIZE` = 2); responses of 1 or 3 bytes take one or two segments. Checks `TypeOK`, `ResponseMatchesRequest`, `NoFatalExit`, `RequestAnswered` and `NodeReleased`. |
| `shm_split_request` | `ShmSplitRequest.cfg` | violation | A two-segment request loses its first segment (`server.c:247` publishes WAITING_CONT_PRXY before locking). |
| `shm_double_claim` | `ShmDoubleClaim.cfg` | violation | Two proxy threads claim one node through the unlocked `findState` and get crossed data. |
| `shm_node_steal` | `ShmNodeSteal.cfg` | violation | With double claims excluded by `ClaimsDistinct`, a worker serves a node other than the one marked BUSY. The marked node is never queued again. |

**Bounds.** `SEGMENTSIZE` = 2. Lengths 1, 2 and 3 cover the one-segment
and two-segment cases on both sides. Two requests per
proxy thread cover the reuse of a node. Two server workers let one worker's
reset overlap the next request. The passing run uses one proxy thread (a
proxy started with one thread), because any second proxy thread exposes the
double claim.

### ShmLifecycle

The state is the two names (`metaName`, `listName`). Each is bound to an
object id, or to 0 after `shm_unlink`. Objects are numbered by creation.
Each metanode object has its fields (`serverFlag`, `proxyFlag`, `numNodes`),
and each list object has the size it was `ftruncate`d to (`listSize`). Each
process has a program counter, the objects it has mapped, and the number of
memnodes it mapped.

`memOps_Create` is `Opened`. It returns the object bound to the name, or
creates a new one, and only a new object is initialised. A process step is
one statement of the code that touches the objects:
- server: `getMemList(nodes)`, `getMetanode()`, `serverFlag = ONLINE`,
  `numNodes = nodes`, then at SIGINT `destroyMemList` and `destroyMetanode`;
- proxy: `getMetanode()`, the `serverFlag == OFFLINE` test,
  `numNodes = NUMSEGMENTS`, `getMemList(numNodes)` (`mmap` of 0 bytes
  fails), `proxyFlag = ONLINE`, then at SIGINT the `serverFlag` test and the
  two destroys.

`PrxRequest` is a `sharedProxy` call that passes the `serverFlag` test. A
mapping survives the unlink of its name. `SrvCrash`/`PrxCrash` (a kill:
nothing is cleaned up) and `AdminDelete` (`server DELETE`, one step) are
only in `SpecWithFailures`.

**Fairness.** None. Either process may stay stopped, so a state where both
are down is final. The lifecycle cfgs therefore set `CHECK_DEADLOCK FALSE`.

**Constraint.** `OneAtATime` (in `MCShmLifecycle`) keeps one process from
being mid-start or mid-stop while the other is. Only `life_stale_flag` uses
it, to show that the stale flag needs no race at all. `life_node_overrun`
has no constraint: the two processes start and stop in any interleaving, as
nothing in the code orders them. Under that freedom the module has no
passing run. Each invariant one would want of it fails (`NodesInMapping`
below). So does "no object is left once both processes are down" (spec
section 3), through the leaks listed as hazards in `PROJECT.json`.

| Run | Config | Expect | What it shows |
|---|---|---|---|
| `life_node_overrun` | `ShmLifecycle.cfg` | violation | `NodesInMapping` (`numNodes` never exceeds a process's mapping or the list object) fails. The server creates the list with 1 node. A proxy starting before the server's `getMetanode` creates the metanode, sees OFFLINE, sets `numNodes` = `NUMSEGMENTS` = 2, and maps 2 nodes of the 1-node object (`getMemList` attaches with the caller's size, `memList.c:24`). |
| `life_stale_flag` | `LifeStaleFlag.cfg` | violation | The server stops and leaves `serverFlag` ONLINE. The running proxy keeps posting shared-path requests that nobody serves. |

**Bounds.** Two starts per process cover a restart against objects a
previous run left behind; TLC finds the overrun after 7 steps. Thread counts 1 and 2 against `NUMSEGMENTS` = 2
cover both a smaller and an equal list. One request suffices, because the
question is only whether it may be posted.

**Not covered by a run.** `server DELETE` creates a metanode when there is
none, then refuses because `numNodes` is 0. So a list orphaned by a server
that died between its `getMemList` and its `getMetanode` cannot be cleaned
up that way. The model reproduces this through `AdminDelete`, and the case
is listed as a hazard. Also not covered by a run: the proxy's clean-up after a killed
server: the comment at `proxy.c:627-632` says the proxy erases what such a
server left, but its test is `serverFlag == OFFLINE`, which a dead server
never writes. `SpecWithFailures` reaches that state through `SrvCrash`.

### ConList, WorkQueue and Dispatcher

`ConList` keeps the heap: `Cells` are the blocks `malloc` may return
(model values), `next` and `cell` their fields, `allocated` the blocks in
use, and `head`/`tail` the list. `addTail`, `removeHead`, `isEmpty` and
`destroyAll` are one step each, because every caller holds `mConList`.
`Contents` reads the list off the pointers.

`Dispatcher` has one program counter per thread (`pc`), the mutex holder
`mtx`, the threads in `pthread_cond_wait` (`waiters`), and, per thread, the
place in `catchInterrupt` (`hpc`, `hi`). The handler runs on whichever
thread receives SIGINT and suspends that thread's own code. Each statement
that locks, tests, waits, adds or removes is an action: `MainPollHit`,
`MainAccept`, `MainAddClient`, `WLock`, `WCheck`, `WWake`, `WSpurious`,
`WServe`, `HCheck` ... `HAdd`, `MainJoin`, `MainDestroy`. Serving an item
is one step; `ShmTransfer` models the shared one.

`QueueIsFifo` is `WorkQueue!Spec` under the refinement mapping
`queue <- Contents`: the linked list, read through its pointers, behaves as
a FIFO in every step.

**Fairness.** Strong fairness per thread (`SF_vars(MainStep)`,
`SF_vars(WorkerStep(w))`, `SF_vars(Handler(t))`). The threads are
preemptive OS threads, and a thread that can take `mConList` again and again
gets it. Clients, the proxy's requests, SIGINT and spurious wakeups get no
fairness. The process exits once every worker is joined, so the cfgs set
`CHECK_DEADLOCK FALSE`.

**Constraints.** `SignalNotToHolder` keeps SIGINT away from the thread that
holds `mConList`, and the pass run uses it. `SignalToMain` delivers SIGINT
to the main thread only, which is what Linux does for a process-directed
signal the main thread does not block.

| Run | Config | Expect | What it shows |
|---|---|---|---|
| `dispatch` | `Dispatcher.cfg` | pass | The server with `-o`, two workers, one connection, one shared request and one SIGINT. `QueueIsFifo`: the list refines the FIFO. `ClientsServed`: a connection queued before shutdown is served. `ShutdownCompletes`: after SIGINT the process ends. |
| `dispatch_late_client` | `DispatchLateClient.cfg` | violation | A connection accepted just before SIGINT is queued behind the TERMINATE items. Every worker exits first, and the connection is never served. |
| `dispatch_shutdown_hang` | `DispatchShutdownHang.cfg` | violation | SIGINT lands while the main thread holds `mConList`. `catchInterrupt` blocks on the mutex its own thread holds, and the process never exits. |

**Bounds.** Two workers let one wait while the other serves. Five cells
hold the connection, the shared item and two TERMINATE items at once.

### Framer, ServerHandler, Client and ProxyHandler

Bytes are tokens. `CR`, `LF`, `SP`, `:` and the digits `0`-`5` and `8` are
themselves. `K`/`k` is `Content-Length` in upper or mixed case, `H` is
`Host`, `U` is `http://`, `B` a body byte, and `X`, `Y`, `/`, `p`, `.` stand
for other characters. `G`, `E`, `T` spell `GET`, `i` is `index.html`, `L`
is `Location`, and `%` and `NUL` serve `strDecode`. The method and the version keep their real lengths
(`GET`, `XXXX`), because `getStatusCode` copies the code over the front of
its buffer and `atoi` reads on into the bytes that follow.

`Framer` keeps the peer's byte stream (`stream`, from one side or the
other), the read position, `recvHeader`'s four-byte window (newest byte
first, compared with the reversed `EOL EOL`), the header read so far, the
body length it derived, and `out`, what the client has been sent. The
peer may close after any prefix of its message, and `recv` may return any
chunk or an error. `strcasestr`, `getHeaderField`, `getStatusCode` and
`atoi` are operators with the code's off-by-ones kept: `strcasestr` never
matches at the last byte, and `getHeaderField` takes the first `:` after
the match.

`ProxyHandler` adds the routing steps of `handleClient` in their order:
`RouteHost` (500 with no Host), `Resolve` (500 or 404), `TryShared`,
`Connect` (500 or 408), `SendRequest` (`stripAbsURL`, `sendAll`, then
`recvHeader` on the server's socket), then `Framer`'s forwarding.
Resolution, `socket`, `connect`, `sendAll` and the shared path's
preconditions are environment choices. `TryShared` follows the code, not
its intent: the address test of `sharedProxy` compares `inet_ntoa`'s static
buffer with itself, so with `-o` any resolved server may be answered over
shared memory.

`ServerHandler` is the server's answer to a socket connection, as
operators over a constant `FileSystem` (names to files with a size and a
readable flag, or directories). `Received` is what the single `recv` of
`checkAndSend` returns: the whole request when `RecvWhole`, otherwise any
non-empty prefix. `checkAndSend` is the ladder of checks in the code's
order (400 unparsable, 501 not GET, 400 path not starting with `/`, 400
forbidden name, 404, then a file through `ServeFile`, 302 with
`Location: path/` for a directory without its slash, `index.html` if it
exists, else `ListDirectory`: 500 when `scandir` cannot read the
directory, otherwise a `text/html` listing). `ServeFile` keeps
`fileContents`' failure on `mmap` of zero bytes and sends the file with
`contentType`'s type: `strrchr(file, '.')` and the whole rest of the name
looked up in `MimeTypes`, the code's table, else `PlainText` (an extension
is one token, a media type the code's string). `sendResponse` and
`sendError` are the bytes the format string writes, with the title one
token, error pages `text/html`, and an error page one token naming its
text.

`ProxyHandler` composes the two. After `SendRequest`, if the destination is
a name in `LocalNames` on `ServerPort`, `LocalServerReplies` has the server
read what the proxy sent (or fail its `recv`, 400) and answer with
`checkAndSend`; the proxy then reads any prefix of that answer, since the
server's `sendAll` may fail part-way. Any other destination is
`OtherServerReplies`, any well-formed response cut anywhere.

`Client` is the load generator's side. `ClientRequest` is the request
`accessServer` writes for the proxy (`GET http://name:port/file HTTP/1.0`
and a Host line). `recvAll_NoData` is the set of outcomes of its read of a
connection whose peer sent some bytes and closed: the header and body
lengths it counts, `exit` when it returns -1 (the client exits), or `crash`
in `getStatusCode`. A `recv` error in the header is silently counted as a
short header, and `recv` hands over body chunks of any size, so the count
may run past the declared length. In `ProxyHandler`, `ClientReads` applies
it to `out` once the proxy has closed the connection, normally, after an
error page, or by dying. The client threads share only read-only globals,
so one access stands for all of them.

The properties compare the code with reference definitions written from
the message format: `RefHeader` (up to the first CRLFCRLF), `RefDeclared`
(the Content-Length line, or unknown for a 200 without one), `RefHost`,
`RefName`/`RefPort`, `OriginForm`, and `RefAnswer`, the reply HTTP gives to
the request's path on the file system, written from the request and not
from `checkAndSend`; its media type (`RefMime`) is read from the last path
segment's extension rather than from the last dot of the whole name.

| Run | Config | Expect | What it shows |
|---|---|---|---|
| `proxy_handler` | `ProxyHandler.cfg` | pass | `HeaderFramed`, `DeclaredLength` and `BodyForwarded` for every prefix of the requests and responses. `RequestRewritten`: the server gets the request in origin form. `SuccessAsRequested`: when this machine's server answers 200 and its whole answer has come back, the client gets `RefAnswer`: the file or listing named, with its length and media type. This goes through `stripAbsURL`, a `recv` of any prefix, `checkAndSend`, `contentType`, `sendResponse`, `recvHeader` and `recvAll_Forward` together. `ClientCountsBody`: the load generator counts no byte the proxy did not send, and, for a response that declares its length, at least the declared body or all of it that arrived. |
| `proxy_crash` | `ProxyCrash.cfg` | violation | `\r\n\r\n` or `GET\r\n\r\n` from a client makes `getStatusCode` dereference `strchr`'s NULL, and the proxy dies (`getStatusCode.c:35`). |
| `route_remote_shared` | `RouteRemoteShared.cfg` | violation | With `-o`, a request for a remote host is answered by the local server over shared memory (`proxy.c:705-708`). |

**Bounds.** The hosts are a local name, a local name with a port, and a
remote name. The response fields give the length in both cases, with and
without a space, before and after another field, or not at all, and bodies
are shorter than, equal to or longer than the declared length. Every
prefix of every message is a possible early close. No run checks which
server the proxy connects to. `chopPortNum` strips the trailing digits of a
name without a port (`web1` becomes `web`), and `getPortNumber` ignores the
port after a `p`. A routing property would fail on such names and hold only
on names chosen to avoid them. The local name is asked for the root (served
from its `index.html`), a file, an unreadable file, an empty file, a
missing file, a `.jpg` file (a typed extension), a directory with
and without its slash (a listing and a redirect), a directory `scandir`
cannot read (500), and once with a method other than GET, so every rung of
`checkAndSend` but the unparsable and forbidden ones is reached end to end.
The pass run sets `RecvWhole = FALSE`, so the server's one `recv` may
return any prefix of the request. Two defects are reached and answered with
an error: a cut request gets 400, and the empty file gets 403 because
`mmap` of 0 bytes fails. `SuccessAsRequested` is about successes. It shows
that neither defect ever yields a wrong 200, and it does not state that the
error is wrong. Two requests are the load generator's, for
`http://X:80` and a file name with and without its leading slash. They
reach the local server on port 80 like the hand-written ones.
`ClientCountsBody` is stated only for a declared length: for a 200 without
Content-Length `recvAll_NoData` never reads the body and counts 0, and with
that condition dropped TLC shows it.

**Fairness.** None. One request is one finite pass, and the state after the
last step is final, so the cfgs set `CHECK_DEADLOCK FALSE`.

**Not modelled.** Several workers at once. The global `serverSock`
(`proxy.c:36`) is shared by all proxy workers, and that race is left for a
model with two handlers. Also not modelled: the COMPRESS path, `isJPG`,
`recvAll`, and the text of a directory listing (one token: its
Content-Length is its own length, so no property tells its contents
apart). Of the load generator: argument parsing, the thread pool and
its join, the file list and `rand_r`, and the direct-to-server mode.

## Plan

Components are ordered by importance. Each is added as a module with an MC
module and runs.

1. `ShmTransfer`: done. Still to add: a variant where `pthread_cond_wait`
   returns spuriously, and one where cross-process wakeups are lost
   (process-private attributes, `memList.c:36`/`:42`).
2. `ShmLifecycle`: done. Still to add: the server's retry with
   `NUMSEGMENTS` nodes when `getMemList(numThreads)` fails.
3. `ConList` and `Dispatcher`: done.
4. `Framer` and `ProxyHandler`: done for one proxy worker. Still to add:
   two handlers sharing the global `serverSock`.
5. `ServerHandler`: done for the socket path, composed with the proxy.
6. `Client`: one access through the proxy, composed with `ProxyHandler`.
7. Not planned: image compression (an XML-RPC library call) and the client's
   argument parsing. These are listed as not modelled in `PROJECT.json`.

What remains open is kept out of this project on purpose. The variants in
items 1, 2 and 4 (spurious or lost wakeups, the `NUMSEGMENTS` retry, two
proxy workers racing on `serverSock`) would each be a new question with its
own run, and each is expected to end in a violation. The twelve runs here are
the questions this project keeps, and the hazards in `PROJECT.json` say how
to reproduce each of these cases. The compression path leaves TLC's reach at
the XML-RPC call. Read in the code, its JPEG branch forwards the original
header, `Content-Length` included, and then the compressed body, so the
length it declares is not the length it sends. It also reads `imgBuffer`
before setting it. Both are recorded here and have not been checked.
