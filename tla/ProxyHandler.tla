---------------------------- MODULE ProxyHandler ----------------------------
(***************************************************************************)
(* One pass of the proxy worker's loop in handleClient (src/proxy.c): the *)
(* request header is read from the client with recvHeader; the Host field *)
(* names the server (getHeaderField "\nHost", chopPortNum,                *)
(* gethostbyname_r); sharedProxy may answer the request over shared       *)
(* memory (modelled in ShmTransfer); otherwise the proxy connects to the  *)
(* host and getPortNumber's port, sends the request with its absolute URL *)
(* stripped (stripAbsURL), reads the response header with recvHeader and  *)
(* forwards the response with recvAll_Forward.  Every failure is answered *)
(* with an error page and the connection is dropped.                      *)
(*                                                                         *)
(* Name resolution, the server's serverFlag and a free memnode are the    *)
(* environment: each may go either way.                                   *)
(***************************************************************************)
EXTENDS Client

CONSTANTS
  OPTIMIZED,   \* the proxy was started with -o
  LocalNames,  \* host names that resolve to this machine's address
  ServerPort   \* the port the server of this machine listens on

VARIABLES
  request,     \* the client's request header
  fullServer,  \* the value of its Host field
  dest,        \* <<host, port>> the proxy connected to, <<>> before
  sentReq,     \* the header sent to the server, <<>> before
  reply,       \* the whole answer of this machine's server, <<>> if none
  counted      \* what the client's recvAll_NoData left, kind "none" before

routeVars == <<request, fullServer, dest, sentReq, reply>>
allVars == <<from, stream, pos, window, header, bodyLength, got, out, pc,
             request, fullServer, dest, sentReq, reply, counted>>

HostField == <<"LF", "H">>     \* "\nHost"
Scheme    == <<"U">>           \* "http://"
Error404  == <<"E404">>        \* sendError(404, "Not Found", ...)
Error408  == <<"E408">>        \* sendError(408, "Request Timeout", ...)
SharedReply == <<"SHM">>       \* a response relayed by sharedProxy

\* chopPortNum: from the last byte, step back over digits, spaces and one
\* colon.  A name made only of such bytes would read server[-1]; the model
\* stops at the start.
RECURSIVE ChopFrom(_, _)
ChopFrom(v, e) ==
  IF e = 0 THEN 0
  ELSE IF v[e] = ":" THEN e - 1
  ELSE IF v[e] \in Digit \cup {"SP"} THEN ChopFrom(v, e - 1)
  ELSE e

chopPortNum(v) == SubSeq(v, 1, ChopFrom(v, Len(v)))

\* strrchr(server, ':'): the last colon, 0 if none.
LastColon(v) ==
  LET I == {i \in 1..Len(v) : v[i] = ":"}
  IN IF I = {} THEN 0 ELSE Max(I)

\* getPortNumber: the number after the last colon, unless the byte before
\* it is 'p' (as in "http:"); 80 otherwise.
getPortNumber(v) ==
  LET c == LastColon(v)
  IN IF c = 0 \/ (c > 1 /\ v[c - 1] = "p") THEN 80 ELSE atoi(SubSeq(v, c + 1, Len(v)))

\* A stripAbsURL that skips only the scheme, not the host.
stripAbsURLSchemeOnly(h) ==
  LET sp == IndexFrom(h, <<"SP">>, 1)
  IN SubSeq(h, 1, sp) \o SubSeq(h, sp + 1 + Len(Scheme), Len(h))

\* stripAbsURL: keep the request line up to its first space, then skip
\* strlen("http://") + strlen(host) bytes and keep the rest.
stripAbsURL(h) ==
  LET host == getHeaderField(h, HostField).value
      sp   == IndexFrom(h, <<"SP">>, 1)
  IN SubSeq(h, 1, sp) \o SubSeq(h, sp + 1 + Len(Scheme) + Len(host), Len(h))

(* Any prefix of a message: the peer may close at any point.               *)
Sent(S) == UNION {{SubSeq(s, 1, k) : k \in 0..Len(s)} : s \in S}

\* The header reader's state when recvHeader is called on a new socket.
FreshReader(peer, s) ==
  /\ from' = peer /\ stream' = s /\ pos' = 0
  /\ window' = <<"NUL", "NUL", "NUL", "NUL">>
  /\ header' = <<>> /\ bodyLength' = 0 /\ got' = 0

Init ==
  /\ from = "client" /\ stream \in Sent(Requests) /\ pos = 0
  /\ window = <<"NUL", "NUL", "NUL", "NUL">>
  /\ header = <<>> /\ bodyLength = 0 /\ got = 0 /\ out = <<>>
  /\ pc = "header"
  /\ request = <<>> /\ fullServer = <<>> /\ dest = <<>> /\ sentReq = <<>>
  /\ reply = <<>>
  /\ counted = [kind |-> "none"]

\* getHeaderField(header, headerLen, "\nHost"): 500 when there is none.
RouteHost ==
  /\ pc = "route"
  /\ LET f == getHeaderField(header, HostField)
     IN \/ ~f.found /\ Fail /\ UNCHANGED <<request, fullServer>>
        \/ f.found /\ fullServer' = f.value /\ request' = header
           /\ pc' = "resolve" /\ UNCHANGED out
  /\ UNCHANGED <<from, stream, pos, window, header, bodyLength, got, dest, sentReq, reply>>

\* calloc of the hostent fails (500), gethostbyname_r(chopPortNum(fullServer))
\* fails (404), or the name resolves.
Resolve ==
  /\ pc = "resolve"
  /\ \/ pc' = "shared" /\ UNCHANGED out
     \/ Fail
     \/ FailWith(Error404)
  /\ UNCHANGED <<from, stream, pos, window, header, bodyLength, got, routeVars>>

\* sharedProxy returns -1 without -o.  It then compares the address of
\* this machine's name with the server's, but both strings come from
\* inet_ntoa, which returns the same static buffer: ip is overwritten by
\* the second call and strcmp compares the buffer with itself, so every
\* resolved server passes.  What remains is the environment: gethostname
\* resolving, serverFlag ONLINE and an IDLE memnode; if they hold the
\* request is relayed over shared memory (ShmTransfer) and 0 is returned.
TryShared ==
  /\ pc = "shared"
  /\ \/ OPTIMIZED /\ pc' = "done" /\ out' = out \o SharedReply
     \/ pc' = "connect" /\ UNCHANGED out
  /\ UNCHANGED <<from, stream, pos, window, header, bodyLength, got, routeVars>>

\* socket() fails (500), connect() fails (408), or the proxy is connected to
\* the resolved host on getPortNumber(fullServer).
Connect ==
  /\ pc = "connect"
  /\ \/ Fail /\ UNCHANGED dest
     \/ FailWith(Error408) /\ UNCHANGED dest
     \/ /\ dest' = <<chopPortNum(fullServer), getPortNumber(fullServer)>>
        /\ pc' = "send" /\ UNCHANGED out
  /\ UNCHANGED <<from, stream, pos, window, header, bodyLength, got,
                 request, fullServer, sentReq, reply>>

\* stripAbsURL, then sendAll to the server (500 on failure); the proxy
\* then waits in recvHeader on the server's socket.
SendRequest ==
  /\ pc = "send"
  /\ sentReq' = stripAbsURL(request)
  /\ \/ Fail
     \/ pc' = "serve" /\ UNCHANGED out
  /\ UNCHANGED <<from, stream, pos, window, header, bodyLength, got,
                 request, fullServer, dest, reply>>

\* The proxy reached this machine's server.
IsLocalServer(d) == d[1] \in LocalNames /\ d[2] = ServerPort

\* A worker of this machine's server takes the connection (server.c
\* handleClient, PROCESS): checkAndSend reads the request with one recv
\* (400 if it fails), answers it, and the socket is closed.  A send may
\* fail part-way, so the proxy reads any prefix of the answer.
LocalServerReplies ==
  /\ pc = "serve" /\ IsLocalServer(dest)
  /\ \/ \E line \in Received(sentReq) : reply' = checkAndSend(line)
     \/ reply' = RecvFailed
  /\ \E r \in Sent({reply'}) : FreshReader("server", r)
  /\ pc' = "header"
  /\ UNCHANGED <<out, request, fullServer, dest, sentReq>>

\* Any other origin server answers with any response, cut off anywhere.
OtherServerReplies ==
  /\ pc = "serve" /\ ~IsLocalServer(dest)
  /\ \E r \in Sent(Responses) : FreshReader("server", r)
  /\ pc' = "header"
  /\ UNCHANGED <<out, request, fullServer, dest, sentReq, reply>>

Framing ==
  /\ \/ RecvHeaderByte \/ RecvHeaderClosed \/ RecvHeaderError
     \/ ForwardHeader \/ ForwardChunk \/ ForwardClosed \/ ForwardError \/ ForwardEnd
  /\ UNCHANGED routeVars

ProxyStep == Framing \/ RouteHost \/ Resolve \/ TryShared \/ Connect \/ SendRequest
             \/ LocalServerReplies \/ OtherServerReplies

\* The proxy has closed the client's connection (or died, and the kernel
\* closed it): the client's recvAll_NoData reads what was sent
\* (client.c:218).
ClientReads ==
  /\ pc \in {"done", "failed", "crashed"}
  /\ counted.kind = "none"
  /\ counted' \in recvAll_NoData(out)
  /\ UNCHANGED <<from, stream, pos, window, header, bodyLength, got, out, pc, routeVars>>

Next == (ProxyStep /\ UNCHANGED counted) \/ ClientReads

Spec == Init /\ [][Next]_allVars

(***************************************************************************)
(* Reference definitions: what routing a request means, written from the  *)
(* shape of an absolute-form request and not from the code.               *)
(***************************************************************************)

\* The value of the request's Host line, with its spaces dropped.
RefHost(h) ==
  LET L == SelectSeq(Tail(Lines(h)), LAMBDA l : Colon(l) > 1 /\ SubSeq(l, 1, Colon(l) - 1) = <<"H">>)
  IN SelectSeq(SubSeq(L[1], Colon(L[1]) + 1, Len(L[1])), LAMBDA b : b # "SP")

\* "name:port" with a non-empty decimal port names that port; anything
\* else names the whole value on port 80.
HasPort(v) ==
  LET c == LastColon(v)
  IN c > 1 /\ c < Len(v) /\ \A i \in c + 1..Len(v) : v[i] \in Digit
RefName(v) == IF HasPort(v) THEN SubSeq(v, 1, LastColon(v) - 1) ELSE v
RefPort(v) == IF HasPort(v) THEN Decimal(SubSeq(v, LastColon(v) + 1, Len(v))) ELSE 80

\* The request in origin form: "http://host" removed from its target.
OriginForm(h) ==
  LET sp  == IndexFrom(h, <<"SP">>, 1)
      url == Scheme \o RefHost(h)
  IN IF SubSeq(h, sp + 1, sp + Len(url)) = url
     THEN SubSeq(h, 1, sp) \o SubSeq(h, sp + Len(url) + 1, Len(h))
     ELSE h

(* A request is answered over shared memory (sharedProxy) only when the   *)
(* proxy runs with -o and the Host line names this machine: the channel   *)
(* replaces the loopback socket to a colocated server and nothing else.   *)
SharedOnlyLocal ==
  out = SharedReply => OPTIMIZED /\ RefName(RefHost(request)) \in LocalNames

(* The header handleClient sends to the server is the client's request    *)
(* with "http://host" cut from its target and nothing else changed        *)
(* (stripAbsURL).                                                          *)
RequestRewritten == sentReq # <<>> => sentReq = OriginForm(request)

\* What this machine's server should answer to an absolute-form request:
\* the file its path names, looked up as HTTP defines it.
RefReply(code, extra, mime, body) ==
  PROTOCOL \o <<"SP">> \o DecimalText(code) \o <<"SP", "X", "SP", "CR", "LF">> \o extra
  \o <<"K", ":", "SP">> \o DecimalText(Len(body)) \o <<"SP", "CR", "LF">>
  \o <<"X", ":", "SP", mime, "SP", "CR", "LF", "CR", "LF">> \o body
RefError(code, extra, text) == RefReply(code, extra, "text/html", <<text>>)

\* The media type of a name: that of the extension of its last segment.
RefMime(name) ==
  LET slashes == {i \in 1..Len(name) : name[i] = "/"}
      seg     == SubSeq(name, IF slashes = {} THEN 1 ELSE Max(slashes) + 1, Len(name))
  IN IF Len(seg) >= 2 /\ seg[Len(seg) - 1] = "." /\ Last(seg) \in DOMAIN MimeTypes
     THEN MimeTypes[Last(seg)] ELSE PlainText

RefFile(name) ==
  IF FileSystem[name].readable
  THEN RefReply(200, <<>>, RefMime(name), [i \in 1..FileSystem[name].size |-> "B"])
  ELSE RefError(403, <<>>, "Protected")

RefAnswer(h) ==
  LET line   == Lines(h)[1]
      sp     == IndexFrom(line, <<"SP">>, 1)
      method == SubSeq(line, 1, sp - 1)
      url    == Scheme \o RefHost(h)
      path   == SubSeq(line, sp + Len(url) + 1, IndexFrom(line, <<"SP">>, sp + 1) - 1)
      name   == IF Len(path) = 1 THEN Root ELSE Tail(path)
  IN CASE method # GET -> RefError(501, <<>>, "NotImplemented")
       [] name \notin DOMAIN FileSystem -> RefError(404, <<>>, "FileNotFound")
       [] FileSystem[name].kind = "file" -> RefFile(name)
       [] Last(name) # "/" ->
            RefError(302, <<"L", ":", "SP">> \o path \o <<"/", "CR", "LF">>, "MustEndWithSlash")
       [] name \o Index \in DOMAIN FileSystem -> RefFile(name \o Index)
       [] ~FileSystem[name].readable -> RefError(500, <<>>, "ServerError")
       [] OTHER -> RefReply(200, <<>>, "text/html", Listing)

(* The client counts a body byte only if the proxy sent it, and when the  *)
(* response declares its length and the client read the whole header, it *)
(* counts at least the declared bytes or all that arrived: client.c's     *)
(* byte total, from recvAll_NoData over recvHeader, reading what the      *)
(* proxy's recvAll_Forward, error pages and crashes left on the socket.   *)
ClientCountsBody ==
  counted.kind = "read" =>
    LET h    == RefHeader(out)
        rest == Len(out) - Len(h)
        d    == RefDeclared(h)
        need == IF d < 0 \/ d > rest THEN rest ELSE d
    IN /\ counted.hLen + counted.body <= Len(out)
       /\ (IsSuffix(Terminator, h) /\ counted.hLen = Len(h) /\ d >= 0)
            => counted.body >= need

\* The status line of a success: "HTTP/1.0 200".
OKLine == PROTOCOL \o <<"SP">> \o DecimalText(200)

(* A success never carries the wrong content: when this machine's server  *)
(* answers 200 and the whole answer has come back, the client gets exactly *)
(* the file or listing its request names, with that file's length and     *)
(* media type.  It holds through the proxy's stripAbsURL, the server's    *)
(* single recv of any prefix of the request and its sscanf parse, the     *)
(* checks of checkAndSend, contentType and sendResponse, and the proxy's  *)
(* recvHeader and recvAll_Forward.  An error the server should not have   *)
(* given (a request cut by its recv, an empty file) is not a success and  *)
(* is outside this property.                                               *)
SuccessAsRequested ==
  (pc = "done" /\ dest # <<>> /\ stream = reply /\ IsPrefix(OKLine, reply))
    => out = RefAnswer(request)

=============================================================================
