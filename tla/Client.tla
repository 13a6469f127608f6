------------------------------- MODULE Client -------------------------------
(***************************************************************************)
(* The load generator (src/client.c).  Each thread of accessServer sends   *)
(* NUMACCESSES requests, one connection each, through the proxy when one  *)
(* is given, and reads every response with recvAll_NoData                 *)
(* (src/headers/recvAll.c), adding the body bytes it counted to the       *)
(* total it returns.  The threads share nothing but read-only globals, so *)
(* one access is modelled: the request it writes and the outcomes of its   *)
(* read of the bytes the proxy sent before closing the connection.        *)
(***************************************************************************)
EXTENDS ServerHandler

\* snprintf(transfer, "GET %s:%d%s%s HTTP/1.0%sHost: %s:%d%s%s", server,
\* port, slash, file, EOL, server + 7, port, EOL, EOL): server is
\* "http://name" and server + 7 the name; a "/" is put before a file name
\* that lacks one.
ClientRequest(name, port, file) ==
  LET hostport == name \o <<":">> \o port
      slash    == IF file[1] = "/" THEN <<>> ELSE <<"/">>
  IN GET \o <<"SP", "U">> \o hostport \o slash \o file \o <<"SP">> \o PROTOCOL \o EOL
     \o <<"H", ":", "SP">> \o hostport \o EOL \o EOL

\* The byte after which recvHeader's window first reads "\n\r\n\r", or 0.
HeaderEnd(s) ==
  LET I == {i \in 4..Len(s) : Reverse(SubSeq(s, i - 3, i)) = Reversed}
  IN IF I = {} THEN 0 ELSE Min(I)

\* The loop of recvAll_NoData ends once *bodyLength reaches this.
NoDataLimitTotal(hLen, bLen) == bLen - hLen
NoDataLimit(hLen, bLen) == bLen

\* What *bodyLength can be when the loop ends on its condition or on a
\* close, R bytes being left after the header: recv hands over chunks of
\* any size, so the last one may run past the limit.
BodyCounts(limit, R) ==
  IF limit <= 0 THEN {0} ELSE IF R < limit THEN {R} ELSE limit..R

Counted(hLen, body) == [kind |-> "read", hLen |-> hLen, body |-> body]

\* recvAll_NoData on a connection whose peer sent s and closed: the
\* header and body lengths it leaves, an "exit" when it returns -1
\* (client.c exits), or a "crash" when getStatusCode dereferences NULL.  A recv error in the
\* header makes recvHeader return NULL with the bytes read so far counted
\* and the body length 0; a close before the terminator returns the partial
\* header, body length 0.
recvAll_NoData(s) ==
  LET e    == HeaderEnd(s)
      h    == SubSeq(s, 1, e)
      lim  == NoDataLimit(e, BodyLengthOf(h))
      HeaderFails == {Counted(i, 0) : i \in 0..(IF e = 0 THEN Len(s) ELSE e - 1)}
  IN HeaderFails \cup
     (IF e = 0 THEN {Counted(Len(s), 0)}
      ELSE IF ~getHeaderField(h, LengthField).found /\ StatusCodeCrashes(h) THEN {[kind |-> "crash"]}
      ELSE {Counted(e, n) : n \in BodyCounts(lim, Len(s) - e)}
           \cup (IF lim > 0 THEN {[kind |-> "exit"]} ELSE {}))
=============================================================================
