--------------------------- MODULE MCProxyHandler ---------------------------
(***************************************************************************)
(* Messages for checking ProxyHandler.  Requests are absolute-form GETs   *)
(* whose Host is a local name, a local name with a port, or a remote      *)
(* name, with or without a further field; the local name is asked for a  *)
(* file, an unreadable file, a missing one, a directory with and without  *)
(* its slash and the root, and once with another method; one request has *)
(* no Host line, and two are malformed; two are what the load generator  *)
(* sends for "localhost:80" and a line of its file list.  This machine's server has a root *)
(* with an index.html, two files and a directory without an index.  Response header fields give Content-Length in  *)
(* upper or mixed case, with or without a space after the colon, before   *)
(* or after another field, or not at all; bodies are shorter than, equal  *)
(* to or longer than the declared length.                                 *)
(***************************************************************************)
EXTENDS ProxyHandler

CRLF == <<"CR", "LF">>

\* getStatusCode copies the code over the front of its buffer and atoi
\* reads on into what follows, so the version keeps the length of its
\* first letters, "HTTP".  The server compares the method with "get".
Method  == GET
Post    == <<"X", "X", "X", "X">>
Version == <<"X", "X", "X", "X">>

Local       == <<"X">>                 \* localhost
LocalPort   == <<"X", ":", "1">>       \* localhost:1
Remote      == <<"Y">>                 \* a name of another machine
Hosts       == {Local, LocalPort, Remote}
LocalHosts  == {Local}

\* GET http://host/path HTTP
Target(m, host, path) == m \o <<"SP">> \o Scheme \o host \o path \o <<"SP">> \o Version
RequestLine(host) == Target(Method, host, <<"/">>)
HostLine(host)    == <<"H", ":", "SP">> \o host                \* Host: host
StatusOK     == Version \o <<"SP", "2", "0", "0", "SP", "X">>  \* HTTP 200 OK
StatusOther  == Version \o <<"SP", "2", "0", "1", "SP", "X">>  \* HTTP 201 X

LengthOne    == <<"K", ":", "SP", "1">>                  \* Content-Length: 1
LengthTwo    == <<"k", ":", "2">>                        \* content-length:2
OtherField   == <<"X", ":", "SP", "X">>                  \* X: X

Fields == {<<>>, <<LengthOne>>, <<LengthTwo>>, <<OtherField>>,
           <<OtherField, LengthOne>>, <<LengthTwo, OtherField>>}
Bodies == {<<>>, <<"B">>, <<"B", "B">>}

\* A header: a first line, each field line ended by CRLF, and a blank line.
HeaderOf(first, fs) == first \o CRLF \o FoldLeft(LAMBDA acc, f : acc \o f \o CRLF, <<>>, fs) \o CRLF

\* The root (with index.html), a file, an unreadable file, an empty file, a
\* missing file, a directory without and with its slash.
LocalPaths == {<<"/">>, <<"/", "f">>, <<"/", "p">>, <<"/", "e">>, <<"/", "n">>,
               <<"/", "d">>, <<"/", "d", "/">>, <<"/", "g", ".", "jpg">>,
               <<"/", "q", "/">>}

\* Lines of client.c's file list: one without and one with a leading "/".
ClientFiles == {<<"f">>, <<"/", "d", "/">>}

\* The server's root: stat sees "d" and "d/" alike; "q/" is a directory
\* scandir cannot read, "g.jpg" a file with a typed extension.
MCFileSystem ==
     Root :> [kind |-> "dir", readable |-> TRUE]
  @@ Root \o Index :> [kind |-> "file", size |-> 1, readable |-> TRUE]
  @@ <<"f">> :> [kind |-> "file", size |-> 2, readable |-> TRUE]
  @@ <<"p">> :> [kind |-> "file", size |-> 1, readable |-> FALSE]
  @@ <<"e">> :> [kind |-> "file", size |-> 0, readable |-> TRUE]
  @@ <<"g", ".", "jpg">> :> [kind |-> "file", size |-> 1, readable |-> TRUE]
  @@ <<"d">> :> [kind |-> "dir", readable |-> TRUE]
  @@ <<"d", "/">> :> [kind |-> "dir", readable |-> TRUE]
  @@ <<"q">> :> [kind |-> "dir", readable |-> FALSE]
  @@ <<"q", "/">> :> [kind |-> "dir", readable |-> FALSE]

WellFormedRequests ==
  {HeaderOf(RequestLine(h), <<HostLine(h)>>) : h \in Hosts}
  \cup {HeaderOf(Target(Method, Local, p), <<HostLine(Local)>>) : p \in LocalPaths}
  \cup {HeaderOf(Target(Post, Local, <<"/">>), <<HostLine(Local)>>)}
  \cup {ClientRequest(Local, <<"8", "0">>, f) : f \in ClientFiles}
  \cup {HeaderOf(RequestLine(Remote), <<OtherField, HostLine(Remote)>>)}
NoHostRequest == HeaderOf(RequestLine(Local), <<OtherField>>)
WellFormedResponses ==
  {HeaderOf(st, fs) \o b : st \in {StatusOK, StatusOther}, fs \in Fields, b \in Bodies}

\* Requests a client can type by hand: a bare "GET", and an empty line.
MalformedRequests == {HeaderOf(Method, <<>>), CRLF \o CRLF}

AllRequests == WellFormedRequests \cup {NoHostRequest} \cup MalformedRequests
=============================================================================
