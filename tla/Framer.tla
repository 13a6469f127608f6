------------------------------- MODULE Framer -------------------------------
(***************************************************************************)
(* HTTP message framing in the proxy.                                     *)
(*                                                                         *)
(* recvHeader (src/headers/recvAll.c) reads a header from a socket one    *)
(* byte at a time, keeping the last four bytes in a window whose newest   *)
(* byte is inputChar[0], and stops when the window reads "\n\r\n\r".  It  *)
(* then derives the body length: the value of the first Content-Length    *)
(* found by getHeaderField, else -1 ("read until close") if               *)
(* getStatusCode says 200, else 0.  The proxy calls it on a client's       *)
(* request (proxy.c:240) and on the origin server's response              *)
(* (proxy.c:422), and then forwards the response with recvAll_Forward     *)
(* (src/functions/xmlrpc.c), which sends the header to the client and     *)
(* relays body chunks until bodyLength bytes have arrived or, for -1,     *)
(* until the server closes.                                               *)
(*                                                                         *)
(* The peer is one byte stream: what the client or the server sent before *)
(* it closed, i.e. any prefix of a message.  ProxyHandler composes these   *)
(* steps into the handling of a connection.  Bytes are tokens of a small  *)
(* alphabet:                                                               *)
(*   "CR" "LF" "SP" ":"  the characters the parsers look for;            *)
(*   "K" "k"             the field name Content-Length in upper and in    *)
(*                       mixed case (toupper maps "k" to "K");             *)
(*   "0" .. "5" "8"      digits;                                           *)
(*   "H"                 the field name Host;                              *)
(*   "U"                 the scheme prefix "http://";                      *)
(*   "p" "."             the characters getPortNumber and chopPortNum test;*)
(*   "X" "/"             any other character of a name, a value or a URL; *)
(*   "B"                 a body byte.                                      *)
(* The JPEG-compression branch of recvAll_Forward is not modelled          *)
(* (compression = 0).                                                      *)
(***************************************************************************)
EXTENDS Integers, Sequences, SequencesExt, TLC

CONSTANTS
  Requests,    \* complete requests a client may send
  Responses    \* complete responses an origin server may send

VARIABLES
  from,        \* "client" (proxy.c:240) or "server" (proxy.c:422)
  stream,      \* every byte the peer sent before it closed
  pos,         \* bytes of stream consumed by recv so far
  window,      \* inputChar[0..3] of recvHeader, newest byte first
  header,      \* retVal of recvHeader: the bytes read into the header
  bodyLength,  \* *bodyLength of recvHeader
  got,         \* bytesReceived of recvAll_Forward
  out,         \* bytes the proxy has written to its client
  pc

vars == <<from, stream, pos, window, header, bodyLength, got, out, pc>>

Digit == {"0", "1", "2", "3", "4", "5", "8"}
DigitVal == "0" :> 0 @@ "1" :> 1 @@ "2" :> 2 @@ "3" :> 3 @@ "4" :> 4 @@ "5" :> 5 @@ "8" :> 8
Space == {"SP", "CR", "LF"}              \* what atoi's isspace skips
Upper(b) == IF b = "k" THEN "K" ELSE b   \* toupper
UpperSeq(s) == [i \in 1..Len(s) |-> Upper(s[i])]

EOL == <<"CR", "LF">>
LengthField == <<"K">>                   \* "Content-Length"
\* The window compared against "\n\r\n\r": the terminator newest-first.
Reversed == <<"LF", "CR", "LF", "CR">>
\* What sendError(500, ...) writes to the client.
ErrorPage == <<"E500">>

\* The first index at or after i where pat starts in s, 0 if none: strstr
\* and strchr applied to s + i - 1.
IndexFrom(s, pat, i) ==
  LET I == {j \in i..(Len(s) - Len(pat) + 1) :
              SubSeq(s, j, j + Len(pat) - 1) = pat}
  IN IF I = {} THEN 0 ELSE Min(I)

\* A strcasestr that compares bytes without toupper.
strcasestrExact(haystack, needle) ==
  LET I == {i \in 1..(Len(haystack) - Len(needle)) :
              SubSeq(haystack, i, i + Len(needle) - 1) = needle}
  IN IF I = {} THEN 0 ELSE Min(I)

\* strcasestr: the loop runs i < haystackLength - needleLength, so a match
\* ending at the last byte is never tried.  0 stands for NULL.
strcasestr(haystack, needle) ==
  LET I == {i \in 1..(Len(haystack) - Len(needle)) :
              UpperSeq(SubSeq(haystack, i, i + Len(needle) - 1)) = UpperSeq(needle)}
  IN IF I = {} THEN 0 ELSE Min(I)

\* atoi: skips leading white space, then reads decimal digits.
RECURSIVE AtoiDigits(_, _)
AtoiDigits(s, acc) ==
  IF s # <<>> /\ Head(s) \in Digit
  THEN AtoiDigits(Tail(s), 10 * acc + DigitVal[Head(s)])
  ELSE acc

RECURSIVE atoi(_)
atoi(s) == IF s # <<>> /\ Head(s) \in Space THEN atoi(Tail(s)) ELSE AtoiDigits(s, 0)

\* The number of "SP" bytes s starts with: the while loop skipping them.
LeadingSpaces(s) ==
  LET I == {i \in 1..Len(s) : s[i] # "SP"}
  IN IF I = {} THEN Len(s) ELSE Min(I) - 1

NotFound == [found |-> FALSE, value |-> <<>>]

\* getHeaderField: find field anywhere in the header, the end of that line,
\* the first ':' after the field (which may lie on a later line), skip
\* spaces, and copy up to the end of the line.  A value start past the end
\* of the line makes calloc's size negative, and calloc returns NULL.
getHeaderField(h, field) ==
  LET at    == strcasestr(h, field)
      eol   == IndexFrom(h, EOL, at)
      colon == IndexFrom(h, <<":">>, at)
      start == colon + 1 + LeadingSpaces(SubSeq(h, colon + 1, Len(h)))
  IN IF at = 0 \/ eol = 0 \/ colon = 0 \/ start > eol
     THEN NotFound
     ELSE [found |-> TRUE, value |-> SubSeq(h, start, eol - 1)]

\* The buffer getStatusCode copies: the first 100 bytes at most.
StatusBuffer(h) == SubSeq(h, 1, IF Len(h) > 100 THEN 100 ELSE Len(h))

\* strchr(buffer, ' ') returns NULL and ptr++ then reads address 1: the
\* process dies of SIGSEGV.
StatusCodeCrashes(h) == IndexFrom(StatusBuffer(h), <<"SP">>, 1) = 0

\* getStatusCode: copy the bytes after the first space up to the next space
\* over the front of the buffer (through the terminating NUL when there is
\* no second space) and atoi the buffer.
getStatusCode(h) ==
  LET buf    == StatusBuffer(h)
      rest   == SubSeq(buf, IndexFrom(buf, <<"SP">>, 1) + 1, Len(buf))
      sp     == IndexFrom(rest, <<"SP">>, 1)
      copied == IF sp = 0 THEN rest \o <<"NUL">> ELSE SubSeq(rest, 1, sp - 1)
  IN atoi(copied \o SubSeq(buf, Len(copied) + 1, Len(buf)))

\* The body-length rule at the end of recvHeader.
BodyLengthOf(h) ==
  LET f == getHeaderField(h, LengthField)
  IN IF f.found THEN atoi(f.value)
     ELSE IF getStatusCode(h) = 200 THEN -1 ELSE 0

\* Where the proxy goes once recvHeader has returned a header: routing the
\* request (proxy.c:258), or forwarding the response (proxy.c:450).
AfterHeader == IF from = "client" THEN "route" ELSE "sendhdr"

\* The proxy answers with an error page and drops the connection.
FailWith(page) == pc' = "failed" /\ out' = out \o page

\* A NULL header or a failed forward is answered with sendError(500).
Fail == FailWith(ErrorPage)

-----------------------------------------------------------------------------
\* The shift written in the opposite order (inputChar[1] = inputChar[0]
\* first), which copies the old newest byte into all three slots.
NextWindowShiftUp == <<stream[pos + 1], window[1], window[1], window[1]>>

\* inputChar[3..1] = inputChar[2..0], then recv puts the byte in inputChar[0].
NextWindow == <<stream[pos + 1]>> \o SubSeq(window, 1, 3)

\* After the loop: the body length, or the crash of getStatusCode when no
\* Content-Length is found and the first 100 bytes hold no space.
HeaderParsed(h) ==
  LET crashes == ~getHeaderField(h, LengthField).found /\ StatusCodeCrashes(h)
  IN \/ ~crashes /\ bodyLength' = BodyLengthOf(h) /\ pc' = AfterHeader
     \/ crashes /\ pc' = "crashed" /\ UNCHANGED bodyLength

\* One pass of recvHeader's do-while loop: recv returns one byte.
RecvHeaderByte ==
  /\ pc = "header"
  /\ pos < Len(stream)
  /\ window' = NextWindow
  /\ header' = Append(header, stream[pos + 1])
  /\ pos' = pos + 1
  /\ \/ window' # Reversed /\ UNCHANGED <<pc, bodyLength>>
     \/ window' = Reversed /\ HeaderParsed(header')
  /\ UNCHANGED <<from, stream, got, out>>

\* recv returns 0: recvHeader returns what it has, NULL if nothing, and
\* the body length stays 0.
RecvHeaderClosed ==
  /\ pc = "header"
  /\ pos = Len(stream)
  /\ \/ header = <<>> /\ Fail
     \/ header # <<>> /\ pc' = AfterHeader /\ UNCHANGED out
  /\ UNCHANGED <<from, stream, pos, window, header, bodyLength, got>>

\* recv returns -1: recvHeader returns NULL.
RecvHeaderError ==
  /\ pc = "header"
  /\ Fail
  /\ UNCHANGED <<from, stream, pos, window, header, bodyLength, got>>

\* recvAll_Forward first sends the whole header to the client.
ForwardHeader ==
  /\ pc = "sendhdr"
  /\ out' = out \o header
  /\ pc' = "forward"
  /\ UNCHANGED <<from, stream, pos, window, header, bodyLength, got>>

\* The loop condition without arbitraryReceive.
ReceivingKnownOnly == got < bodyLength

\* The loop condition: bytesReceived < bodyLength || arbitraryReceive.
Receiving == got < bodyLength \/ bodyLength < 0

\* recv returns k > 0 bytes, which are counted and sent on to the client.
ForwardChunk ==
  /\ pc = "forward"
  /\ Receiving
  /\ \E k \in 1..(Len(stream) - pos) :
       /\ got' = got + k
       /\ out' = out \o SubSeq(stream, pos + 1, pos + k)
       /\ pos' = pos + k
  /\ UNCHANGED <<from, stream, window, header, bodyLength, pc>>

\* recv returns 0: the server closed; the forward ends successfully.
ForwardClosed ==
  /\ pc = "forward"
  /\ Receiving
  /\ pos = Len(stream)
  /\ pc' = "done"
  /\ UNCHANGED <<from, stream, pos, window, header, bodyLength, got, out>>

\* recv returns -1: recvAll_Forward returns -1 and the proxy sends a 500.
ForwardError ==
  /\ pc = "forward"
  /\ Receiving
  /\ Fail
  /\ UNCHANGED <<from, stream, pos, window, header, bodyLength, got>>

\* The loop condition fails: all declared bytes have arrived.
ForwardEnd ==
  /\ pc = "forward"
  /\ ~Receiving
  /\ pc' = "done"
  /\ UNCHANGED <<from, stream, pos, window, header, bodyLength, got, out>>

-----------------------------------------------------------------------------
(***************************************************************************)
(* Reference definitions, from the Framer of spec.md section 4: readHeader *)
(* returns the bytes up to and including the first CRLFCRLF; the declared  *)
(* body length is the value of the length field (name compared without    *)
(* case), else "unknown" (-1) for a response whose status is exactly 200,  *)
(* else 0; readBody reads the declared length, or up to the close.        *)
(***************************************************************************)
Terminator == <<"CR", "LF", "CR", "LF">>

RefHeader(s) ==
  LET I == {i \in 4..Len(s) : SubSeq(s, i - 3, i) = Terminator}
  IN IF I = {} THEN s ELSE SubSeq(s, 1, Min(I))

RECURSIVE Lines(_)
Lines(s) ==
  LET i == IndexFrom(s, EOL, 1)
  IN IF i = 0 THEN <<s>> ELSE <<SubSeq(s, 1, i - 1)>> \o Lines(SubSeq(s, i + 2, Len(s)))

\* A header line "name: value"; the name is what precedes the first colon.
Colon(l) == IndexFrom(l, <<":">>, 1)
IsLengthLine(l) == Colon(l) > 0 /\ UpperSeq(SubSeq(l, 1, Colon(l) - 1)) = LengthField
Decimal(ds) == FoldLeft(LAMBDA acc, d : 10 * acc + DigitVal[d], 0, ds)
FieldValue(l) == Decimal(SelectSeq(SubSeq(l, Colon(l) + 1, Len(l)), LAMBDA b : b \in Digit))

\* The status of a status line "version SP code SP reason" is "200".
IsStatus200(l) ==
  LET a == IndexFrom(l, <<"SP">>, 1)
      r == SubSeq(l, a + 1, Len(l))
      b == IndexFrom(r, <<"SP">>, 1)
  IN a > 0 /\ b > 0 /\ SubSeq(r, 1, b - 1) = <<"2", "0", "0">>

RefDeclared(h) ==
  LET ls == Lines(h)
      L  == {i \in 2..Len(ls) : IsLengthLine(ls[i])}
  IN IF L # {} THEN FieldValue(ls[Min(L)])
     ELSE IF from = "server" /\ IsStatus200(ls[1]) THEN -1 ELSE 0

\* The body length the peer's header declares; 0 for a header cut short.
Declared == IF IsSuffix(Terminator, header) THEN RefDeclared(header) ELSE 0

-----------------------------------------------------------------------------
\* recvHeader's reversed four-byte window ends the header exactly at the
\* first CRLFCRLF the peer sent, byte by byte, never earlier and never past
\* it; a peer that closes first gets the bytes it sent.
HeaderFramed ==
  pc \notin {"header", "failed"} => header = RefHeader(stream)

\* The body length recvHeader derives with getHeaderField, strcasestr,
\* getStatusCode and atoi is the length the header declares: the
\* Content-Length value in any case and spacing, else -1 for a 200
\* response, else 0.
DeclaredLength ==
  pc \notin {"header", "failed", "crashed"} /\ IsSuffix(Terminator, header)
    => bodyLength = RefDeclared(header)

\* When recvAll_Forward returns normally the client holds the server's
\* header followed by the declared body, or all of the body that arrived
\* before the close, and only bytes the server sent.
BodyForwarded ==
  pc = "done" /\ from = "server" =>
    LET avail == Len(stream) - Len(header)
        need  == IF Declared < 0 \/ Declared > avail THEN avail ELSE Declared
    IN IsPrefix(out, stream) /\ Len(out) >= Len(header) + need

\* A header the proxy receives never crashes it: getStatusCode is reached
\* only with a space in the first 100 bytes.
ProxySurvives == pc # "crashed"

=============================================================================
