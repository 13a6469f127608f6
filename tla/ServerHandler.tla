---------------------------- MODULE ServerHandler ----------------------------
(***************************************************************************)
(* The server's answer to a connection (src/server.c handleClient, PROCESS *)
(* branch): checkAndSend(c, 0) reads the request with one recv into        *)
(* line[20000], parses it with sscanf("%[^ ] %[^ ] %[^ ]"), checks the     *)
(* method and the path, looks the file up, and answers with sendError or   *)
(* sendResponse (functions/sendResponse.c, sendError.c), which write the   *)
(* header and then the body with sendAll.                                  *)
(*                                                                         *)
(* The file system is the constant FileSystem: a function from file names *)
(* (token sequences, "./" for the root) to [kind |-> "file", size,        *)
(* readable] or [kind |-> "dir", readable].  "index.html" is "i" "."      *)
(* "html", an extension is one token, and a media type one string.  File  *)
(* bodies are "B" tokens; an error page is one token naming its text, and a *)
(* directory listing is one token, so their Content-Length is 1.         *)
(***************************************************************************)
EXTENDS Framer

CONSTANTS
  FileSystem,  \* the files and directories under the server's root
  RecvWhole    \* one recv returns the whole request

PROTOCOL  == <<"X", "X", "X", "X", "X", "X", "X", "X">>   \* "HTTP/1.0"
GET       == <<"G", "E", "T">>
Index     == <<"i", ".", "html">>     \* "index.html"
Root      == <<".", "/">>              \* "./"
Listing   == <<"B">>                   \* the directory listing page

DigitTok == [n \in 0..5 |-> CHOOSE d \in Digit : DigitVal[d] = n]

\* snprintf("%d") / ("%ld") of a small non-negative number.
RECURSIVE DecimalText(_)
DecimalText(n) ==
  IF n < 10 THEN <<DigitTok[n]>> ELSE DecimalText(n \div 10) \o <<DigitTok[n % 10]>>

\* sendResponse: "%s %d %s %s%sContent-Length: %ld %sContent-Type: %s %s%s"
\* (PROTOCOL, status, title, EOL, headers, length, EOL, mime, EOL, EOL),
\* then the body.  The title is one token and the MIME type one string.
sendResponse(status, headers, mime, length, body) ==
  PROTOCOL \o <<"SP">> \o DecimalText(status) \o <<"SP", "X", "SP">> \o EOL \o headers
  \o LengthField \o <<":", "SP">> \o DecimalText(length) \o <<"SP">> \o EOL
  \o <<"X", ":", "SP", mime, "SP">> \o EOL \o EOL \o body

\* sendError: an HTML page about the status and the text, sent with
\* sendResponse.
sendError(status, headers, text) == sendResponse(status, headers, "text/html", 1, <<text>>)

\* %[^ ]: the longest non-empty run of bytes other than ' ' from i (line is
\* zero-filled, so it ends at the end of what recv returned); i - 1 if none.
RunEnd(s, i) ==
  LET J == {j \in i..Len(s) : \A m \in i..j : s[m] # "SP"}
  IN IF J = {} THEN i - 1 ELSE Max(J)

\* A blank in the format skips any whitespace.
SkipSpace(s, i) ==
  Max({j \in i..Len(s) + 1 : \A m \in i..j - 1 : s[m] \in Space})

\* sscanf(line, "%[^ ] %[^ ] %[^ ]", method, path, protocol).
Scan(line) ==
  LET e1 == RunEnd(line, 1)
      i2 == SkipSpace(line, e1 + 1)
      e2 == RunEnd(line, i2)
      i3 == SkipSpace(line, e2 + 1)
      e3 == RunEnd(line, i3)
  IN [count  |-> IF e1 < 1 THEN 0 ELSE IF e2 < i2 THEN 1 ELSE IF e3 < i3 THEN 2 ELSE 3,
      method |-> SubSeq(line, 1, e1),
      path   |-> SubSeq(line, i2, e2)]

\* strDecode: "%" and two hex digits become one byte.  Of the bytes the
\* digits 0-5 can encode, NUL ends the string and 0x20 is a space; any
\* other is a character of no special meaning here.
Decoded(a, b) ==
  LET c == 16 * DigitVal[a] + DigitVal[b]
  IN IF c = 0 THEN "NUL" ELSE IF c = 32 THEN "SP" ELSE "X"

RECURSIVE strDecode(_)
strDecode(f) ==
  IF f = <<>> THEN <<>>
  ELSE IF Len(f) >= 3 /\ f[1] = "%" /\ f[2] \in Digit /\ f[3] \in Digit
       THEN <<Decoded(f[2], f[3])>> \o strDecode(SubSeq(f, 4, Len(f)))
       ELSE <<f[1]>> \o strDecode(Tail(f))

\* file = &path[1], decoded in place and read up to its NUL; "./" if empty.
FileOf(path) ==
  LET d   == strDecode(Tail(path))
      nul == IndexFrom(d, <<"NUL">>, 1)
      f   == IF nul = 0 THEN d ELSE SubSeq(d, 1, nul - 1)
  IN IF f = <<>> THEN Root ELSE f

\* The test against forbidden file names.
Forbidden(f) ==
  \/ f[1] = "/"
  \/ f = <<".", ".">>
  \/ IsPrefix(<<".", ".", "/">>, f)
  \/ IndexFrom(f, <<"/", ".", ".", "/">>, 1) > 0
  \/ IsSuffix(<<"/", ".", ".">>, f)

\* contentType's table: the MIME type of each extension it knows.
MimeTypes ==
     "html" :> "text/html; charset=iso-8859-1" @@ "htm" :> "text/html; charset=iso-8859-1"
  @@ "jpg" :> "image/jpeg" @@ "jpeg" :> "image/jpeg" @@ "gif" :> "image/gif"
  @@ "png" :> "image/png" @@ "css" :> "text/css" @@ "au" :> "audio/basic"
  @@ "wav" :> "audio/wav" @@ "avi" :> "video/x-msvideo" @@ "mov" :> "video/quicktime"
  @@ "qt" :> "video/quicktime" @@ "mpeg" :> "video/mpeg" @@ "mpe" :> "video/mpeg"
  @@ "vrml" :> "model/vrml" @@ "wrl" :> "model/vrml" @@ "midi" :> "audio/midi"
  @@ "mid" :> "audio/midi" @@ "mp3" :> "audio/mpeg" @@ "ogg" :> "application/ogg"
  @@ "pac" :> "application/x-ns-proxy-autoconfig"
PlainText == "text/plain; charset=iso-8859-1"

\* Mutant: strchr in place of strrchr, the first dot of the name.
contentTypeFirstDot(f) ==
  LET dots == {i \in 1..Len(f) : f[i] = "."}
      rest == IF dots = {} THEN <<>> ELSE SubSeq(f, Min(dots) + 1, Len(f))
  IN IF Len(rest) = 1 /\ rest[1] \in DOMAIN MimeTypes THEN MimeTypes[rest[1]] ELSE PlainText

\* contentType: strrchr(file, '.'), and the whole rest of the name compared
\* with each extension; text/plain when there is no dot or no match.
contentType(f) ==
  LET dots == {i \in 1..Len(f) : f[i] = "."}
      rest == IF dots = {} THEN <<>> ELSE SubSeq(f, Max(dots) + 1, Len(f))
  IN IF Len(rest) = 1 /\ rest[1] \in DOMAIN MimeTypes THEN MimeTypes[rest[1]] ELSE PlainText

\* open and fileContents: mmap fails for an unreadable file and for an
\* empty one (a zero-length mapping is EINVAL), and the answer is 403.
ServeFile(f) ==
  IF ~FileSystem[f].readable \/ FileSystem[f].size = 0
  THEN sendError(403, <<>>, "Protected")
  ELSE sendResponse(200, <<>>, contentType(f), FileSystem[f].size,
                    [i \in 1..FileSystem[f].size |-> "B"])

\* The Location header of the redirect to path/.  strDecode decoded the
\* file in place inside path, so path is "/" and the decoded file.
Location(path) == <<"L", ":", "SP">> \o path \o <<"/">> \o EOL

\* scandir fails on a directory the server may not read (500), else the
\* listing page is sent as text/html.
ListDirectory(f) ==
  IF ~FileSystem[f].readable
  THEN sendError(500, <<>>, "ServerError")
  ELSE sendResponse(200, <<>>, "text/html", Len(Listing), Listing)

\* checkAndSend after the request is in line: the checks in their order.
checkAndSend(line) ==
  LET sc == Scan(line)
      f  == FileOf(sc.path)
  IN IF sc.count # 3 THEN sendError(400, <<>>, "CantParse")
     ELSE IF UpperSeq(sc.method) # GET THEN sendError(501, <<>>, "NotImplemented")
     ELSE IF sc.path[1] # "/" THEN sendError(400, <<>>, "BadFilename")
     ELSE IF Forbidden(f) THEN sendError(400, <<>>, "IllegalFilename")
     ELSE IF f \notin DOMAIN FileSystem THEN sendError(404, <<>>, "FileNotFound")
     ELSE IF FileSystem[f].kind = "file" THEN ServeFile(f)
     ELSE IF f[Len(f)] # "/" THEN sendError(302, Location(<<"/">> \o f), "MustEndWithSlash")
     ELSE IF f \o Index \in DOMAIN FileSystem THEN ServeFile(f \o Index)
     ELSE ListDirectory(f)

\* What one recv(c->conn, line, sizeof(line) - 1, 0) returns of the bytes
\* the peer sent: TCP may hand over any non-empty prefix.  With
\* RecvWhole the whole request is read at once.
Received(req) ==
  IF RecvWhole THEN {req} ELSE {SubSeq(req, 1, k) : k \in 1..Len(req)}

\* A recv error: sendError(400, "Bad Request", ..., "No request found.").
RecvFailed == sendError(400, <<>>, "NoRequest")
=============================================================================
