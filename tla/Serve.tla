-------------------------------- MODULE Serve --------------------------------
(***************************************************************************)
(* One child's work for its client: serve() of app/server.c with           *)
(* parseHeaders() and getResponseType(), from recv() to exit.              *)
(*                                                                         *)
(* A message is a sequence of symbols: CR, LF, SP and NUL are bytes, the   *)
(* other symbols stand for pieces of text that the code never splits (the  *)
(* request line, a header line, a word of the body).  The buffer is worked *)
(* on as the code does it, in place: strtok() writes NULs into it that the *)
(* tokenizer of a POST then finds.                                         *)
(***************************************************************************)
EXTENDS Integers, Sequences, FiniteSets, SequencesExt

CONSTANTS
  CR, LF, SP, NUL,
  RequestLine,     \* the symbol of the request line
  Offers,          \* [symbols of Accept-Encoding lines -> what they offer, in order]
  AgentLen,        \* [symbols of User-Agent lines -> length of their first word]
  Requests,        \* the requests that clients send
  BufSize,         \* symbols that fit readbuf
  TokenLimit,      \* tokens that the loop of a POST takes; 100 in the code
  TextLen, ZipLen, FileLen,   \* lengths of an echoed text, as it is and compressed; of a file
  Uninit, None     \* memory that was never written; nothing

Delims == {CR, LF}
Spaces == {CR, LF, SP}

\* A request: [method, route, name, head, body].  The path is route followed by
\* name, "" or not; head and body are sequences of symbols.
IsSequence(s) == Len(s) \in Nat /\ s = [i \in 1 .. Len(s) |-> s[i]]
ASSUME RequestsAssumption ==
  \A q \in Requests : IsSequence(q.head) /\ IsSequence(q.body)
ASSUME LengthsAssumption ==
  /\ TextLen \in Nat /\ ZipLen \in Nat /\ FileLen \in Nat /\ Uninit \notin Nat
  /\ \A s \in DOMAIN AgentLen : AgentLen[s] \in Nat \ {0}

\* The symbols that the code looks at are none of the pieces of text of a head.
ASSUME SymbolsAssumption ==
  /\ CR \notin {LF, SP, NUL} /\ LF \notin {SP, NUL} /\ SP # NUL
  /\ \A q \in Requests : ({RequestLine} \cup Range(q.head)) \cap {CR, LF, SP, NUL} = {}
ASSUME SizesAssumption ==
  /\ BufSize \in Nat /\ TokenLimit \in Nat
  /\ \A s \in DOMAIN Offers : IsSequence(Offers[s])

\* Each line of the head is three symbols.
Lines(head) == [i \in 1 .. 3 * Len(head) |->
  IF i % 3 = 1 THEN head[(i + 2) \div 3] ELSE IF i % 3 = 2 THEN CR ELSE LF]
Message(q) == <<RequestLine, CR, LF>> \o Lines(q.head) \o <<CR, LF>> \o q.body

VARIABLES
  pc,
  req, got,        \* what the client sends, and how many symbols of it recv() delivered
  buf,             \* readbuf, bytesread symbols of it
  header,          \* the Header that parseHeaders() returns
  content, contentLength,
  response,        \* the status line, headers and inline body that were formatted
  out,             \* what was sent: <<response, bytes of content>>
  heap, freed,     \* live allocations; what was given to free()
  stored,          \* what a POST wrote
  faults           \* history: calls that failed

vars == <<pc, req, got, buf, header, content, contentLength, response, out,
          heap, freed, stored, faults>>

NoHeader == [method |-> "", route |-> "", name |-> "", agent |-> 0, useEncoding |-> ""]

Init ==
  /\ pc = "recv"
  /\ req \in Requests
  /\ got = 0
  /\ buf = <<>>
  /\ header = NoHeader
  /\ content = "null" /\ contentLength = Uninit
  /\ response = None
  /\ out = <<>>
  /\ heap = {} /\ freed = {}
  /\ stored = None
  /\ faults = {}

-----------------------------------------------------------------------------
\* recv() and parseHeaders().

\* One recv(): whatever part of the message has arrived, up to the buffer.
Recv ==
  /\ pc = "recv"
  /\ \E n \in 1 .. Len(Message(req)) :
       /\ n <= BufSize
       /\ got' = n
       /\ buf' = SubSeq(Message(req), 1, n)
  /\ pc' = "parse"
  /\ UNCHANGED <<req, header, content, contentLength, response, out, heap, freed, stored, faults>>

\* It fails, and serve() returns.
RecvFails ==
  /\ pc = "recv"
  /\ pc' = "exit"
  /\ faults' = {"recv"}
  /\ UNCHANGED <<req, got, buf, header, content, contentLength, response, out, heap, freed, stored>>

\* The client has closed: nothing arrives.  serve() goes on with what the stack
\* holds, which is no request: only children have ever received one.
RecvEmpty ==
  /\ pc = "recv"
  /\ heap' = {"header"}
  /\ pc' = "route"
  /\ faults' = {"recv"}
  /\ UNCHANGED <<req, got, buf, header, content, contentLength, response, out, freed, stored>>

\* Mutant: a NUL on every delimiter.
StrtokAll(b) == [i \in DOMAIN b |-> IF b[i] \in Delims THEN NUL ELSE b[i]]

\* strtok(pos, "\r\n") puts a NUL on the first delimiter behind each token, up to
\* a NUL of the message.
Strtok(b) ==
  [i \in DOMAIN b |->
     IF b[i] \in Delims /\ i > 1 /\ b[i - 1] \notin Delims /\ ~Contains(SubSeq(b, 1, i - 1), NUL)
     THEN NUL ELSE b[i]]

\* The tokens it yields begin here.
Tokens(b) ==
  {i \in DOMAIN b : /\ b[i] \notin Delims /\ ~Contains(SubSeq(b, 1, i), NUL)
                    /\ i = 1 \/ b[i - 1] \in Delims}

\* The last line that begins with a symbol of S counts, in the head or the body.
LastLine(b, S) == {i \in Tokens(b) : b[i] \in S /\ \A j \in Tokens(b) : b[j] \in S => j <= i}

ValidEncodings == {"gzip", "deflate", "identity"}

\* useEncoding: the last offer that is valid.
UseEncoding(offers) ==
  LET i == SelectLastInSeq(offers, LAMBDA e : e \in ValidEncodings)
  IN IF i = 0 THEN "" ELSE offers[i]

\* What the path may look like when the request line was cut short.
CutPaths(q) ==
  {[route |-> q.route, name |-> q.name], [route |-> q.route, name |-> ""],
   [route |-> "/", name |-> ""], [route |-> "", name |-> ""]}

\* parseHeaders().  What is cut off at the end of the buffer is read up to the next
\* NUL of the stack: the last line loses its last offer, or the end of its word.
ParseHeaders ==
  /\ pc = "parse"
  /\ \E cut \in BOOLEAN, path \in CutPaths(req) :
       LET atEnd(S) == cut /\ S = {Len(buf)}
           agents   == LastLine(buf, DOMAIN AgentLen)
           offers   == LastLine(buf, DOMAIN Offers)
       IN /\ path # [route |-> req.route, name |-> req.name] => got = 1 /\ cut
          /\ header' =
               [method |-> req.method, route |-> path.route, name |-> path.name,
                agent |-> IF agents = {} THEN 0
                          ELSE LET i == CHOOSE i \in agents : TRUE
                               IN IF atEnd(agents) THEN AgentLen[buf[i]] - 1 ELSE AgentLen[buf[i]],
                useEncoding |->
                  IF offers = {} THEN ""
                  ELSE LET i == CHOOSE i \in offers : TRUE
                       IN UseEncoding(IF atEnd(offers) THEN Front(Offers[buf[i]]) ELSE Offers[buf[i]])]
  /\ buf' = Strtok(buf)
  /\ heap' = {"header"}
  /\ pc' = "route"
  /\ UNCHANGED <<req, got, content, contentLength, response, out, freed, stored, faults>>

\* calloc() fails: serve() goes on with a null Header.
ParseFails ==
  /\ pc = "parse"
  /\ faults' = {"memory"}
  /\ pc' = "crashed"
  /\ UNCHANGED <<req, got, buf, header, content, contentLength, response, out, heap, freed, stored>>

\* getResponseType()
ResponseType(method, route, name) ==
  CASE route = "/" /\ name = ""                  -> "INDEX"
    [] route = "/echo/" /\ method = "GET"        -> "ECHO"
    [] route = "/user-agent"                     -> "USER_AGENT"
    [] route = "/files/" /\ method = "GET"       -> "GET_FILE"
    [] route = "/files/" /\ method = "POST"      -> "POST_FILE"
    [] route = "/redirect" /\ name = ""          -> "REDIRECT"
    [] route = "/error" /\ name = ""             -> "ERROR"
    [] OTHER                                     -> "NOT_FOUND"

Route ==
  /\ pc = "route"
  /\ pc' = ResponseType(header.method, header.route, header.name)
  /\ UNCHANGED <<req, got, buf, header, content, contentLength, response, out, heap, freed,
                 stored, faults>>

-----------------------------------------------------------------------------
\* The handlers.

OK == [status |-> 200, coding |-> "", length |-> Uninit, inline |-> 0]

\* INDEX has its body inline; REDIRECT, ERROR and NOT_FOUND have none.  content
\* and contentLength stay as they are.
Fixed ==
  /\ pc \in {"INDEX", "REDIRECT", "ERROR", "NOT_FOUND"}
  /\ response' = CASE pc = "INDEX"     -> [OK EXCEPT !.length = 11, !.inline = 11]
                   [] pc = "REDIRECT"  -> [OK EXCEPT !.status = 301]
                   [] pc = "ERROR"     -> [OK EXCEPT !.status = 500]
                   [] pc = "NOT_FOUND" -> [OK EXCEPT !.status = 404]
  /\ pc' = "send"
  /\ UNCHANGED <<req, got, buf, header, content, contentLength, out, heap, freed, stored, faults>>

\* strlen() of no text at all: the child dies.
EchoNothing ==
  /\ pc = "ECHO" /\ header.name = ""
  /\ pc' = "crashed"
  /\ UNCHANGED <<req, got, buf, header, content, contentLength, response, out, heap, freed,
                 stored, faults>>

EchoText ==
  /\ pc = "ECHO" /\ header.name # ""
  /\ content' = "path" /\ contentLength' = TextLen
  /\ pc' = IF header.useEncoding = "gzip" THEN "gzip" ELSE "echo"
  /\ UNCHANGED <<req, got, buf, header, response, out, heap, freed, stored, faults>>

\* gzip(), as Gzip.tla has it: it delivers the stream; or has no memory for it and
\* says Z_OK all the same; or dies when the buffer cannot grow.
EchoGzip ==
  /\ pc = "gzip"
  /\ \/ /\ heap' = heap \cup {"compressed"}
        /\ content' = "compressed" /\ contentLength' = ZipLen
        /\ pc' = "echo" /\ UNCHANGED faults
     \/ /\ content' = "null" /\ contentLength' = 0
        /\ faults' = faults \cup {"memory"}
        /\ pc' = "echo" /\ UNCHANGED heap
     \/ /\ pc' = "crashed"
        /\ faults' = faults \cup {"memory"}
        /\ UNCHANGED <<heap, content, contentLength>>
  /\ UNCHANGED <<req, got, buf, header, response, out, freed, stored>>

\* Mutant: the header goes on saying gzip.
EchoGzipFailsKeeps ==
  /\ pc = "gzip"
  /\ heap' = heap \cup {"compressed"}
  /\ faults' = faults \cup {"memory"}
  /\ pc' = "echo"
  /\ UNCHANGED <<req, got, buf, header, content, contentLength, response, out, freed, stored>>

\* It fails: the text is sent as it is.
EchoGzipFails ==
  /\ pc = "gzip"
  /\ header' = [header EXCEPT !.useEncoding = "identity"]
  /\ heap' = heap \cup {"compressed"}
  /\ faults' = faults \cup {"memory"}
  /\ pc' = "echo"
  /\ UNCHANGED <<req, got, buf, content, contentLength, response, out, freed, stored>>

EchoReply ==
  /\ pc = "echo"
  /\ response' = [OK EXCEPT !.coding = header.useEncoding, !.length = contentLength]
  /\ pc' = "send"
  /\ UNCHANGED <<req, got, buf, header, content, contentLength, out, heap, freed, stored, faults>>

\* Mutant: the agent is in the response, and follows it.
UserAgentTwice ==
  /\ pc = "USER_AGENT"
  /\ content' = "path"
  /\ contentLength' = header.agent
  /\ response' = [OK EXCEPT !.length = header.agent, !.inline = header.agent]
  /\ pc' = "send"
  /\ UNCHANGED <<req, got, buf, header, out, heap, freed, stored, faults>>

UserAgent ==
  /\ pc = "USER_AGENT"
  /\ contentLength' = header.agent
  /\ response' = [OK EXCEPT !.length = header.agent, !.inline = header.agent]
  /\ pc' = "send"
  /\ UNCHANGED <<req, got, buf, header, content, out, heap, freed, stored, faults>>

\* Mutant: serve() does not return.
GetMissingGoesOn ==
  /\ pc = "GET_FILE"
  /\ response' = [OK EXCEPT !.status = 404]
  /\ out' = Append(out, <<response', 0>>)
  /\ faults' = faults \cup {"file"}
  /\ pc' = "send"
  /\ UNCHANGED <<req, got, buf, header, content, contentLength, heap, freed, stored>>

\* There is no such file: 404, and serve() returns.
GetMissing ==
  /\ pc = "GET_FILE"
  /\ response' = [OK EXCEPT !.status = 404]
  /\ out' = Append(out, <<response', 0>>)
  /\ faults' = faults \cup {"file"}
  /\ pc' = "exit"
  /\ UNCHANGED <<req, got, buf, header, content, contentLength, heap, freed, stored>>

\* A file is there (FileStore.tla has what it holds), maybe an empty one.  Without a
\* name it is the file "(null)", and strcmp() of the name kills the child; the second
\* open() may fail, and get_file_path_from_fd() exits.  "%s" sends the data up to the
\* first NUL, which may come before the end of the file or behind it.
GetFile ==
  /\ pc = "GET_FILE"
  /\ \/ /\ header.name = ""
        /\ pc' = "crashed"
        /\ UNCHANGED <<response, heap, faults>>
     \/ /\ header.name # ""
        /\ heap' = heap \cup {"data"}
        /\ \E n \in (FileLen - 1 .. FileLen + 1) \cap Nat :
             response' = [OK EXCEPT !.length = FileLen, !.inline = n]
        /\ pc' = "send"
        /\ UNCHANGED faults
     \/ /\ header.name # ""
        /\ heap' = heap \cup {"data"}
        /\ faults' = faults \cup {"file"}
        /\ pc' = "exit"
        /\ UNCHANGED response
  /\ UNCHANGED <<req, got, buf, header, content, contentLength, out, freed, stored>>

\* fseek(), ftell() or malloc() fails, and is not heeded: the size is 0, or -1 for which
\* there is no memory, or the file's with no memory for it.  fread() into no memory
\* kills the child or is refused; the 500 of server.c:378 or 394 is written over by the
\* 200 all the same, with "(null)" or with what malloc(0) returned behind it.
GetFileUnread ==
  /\ pc = "GET_FILE" /\ header.name # ""
  /\ faults' = faults \cup {"data"}
  /\ \/ /\ \E size \in {-1, 0, FileLen}, n \in {0, Len("(null)")} :
             response' = [OK EXCEPT !.length = size, !.inline = n]
        /\ pc' = "send"
     \/ /\ pc' \in {"crashed", "exit"}
        /\ UNCHANGED response
  /\ UNCHANGED <<req, got, buf, header, content, contentLength, out, heap, freed, stored>>

\* fopen() fails: 404, but the child goes on, and dies in fwrite().
PostMissing ==
  /\ pc = "POST_FILE"
  /\ response' = [OK EXCEPT !.status = 404]
  /\ out' = Append(out, <<response', 0>>)
  /\ faults' = faults \cup {"file"}
  /\ pc' = "crashed"
  /\ UNCHANGED <<req, got, buf, header, content, contentLength, heap, freed, stored>>

\* nob_sv_chop_by_delim(&content, '\n') and nob_sv_trim_left(content)
First(s, Is(_)) == LET i == SelectInSeq(s, Is) IN IF i = 0 THEN Len(s) + 1 ELSE i

\* Mutant: the delimiter belongs to the token.
ChopLineWhole(s) ==
  LET i == First(s, LAMBDA c : c = LF)
  IN [token |-> SubSeq(s, 1, IF i > Len(s) THEN Len(s) ELSE i), content |-> SubSeq(s, i + 1, Len(s))]

ChopLine(s) ==
  LET i == First(s, LAMBDA c : c = LF)
  IN [token |-> SubSeq(s, 1, i - 1), content |-> SubSeq(s, i + 1, Len(s))]
TrimLeft(s) == SubSeq(s, First(s, LAMBDA c : c \notin Spaces), Len(s))

\* Mutant: white space before a token is kept.
NextTokenUntrimmed(c) == IF c.content = <<>> THEN c ELSE ChopLine(c.content)

NextToken(c) == IF c.content = <<>> THEN c ELSE ChopLine(TrimLeft(c.content))

\* The tokenizer of a POST: chop lines until nothing is left or the limit is met.
\* The last token is what it takes for the body.
LastToken(b) ==
  LET chop[n \in 0 .. TokenLimit] == IF n = 0 THEN ChopLine(b) ELSE NextToken(chop[n - 1])
  IN chop[TokenLimit].token

\* The file is open.  Without a name it is the file "(null)", and strcmp() of the
\* name kills the child.
PostFile ==
  /\ pc = "POST_FILE"
  /\ \/ /\ header.name = ""
        /\ stored' = <<>>
        /\ pc' = "crashed"
        /\ UNCHANGED response
     \/ /\ header.name # ""
        /\ stored' = LastToken(buf)
        /\ response' = [OK EXCEPT !.status = 201, !.length = 0]
        /\ pc' = "send"
  /\ UNCHANGED <<req, got, buf, header, content, contentLength, out, heap, freed, faults>>

-----------------------------------------------------------------------------
\* What is common to them.

Send ==
  /\ pc = "send"
  /\ out' = Append(out, <<response, 0>>)
  /\ pc' = "content"
  /\ UNCHANGED <<req, got, buf, header, content, contentLength, response, heap, freed, stored, faults>>

\* Either send() fails: serve() returns, or SIGPIPE ends the child.
SendFails ==
  /\ pc \in {"send", "content"}
  /\ faults' = faults \cup {"send"}
  /\ pc' = "exit"
  /\ UNCHANGED <<req, got, buf, header, content, contentLength, response, out, heap, freed, stored>>

\* send(client_fd, content, contentLength, 0), which refuses a null pointer unless
\* the length is 0.  A length that was never set may be anything.
SendContent ==
  /\ pc = "content"
  /\ \/ /\ content # "null"
        /\ out' = [out EXCEPT ![Len(out)] = <<response, contentLength>>]
        /\ pc' = "free"
     \/ /\ content = "null" /\ contentLength \in {0, Uninit}
        /\ pc' = "free" /\ UNCHANGED out
     \/ /\ content = "null" /\ contentLength # 0
        /\ pc' = "exit" /\ UNCHANGED out
  /\ UNCHANGED <<req, got, buf, header, content, contentLength, response, heap, freed, stored, faults>>

\* free() of content if it is what gzip() allocated, and of the header.
Free ==
  /\ pc = "free"
  /\ freed' = {"header"} \cup
              (IF header.useEncoding = "gzip" /\ content # "null" THEN {content} ELSE {})
  /\ heap' = heap \ freed'
  /\ pc' = "exit"
  /\ UNCHANGED <<req, got, buf, header, content, contentLength, response, out, stored, faults>>

Next ==
  \/ Recv \/ RecvFails \/ RecvEmpty \/ ParseHeaders \/ ParseFails \/ Route
  \/ Fixed \/ EchoNothing \/ EchoText \/ EchoGzip \/ EchoGzipFails \/ EchoReply
  \/ UserAgent \/ GetMissing \/ GetFile \/ GetFileUnread
  \/ PostMissing \/ PostFile \/ Send \/ SendFails \/ SendContent \/ Free

Spec == Init /\ [][Next]_vars
-----------------------------------------------------------------------------

Ended    == pc \in {"exit", "crashed"}
Whole    == got = Len(Message(req))
Named(q) == q.route \in {"/echo/", "/files/"} => q.name # ""
Sent     == {out[k][1] : k \in DOMAIN out}

TypeOK ==
  /\ pc \in {"recv", "parse", "route", "gzip", "echo", "send", "content", "free", "exit", "crashed",
             "INDEX", "ECHO", "USER_AGENT", "GET_FILE", "POST_FILE", "REDIRECT", "ERROR", "NOT_FOUND"}
  /\ got \in 0 .. BufSize /\ Len(buf) = got
  /\ header.useEncoding \in ValidEncodings \cup {""} /\ header.agent \in Nat
  /\ content \in {"null", "path", "compressed"}
  /\ contentLength \in Nat \cup {Uninit}
  /\ heap \subseteq {"header", "compressed", "data"}
  /\ stored = None \/ (Len(stored) <= got /\ LF \notin Range(stored))
  /\ faults \subseteq {"recv", "memory", "file", "data", "send"}

\* A client gets at most one response on its connection, and gets one if its whole
\* request arrived with all it must name and no call of the child failed: the early
\* return of server.c:362 sends one, the falls through of server.c:428 do not send two.
OneAnswer ==
  /\ Len(out) <= 1
  /\ Ended /\ faults = {} /\ Whole /\ Named(req) => Len(out) = 1

\* Behind the headers come Content-Length bytes, or none where there is no such
\* header, although server.c:503 sends content and contentLength whatever they are.
\* A file is the exception: there nothing but the "%s" of server.c:407 counts.
LengthTrue ==
  pc = "exit" /\ "send" \notin faults /\ "data" \notin heap \cup faults =>
    \A k \in DOMAIN out :
      LET r == out[k][1]
      IN r.inline + out[k][2] = IF r.length = Uninit THEN 0 ELSE r.length

\* A compressed text is called gzip, and what is called gzip is compressed, or there
\* was no memory for it (server.c:300-322).
GzipLabelTrue ==
  \A r \in Sent : /\ content = "compressed" => r.coding = "gzip"
                  /\ r.coding = "gzip" => content # "path"

\* free() is given the header and what gzip() allocated, never the path inside of
\* the header (server.c:292, 509).
OnlyHeapFreed == freed \subseteq {"header", "compressed"}

\* A body of one line that does not begin with white space is stored as it is, if
\* it arrives with its head and the head has fewer lines than the tokenizer takes.
PlainBody(b) == Range(b) \cap Delims = {} /\ (b = <<>> \/ b[1] # SP)
InTime == Whole /\ Named(req) /\ Len(req.head) < TokenLimit

PlainBodyStored == stored # None /\ InTime /\ PlainBody(req.body) => stored = req.body

\* Whatever the body, what is stored is a piece of it in which line ends may have
\* become NULs (server.c:169, 455): no line of the head gets into the file.
StoredFromBody ==
  stored # None /\ InTime =>
    \E k \in 0 .. Len(req.body) - Len(stored) :
      \A i \in DOMAIN stored :
        stored[i] = req.body[k + i] \/ (stored[i] = NUL /\ req.body[k + i] \in Delims)

\* server.c:302-303: a text that could not be compressed is called "identity".  What
\* a response says of the coding of its body is so.
EncodingTrue ==
  \A r \in Sent : r.coding \in {"gzip", "deflate"} => content # "path"

\* server.c:464: "Content to Write".  What was answered with 201 is stored.
AckedBodyStored == \A r \in Sent : r.status = 201 => stored = req.body
=============================================================================
