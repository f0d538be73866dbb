----------------------------- MODULE ServeProofs -----------------------------
(***************************************************************************)
(* Proofs about Serve, for any requests, buffer size and lengths.          *)
(*                                                                         *)
(* They follow one child from recv() to exit: what it has sent, what the   *)
(* header says of what it still has to send, and who allocated that.       *)
(***************************************************************************)
EXTENDS Serve, SequenceTheorems, TLAPS

Handlers  == {"INDEX", "ECHO", "USER_AGENT", "GET_FILE", "POST_FILE", "REDIRECT", "ERROR", "NOT_FOUND"}
Receiving == {"recv", "parse", "route"}
Sending   == {"send", "content", "free"}

\* What has gone out: one response, with n bytes of content behind it.
Replied(n) == << <<response, n>> >>
Rest == IF content = "null" THEN 0 ELSE contentLength

\* How much was sent, place by place: an exit without a word takes a failed call, a
\* crash takes one too, or a request that names nothing.
Outs ==
  /\ pc \in Receiving \cup Handlers \cup Sending \cup {"gzip", "echo", "exit", "crashed"}
  /\ pc \in Receiving \cup Handlers \cup {"gzip", "echo", "send"} => out = <<>>
  /\ pc = "content" => out = Replied(0)
  /\ pc = "free" => out = Replied(Rest)
  /\ pc = "exit" => \/ out = <<>> /\ faults # {}
                    \/ out = Replied(0) /\ "send" \in faults
                    \/ out = Replied(Rest)
  /\ pc = "crashed" => /\ out = <<>> \/ out = Replied(0)
                       /\ faults # {} \/ ~(Whole /\ Named(req))

\* A request that arrived whole is routed as it is.
Routed ==
  /\ req \in Requests
  /\ pc \notin {"recv", "parse"} /\ faults = {} /\ Whole =>
       header.route = req.route /\ header.name = req.name
  /\ pc = "ECHO" => header.route = "/echo/"
  /\ pc \in {"GET_FILE", "POST_FILE"} => header.route = "/files/"

\* Only an echo has content of its own; it is compressed exactly if the header goes on
\* saying so.
Contents ==
  /\ content \in {"null", "path", "compressed"}
  /\ pc \in Receiving \cup Handlers => content = "null"
  /\ pc = "gzip" => content = "path" /\ contentLength = TextLen /\ header.useEncoding = "gzip"
  /\ pc = "echo" => contentLength \in Nat /\ (content = "null" => contentLength = 0)
  /\ pc \in {"echo"} \cup Sending =>
       /\ content = "path" => header.useEncoding # "gzip"
       /\ content = "compressed" => header.useEncoding = "gzip"

\* What parseHeaders() returns.
Headed ==
  /\ header = [method |-> header.method, route |-> header.route, name |-> header.name,
               agent |-> header.agent, useEncoding |-> header.useEncoding]
  /\ header.agent \in Nat

\* What the response says of its body.
Formed ==
  pc \in Sending \/ out # <<>> =>
    /\ \/ "data" \in heap \cup faults
       \/ /\ content = "null" /\ response.inline \in Nat
          /\ response.inline = IF response.length = Uninit THEN 0 ELSE response.length
       \/ /\ content # "null" /\ response.inline = 0
          /\ response.length = contentLength /\ contentLength \in Nat
    /\ content = "compressed" => response.coding = "gzip"
    /\ response.coding = "gzip" => content # "path"

Answering == Outs /\ Routed /\ Contents /\ Headed /\ Formed /\ OnlyHeapFreed
-----------------------------------------------------------------------------
\* What messages are made of.
Alphabet == {CR, LF, SP, NUL, RequestLine} \cup UNION {Range(q.head) \cup Range(q.body) : q \in Requests}

\* A function on 1 .. n is a sequence of length n.
LEMMA MapIsSeq ==
  ASSUME NEW S, NEW n \in Nat, NEW f \in [1 .. n -> S]
  PROVE  f \in Seq(S) /\ Len(f) = n
<1>1. f \in Seq(S)
  BY SeqDef
<1> QED  BY <1>1, LenProperties

\* What the assumption calls a sequence is one, of its own elements.
LEMMA IsSeq ==
  ASSUME NEW s, IsSequence(s)
  PROVE  s \in Seq(Range(s)) /\ Len(s) \in Nat
<1>1. Len(s) \in Nat /\ s = [i \in 1 .. Len(s) |-> s[i]]
  BY DEF IsSequence
<1>2. DOMAIN s = 1 .. Len(s)
  BY <1>1
<1>3. \A i \in 1 .. Len(s) : s[i] \in Range(s)
  BY <1>2 DEF Range
<1>4. s \in [1 .. Len(s) -> Range(s)]
  BY <1>1, <1>3
<1> QED  BY <1>1, <1>4, MapIsSeq

\* The lines of a head are three symbols each.
LEMMA LinesShape ==
  ASSUME NEW q \in Requests
  PROVE  /\ Lines(q.head) \in Seq(Alphabet) /\ Len(Lines(q.head)) = 3 * Len(q.head)
         /\ q.head \in Seq(Alphabet) /\ q.body \in Seq(Alphabet)
         /\ Len(q.head) \in Nat /\ Len(q.body) \in Nat
<1>1. q.head \in Seq(Range(q.head)) /\ Len(q.head) \in Nat
  BY RequestsAssumption, IsSeq
<1>2. q.body \in Seq(Range(q.body)) /\ Len(q.body) \in Nat
  BY RequestsAssumption, IsSeq
<1>3. Range(q.head) \subseteq Alphabet /\ Range(q.body) \subseteq Alphabet
  BY DEF Alphabet
<1>4. q.head \in Seq(Alphabet) /\ q.body \in Seq(Alphabet)
  BY <1>1, <1>2, <1>3, SeqMonotonic
<1>5. 3 * Len(q.head) \in Nat
  BY <1>1
<1>6. \A i \in 1 .. 3 * Len(q.head) : Lines(q.head)[i] \in Alphabet
  <2> TAKE i \in 1 .. 3 * Len(q.head)
  <2>1. CASE i % 3 = 1
    <3>1. (i + 2) \div 3 \in 1 .. Len(q.head)
      BY <2>1, <1>1
    <3>2. q.head[(i + 2) \div 3] \in Alphabet
      BY <3>1, <1>4
    <3> QED  BY <3>2, <2>1 DEF Lines
  <2>2. CASE i % 3 # 1
    BY <2>2 DEF Lines, Alphabet
  <2> QED  BY <2>1, <2>2
<1>7. Lines(q.head) \in [1 .. 3 * Len(q.head) -> Alphabet]
  BY <1>6 DEF Lines
<1> QED  BY <1>1, <1>2, <1>4, <1>5, <1>7, MapIsSeq

\* A message has five symbols at least: a recv() that delivers one of them, or none,
\* has not delivered all.
LEMMA MessageShape ==
  ASSUME NEW q \in Requests
  PROVE  /\ Message(q) \in Seq(Alphabet)
         /\ Len(Message(q)) = 5 + 3 * Len(q.head) + Len(q.body) /\ Len(Message(q)) # 1
         /\ Len(q.head) \in Nat /\ Len(q.body) \in Nat
<1> DEFINE a == <<RequestLine, CR, LF>>
           b == Lines(q.head)
           c == <<CR, LF>>
           d == q.body
<1>1. /\ b \in Seq(Alphabet) /\ Len(b) = 3 * Len(q.head) /\ d \in Seq(Alphabet)
      /\ Len(q.head) \in Nat /\ Len(d) \in Nat
  BY LinesShape
<1>2. a \in Seq(Alphabet) /\ Len(a) = 3 /\ c \in Seq(Alphabet) /\ Len(c) = 2
  BY DEF Alphabet
<1> HIDE DEF a, b, c, d
<1>3. a \o b \in Seq(Alphabet) /\ Len(a \o b) = Len(a) + Len(b)
  BY <1>1, <1>2, ConcatProperties
<1>4. (a \o b) \o c \in Seq(Alphabet) /\ Len((a \o b) \o c) = Len(a \o b) + Len(c)
  BY <1>2, <1>3, ConcatProperties
<1>5. ((a \o b) \o c) \o d \in Seq(Alphabet) /\ Len(((a \o b) \o c) \o d) = Len((a \o b) \o c) + Len(d)
  BY <1>1, <1>4, ConcatProperties
<1>6. Len(((a \o b) \o c) \o d) = 5 + 3 * Len(q.head) + Len(d)
  BY <1>1, <1>2, <1>3, <1>4, <1>5
<1>7. \A m, n \in Nat : 5 + 3 * m + n # 1
  OBVIOUS
<1> QED  BY <1>1, <1>5, <1>6, <1>7 DEF Message, a, b, c, d

\* Every state before the response: nothing is out, nothing of what comes later is set.
LEMMA InitAnswering == Init => Answering
<1>1. Init => Outs
  BY DEF Init, Outs, Receiving, Handlers, Sending
<1>2. Init => Routed
  BY DEF Init, Routed
<1>3. Init => Contents
  BY DEF Init, Contents, Receiving, Handlers, Sending
<1>4. Init => Headed
  <2>1. NoHeader = [method |-> NoHeader.method, route |-> NoHeader.route, name |-> NoHeader.name,
                    agent |-> NoHeader.agent, useEncoding |-> NoHeader.useEncoding]
    BY DEF NoHeader
  <2>2. NoHeader.agent = 0
    BY DEF NoHeader
  <2>3. Init => header = NoHeader
    BY DEF Init
  <2> QED  BY <2>1, <2>2, <2>3 DEF Headed
<1>5. Init => Formed /\ OnlyHeapFreed
  BY DEF Init, Formed, Sending, OnlyHeapFreed
<1> QED  BY <1>1, <1>2, <1>3, <1>4, <1>5 DEF Answering

\* parseHeaders() reads the path as the client sent it unless all it had was a piece of the
\* request line, and a User-Agent of some length.
LEMMA Parsed ==
  ASSUME ParseHeaders
  PROVE  /\ Headed'
         /\ (header'.route = req.route /\ header'.name = req.name) \/ got = 1
<1> DEFINE agents == LastLine(buf, DOMAIN AgentLen)
           offers == LastLine(buf, DOMAIN Offers)
           atEnd(cut, S) == cut /\ S = {Len(buf)}
           agent(cut) == IF agents = {} THEN 0
                         ELSE LET i == CHOOSE i \in agents : TRUE
                              IN IF atEnd(cut, agents) THEN AgentLen[buf[i]] - 1 ELSE AgentLen[buf[i]]
           encoding(cut) ==
             IF offers = {} THEN ""
             ELSE LET i == CHOOSE i \in offers : TRUE
                  IN UseEncoding(IF atEnd(cut, offers) THEN Front(Offers[buf[i]]) ELSE Offers[buf[i]])
<1>1. PICK cut \in BOOLEAN, path \in CutPaths(req) :
        /\ path # [route |-> req.route, name |-> req.name] => got = 1 /\ cut
        /\ header' = [method |-> req.method, route |-> path.route, name |-> path.name,
                      agent |-> agent(cut), useEncoding |-> encoding(cut)]
  BY Zenon DEF ParseHeaders
<1>2. agent(cut) \in Nat
  <2>1. CASE agents = {}
    BY <2>1
  <2>2. CASE agents # {}
    <3> DEFINE i == CHOOSE i \in agents : TRUE
    <3>1. i \in agents
      BY <2>2
    <3>2. buf[i] \in DOMAIN AgentLen
      BY <3>1 DEF LastLine
    <3>3. AgentLen[buf[i]] \in Nat \ {0}
      BY <3>2, LengthsAssumption
    <3> HIDE DEF i
    <3>4. AgentLen[buf[i]] - 1 \in Nat /\ AgentLen[buf[i]] \in Nat
      BY <3>3
    <3> QED  BY <2>2, <3>4 DEF i
  <2> QED  BY <2>1, <2>2
<1> HIDE DEF agent, encoding
<1>3. Headed'
  BY <1>1, <1>2 DEF Headed
<1>4. header'.route = path.route /\ header'.name = path.name
  BY <1>1
<1> QED  BY <1>1, <1>3, <1>4

\* getResponseType() names a handler, and those of echo and of files only behind their route.
LEMMA Dispatch ==
  ASSUME Route
  PROVE  /\ pc' \in Handlers
         /\ pc' = "ECHO" => header.route = "/echo/"
         /\ pc' \in {"GET_FILE", "POST_FILE"} => header.route = "/files/"
<1>1. pc' = ResponseType(header.method, header.route, header.name)
  BY DEF Route
<1>2. \A m, r, n : ResponseType(m, r, n) \in Handlers
  BY Zenon DEF ResponseType, Handlers
<1>3. \A m, r, n : ResponseType(m, r, n) = "ECHO" => r = "/echo/"
  BY Zenon DEF ResponseType
<1>4. \A m, r, n : ResponseType(m, r, n) \in {"GET_FILE", "POST_FILE"} => r = "/files/"
  BY Zenon DEF ResponseType
<1> QED  BY <1>1, <1>2, <1>3, <1>4

\* The fixed answers have a body of the length they say, or say none.
LEMMA FixedResponse ==
  ASSUME Fixed
  PROVE  /\ response'.inline \in Nat /\ response'.coding = ""
         /\ response'.inline = IF response'.length = Uninit THEN 0 ELSE response'.length
<1>1. CASE pc = "INDEX"
  <2>1. response' = [OK EXCEPT !.length = 11, !.inline = 11]
    BY <1>1, Zenon DEF Fixed
  <2> QED  BY <2>1, LengthsAssumption DEF OK
<1>2. CASE pc = "REDIRECT"
  <2>1. response' = [OK EXCEPT !.status = 301]
    BY <1>2, Zenon DEF Fixed
  <2> QED  BY <2>1, LengthsAssumption DEF OK
<1>3. CASE pc = "ERROR"
  <2>1. response' = [OK EXCEPT !.status = 500]
    BY <1>3, Zenon DEF Fixed
  <2> QED  BY <2>1, LengthsAssumption DEF OK
<1>4. CASE pc = "NOT_FOUND"
  <2>1. response' = [OK EXCEPT !.status = 404]
    BY <1>4, Zenon DEF Fixed
  <2> QED  BY <2>1, LengthsAssumption DEF OK
<1> QED  BY <1>1, <1>2, <1>3, <1>4 DEF Fixed

\* What has been sent goes with the place: the early returns and the crashes have failed calls
\* behind them, and a response is followed by its content at most.
LEMMA OutsKept ==
  ASSUME Answering, Next
  PROVE  Outs'
<1>1. CASE Recv
  BY <1>1, LengthsAssumption DEF Recv, Answering, Outs, Routed, Contents, Whole, Named, Replied, Rest, Receiving, Handlers, Sending
<1>2. CASE RecvFails
  BY <1>2, LengthsAssumption DEF RecvFails, Answering, Outs, Routed, Contents, Whole, Named, Replied, Rest, Receiving, Handlers, Sending
<1>3. CASE RecvEmpty
  BY <1>3, LengthsAssumption DEF RecvEmpty, Answering, Outs, Routed, Contents, Whole, Named, Replied, Rest, Receiving, Handlers, Sending
<1>4. CASE ParseHeaders
  BY <1>4, LengthsAssumption DEF ParseHeaders, Answering, Outs, Routed, Contents, Whole, Named, Replied, Rest, Receiving, Handlers, Sending
<1>5. CASE ParseFails
  BY <1>5, LengthsAssumption DEF ParseFails, Answering, Outs, Routed, Contents, Whole, Named, Replied, Rest, Receiving, Handlers, Sending
<1>6. CASE Route
  BY <1>6, Dispatch DEF Route, Answering, Outs, Receiving, Handlers
<1>7. CASE Fixed
  BY <1>7, LengthsAssumption DEF Fixed, Answering, Outs, Routed, Contents, Whole, Named, Replied, Rest, Receiving, Handlers, Sending
<1>8. CASE EchoNothing
  BY <1>8, LengthsAssumption DEF EchoNothing, Answering, Outs, Routed, Contents, Whole, Named, Replied, Rest, Receiving, Handlers, Sending
<1>9. CASE EchoText
  BY <1>9, LengthsAssumption DEF EchoText, Answering, Outs, Routed, Contents, Whole, Named, Replied, Rest, Receiving, Handlers, Sending
<1>10. CASE EchoGzip
  BY <1>10, LengthsAssumption DEF EchoGzip, Answering, Outs, Routed, Contents, Whole, Named, Replied, Rest, Receiving, Handlers, Sending
<1>11. CASE EchoGzipFails
  BY <1>11, LengthsAssumption DEF EchoGzipFails, Answering, Outs, Routed, Contents, Whole, Named, Replied, Rest, Receiving, Handlers, Sending
<1>12. CASE EchoReply
  BY <1>12, LengthsAssumption DEF EchoReply, Answering, Outs, Routed, Contents, Whole, Named, Replied, Rest, Receiving, Handlers, Sending
<1>13. CASE UserAgent
  BY <1>13, LengthsAssumption DEF UserAgent, Answering, Outs, Routed, Contents, Whole, Named, Replied, Rest, Receiving, Handlers, Sending
<1>14. CASE GetMissing
  BY <1>14, LengthsAssumption DEF GetMissing, Answering, Outs, Routed, Contents, Whole, Named, Replied, Rest, Receiving, Handlers, Sending
<1>15. CASE GetFile
  BY <1>15, LengthsAssumption DEF GetFile, Answering, Outs, Routed, Contents, Whole, Named, Replied, Rest, Receiving, Handlers, Sending
<1>16. CASE PostMissing
  <2>1. pc' = "crashed" /\ faults' # {} /\ out = <<>>
    BY <1>16 DEF PostMissing, Answering, Outs, Handlers
  <2>2. out' = Replied(0)'
    BY <1>16, <2>1 DEF PostMissing, Replied
  <2> QED  BY <2>1, <2>2 DEF Outs, Receiving, Handlers
<1>17. CASE PostFile
  BY <1>17, LengthsAssumption DEF PostFile, Answering, Outs, Routed, Contents, Whole, Named, Replied, Rest, Receiving, Handlers, Sending
<1>18. CASE Send
  BY <1>18, LengthsAssumption DEF Send, Answering, Outs, Routed, Contents, Whole, Named, Replied, Rest, Receiving, Handlers, Sending
<1>19. CASE SendFails
  BY <1>19, LengthsAssumption DEF SendFails, Answering, Outs, Routed, Contents, Whole, Named, Replied, Rest, Receiving, Handlers, Sending
<1>20. CASE SendContent
  <2>1. out = Replied(0)
    BY <1>20 DEF SendContent, Answering, Outs
  <2>2. CASE content # "null" /\ pc' = "free" /\ out' = [out EXCEPT ![Len(out)] = <<response, contentLength>>]
    <3>1. out' = << <<response, contentLength>> >>
      BY <2>1, <2>2 DEF Replied
    <3>2. response' = response /\ contentLength' = contentLength /\ content' = content
      BY <1>20 DEF SendContent
    <3>3. out' = Replied(Rest)'
      BY <3>1, <3>2, <2>2 DEF Replied, Rest
    <3> QED  BY <3>3, <2>2 DEF Outs, Receiving, Handlers, Sending
  <2>3. CASE content = "null" /\ pc' \in {"free", "exit"} /\ out' = out
    <3>1. response' = response /\ content' = content
      BY <1>20 DEF SendContent
    <3>2. out' = Replied(Rest)'
      BY <3>1, <2>1, <2>3 DEF Replied, Rest
    <3> QED  BY <3>2, <2>3 DEF Outs, Receiving, Handlers, Sending
  <2> QED  BY <1>20, <2>2, <2>3 DEF SendContent
<1>21. CASE Free
  BY <1>21, LengthsAssumption DEF Free, Answering, Outs, Routed, Contents, Whole, Named, Replied, Rest, Receiving, Handlers, Sending
<1>22. CASE GetFileUnread
  BY <1>22, LengthsAssumption DEF GetFileUnread, Answering, Outs, Routed, Contents, Whole, Named, Replied, Rest, Receiving, Handlers, Sending
<1> QED  BY <1>1, <1>2, <1>3, <1>4, <1>5, <1>6, <1>7, <1>8, <1>9, <1>10, <1>11, <1>12, <1>13, <1>14, <1>15, <1>16, <1>17, <1>18, <1>19, <1>20, <1>21, <1>22 DEF Next

\* A whole request keeps its path, and is handled by its route.
LEMMA RoutedKept ==
  ASSUME Answering, Next
  PROVE  Routed'
<1>1. CASE Recv
  BY <1>1, LengthsAssumption DEF Recv, Answering, Outs, Routed, Whole
<1>2. CASE RecvFails
  BY <1>2, LengthsAssumption DEF RecvFails, Answering, Outs, Routed, Whole
<1>3. CASE RecvEmpty
  BY <1>3 DEF RecvEmpty, Answering, Routed
<1>4. CASE ParseHeaders
  <2>1. pc' = "route" /\ req' = req /\ got' = got /\ req \in Requests
    BY <1>4 DEF ParseHeaders, Answering, Routed
  <2>2. Len(Message(req)) # 1
    BY <2>1, MessageShape
  <2>3. got = 1 => ~Whole'
    BY <2>1, <2>2 DEF Whole
  <2> QED  BY <2>1, <2>3, <1>4, Parsed DEF Routed
<1>5. CASE ParseFails
  BY <1>5, LengthsAssumption DEF ParseFails, Answering, Outs, Routed, Whole
<1>6. CASE Route
  BY <1>6, Dispatch DEF Route, Answering, Routed, Whole
<1>7. CASE Fixed
  BY <1>7, LengthsAssumption DEF Fixed, Answering, Outs, Routed, Whole
<1>8. CASE EchoNothing
  BY <1>8, LengthsAssumption DEF EchoNothing, Answering, Outs, Routed, Whole
<1>9. CASE EchoText
  BY <1>9, LengthsAssumption DEF EchoText, Answering, Outs, Routed, Whole
<1>10. CASE EchoGzip
  BY <1>10, LengthsAssumption DEF EchoGzip, Answering, Outs, Routed, Whole
<1>11. CASE EchoGzipFails
  BY <1>11, LengthsAssumption DEF EchoGzipFails, Answering, Outs, Routed, Whole
<1>12. CASE EchoReply
  BY <1>12, LengthsAssumption DEF EchoReply, Answering, Outs, Routed, Whole
<1>13. CASE UserAgent
  BY <1>13, LengthsAssumption DEF UserAgent, Answering, Outs, Routed, Whole
<1>14. CASE GetMissing
  BY <1>14, LengthsAssumption DEF GetMissing, Answering, Outs, Routed, Whole
<1>15. CASE GetFile
  BY <1>15, LengthsAssumption DEF GetFile, Answering, Outs, Routed, Whole
<1>16. CASE PostMissing
  BY <1>16, LengthsAssumption DEF PostMissing, Answering, Outs, Routed, Whole
<1>17. CASE PostFile
  BY <1>17, LengthsAssumption DEF PostFile, Answering, Outs, Routed, Whole
<1>18. CASE Send
  BY <1>18, LengthsAssumption DEF Send, Answering, Outs, Routed, Whole
<1>19. CASE SendFails
  BY <1>19, LengthsAssumption DEF SendFails, Answering, Outs, Routed, Whole
<1>20. CASE SendContent
  BY <1>20, LengthsAssumption DEF SendContent, Answering, Outs, Routed, Whole
<1>21. CASE Free
  BY <1>21, LengthsAssumption DEF Free, Answering, Outs, Routed, Whole
<1>22. CASE GetFileUnread
  BY <1>22, LengthsAssumption DEF GetFileUnread, Answering, Outs, Routed, Whole
<1> QED  BY <1>1, <1>2, <1>3, <1>4, <1>5, <1>6, <1>7, <1>8, <1>9, <1>10, <1>11, <1>12, <1>13, <1>14, <1>15, <1>16, <1>17, <1>18, <1>19, <1>20, <1>21, <1>22 DEF Next

\* content is set by an echo alone, and gzip() is all that allocates it.
LEMMA ContentsKept ==
  ASSUME Answering, Next
  PROVE  Contents'
<1>1. CASE Recv
  BY <1>1, LengthsAssumption DEF Recv, Answering, Headed, Contents, Receiving, Handlers, Sending
<1>2. CASE RecvFails
  BY <1>2, LengthsAssumption DEF RecvFails, Answering, Headed, Contents, Receiving, Handlers, Sending
<1>3. CASE RecvEmpty
  BY <1>3, LengthsAssumption DEF RecvEmpty, Answering, Headed, Contents, Receiving, Handlers, Sending
<1>4. CASE ParseHeaders
  BY <1>4, LengthsAssumption DEF ParseHeaders, Answering, Headed, Contents, Receiving, Handlers, Sending
<1>5. CASE ParseFails
  BY <1>5, LengthsAssumption DEF ParseFails, Answering, Headed, Contents, Receiving, Handlers, Sending
<1>6. CASE Route
  BY <1>6, Dispatch DEF Route, Answering, Contents, Receiving, Handlers, Sending
<1>7. CASE Fixed
  BY <1>7, LengthsAssumption DEF Fixed, Answering, Headed, Contents, Receiving, Handlers, Sending
<1>8. CASE EchoNothing
  BY <1>8, LengthsAssumption DEF EchoNothing, Answering, Headed, Contents, Receiving, Handlers, Sending
<1>9. CASE EchoText
  BY <1>9, LengthsAssumption DEF EchoText, Answering, Headed, Contents, Receiving, Handlers, Sending
<1>10. CASE EchoGzip
  BY <1>10, LengthsAssumption DEF EchoGzip, Answering, Headed, Contents, Receiving, Handlers, Sending
<1>11. CASE EchoGzipFails
  BY <1>11, LengthsAssumption DEF EchoGzipFails, Answering, Headed, Contents, Receiving, Handlers, Sending
<1>12. CASE EchoReply
  BY <1>12, LengthsAssumption DEF EchoReply, Answering, Headed, Contents, Receiving, Handlers, Sending
<1>13. CASE UserAgent
  BY <1>13, LengthsAssumption DEF UserAgent, Answering, Headed, Contents, Receiving, Handlers, Sending
<1>14. CASE GetMissing
  BY <1>14, LengthsAssumption DEF GetMissing, Answering, Headed, Contents, Receiving, Handlers, Sending
<1>15. CASE GetFile
  BY <1>15, LengthsAssumption DEF GetFile, Answering, Headed, Contents, Receiving, Handlers, Sending
<1>16. CASE PostMissing
  BY <1>16, LengthsAssumption DEF PostMissing, Answering, Headed, Contents, Receiving, Handlers, Sending
<1>17. CASE PostFile
  BY <1>17, LengthsAssumption DEF PostFile, Answering, Headed, Contents, Receiving, Handlers, Sending
<1>18. CASE Send
  BY <1>18, LengthsAssumption DEF Send, Answering, Headed, Contents, Receiving, Handlers, Sending
<1>19. CASE SendFails
  BY <1>19, LengthsAssumption DEF SendFails, Answering, Headed, Contents, Receiving, Handlers, Sending
<1>20. CASE SendContent
  BY <1>20, LengthsAssumption DEF SendContent, Answering, Headed, Contents, Receiving, Handlers, Sending
<1>21. CASE Free
  BY <1>21, LengthsAssumption DEF Free, Answering, Headed, Contents, Receiving, Handlers, Sending
<1>22. CASE GetFileUnread
  BY <1>22, LengthsAssumption DEF GetFileUnread, Answering, Headed, Contents, Receiving, Handlers, Sending
<1> QED  BY <1>1, <1>2, <1>3, <1>4, <1>5, <1>6, <1>7, <1>8, <1>9, <1>10, <1>11, <1>12, <1>13, <1>14, <1>15, <1>16, <1>17, <1>18, <1>19, <1>20, <1>21, <1>22 DEF Next

\* The header is written by parseHeaders() and by a failed gzip().
LEMMA HeadedKept ==
  ASSUME Answering, Next
  PROVE  Headed'
<1>1. CASE Recv
  BY <1>1, LengthsAssumption DEF Recv, Answering, Headed
<1>2. CASE RecvFails
  BY <1>2, LengthsAssumption DEF RecvFails, Answering, Headed
<1>3. CASE RecvEmpty
  BY <1>3, LengthsAssumption DEF RecvEmpty, Answering, Headed
<1>4. CASE ParseHeaders
  BY <1>4, Parsed
<1>5. CASE ParseFails
  BY <1>5, LengthsAssumption DEF ParseFails, Answering, Headed
<1>6. CASE Route
  BY <1>6, LengthsAssumption DEF Route, Answering, Headed
<1>7. CASE Fixed
  BY <1>7, LengthsAssumption DEF Fixed, Answering, Headed
<1>8. CASE EchoNothing
  BY <1>8, LengthsAssumption DEF EchoNothing, Answering, Headed
<1>9. CASE EchoText
  BY <1>9, LengthsAssumption DEF EchoText, Answering, Headed
<1>10. CASE EchoGzip
  BY <1>10, LengthsAssumption DEF EchoGzip, Answering, Headed
<1>11. CASE EchoGzipFails
  BY <1>11, LengthsAssumption DEF EchoGzipFails, Answering, Headed
<1>12. CASE EchoReply
  BY <1>12, LengthsAssumption DEF EchoReply, Answering, Headed
<1>13. CASE UserAgent
  BY <1>13, LengthsAssumption DEF UserAgent, Answering, Headed
<1>14. CASE GetMissing
  BY <1>14, LengthsAssumption DEF GetMissing, Answering, Headed
<1>15. CASE GetFile
  BY <1>15, LengthsAssumption DEF GetFile, Answering, Headed
<1>16. CASE PostMissing
  BY <1>16, LengthsAssumption DEF PostMissing, Answering, Headed
<1>17. CASE PostFile
  BY <1>17, LengthsAssumption DEF PostFile, Answering, Headed
<1>18. CASE Send
  BY <1>18, LengthsAssumption DEF Send, Answering, Headed
<1>19. CASE SendFails
  BY <1>19, LengthsAssumption DEF SendFails, Answering, Headed
<1>20. CASE SendContent
  BY <1>20, LengthsAssumption DEF SendContent, Answering, Headed
<1>21. CASE Free
  BY <1>21, LengthsAssumption DEF Free, Answering, Headed
<1>22. CASE GetFileUnread
  BY <1>22, LengthsAssumption DEF GetFileUnread, Answering, Headed
<1> QED  BY <1>1, <1>2, <1>3, <1>4, <1>5, <1>6, <1>7, <1>8, <1>9, <1>10, <1>11, <1>12, <1>13, <1>14, <1>15, <1>16, <1>17, <1>18, <1>19, <1>20, <1>21, <1>22 DEF Next

\* Each handler says the length of the body that it sends.
LEMMA FormedKept ==
  ASSUME Answering, Next
  PROVE  Formed'
<1>1. CASE Recv
  BY <1>1, LengthsAssumption DEF Recv, Answering, Outs, Headed, Contents, Formed, OK, Receiving, Handlers, Sending, Replied
<1>2. CASE RecvFails
  BY <1>2, LengthsAssumption DEF RecvFails, Answering, Outs, Headed, Contents, Formed, OK, Receiving, Handlers, Sending, Replied
<1>3. CASE RecvEmpty
  BY <1>3, LengthsAssumption DEF RecvEmpty, Answering, Outs, Headed, Contents, Formed, OK, Receiving, Handlers, Sending, Replied
<1>4. CASE ParseHeaders
  BY <1>4, LengthsAssumption DEF ParseHeaders, Answering, Outs, Headed, Contents, Formed, OK, Receiving, Handlers, Sending, Replied
<1>5. CASE ParseFails
  BY <1>5, LengthsAssumption DEF ParseFails, Answering, Outs, Headed, Contents, Formed, OK, Receiving, Handlers, Sending, Replied
<1>6. CASE Route
  BY <1>6, Dispatch DEF Route, Answering, Outs, Formed, Receiving, Handlers, Sending
<1>7. CASE Fixed
  <2>1. content' = "null"
    BY <1>7 DEF Fixed, Answering, Contents, Handlers
  <2> QED  BY <1>7, <2>1, FixedResponse DEF Formed
<1>8. CASE EchoNothing
  BY <1>8, LengthsAssumption DEF EchoNothing, Answering, Outs, Headed, Contents, Formed, OK, Receiving, Handlers, Sending, Replied
<1>9. CASE EchoText
  BY <1>9, LengthsAssumption DEF EchoText, Answering, Outs, Headed, Contents, Formed, OK, Receiving, Handlers, Sending, Replied
<1>10. CASE EchoGzip
  BY <1>10, LengthsAssumption DEF EchoGzip, Answering, Outs, Headed, Contents, Formed, OK, Receiving, Handlers, Sending, Replied
<1>11. CASE EchoGzipFails
  BY <1>11, LengthsAssumption DEF EchoGzipFails, Answering, Outs, Headed, Contents, Formed, OK, Receiving, Handlers, Sending, Replied
<1>12. CASE EchoReply
  BY <1>12, LengthsAssumption DEF EchoReply, Answering, Outs, Headed, Contents, Formed, OK, Receiving, Handlers, Sending, Replied
<1>13. CASE UserAgent
  BY <1>13, LengthsAssumption DEF UserAgent, Answering, Outs, Headed, Contents, Formed, OK, Receiving, Handlers, Sending, Replied
<1>14. CASE GetMissing
  BY <1>14, LengthsAssumption DEF GetMissing, Answering, Outs, Headed, Contents, Formed, OK, Receiving, Handlers, Sending, Replied
<1>15. CASE GetFile
  BY <1>15, LengthsAssumption DEF GetFile, Answering, Outs, Headed, Contents, Formed, OK, Receiving, Handlers, Sending, Replied
<1>16. CASE PostMissing
  BY <1>16, LengthsAssumption DEF PostMissing, Answering, Outs, Headed, Contents, Formed, OK, Receiving, Handlers, Sending, Replied
<1>17. CASE PostFile
  <2>1. CASE header.name = ""
    BY <2>1, <1>17 DEF PostFile, Answering, Outs, Formed, Handlers, Sending
  <2>2. CASE header.name # ""
    <3>1. content' = "null"
      BY <1>17 DEF PostFile, Answering, Contents, Handlers
    <3>2. response' = [OK EXCEPT !.status = 201, !.length = 0]
      BY <1>17, <2>2 DEF PostFile
    <3>3. /\ response'.inline \in Nat /\ response'.coding = ""
          /\ response'.inline = IF response'.length = Uninit THEN 0 ELSE response'.length
      BY <3>2, LengthsAssumption DEF OK
    <3> QED  BY <3>1, <3>3 DEF Formed
  <2> QED  BY <2>1, <2>2
<1>18. CASE Send
  BY <1>18, LengthsAssumption DEF Send, Answering, Outs, Headed, Contents, Formed, OK, Receiving, Handlers, Sending, Replied
<1>19. CASE SendFails
  BY <1>19, LengthsAssumption DEF SendFails, Answering, Outs, Headed, Contents, Formed, OK, Receiving, Handlers, Sending, Replied
<1>20. CASE SendContent
  BY <1>20, LengthsAssumption DEF SendContent, Answering, Outs, Headed, Contents, Formed, OK, Receiving, Handlers, Sending, Replied
<1>21. CASE Free
  BY <1>21, LengthsAssumption DEF Free, Answering, Outs, Headed, Contents, Formed, OK, Receiving, Handlers, Sending, Replied
<1>22. CASE GetFileUnread
  BY <1>22, LengthsAssumption DEF GetFileUnread, Answering, Outs, Headed, Contents, Formed, OK, Receiving, Handlers, Sending, Replied
<1> QED  BY <1>1, <1>2, <1>3, <1>4, <1>5, <1>6, <1>7, <1>8, <1>9, <1>10, <1>11, <1>12, <1>13, <1>14, <1>15, <1>16, <1>17, <1>18, <1>19, <1>20, <1>21, <1>22 DEF Next

\* content is freed where the header says gzip, which is where gzip() allocated it.
LEMMA OnlyHeapFreedKept ==
  ASSUME Answering, Next
  PROVE  OnlyHeapFreed'
<1>1. CASE Recv
  BY <1>1, LengthsAssumption DEF Recv, Answering, Contents, OnlyHeapFreed, Sending
<1>2. CASE RecvFails
  BY <1>2, LengthsAssumption DEF RecvFails, Answering, Contents, OnlyHeapFreed, Sending
<1>3. CASE RecvEmpty
  BY <1>3, LengthsAssumption DEF RecvEmpty, Answering, Contents, OnlyHeapFreed, Sending
<1>4. CASE ParseHeaders
  BY <1>4, LengthsAssumption DEF ParseHeaders, Answering, Contents, OnlyHeapFreed, Sending
<1>5. CASE ParseFails
  BY <1>5, LengthsAssumption DEF ParseFails, Answering, Contents, OnlyHeapFreed, Sending
<1>6. CASE Route
  BY <1>6, LengthsAssumption DEF Route, Answering, Contents, OnlyHeapFreed, Sending
<1>7. CASE Fixed
  BY <1>7, LengthsAssumption DEF Fixed, Answering, Contents, OnlyHeapFreed, Sending
<1>8. CASE EchoNothing
  BY <1>8, LengthsAssumption DEF EchoNothing, Answering, Contents, OnlyHeapFreed, Sending
<1>9. CASE EchoText
  BY <1>9, LengthsAssumption DEF EchoText, Answering, Contents, OnlyHeapFreed, Sending
<1>10. CASE EchoGzip
  BY <1>10, LengthsAssumption DEF EchoGzip, Answering, Contents, OnlyHeapFreed, Sending
<1>11. CASE EchoGzipFails
  BY <1>11, LengthsAssumption DEF EchoGzipFails, Answering, Contents, OnlyHeapFreed, Sending
<1>12. CASE EchoReply
  BY <1>12, LengthsAssumption DEF EchoReply, Answering, Contents, OnlyHeapFreed, Sending
<1>13. CASE UserAgent
  BY <1>13, LengthsAssumption DEF UserAgent, Answering, Contents, OnlyHeapFreed, Sending
<1>14. CASE GetMissing
  BY <1>14, LengthsAssumption DEF GetMissing, Answering, Contents, OnlyHeapFreed, Sending
<1>15. CASE GetFile
  BY <1>15, LengthsAssumption DEF GetFile, Answering, Contents, OnlyHeapFreed, Sending
<1>16. CASE PostMissing
  BY <1>16, LengthsAssumption DEF PostMissing, Answering, Contents, OnlyHeapFreed, Sending
<1>17. CASE PostFile
  BY <1>17, LengthsAssumption DEF PostFile, Answering, Contents, OnlyHeapFreed, Sending
<1>18. CASE Send
  BY <1>18, LengthsAssumption DEF Send, Answering, Contents, OnlyHeapFreed, Sending
<1>19. CASE SendFails
  BY <1>19, LengthsAssumption DEF SendFails, Answering, Contents, OnlyHeapFreed, Sending
<1>20. CASE SendContent
  BY <1>20, LengthsAssumption DEF SendContent, Answering, Contents, OnlyHeapFreed, Sending
<1>21. CASE Free
  BY <1>21, LengthsAssumption DEF Free, Answering, Contents, OnlyHeapFreed, Sending
<1>22. CASE GetFileUnread
  BY <1>22, LengthsAssumption DEF GetFileUnread, Answering, Contents, OnlyHeapFreed, Sending
<1> QED  BY <1>1, <1>2, <1>3, <1>4, <1>5, <1>6, <1>7, <1>8, <1>9, <1>10, <1>11, <1>12, <1>13, <1>14, <1>15, <1>16, <1>17, <1>18, <1>19, <1>20, <1>21, <1>22 DEF Next

\* Nothing of it changes when nothing moves.
LEMMA AnsweringStutters == ASSUME Answering, UNCHANGED vars PROVE Answering'
<1>1. Outs' /\ Routed'
  BY DEF vars, Answering, Outs, Routed, Whole, Named, Replied, Rest, Receiving, Handlers
<1>2. Contents' /\ Headed'
  BY DEF vars, Answering, Contents, Headed, Receiving, Handlers, Sending
<1>3. Formed' /\ OnlyHeapFreed'
  BY DEF vars, Answering, Formed, OnlyHeapFreed, Sending
<1> QED  BY <1>1, <1>2, <1>3 DEF Answering

\* How far a child is with its answer, and what it says of it, at every place of serve().
THEOREM Answers == Spec => []Answering
<1>1. ASSUME Answering, [Next]_vars
      PROVE  Answering'
  <2>1. CASE Next
    BY <1>1, <2>1, OutsKept, RoutedKept, ContentsKept, HeadedKept, FormedKept, OnlyHeapFreedKept
    DEF Answering
  <2>2. CASE UNCHANGED vars
    BY <1>1, <2>2, AnsweringStutters
  <2> QED  BY <1>1, <2>1, <2>2
<1> QED  BY <1>1, InitAnswering, PTL DEF Spec

\* One response at most, and one for every whole request that no call failed: the early return
\* of server.c:362 has sent one, and the falls through of server.c:428 do not send two.
THEOREM OneAnswerHolds == Spec => []OneAnswer
<1>1. Answering => OneAnswer
  <2> SUFFICES ASSUME Answering PROVE OneAnswer
    OBVIOUS
  <2>1. out = <<>> \/ out = Replied(0) \/ out = Replied(Rest)
    <3>1. pc \in Receiving \cup Handlers \cup {"gzip", "echo", "send"} \/ pc \in {"content", "free", "exit", "crashed"}
      BY DEF Answering, Outs, Sending
    <3> QED  BY <3>1 DEF Answering, Outs
  <2>2. Len(Replied(0)) = 1 /\ Len(Replied(Rest)) = 1 /\ Len(<<>>) = 0
    BY DEF Replied
  <2>3. Ended /\ faults = {} /\ Whole /\ Named(req) => out # <<>>
    BY <2>2 DEF Ended, Answering, Outs
  <2>4. Len(out) \in {0, 1}
    BY <2>1, <2>2
  <2>5. \A n \in {0, 1} : n <= 1
    OBVIOUS
  <2>6. out # <<>> => Len(out) = 1
    BY <2>1, <2>2
  <2> QED  BY <2>3, <2>4, <2>5, <2>6 DEF OneAnswer
<1> QED  BY <1>1, Answers, PTL

\* Behind the headers come Content-Length bytes, whatever content and contentLength are when
\* server.c:503 sends them.
THEOREM LengthTrueHolds == Spec => []LengthTrue
<1>1. Answering => LengthTrue
  <2> SUFFICES ASSUME Answering, pc = "exit", "send" \notin faults, "data" \notin heap \cup faults,
                      NEW k \in DOMAIN out
               PROVE  out[k][1].inline + out[k][2] =
                        IF out[k][1].length = Uninit THEN 0 ELSE out[k][1].length
    BY DEF LengthTrue
  <2>1. out = Replied(Rest) /\ out # <<>>
    BY DEF Answering, Outs
  <2>2. out[k][1] = response /\ out[k][2] = Rest
    BY <2>1 DEF Replied
  <2>3. CASE content = "null"
    <3>1. /\ response.inline \in Nat
          /\ response.inline = IF response.length = Uninit THEN 0 ELSE response.length
      BY <2>1, <2>3 DEF Answering, Formed
    <3>2. out[k][1] = response /\ out[k][2] = 0
      BY <2>2, <2>3 DEF Rest
    <3>3. response.inline + 0 = response.inline
      BY <3>1
    <3> QED  BY <3>1, <3>2, <3>3
  <2>4. CASE content # "null"
    BY <2>1, <2>2, <2>4, LengthsAssumption DEF Answering, Formed, Rest
  <2> QED  BY <2>3, <2>4
<1> QED  BY <1>1, Answers, PTL

\* A compressed text is called gzip, and what is called gzip is compressed or missing.
THEOREM GzipLabelTrueHolds == Spec => []GzipLabelTrue
<1>1. Answering => GzipLabelTrue
  <2> SUFFICES ASSUME Answering, NEW k \in DOMAIN out
               PROVE  /\ content = "compressed" => out[k][1].coding = "gzip"
                      /\ out[k][1].coding = "gzip" => content # "path"
    BY DEF GzipLabelTrue, Sent
  <2>1. out # <<>> /\ out[k][1] = response
    <3>1. \E n : out = Replied(n)
      <4>1. pc \in Receiving \cup Handlers \cup {"gzip", "echo", "send"} \/ pc \in {"content", "free", "exit", "crashed"}
        BY DEF Answering, Outs, Sending
      <4> QED  BY <4>1 DEF Answering, Outs
    <3> QED  BY <3>1 DEF Replied
  <2> QED  BY <2>1 DEF Answering, Formed
<1> QED  BY <1>1, Answers, PTL

\* free() is given the header and what gzip() allocated, never the path inside of the header.
THEOREM OnlyHeapFreedHolds == Spec => []OnlyHeapFreed
<1>1. Answering => OnlyHeapFreed
  BY DEF Answering
<1> QED  BY <1>1, Answers, PTL
=============================================================================
