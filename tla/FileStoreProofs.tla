--------------------------- MODULE FileStoreProofs ---------------------------
(***************************************************************************)
(* Proofs about FileStore, for any number of POSTs and GETs of any length  *)
(* and any choice of NULs.                                                 *)
(*                                                                         *)
(* The properties speak of requests that have met.  What makes them        *)
(* inductive is what is known as long as two have not: a POST that is      *)
(* alone in the file finds it empty when it writes (Alone), a GET that met *)
(* no POST has in hand a piece of what it opened (Undisturbed), and bytes  *)
(* of two writers are together only if the one was written while the other *)
(* had the file open (Writers, Catches).                                   *)
(***************************************************************************)
EXTENDS FileStore, FiniteSetTheorems, TLAPS

\* Where a request of each kind can be, and what it has before it has done anything.
Kinds ==
  /\ \A p \in Posts : pc[p] \in {"open", "write", "send", "dead"}
  /\ \A g \in Gets : pc[g] \in {"open", "stat", "read", "send", "dead"}
  /\ \A c \in Children : pc[c] # "dead" => reply[c] = NoReply
  /\ \A g \in Gets : pc[g] \in {"open", "stat"} => data[g] = <<>>
  /\ Window # {} => file # NoFile

\* Two that have the file open have met, one that has not yet opened it has met nobody;
\* a POST that is writing was the last to open the file or has met that one.
Meetings ==
  /\ \A c, d \in Window : c # d => {c, d} \in met
  /\ \A c \in Children : pc[c] = "open" => \A m \in met : c \notin m
  /\ \A p \in Posts : pc[p] = "write" => last \in Posts /\ (p = last \/ {p, last} \in met)

\* A POST that met no other finds the file as it has truncated it, ...
Alone == \A p \in Posts : pc[p] = "write" /\ ~MetAPost(p) => file = <<>>

\* ... and leaves its payload there.
Stored ==
  \A p \in Posts :
    (pc[p] = "send" \/ reply[p].status = 201) /\ last = p /\ ~MetAPost(p) /\ p \notin broken =>
      file = Payload(p)

\* No byte has moved.
InPlace ==
  /\ file # NoFile => \A i \in DOMAIN file : file[i][2] = i
  /\ \A g \in Gets : \A i \in DOMAIN data[g] : data[g][i][2] = i

\* A GET that met no POST sees the file as it opened it.
Undisturbed ==
  \A g \in Gets : ~MetAPost(g) =>
    /\ pc[g] \in {"stat", "read", "send"} => seen[g] \in Seq(Bytes)
    /\ pc[g] \in {"stat", "read"} => file = seen[g]
    /\ pc[g] \in {"read", "send"} =>
         /\ size[g] = Len(seen[g])
         /\ \A i \in DOMAIN data[g] : data[g][i] = seen[g][i]
    /\ pc[g] = "send" => Len(data[g]) = size[g]

\* Bytes of two writers are in the file together only if the two have met; what a
\* POST will overwrite was written while it had the file open.
Writers ==
  file # NoFile =>
    /\ \A i, j \in DOMAIN file : file[i][1] # file[j][1] => {file[i][1], file[j][1]} \in met
    /\ \A p \in Posts : pc[p] = "write" =>
         \A i \in DOMAIN file : file[i][1] = p \/ {p, file[i][1]} \in met

\* A GET reads everything in one go, unless the file was truncated after it was measured;
\* then whatever it reads was written while it was looking.
OneGo(g) ==
  \/ data[g] = <<>> /\ Len(file) >= size[g]
  \/ Len(data[g]) = size[g]
  \/ /\ \A i \in DOMAIN file : {g, file[i][1]} \in met
     /\ \A i \in DOMAIN data[g] : {g, data[g][i][1]} \in met

\* Bytes of two writers come together in a GET only if the two met, or both met it.
Mixable(v, w, g) == v = w \/ {v, w} \in met \/ ({g, v} \in met /\ {g, w} \in met)
Catches ==
  /\ \A g \in Gets : pc[g] = "read" => OneGo(g)
  /\ \A g \in Gets : \A i, j \in DOMAIN data[g] : Mixable(data[g][i][1], data[g][j][1], g)

Files == TypeOK /\ Kinds
IInv == Files /\ Meetings /\ Alone /\ Stored /\ InPlace /\ Undisturbed /\ Writers /\ Catches
         /\ BytesInPlace /\ MixtureNeedsOverlap /\ GetExact /\ GetMixesWhoMet

-----------------------------------------------------------------------------
\* Facts about the sequences that a POST writes and a GET reads.

\* A function over the first n numbers is a sequence.
LEMMA FunctionIsSeq ==
  ASSUME NEW S, NEW n \in Nat, NEW f \in [1 .. n -> S]
  PROVE  f \in Seq(S) /\ Len(f) = n /\ DOMAIN f = 1 .. n
OBVIOUS

\* What a request writes: byte i is its i-th.
LEMMA PayloadFacts ==
  ASSUME NEW w \in Posts \cup {Old}
  PROVE  /\ Length[w] \in Nat
         /\ Payload(w) \in Seq(Bytes) /\ Len(Payload(w)) = Length[w]
         /\ DOMAIN Payload(w) = 1 .. Length[w]
         /\ \A i \in 1 .. Length[w] : Payload(w)[i] = <<w, i>>
<1>1. Length[w] \in Nat
  BY LengthAssumption
<1>2. Payload(w) \in [1 .. Length[w] -> Bytes]
  BY <1>1 DEF Payload, Bytes
<1> QED
  BY <1>1, <1>2, FunctionIsSeq DEF Payload

\* The file after n bytes were written over it.
LEMMA OverFacts ==
  ASSUME file \in Seq(Bytes), NEW p \in Posts, NEW n \in 0 .. Length[p]
  PROVE  /\ Over(p, n) \in Seq(Bytes)
         /\ Len(Over(p, n)) >= Len(file) /\ Len(Over(p, n)) >= n
         /\ DOMAIN Over(p, n) = 1 .. Len(Over(p, n))
         /\ \A i \in DOMAIN Over(p, n) :
              \/ i <= n /\ Over(p, n)[i] = <<p, i>>
              \/ i > n /\ i \in DOMAIN file /\ Over(p, n)[i] = file[i]
         /\ file = <<>> => Len(Over(p, n)) = n
<1> DEFINE m == IF n > Len(file) THEN n ELSE Len(file)
<1>1. Length[p] \in Nat /\ n \in Nat /\ m \in Nat
  BY PayloadFacts
<1>2. \A i \in 1 .. m : <<p, i>> \in Bytes
  BY <1>1 DEF Bytes
<1>3. \A i \in 1 .. m : i > n => i \in DOMAIN file /\ file[i] \in Bytes
  BY <1>1
<1>4. Over(p, n) = [i \in 1 .. m |-> IF i <= n THEN <<p, i>> ELSE file[i]]
  BY DEF Over
<1>5. Over(p, n) \in [1 .. m -> Bytes]
  BY <1>1, <1>2, <1>3, <1>4
<1>6. Over(p, n) \in Seq(Bytes) /\ Len(Over(p, n)) = m /\ DOMAIN Over(p, n) = 1 .. m
  BY <1>1, <1>5, FunctionIsSeq
<1> HIDE DEF m
<1>7. \A i \in 1 .. m : Over(p, n)[i] = IF i <= n THEN <<p, i>> ELSE file[i]
  BY <1>4
<1>8. m >= n /\ m >= Len(file) /\ (file = <<>> => m = n)
  BY <1>1 DEF m
<1> QED
  BY <1>1, <1>3, <1>6, <1>7, <1>8

\* One read() of a file f behind the bytes d, up to u.
LEMMA ReadFacts ==
  ASSUME NEW d \in Seq(Bytes), NEW f \in Seq(Bytes), NEW u \in Nat, Len(d) < u, u <= Len(f)
  PROVE  LET r == d \o SubSeq(f, Len(d) + 1, u)
         IN /\ r \in Seq(Bytes) /\ Len(r) = u /\ DOMAIN r = 1 .. u
            /\ \A i \in 1 .. u : r[i] = IF i <= Len(d) THEN d[i] ELSE f[i]
<1>1. /\ SubSeq(f, Len(d) + 1, u) \in Seq(Bytes)
      /\ Len(SubSeq(f, Len(d) + 1, u)) = u - Len(d)
      /\ \A i \in 1 .. u - Len(d) : SubSeq(f, Len(d) + 1, u)[i] = f[i + Len(d)]
  OBVIOUS
<1> QED
  BY <1>1

-----------------------------------------------------------------------------
\* What the steps do to the places, the answers and the meetings, request by request.

Places == {"open", "write", "stat", "read", "send", "dead"}
Replies == [status : {0, 200, 201, 404}, length : Nat, body : Seq(Bytes \cup {Junk})]

\* One request changes its place, the others keep theirs.
LEMMA GotoFacts ==
  ASSUME pc \in [Children -> Places], NEW c \in Children, NEW place \in Places, Goto(c, place)
  PROVE  /\ pc' \in [Children -> Places]
         /\ pc'[c] = place
         /\ \A d \in Children : d # c => pc'[d] = pc[d]
BY DEF Goto

\* One request is answered, the others are not.
LEMMA ReplyFacts ==
  ASSUME reply \in [Children -> Replies], NEW c \in Children, NEW r \in Replies,
         reply' = [reply EXCEPT ![c] = r]
  PROVE  /\ reply' \in [Children -> Replies]
         /\ reply'[c] = r
         /\ \A d \in Children : d # c => reply'[d] = reply[d]
OBVIOUS

\* An answer without a file is an answer.
LEMMA StatusFacts ==
  /\ \A s \in {0, 200, 201, 404} : Status(s) \in Replies /\ Status(s).status = s /\ Status(s).body = <<>>
  /\ NoReply = Status(0)
<1>1. <<>> \in Seq(Bytes \cup {Junk})
  OBVIOUS
<1> QED
  BY <1>1 DEF Status, NoReply, Replies

\* Who opens the file meets everybody who has it open, and nobody else meets anybody.
LEMMA MeetsFacts ==
  ASSUME NEW c \in Children, Meets(c)
  PROVE  /\ met \subseteq met'
         /\ \A d \in Window : {c, d} \in met'
         /\ \A m \in met' : m \in met \/ \E d \in Window : m = {c, d}
         /\ met \subseteq SUBSET Children => met' \subseteq SUBSET Children
BY DEF Meets, Window

-----------------------------------------------------------------------------
\* Types, and where each request is.

LEMMA InitFiles == Init => Files
<1> SUFFICES ASSUME Init PROVE Files
  OBVIOUS
<1>1. Payload(Old) \in Seq(Bytes)
  BY PayloadFacts
<1>2. NoReply \in Replies /\ <<>> \in Seq(Bytes) /\ Len(<<>>) = 0
  BY StatusFacts
<1>3. TypeOK
  BY <1>1, <1>2 DEF Init, TypeOK, Children, Replies
<1>4. Kinds
  BY DEF Init, Kinds, Window, Children
<1> QED
  BY <1>3, <1>4 DEF Files

\* A step to another place that keeps the file and the data keeps where requests are.
LEMMA KindsKept ==
  ASSUME Files, NEW c \in Children, NEW place \in Places, Goto(c, place),
         pc[c] # "dead",
         c \in Posts => place \in {"open", "write", "send", "dead"},
         c \in Gets => place \in {"open", "stat", "read", "send", "dead"},
         \A d \in Children : (d # c \/ place # "dead") => reply'[d] = reply[d],
         \A g \in Gets : pc'[g] \in {"open", "stat"} => data'[g] = data[g] /\ (g = c => data[g] = <<>>),
         file' # NoFile \/ (file' = file /\ place \notin {"write", "stat", "read"})
  PROVE  Kinds'
<1>1. /\ pc' \in [Children -> Places]
      /\ pc'[c] = place
      /\ \A d \in Children : d # c => pc'[d] = pc[d]
  BY GotoFacts DEF Files, TypeOK, Places
<1>2. \A p \in Posts : pc'[p] \in {"open", "write", "send", "dead"}
  BY <1>1 DEF Files, Kinds, Children
<1>3. \A g \in Gets : pc'[g] \in {"open", "stat", "read", "send", "dead"}
  BY <1>1 DEF Files, Kinds, Children
<1>4. \A d \in Children : pc'[d] # "dead" => reply'[d] = NoReply
  BY <1>1 DEF Files, Kinds
<1>5. \A g \in Gets : pc'[g] \in {"open", "stat"} => data'[g] = <<>>
  BY <1>1 DEF Files, Kinds, Children
<1>6. \A d \in Children : pc'[d] \in {"write", "stat", "read"} => file' # NoFile
  BY <1>1 DEF Files, Kinds, Window
<1> QED
  BY <1>2, <1>3, <1>4, <1>5, <1>6 DEF Kinds, Window

LEMMA PostOpenFiles == ASSUME Files, NEW p \in Posts, PostOpen(p) PROVE Files'
<1>1. p \in Children /\ pc[p] = "open" /\ Goto(p, "write") /\ Meets(p) /\ file' = <<>>
      /\ last' = p /\ UNCHANGED <<size, data, reply, seen, broken>>
  BY DEF PostOpen, Children
<1>2. file' \in Seq(Bytes)
  BY <1>1
<1>3. file' # NoFile
  BY <1>2, NoBytesAssumption
<1>4. pc' \in [Children -> Places]
  BY <1>1, GotoFacts DEF Files, TypeOK, Places
<1>5. met' \subseteq SUBSET Children
  BY <1>1, MeetsFacts DEF Files, TypeOK
<1>6. TypeOK'
  BY <1>1, <1>2, <1>4, <1>5 DEF Files, TypeOK, Places
<1>7. Kinds'
  BY <1>1, <1>3, KindsKept, ChildrenAssumption DEF Places, Files, Kinds
<1> QED
  BY <1>6, <1>7 DEF Files

\* A request is over: it was answered, or not, or was killed.
Ends(c) ==
  /\ pc[c] # "dead" /\ Goto(c, "dead")
  /\ reply' \in [Children -> Replies]
  /\ \A d \in Children : d # c => reply'[d] = reply[d]
  /\ \/ reply'[c] \in {Status(0), Status(404)}
     \/ c \in Posts /\ pc[c] = "send" /\ reply'[c] = Status(201)
     \/ c \in Gets /\ GetReply(c)
  /\ broken' = IF pc[c] = "write" THEN broken \cup {c} ELSE broken
  /\ UNCHANGED <<file, size, data, seen, last, met>>

\* What GetReply sends of g's data, up to the n-th byte.
Filled(g) == [i \in 1 .. size[g] |-> IF i <= Len(data[g]) THEN data[g][i] ELSE Junk]

LEMMA FilledFacts ==
  ASSUME Files, NEW g \in Gets, NEW n \in 0 .. size[g]
  PROVE  /\ size[g] \in Nat /\ n \in Nat /\ Len(data[g]) \in Nat
         /\ Filled(g) \in Seq(Bytes \cup {Junk}) /\ Len(Filled(g)) = size[g]
         /\ \A i \in 1 .. size[g] : Filled(g)[i] = IF i <= Len(data[g]) THEN data[g][i] ELSE Junk
         /\ SubSeq(Filled(g), 1, n) \in Seq(Bytes \cup {Junk})
         /\ DOMAIN SubSeq(Filled(g), 1, n) = 1 .. n
         /\ \A i \in 1 .. n : SubSeq(Filled(g), 1, n)[i] = Filled(g)[i]
<1>1. size[g] \in Nat /\ data[g] \in Seq(Bytes)
  BY DEF Files, TypeOK
<1>2. n \in Nat /\ n <= size[g] /\ Len(data[g]) \in Nat
  BY <1>1
<1>3. \A i \in 1 .. size[g] : i <= Len(data[g]) => data[g][i] \in Bytes
  BY <1>1
<1>4. Filled(g) \in [1 .. size[g] -> Bytes \cup {Junk}]
  BY <1>3 DEF Filled
<1>5. Filled(g) \in Seq(Bytes \cup {Junk}) /\ Len(Filled(g)) = size[g]
  BY <1>1, <1>4, FunctionIsSeq
<1>6. \A i \in 1 .. size[g] : Filled(g)[i] = IF i <= Len(data[g]) THEN data[g][i] ELSE Junk
  BY DEF Filled
<1>7. /\ SubSeq(Filled(g), 1, n) \in Seq(Bytes \cup {Junk})
      /\ DOMAIN SubSeq(Filled(g), 1, n) = 1 .. n
      /\ \A i \in 1 .. n : SubSeq(Filled(g), 1, n)[i] = Filled(g)[i]
  BY <1>1, <1>2, <1>5
<1> QED
  BY <1>1, <1>2, <1>5, <1>6, <1>7

\* What a GET of a file is answered.
LEMMA GetReplyFacts ==
  ASSUME Files, NEW g \in Gets, GetReply(g)
  PROVE  \E n \in 0 .. size[g] :
           /\ n < size[g] => Filled(g)[n + 1] \in Nuls \cup {Junk}
           /\ \A i \in 1 .. n : Filled(g)[i] \notin Nuls
           /\ reply' \in [Children -> Replies]
           /\ reply'[g] = [status |-> 200, length |-> size[g], body |-> SubSeq(Filled(g), 1, n)]
           /\ \A d \in Children : d # g => reply'[d] = reply[d]
<1>1. PICK n \in 0 .. size[g] :
        /\ n < size[g] => Filled(g)[n + 1] \in Nuls \cup {Junk}
        /\ \A i \in 1 .. n : Filled(g)[i] \notin Nuls
        /\ reply' = [reply EXCEPT ![g] =
             [status |-> 200, length |-> size[g], body |-> SubSeq(Filled(g), 1, n)]]
  BY DEF GetReply, Filled
<1> DEFINE r == [status |-> 200, length |-> size[g], body |-> SubSeq(Filled(g), 1, n)]
<1>2. r \in Replies
  BY FilledFacts DEF Replies
<1>3. reply \in [Children -> Replies] /\ g \in Children
  BY DEF Files, TypeOK, Replies, Children
<1> HIDE DEF r
<1>4. reply' = [reply EXCEPT ![g] = r]
  BY <1>1 DEF r
<1>5. /\ reply' \in [Children -> Replies]
      /\ reply'[g] = r
      /\ \A d \in Children : d # g => reply'[d] = reply[d]
  BY <1>2, <1>3, <1>4, ReplyFacts
<1> QED
  BY <1>1, <1>5 DEF r

\* Five of the actions end a request.
LEMMA WhoEnds ==
  ASSUME Files, NEW c \in Children,
         \/ c \in Posts /\ (PostOpenFails(c) \/ PostReply(c))
         \/ c \in Gets /\ (GetMissing(c) \/ GetReply(c))
         \/ Killed(c)
  PROVE  Ends(c)
<1>1. reply \in [Children -> Replies]
  BY DEF Files, TypeOK, Replies
<1>2. ASSUME NEW s \in {201, 404}, reply' = [reply EXCEPT ![c] = Status(s)]
      PROVE  /\ reply' \in [Children -> Replies] /\ reply'[c] = Status(s)
             /\ \A d \in Children : d # c => reply'[d] = reply[d]
  BY <1>1, <1>2, StatusFacts, ReplyFacts
<1>3. CASE PostOpenFails(c) \/ GetMissing(c)
  BY <1>2, <1>3 DEF PostOpenFails, GetMissing, Ends, history
<1>4. CASE c \in Posts /\ PostReply(c)
  BY <1>2, <1>4 DEF PostReply, Ends, history
<1>5. CASE c \in Gets /\ GetReply(c)
  <2>1. /\ reply' \in [Children -> Replies]
        /\ \A d \in Children : d # c => reply'[d] = reply[d]
    BY <1>5, GetReplyFacts
  <2> QED
    BY <1>5, <2>1 DEF GetReply, Ends, history
<1>6. CASE Killed(c)
  <2>1. reply'[c] = Status(0)
    BY <1>6, StatusFacts DEF Killed, Files, Kinds
  <2> QED
    BY <1>1, <1>6, <2>1 DEF Killed, Ends
<1> QED
  BY <1>3, <1>4, <1>5, <1>6

LEMMA EndsFiles == ASSUME Files, NEW c \in Children, Ends(c) PROVE Files'
<1>1. pc' \in [Children -> Places] /\ pc'[c] = "dead"
  BY GotoFacts DEF Ends, Files, TypeOK, Places
<1>2. broken' \subseteq Posts
  <2>1. pc[c] = "write" => c \in Posts
    BY DEF Files, Kinds, Children
  <2>2. broken \subseteq Posts
    BY DEF Files, TypeOK
  <2>3. broken' = IF pc[c] = "write" THEN broken \cup {c} ELSE broken
    BY DEF Ends
  <2> QED
    BY <2>1, <2>2, <2>3
<1>3. TypeOK'
  BY <1>1, <1>2 DEF Ends, Files, TypeOK, Places, Replies
<1>4. Kinds'
  BY <1>1, KindsKept, ChildrenAssumption DEF Places, Ends
<1> QED
  BY <1>3, <1>4 DEF Files

LEMMA PostWriteFiles == ASSUME Files, NEW p \in Posts, PostWrite(p) PROVE Files'
<1>1. p \in Children /\ pc[p] = "write" /\ Goto(p, "send")
      /\ UNCHANGED <<size, data, reply, seen, last, met>>
  BY DEF PostWrite, Children
<1>2. file \in Seq(Bytes)
  BY <1>1 DEF Files, TypeOK, Kinds, Window
<1>3. PICK n \in 0 .. Length[p] :
        /\ file' = Over(p, n)
        /\ broken' = IF n < Length[p] THEN broken \cup {p} ELSE broken
  BY DEF PostWrite
<1>4. file' \in Seq(Bytes) /\ file' # NoFile
  BY <1>2, <1>3, OverFacts, NoBytesAssumption
<1>5. pc' \in [Children -> Places] /\ pc'[p] = "send"
  BY <1>1, GotoFacts DEF Files, TypeOK, Places
<1>6. TypeOK'
  BY <1>1, <1>3, <1>4, <1>5 DEF Files, TypeOK, Places
<1>7. Kinds'
  BY <1>1, <1>4, <1>5, KindsKept, ChildrenAssumption DEF Places
<1> QED
  BY <1>6, <1>7 DEF Files

LEMMA GetOpenFiles == ASSUME Files, NEW g \in Gets, GetOpen(g) PROVE Files'
<1>1. g \in Children /\ pc[g] = "open" /\ file # NoFile /\ Goto(g, "stat") /\ Meets(g)
      /\ seen' = [seen EXCEPT ![g] = file]
      /\ UNCHANGED <<file, size, data, reply, last, broken>>
  BY DEF GetOpen, Children
<1>2. pc' \in [Children -> Places] /\ pc'[g] = "stat"
  BY <1>1, GotoFacts DEF Files, TypeOK, Places
<1>3. met' \subseteq SUBSET Children
  BY <1>1, MeetsFacts DEF Files, TypeOK
<1>4. TypeOK'
  BY <1>1, <1>2, <1>3 DEF Files, TypeOK, Places
<1>5. Kinds'
  BY <1>1, <1>2, KindsKept, ChildrenAssumption DEF Places, Files, Kinds
<1> QED
  BY <1>4, <1>5 DEF Files

LEMMA StatFiles == ASSUME Files, NEW g \in Gets, Stat(g) PROVE Files'
<1>1. g \in Children /\ pc[g] = "stat" /\ Goto(g, "read") /\ size' = [size EXCEPT ![g] = Len(file)]
      /\ UNCHANGED <<file, data, reply, seen, last, met, broken>>
  BY DEF Stat, Children, history
<1>2. file # NoFile /\ file \in Seq(Bytes) /\ data[g] = <<>>
  BY <1>1 DEF Files, TypeOK, Kinds, Window
<1>3. Len(file) \in Nat /\ Len(data[g]) = 0
  BY <1>2
<1>4. pc' \in [Children -> Places] /\ pc'[g] = "read"
  BY <1>1, GotoFacts DEF Files, TypeOK, Places
<1>5. size' \in [Gets -> Nat] /\ \A d \in Gets : Len(data[d]) <= size'[d]
  BY <1>1, <1>3 DEF Files, TypeOK
<1>6. TypeOK'
  BY <1>1, <1>4, <1>5 DEF Files, TypeOK, Places
<1>7. Kinds'
  BY <1>1, <1>2, <1>4, KindsKept, ChildrenAssumption DEF Places
<1> QED
  BY <1>6, <1>7 DEF Files

\* A read() that delivers something, and the last one, which does not.
More(g, u) ==
  /\ u \in Nat /\ Len(data[g]) < u /\ u <= Len(file) /\ u <= size[g]
  /\ u = size[g] \/ u = Len(file)
  /\ data' \in [Gets -> Seq(Bytes)]
  /\ Len(data'[g]) = u /\ DOMAIN data'[g] = 1 .. u
  /\ \A i \in 1 .. u : data'[g][i] = IF i <= Len(data[g]) THEN data[g][i] ELSE file[i]
  /\ \A d \in Gets : d # g => data'[d] = data[d]
  /\ pc' = pc
NoMore(g) ==
  /\ Len(data[g]) >= size[g] \/ Len(data[g]) >= Len(file)
  /\ Goto(g, "send") /\ data' = data

LEMMA ReadCases ==
  ASSUME Files, NEW g \in Gets, Read(g)
  PROVE  /\ pc[g] = "read" /\ file \in Seq(Bytes)
         /\ UNCHANGED <<file, size, reply, seen, last, met, broken>>
         /\ NoMore(g) \/ \E u \in Nat : More(g, u)
<1> DEFINE upto == IF size[g] < Len(file) THEN size[g] ELSE Len(file)
           more == data[g] \o SubSeq(file, Len(data[g]) + 1, upto)
<1>1. /\ pc[g] = "read" /\ UNCHANGED <<file, size, reply, seen, last, met, broken>>
      /\ IF Len(data[g]) < upto
         THEN data' = [data EXCEPT ![g] = more] /\ pc' = pc
         ELSE Goto(g, "send") /\ data' = data
  BY DEF Read, history
<1>2. file \in Seq(Bytes) /\ data \in [Gets -> Seq(Bytes)] /\ size[g] \in Nat
  BY <1>1 DEF Files, TypeOK, Kinds, Window, Children
<1>3. Len(data[g]) \in Nat /\ Len(file) \in Nat
  BY <1>2
<1>4. upto \in Nat /\ upto <= Len(file) /\ upto <= size[g] /\ (upto = size[g] \/ upto = Len(file))
  BY <1>2, <1>3
<1>5. CASE Len(data[g]) < upto
  <2>1. /\ more \in Seq(Bytes) /\ Len(more) = upto /\ DOMAIN more = 1 .. upto
        /\ \A i \in 1 .. upto : more[i] = IF i <= Len(data[g]) THEN data[g][i] ELSE file[i]
    <3>1. data[g] \in Seq(Bytes)
      BY <1>2
    <3> HIDE DEF upto
    <3> QED
      BY <1>2, <1>4, <1>5, <3>1, ReadFacts
  <2>2. data' = [data EXCEPT ![g] = more] /\ pc' = pc
    BY <1>1, <1>5
  <2> HIDE DEF more, upto
  <2>3. More(g, upto)
    BY <1>2, <1>4, <1>5, <2>1, <2>2 DEF More
  <2> QED
    BY <1>1, <1>2, <1>4, <2>3
<1>6. CASE ~(Len(data[g]) < upto)
  <2>1. Len(data[g]) >= size[g] \/ Len(data[g]) >= Len(file)
    BY <1>2, <1>3, <1>4, <1>6
  <2> QED
    BY <1>1, <1>2, <1>6, <2>1 DEF NoMore
<1> QED
  BY <1>5, <1>6

LEMMA ReadFiles == ASSUME Files, NEW g \in Gets, Read(g) PROVE Files'
<1>1. g \in Children /\ pc[g] = "read"
      /\ UNCHANGED <<file, size, reply, seen, last, met, broken>>
  BY ReadCases DEF Children
<1>2. ASSUME NEW u \in Nat, More(g, u) PROVE Files'
  <2>1. \A d \in Gets : Len(data'[d]) <= size[d]
    BY <1>2 DEF More, Files, TypeOK
  <2>2. TypeOK'
    BY <1>1, <1>2, <2>1 DEF More, Files, TypeOK
  <2>3. Kinds'
    BY <1>1, <1>2 DEF More, Files, Kinds, Window
  <2> QED
    BY <2>2, <2>3 DEF Files
<1>3. CASE NoMore(g)
  <2>1. pc' \in [Children -> Places] /\ pc'[g] = "send"
    BY <1>1, <1>3, GotoFacts DEF NoMore, Files, TypeOK, Places
  <2>2. TypeOK'
    BY <1>1, <1>3, <2>1 DEF NoMore, Files, TypeOK, Places
  <2>3. file # NoFile
    BY <1>1 DEF Files, Kinds, Window
  <2>4. Kinds'
    BY <1>1, <1>3, <2>1, <2>3, KindsKept, ChildrenAssumption DEF NoMore, Places
  <2> QED
    BY <2>2, <2>4 DEF Files
<1> QED
  BY <1>2, <1>3, ReadCases

\* Every step is one of these.
Step ==
  \/ \E p \in Posts : PostOpen(p) \/ PostWrite(p)
  \/ \E g \in Gets : GetOpen(g) \/ Stat(g) \/ Read(g)
  \/ \E c \in Children : Ends(c)
  \/ UNCHANGED vars

LEMMA Steps == Files /\ [Next]_vars => Step
<1> SUFFICES ASSUME Files, [Next]_vars PROVE Step
  OBVIOUS
<1>1. ASSUME NEW p \in Posts, PostOpenFails(p) \/ PostReply(p) PROVE Step
  BY <1>1, WhoEnds DEF Step, Children
<1>2. ASSUME NEW g \in Gets, GetMissing(g) \/ GetReply(g) PROVE Step
  BY <1>2, WhoEnds DEF Step, Children
<1>3. ASSUME NEW c \in Children, Killed(c) PROVE Step
  BY <1>3, WhoEnds DEF Step
<1> QED
  BY <1>1, <1>2, <1>3 DEF Next, Step

\* Every step keeps the types and the places.
LEMMA StepFiles == Files /\ [Next]_vars => Files'
<1> SUFFICES ASSUME Files, Step PROVE Files'
  BY Steps
<1>1. UNCHANGED vars => Files'
  BY DEF vars, Files, TypeOK, Kinds, Window
<1> QED
  BY <1>1, PostOpenFiles, PostWriteFiles, GetOpenFiles, StatFiles, ReadFiles, EndsFiles DEF Step
-----------------------------------------------------------------------------
\* Who has met whom.

\* Only PostOpen and GetOpen open the file and let requests meet.
LEMMA Passing ==
  ASSUME Files,
         \/ \E p \in Posts : PostWrite(p)
         \/ \E g \in Gets : Stat(g) \/ Read(g)
         \/ \E c \in Children : Ends(c)
         \/ UNCHANGED vars
  PROVE  /\ met' = met /\ last' = last
         /\ \A c \in Children : pc'[c] \in {"open", "write", "stat"} => pc'[c] = pc[c]
         /\ \A c \in Children : pc'[c] = "read" => pc[c] \in {"stat", "read"}
<1>1. pc \in [Children -> Places]
  BY DEF Files, TypeOK, Places
<1>2. ASSUME NEW c \in Children, NEW place \in {"read", "send", "dead"}, Goto(c, place),
             place = "read" => pc[c] = "stat"
      PROVE  /\ \A d \in Children : pc'[d] \in {"open", "write", "stat"} => pc'[d] = pc[d]
             /\ \A d \in Children : pc'[d] = "read" => pc[d] \in {"stat", "read"}
  <2>1. pc'[c] = place /\ \A d \in Children : d # c => pc'[d] = pc[d]
    BY <1>1, <1>2, GotoFacts DEF Places
  <2> QED
    BY <1>2, <2>1
<1>3. ASSUME NEW p \in Posts, PostWrite(p)
      PROVE  p \in Children /\ Goto(p, "send") /\ met' = met /\ last' = last
  BY <1>3 DEF PostWrite, Children
<1>4. ASSUME NEW g \in Gets, Stat(g)
      PROVE  g \in Children /\ pc[g] = "stat" /\ Goto(g, "read") /\ met' = met /\ last' = last
  BY <1>4 DEF Stat, Children, history
<1>5. ASSUME NEW g \in Gets, Read(g)
      PROVE  g \in Children /\ met' = met /\ last' = last /\ (Goto(g, "send") \/ pc' = pc)
  BY <1>5, ReadCases DEF NoMore, More, Children
<1>6. ASSUME NEW c \in Children, Ends(c)
      PROVE  Goto(c, "dead") /\ met' = met /\ last' = last
  BY <1>6 DEF Ends
<1>7. CASE UNCHANGED vars
  BY <1>1, <1>7 DEF vars
<1> QED
  BY <1>2, <1>3, <1>4, <1>5, <1>6, <1>7

\* Who has met a POST has met it for good.
LEMMA MetKept ==
  ASSUME met \subseteq met'
  PROVE  \A c : MetAPost(c) => MetAPost(c)'
BY DEF MetAPost

LEMMA MetGrows == Files /\ Step => met \subseteq met'
<1> SUFFICES ASSUME Files, Step PROVE met \subseteq met'
  OBVIOUS
<1>1. ASSUME NEW p \in Posts, PostOpen(p) PROVE met \subseteq met'
  BY <1>1, MeetsFacts DEF PostOpen, Children
<1>2. ASSUME NEW g \in Gets, GetOpen(g) PROVE met \subseteq met'
  BY <1>2, MeetsFacts DEF GetOpen, Children
<1> QED
  BY <1>1, <1>2, Passing DEF Step

\* Who opens the file has met whoever has it open.
LEMMA OpeningMeets ==
  ASSUME Files, Meetings, NEW c \in Children, NEW place \in {"write", "stat"},
         pc[c] = "open", Goto(c, place), Meets(c)
  PROVE  /\ \A a, b \in Window' : a # b => {a, b} \in met'
         /\ \A a \in Children : pc'[a] = "open" => \A m \in met' : a \notin m
<1>1. /\ pc'[c] = place
      /\ \A d \in Children : d # c => pc'[d] = pc[d]
  BY GotoFacts DEF Files, TypeOK, Places
<1>2. /\ met \subseteq met'
      /\ \A d \in Window : {c, d} \in met'
      /\ \A m \in met' : m \in met \/ \E d \in Window : m = {c, d}
  BY MeetsFacts
<1>3. \A d \in Window' : d = c \/ d \in Window
  BY <1>1 DEF Window
<1>4. ASSUME NEW a \in Window', NEW b \in Window', a # b PROVE {a, b} \in met'
  <2>1. CASE a = c
    BY <1>2, <1>3, <1>4, <2>1
  <2>2. CASE b = c
    <3>1. {b, a} \in met' /\ {b, a} = {a, b}
      BY <1>2, <1>3, <1>4, <2>2
    <3> QED
      BY <3>1
  <2>3. CASE a # c /\ b # c
    BY <1>2, <1>3, <1>4, <2>3 DEF Meetings
  <2> QED
    BY <2>1, <2>2, <2>3
<1>5. ASSUME NEW a \in Children, pc'[a] = "open", NEW m \in met' PROVE a \notin m
  <2>1. a # c /\ pc[a] = "open" /\ a \notin Window
    BY <1>1, <1>5 DEF Window
  <2>2. CASE m \in met
    BY <2>1, <2>2 DEF Meetings
  <2>3. CASE \E d \in Window : m = {c, d}
    BY <2>1, <2>3
  <2> QED
    BY <1>2, <2>2, <2>3
<1> QED
  BY <1>4, <1>5

LEMMA InitMeetings == Init => Meetings
BY ChildrenAssumption DEF Init, Meetings, Window, Children

LEMMA StepMeetings == Files /\ Meetings /\ Step => Meetings'
<1> SUFFICES ASSUME Files, Meetings, Step PROVE Meetings'
  OBVIOUS
<1>1. ASSUME NEW p \in Posts, PostOpen(p) PROVE Meetings'
  <2>1. p \in Children /\ pc[p] = "open" /\ Goto(p, "write") /\ Meets(p) /\ last' = p
    BY <1>1 DEF PostOpen, Children
  <2>2. /\ \A a, b \in Window' : a # b => {a, b} \in met'
        /\ \A a \in Children : pc'[a] = "open" => \A m \in met' : a \notin m
    BY <2>1, OpeningMeets
  <2>3. pc'[p] = "write" /\ p \in Window'
    BY <2>1, GotoFacts DEF Files, TypeOK, Places, Window
  <2>4. \A q \in Posts : pc'[q] = "write" => q = p \/ {q, p} \in met'
    BY <2>2, <2>3 DEF Window, Children
  <2> QED
    BY <2>1, <2>2, <2>4 DEF Meetings
<1>2. ASSUME NEW g \in Gets, GetOpen(g) PROVE Meetings'
  <2>1. g \in Children /\ pc[g] = "open" /\ Goto(g, "stat") /\ Meets(g) /\ last' = last
    BY <1>2 DEF GetOpen, Children
  <2>2. /\ \A a, b \in Window' : a # b => {a, b} \in met'
        /\ \A a \in Children : pc'[a] = "open" => \A m \in met' : a \notin m
    BY <2>1, OpeningMeets
  <2>3. pc'[g] = "stat" /\ \A d \in Children : d # g => pc'[d] = pc[d]
    BY <2>1, GotoFacts DEF Files, TypeOK, Places
  <2>4. met \subseteq met'
    BY <2>1, MeetsFacts
  <2>5. \A q \in Posts : pc'[q] = "write" => last' \in Posts /\ (q = last' \/ {q, last'} \in met')
    BY <2>1, <2>3, <2>4 DEF Meetings, Children
  <2> QED
    BY <2>2, <2>5 DEF Meetings
<1>3. ASSUME met' = met, last' = last,
             \A c \in Children : pc'[c] \in {"open", "write", "stat"} => pc'[c] = pc[c],
             \A c \in Children : pc'[c] = "read" => pc[c] \in {"stat", "read"}
      PROVE  Meetings'
  <2>1. Window' \subseteq Window
    BY <1>3 DEF Window
  <2> QED
    BY <1>3, <2>1 DEF Meetings, Children
<1> QED
  BY <1>1, <1>2, <1>3, Passing DEF Step

\* While a POST writes, another one that writes or reads has met it.
LEMMA WritersMet ==
  ASSUME Files, Meetings, NEW p \in Posts, pc[p] = "write", NEW c \in Window, c # p
  PROVE  {c, p} \in met /\ MetAPost(c)
<1>1. p \in Window
  BY DEF Window, Children
<1> QED
  BY <1>1 DEF Meetings, MetAPost
-----------------------------------------------------------------------------
\* What a POST finds in the file and leaves there.

\* What PostWrite does, with the file before and after.
LEMMA PostWriteFacts ==
  ASSUME Files, NEW p \in Posts, PostWrite(p)
  PROVE  /\ p \in Children /\ p \in Window /\ pc[p] = "write" /\ pc'[p] = "send"
         /\ \A d \in Children : d # p => pc'[d] = pc[d]
         /\ UNCHANGED <<size, data, reply, seen, last, met>>
         /\ file # NoFile /\ file \in Seq(Bytes) /\ file' \in Seq(Bytes)
         /\ \E n \in 0 .. Length[p] :
              /\ broken' = IF n < Length[p] THEN broken \cup {p} ELSE broken
              /\ Len(file') >= Len(file)
              /\ \A i \in DOMAIN file' :
                   \/ file'[i] = <<p, i>>
                   \/ i \in DOMAIN file /\ file'[i] = file[i]
              /\ file = <<>> /\ n = Length[p] => file' = Payload(p)
<1>1. /\ p \in Children /\ pc[p] = "write" /\ Goto(p, "send")
      /\ UNCHANGED <<size, data, reply, seen, last, met>>
  BY DEF PostWrite, Children
<1>2. pc'[p] = "send" /\ \A d \in Children : d # p => pc'[d] = pc[d]
  BY <1>1, GotoFacts DEF Files, TypeOK, Places
<1>3. p \in Window /\ file # NoFile /\ file \in Seq(Bytes)
  BY <1>1 DEF Files, TypeOK, Kinds, Window
<1>4. PICK n \in 0 .. Length[p] :
        /\ file' = Over(p, n)
        /\ broken' = IF n < Length[p] THEN broken \cup {p} ELSE broken
  BY DEF PostWrite
<1>5. /\ file' \in Seq(Bytes)
      /\ Len(file') >= Len(file)
      /\ \A i \in DOMAIN file' :
           \/ file'[i] = <<p, i>>
           \/ i \in DOMAIN file /\ file'[i] = file[i]
  BY <1>3, <1>4, OverFacts
<1>6. ASSUME file = <<>>, n = Length[p] PROVE file' = Payload(p)
  <2>1. /\ Len(file') = n /\ DOMAIN file' = 1 .. n
        /\ \A i \in 1 .. n : file'[i] = <<p, i>>
    <3>1. DOMAIN file = {}
      BY <1>6
    <3>2. /\ Len(file') = n /\ DOMAIN file' = 1 .. Len(file')
          /\ \A i \in DOMAIN file' : file'[i] = <<p, i>> \/ i \in DOMAIN file
      BY <1>3, <1>4, <1>6, OverFacts
    <3> QED
      BY <3>1, <3>2
  <2>2. /\ Payload(p) \in Seq(Bytes) /\ Len(Payload(p)) = n
        /\ \A i \in 1 .. n : Payload(p)[i] = <<p, i>>
    BY <1>6, PayloadFacts
  <2> QED
    BY <1>5, <2>1, <2>2
<1> QED
  BY <1>1, <1>2, <1>3, <1>4, <1>5, <1>6

LEMMA PostOpenFacts ==
  ASSUME Files, NEW p \in Posts, PostOpen(p)
  PROVE  /\ p \in Children /\ pc[p] = "open" /\ pc'[p] = "write"
         /\ \A d \in Children : d # p => pc'[d] = pc[d]
         /\ file' = <<>> /\ last' = p /\ reply[p] = NoReply
         /\ UNCHANGED <<size, data, reply, seen, broken>>
         /\ \A d \in Window : {p, d} \in met' /\ {d, p} \in met'
<1>1. /\ p \in Children /\ pc[p] = "open" /\ Goto(p, "write") /\ Meets(p) /\ file' = <<>>
      /\ last' = p /\ UNCHANGED <<size, data, reply, seen, broken>>
  BY DEF PostOpen, Children
<1>2. pc'[p] = "write" /\ \A d \in Children : d # p => pc'[d] = pc[d]
  BY <1>1, GotoFacts DEF Files, TypeOK, Places
<1>3. reply[p] = NoReply
  BY <1>1 DEF Files, Kinds
<1>4. \A d \in Window : {p, d} \in met' /\ {d, p} = {p, d}
  BY <1>1, MeetsFacts
<1> QED
  BY <1>1, <1>2, <1>3, <1>4

LEMMA GetOpenFacts ==
  ASSUME Files, NEW g \in Gets, GetOpen(g)
  PROVE  /\ g \in Children /\ pc[g] = "open" /\ pc'[g] = "stat"
         /\ \A d \in Children : d # g => pc'[d] = pc[d]
         /\ file \in Seq(Bytes) /\ seen'[g] = file /\ reply[g] = NoReply
         /\ \A d \in Gets : d # g => seen'[d] = seen[d]
         /\ UNCHANGED <<file, size, data, reply, last, broken>>
<1>1. /\ g \in Children /\ pc[g] = "open" /\ file # NoFile /\ Goto(g, "stat")
      /\ seen' = [seen EXCEPT ![g] = file]
      /\ UNCHANGED <<file, size, data, reply, last, broken>>
  BY DEF GetOpen, Children
<1>2. pc'[g] = "stat" /\ \A d \in Children : d # g => pc'[d] = pc[d]
  BY <1>1, GotoFacts DEF Files, TypeOK, Places
<1>3. file \in Seq(Bytes) /\ seen'[g] = file /\ \A d \in Gets : d # g => seen'[d] = seen[d]
  BY <1>1 DEF Files, TypeOK
<1>4. reply[g] = NoReply
  BY <1>1 DEF Files, Kinds
<1> QED
  BY <1>1, <1>2, <1>3, <1>4

LEMMA StatFacts ==
  ASSUME Files, NEW g \in Gets, Stat(g)
  PROVE  /\ g \in Children /\ pc[g] = "stat" /\ pc'[g] = "read"
         /\ \A d \in Children : d # g => pc'[d] = pc[d]
         /\ file \in Seq(Bytes) /\ size'[g] = Len(file) /\ data[g] = <<>>
         /\ \A d \in Gets : d # g => size'[d] = size[d]
         /\ UNCHANGED <<file, data, reply, seen, last, met, broken>>
<1>1. /\ g \in Children /\ pc[g] = "stat" /\ Goto(g, "read") /\ size' = [size EXCEPT ![g] = Len(file)]
      /\ UNCHANGED <<file, data, reply, seen, last, met, broken>>
  BY DEF Stat, Children, history
<1>2. pc'[g] = "read" /\ \A d \in Children : d # g => pc'[d] = pc[d]
  BY <1>1, GotoFacts DEF Files, TypeOK, Places
<1>3. file \in Seq(Bytes) /\ data[g] = <<>>
  BY <1>1 DEF Files, TypeOK, Kinds, Window
<1>4. size'[g] = Len(file) /\ \A d \in Gets : d # g => size'[d] = size[d]
  BY <1>1 DEF Files, TypeOK
<1> QED
  BY <1>1, <1>2, <1>3, <1>4

LEMMA EndsFacts ==
  ASSUME Files, NEW c \in Children, Ends(c)
  PROVE  /\ pc[c] # "dead" /\ pc'[c] = "dead"
         /\ \A d \in Children : d # c => pc'[d] = pc[d] /\ reply'[d] = reply[d]
         /\ \/ reply'[c].status \in {0, 404} /\ reply'[c].body = <<>>
            \/ c \in Posts /\ pc[c] = "send" /\ reply'[c].status = 201 /\ reply'[c].body = <<>>
            \/ c \in Gets /\ GetReply(c)
         /\ broken' = IF pc[c] = "write" THEN broken \cup {c} ELSE broken
         /\ UNCHANGED <<file, size, data, seen, last, met>>
<1>1. pc'[c] = "dead" /\ \A d \in Children : d # c => pc'[d] = pc[d]
  BY GotoFacts DEF Ends, Files, TypeOK, Places
<1> QED
  BY <1>1, StatusFacts DEF Ends

LEMMA StepAlone == Files /\ Meetings /\ Alone /\ Step => Alone'
<1> SUFFICES ASSUME Files, Meetings, Alone, Step PROVE Alone'
  OBVIOUS
<1>1. \A c : MetAPost(c) => MetAPost(c)'
  BY MetGrows, MetKept
<1>2. ASSUME NEW p \in Posts, PostOpen(p) PROVE Alone'
  BY <1>2, PostOpenFacts DEF Alone
<1>3. ASSUME NEW p \in Posts, PostWrite(p) PROVE Alone'
  <2>1. ASSUME NEW q \in Posts, pc'[q] = "write" PROVE MetAPost(q)
    <3>1. q # p /\ q \in Window
      BY <1>3, <2>1, PostWriteFacts DEF Window, Children
    <3> QED
      BY <1>3, <3>1, PostWriteFacts, WritersMet
  <2> QED
    BY <1>1, <2>1 DEF Alone
<1>4. ASSUME file' = file, \A p \in Posts : pc'[p] = "write" => pc[p] = "write" PROVE Alone'
  BY <1>1, <1>4 DEF Alone
<1>5. ASSUME NEW g \in Gets, GetOpen(g) PROVE Alone'
  BY <1>4, <1>5, GetOpenFacts DEF Children
<1>6. ASSUME NEW g \in Gets, Stat(g) PROVE Alone'
  BY <1>4, <1>6, StatFacts DEF Children
<1>7. ASSUME NEW g \in Gets, Read(g) PROVE Alone'
  BY <1>4, <1>7, ReadCases, Passing DEF Children
<1>8. ASSUME NEW c \in Children, Ends(c) PROVE Alone'
  BY <1>4, <1>8, EndsFacts DEF Children
<1>9. CASE UNCHANGED vars
  BY <1>4, <1>9 DEF vars
<1> QED
  BY <1>2, <1>3, <1>5, <1>6, <1>7, <1>8, <1>9 DEF Step

LEMMA StepStored == Files /\ Meetings /\ Alone /\ Stored /\ Step => Stored'
<1> SUFFICES ASSUME Files, Meetings, Alone, Stored, Step PROVE Stored'
  OBVIOUS
<1>1. \A c : MetAPost(c) => MetAPost(c)'
  BY MetGrows, MetKept
<1>2. ASSUME NEW p \in Posts, PostOpen(p) PROVE Stored'
  BY <1>2, PostOpenFacts, StatusFacts DEF Stored
<1>3. ASSUME NEW q \in Posts, PostWrite(q),
             NEW p \in Posts, last' = p, ~MetAPost(p)', p \notin broken'
      PROVE  file' = Payload(p)
  <2>1. last = p /\ ~MetAPost(p)
    BY <1>1, <1>3, PostWriteFacts
  <2>2. CASE q = p
    <3>1. file = <<>>
      BY <1>3, <2>1, <2>2, PostWriteFacts DEF Alone
    <3>2. PICK n \in 0 .. Length[p] :
            /\ broken' = IF n < Length[p] THEN broken \cup {p} ELSE broken
            /\ file = <<>> /\ n = Length[p] => file' = Payload(p)
      BY <1>3, <2>2, PostWriteFacts
    <3>3. ~(n < Length[p])
      BY <1>3, <3>2
    <3>4. n = Length[p]
      BY <3>3, PayloadFacts
    <3> QED
      BY <3>1, <3>2, <3>4
  <2>3. CASE q # p
    <3>1. {q, p} \in met
      BY <1>3, <2>1, <2>3, PostWriteFacts DEF Meetings
    <3>2. {q, p} = {p, q}
      OBVIOUS
    <3>3. MetAPost(p)
      BY <2>3, <3>1, <3>2 DEF MetAPost
    <3> QED
      BY <2>1, <3>3
  <2> QED
    BY <2>2, <2>3
<1>4. ASSUME file' = file, last' = last, broken \subseteq broken',
             \A p \in Posts : pc'[p] = "send" \/ reply'[p].status = 201 =>
                                pc[p] = "send" \/ reply[p].status = 201
      PROVE  Stored'
  BY <1>1, <1>4 DEF Stored
<1>5. ASSUME NEW g \in Gets, GetOpen(g) PROVE Stored'
  BY <1>4, <1>5, GetOpenFacts DEF Children
<1>6. ASSUME NEW g \in Gets, Stat(g) PROVE Stored'
  BY <1>4, <1>6, StatFacts DEF Children
<1>7. ASSUME NEW g \in Gets, Read(g) PROVE Stored'
  <2>1. \A p \in Posts : pc'[p] = pc[p]
    <3>1. g \notin Posts
      BY ChildrenAssumption
    <3>2. CASE NoMore(g)
      BY <3>1, <3>2, GotoFacts DEF NoMore, Files, TypeOK, Places, Children
    <3>3. CASE \E u \in Nat : More(g, u)
      BY <3>3 DEF More
    <3> QED
      BY <1>7, <3>2, <3>3, ReadCases
  <2> QED
    BY <1>4, <1>7, <2>1, ReadCases
<1>8. ASSUME NEW c \in Children, Ends(c) PROVE Stored'
  <2>1. file' = file /\ last' = last /\ broken \subseteq broken'
    BY <1>8, EndsFacts
  <2>2. c \in Gets => c \notin Posts
    BY ChildrenAssumption
  <2>3. \A p \in Posts : pc'[p] = "send" \/ reply'[p].status = 201 =>
                           pc[p] = "send" \/ reply[p].status = 201
    BY <1>8, <2>2, EndsFacts DEF Children
  <2> QED
    BY <1>4, <2>1, <2>3
<1>9. CASE UNCHANGED vars
  BY <1>4, <1>9 DEF vars
<1>10. ASSUME NEW q \in Posts, PostWrite(q) PROVE Stored'
  BY <1>3, <1>10 DEF Stored
<1> QED
  BY <1>2, <1>5, <1>6, <1>7, <1>8, <1>9, <1>10 DEF Step

LEMMA InitStored == Init => Alone /\ Stored
BY StatusFacts, ChildrenAssumption DEF Init, Alone, Stored, Children
-----------------------------------------------------------------------------
\* Every byte is where its writer put it.

LEMMA ReadStep ==
  ASSUME Files, NEW g \in Gets, Read(g)
  PROVE  /\ g \in Children /\ g \in Window /\ pc[g] = "read" /\ file \in Seq(Bytes)
         /\ UNCHANGED <<file, size, reply, seen, last, met, broken>>
         /\ \A d \in Children : d # g => pc'[d] = pc[d]
         /\ \A d \in Gets : d # g => data'[d] = data[d]
         /\ \/ pc'[g] = "read" /\ \E u \in Nat : More(g, u)
            \/ pc'[g] = "send" /\ data' = data /\ NoMore(g)
<1>1. g \in Children /\ g \in Window
  BY ReadCases DEF Window, Children
<1>2. CASE NoMore(g)
  <2>1. pc'[g] = "send" /\ (\A d \in Children : d # g => pc'[d] = pc[d]) /\ data' = data
    BY <1>1, <1>2, GotoFacts DEF NoMore, Files, TypeOK, Places
  <2> QED
    BY <1>1, <1>2, <2>1, ReadCases
<1>3. ASSUME NEW u \in Nat, More(g, u)
      PROVE  pc' = pc /\ \A d \in Gets : d # g => data'[d] = data[d]
  BY <1>3 DEF More
<1> QED
  BY <1>1, <1>2, <1>3, ReadCases

\* What read() delivers is what it had delivered and a piece of the file.
LEMMA MoreFacts ==
  ASSUME Files, NEW g \in Gets, NEW u \in Nat, More(g, u), file \in Seq(Bytes)
  PROVE  /\ DOMAIN data[g] = 1 .. Len(data[g]) /\ DOMAIN data'[g] = 1 .. u
         /\ \A i \in DOMAIN data'[g] :
              \/ i \in DOMAIN data[g] /\ data'[g][i] = data[g][i]
              \/ i \notin DOMAIN data[g] /\ i \in DOMAIN file /\ data'[g][i] = file[i]
<1>1. data[g] \in Seq(Bytes)
  BY DEF Files, TypeOK
<1>2. /\ Len(data[g]) \in Nat /\ Len(file) \in Nat
      /\ DOMAIN data[g] = 1 .. Len(data[g]) /\ DOMAIN file = 1 .. Len(file)
  BY <1>1
<1>3. /\ Len(data[g]) < u /\ u <= Len(file) /\ DOMAIN data'[g] = 1 .. u
      /\ \A i \in 1 .. u : data'[g][i] = IF i <= Len(data[g]) THEN data[g][i] ELSE file[i]
  BY DEF More
<1> QED
  BY <1>2, <1>3

\* What a GET of a file is answered, in terms of its data.
LEMMA BodyFacts ==
  ASSUME Files, NEW g \in Gets, GetReply(g)
  PROVE  \A i \in DOMAIN reply'[g].body :
           \/ reply'[g].body[i] = Junk
           \/ i \in DOMAIN data[g] /\ reply'[g].body[i] = data[g][i]
<1>1. PICK n \in 0 .. size[g] :
        reply'[g] = [status |-> 200, length |-> size[g], body |-> SubSeq(Filled(g), 1, n)]
  BY GetReplyFacts
<1> DEFINE body == SubSeq(Filled(g), 1, n)
<1>2. reply'[g].body = body
  BY <1>1
<1>3. /\ size[g] \in Nat /\ n \in Nat /\ n <= size[g] /\ Len(data[g]) \in Nat
      /\ \A i \in 1 .. size[g] : Filled(g)[i] = IF i <= Len(data[g]) THEN data[g][i] ELSE Junk
      /\ DOMAIN body = 1 .. n
      /\ \A i \in 1 .. n : body[i] = Filled(g)[i]
  BY FilledFacts
<1>4. DOMAIN data[g] = 1 .. Len(data[g])
  BY DEF Files, TypeOK
<1> HIDE DEF body
<1>5. \A i \in 1 .. n : body[i] = Junk \/ (i \in DOMAIN data[g] /\ body[i] = data[g][i])
  BY <1>3, <1>4
<1> QED
  BY <1>2, <1>3, <1>5

LEMMA InitInPlace == Init => InPlace /\ BytesInPlace
<1> SUFFICES ASSUME Init PROVE InPlace /\ BytesInPlace
  OBVIOUS
<1>1. file # NoFile => \A i \in DOMAIN file : file[i][2] = i
  BY PayloadFacts DEF Init
<1>2. \A g \in Gets : DOMAIN data[g] = {}
  BY DEF Init
<1>3. \A g \in Gets : DOMAIN reply[g].body = {}
  BY StatusFacts DEF Init, Children
<1> QED
  BY <1>1, <1>2, <1>3 DEF InPlace, BytesInPlace

LEMMA StepInPlace == Files /\ InPlace /\ Step => InPlace'
<1> SUFFICES ASSUME Files, InPlace, Step PROVE InPlace'
  OBVIOUS
<1>1. ASSUME NEW p \in Posts, PostOpen(p) PROVE InPlace'
  <2>1. file' = <<>> /\ DOMAIN file' = {} /\ data' = data
    BY <1>1, PostOpenFacts
  <2> QED
    BY <2>1 DEF InPlace
<1>2. ASSUME NEW p \in Posts, PostWrite(p) PROVE InPlace'
  <2>1. /\ file # NoFile /\ data' = data
        /\ \A i \in DOMAIN file' :
             \/ file'[i] = <<p, i>>
             \/ i \in DOMAIN file /\ file'[i] = file[i]
    BY <1>2, PostWriteFacts
  <2>2. \A i \in DOMAIN file' : file'[i][2] = i
    BY <2>1 DEF InPlace
  <2> QED
    BY <2>1, <2>2 DEF InPlace
<1>3. CASE UNCHANGED <<file, data>>
  BY <1>3 DEF InPlace
<1>4. ASSUME NEW g \in Gets, Read(g) PROVE InPlace'
  <2>1. CASE data' = data
    BY <1>3, <1>4, <2>1, ReadStep
  <2>2. ASSUME NEW u \in Nat, More(g, u) PROVE InPlace'
    <3>1. /\ file' = file /\ file # NoFile
          /\ \A d \in Gets : d # g => data'[d] = data[d]
          /\ \A i \in DOMAIN data'[g] :
              \/ i \in DOMAIN data[g] /\ data'[g][i] = data[g][i]
              \/ i \notin DOMAIN data[g] /\ i \in DOMAIN file /\ data'[g][i] = file[i]
      BY <1>4, <2>2, ReadStep, MoreFacts, NoBytesAssumption
    <3>2. \A i \in DOMAIN data'[g] : data'[g][i][2] = i
      BY <3>1 DEF InPlace
    <3>3. \A d \in Gets : \A i \in DOMAIN data'[d] : data'[d][i][2] = i
      BY <3>1, <3>2 DEF InPlace
    <3> QED
      BY <3>1, <3>3 DEF InPlace
  <2> QED
    BY <1>4, <2>1, <2>2, ReadStep
<1>5. ASSUME NEW g \in Gets, GetOpen(g) PROVE InPlace'
  BY <1>3, <1>5, GetOpenFacts
<1>6. ASSUME NEW g \in Gets, Stat(g) PROVE InPlace'
  BY <1>3, <1>6, StatFacts
<1>7. ASSUME NEW c \in Children, Ends(c) PROVE InPlace'
  BY <1>3, <1>7, EndsFacts
<1> QED
  BY <1>1, <1>2, <1>3, <1>4, <1>5, <1>6, <1>7 DEF Step, vars

\* The answers change only where a request ends.
LEMMA ReplyKept ==
  ASSUME Files, Step
  PROVE  reply' = reply \/ \E c \in Children : Ends(c)
BY PostOpenFacts, PostWriteFacts, GetOpenFacts, StatFacts, ReadStep DEF Step, vars

LEMMA StepBytesInPlace == Files /\ InPlace /\ BytesInPlace /\ Step => BytesInPlace'
<1> SUFFICES ASSUME Files, InPlace, BytesInPlace, Step PROVE BytesInPlace'
  OBVIOUS
<1>1. file' # NoFile => \A i \in DOMAIN file' : file'[i][2] = i
  BY StepInPlace DEF InPlace
<1>2. ASSUME NEW c \in Children, Ends(c), NEW g \in Gets, NEW i \in DOMAIN reply'[g].body,
             reply'[g].body[i] # Junk
      PROVE  reply'[g].body[i][2] = i
  <2>1. CASE g # c
    <3>1. reply'[g] = reply[g]
      BY <1>2, <2>1, EndsFacts DEF Children
    <3> QED
      BY <1>2, <3>1 DEF BytesInPlace
  <2>2. CASE g = c /\ GetReply(g)
    <3>1. i \in DOMAIN data[g] /\ reply'[g].body[i] = data[g][i]
      BY <1>2, <2>2, BodyFacts
    <3> QED
      BY <3>1 DEF InPlace
  <2>3. CASE reply'[g].body = <<>>
    BY <1>2, <2>3
  <2> QED
    BY <1>2, <2>1, <2>2, <2>3, EndsFacts
<1>3. CASE reply' = reply
  BY <1>1, <1>3 DEF BytesInPlace
<1> QED
  BY <1>1, <1>2, <1>3, ReplyKept DEF BytesInPlace

-----------------------------------------------------------------------------
\* A mixture is in the file only where POSTs shared it, or one did not finish.

LEMMA InitMixture == Init => MixtureNeedsOverlap
BY DEF Init, MixtureNeedsOverlap

LEMMA StepMixture == Files /\ Alone /\ MixtureNeedsOverlap /\ Step => MixtureNeedsOverlap'
<1> SUFFICES ASSUME Files, Alone, MixtureNeedsOverlap, Step PROVE MixtureNeedsOverlap'
  OBVIOUS
<1>1. \A c : MetAPost(c) => MetAPost(c)'
  BY MetGrows, MetKept
<1>2. ASSUME NEW p \in Posts, PostOpen(p) PROVE MixtureNeedsOverlap'
  BY <1>2, PostOpenFacts DEF MixtureNeedsOverlap, Window
<1>3. ASSUME NEW p \in Posts, PostWrite(p) PROVE MixtureNeedsOverlap'
  <2>1. PICK n \in 0 .. Length[p] :
          /\ broken' = IF n < Length[p] THEN broken \cup {p} ELSE broken
          /\ file = <<>> /\ n = Length[p] => file' = Payload(p)
    BY <1>3, PostWriteFacts
  <2>2. CASE n < Length[p]
    BY <2>1, <2>2 DEF MixtureNeedsOverlap
  <2>3. CASE MetAPost(p)
    BY <1>1, <2>3 DEF MixtureNeedsOverlap
  <2>4. CASE ~(n < Length[p]) /\ ~MetAPost(p)
    <3>1. n = Length[p]
      BY <2>4, PayloadFacts
    <3>2. file = <<>>
      BY <1>3, <2>4, PostWriteFacts DEF Alone
    <3> QED
      BY <2>1, <3>1, <3>2 DEF MixtureNeedsOverlap
  <2> QED
    BY <2>2, <2>3, <2>4
<1>4. ASSUME file' = file, broken \subseteq broken',
             \A p \in Posts : p \in Window => p \in Window' \/ p \in broken'
      PROVE  MixtureNeedsOverlap'
  BY <1>1, <1>4 DEF MixtureNeedsOverlap
<1>5. ASSUME NEW g \in Gets, GetOpen(g) \/ Stat(g) \/ Read(g) PROVE MixtureNeedsOverlap'
  <2>1. g \notin Posts
    BY ChildrenAssumption
  <2>2. file' = file /\ broken' = broken /\ \A p \in Posts : pc'[p] = pc[p]
    BY <1>5, <2>1, GetOpenFacts, StatFacts, ReadStep DEF Children
  <2> QED
    BY <1>4, <2>2 DEF Window
<1>6. ASSUME NEW c \in Children, Ends(c) PROVE MixtureNeedsOverlap'
  <2>1. \A p \in Posts : p \in Window => pc[p] = "write"
    BY DEF Files, Kinds, Window
  <2>2. \A p \in Posts : p \in Window => p \in Window' \/ p \in broken'
    BY <1>6, <2>1, EndsFacts DEF Window
  <2> QED
    BY <1>4, <1>6, <2>2, EndsFacts
<1>7. CASE UNCHANGED vars
  BY <1>4, <1>7 DEF vars, Window
<1> QED
  BY <1>2, <1>3, <1>5, <1>6, <1>7 DEF Step
-----------------------------------------------------------------------------
\* A GET that met no POST is answered what it found.

LEMMA InitUndisturbed == Init => Undisturbed
BY DEF Init, Undisturbed, Children

LEMMA StepUndisturbed == Files /\ Meetings /\ Undisturbed /\ Step => Undisturbed'
<1> SUFFICES ASSUME Files, Meetings, Undisturbed, Step, NEW g \in Gets, ~MetAPost(g)'
             PROVE  /\ pc'[g] \in {"stat", "read", "send"} => seen'[g] \in Seq(Bytes)
                    /\ pc'[g] \in {"stat", "read"} => file' = seen'[g]
                    /\ pc'[g] \in {"read", "send"} =>
                         /\ size'[g] = Len(seen'[g])
                         /\ \A i \in DOMAIN data'[g] : data'[g][i] = seen'[g][i]
                    /\ pc'[g] = "send" => Len(data'[g]) = size'[g]
  BY DEF Undisturbed
<1>1. ~MetAPost(g) /\ g \in Children /\ g \notin Posts
  BY MetGrows, MetKept, ChildrenAssumption DEF Children
<1>2. /\ pc[g] \in {"stat", "read", "send"} => seen[g] \in Seq(Bytes)
      /\ pc[g] \in {"stat", "read"} => file = seen[g]
      /\ pc[g] \in {"read", "send"} =>
           /\ size[g] = Len(seen[g])
           /\ \A i \in DOMAIN data[g] : data[g][i] = seen[g][i]
      /\ pc[g] = "send" => Len(data[g]) = size[g]
  BY <1>1 DEF Undisturbed
\* Where a POST changes the file, this GET has not opened it, or has read it.
<1>3. ASSUME NEW p \in Posts, PostOpen(p) PROVE pc'[g] = pc[g] /\ g \notin Window
  <2>1. g # p /\ pc'[g] = pc[g]
    BY <1>1, <1>3, PostOpenFacts
  <2>2. g \in Window => {g, p} \in met'
    BY <1>3, PostOpenFacts
  <2> QED
    BY <2>1, <2>2 DEF MetAPost
<1>4. ASSUME NEW p \in Posts, PostWrite(p) PROVE pc'[g] = pc[g] /\ g \notin Window
  BY <1>1, <1>4, PostWriteFacts, WritersMet
<1>5. CASE UNCHANGED <<size, data, seen>> /\ pc'[g] = pc[g] /\ (file' = file \/ g \notin Window)
  BY <1>1, <1>2, <1>5 DEF Window
<1>6. ASSUME NEW h \in Gets, GetOpen(h), h # g PROVE pc'[g] = pc[g] /\ seen'[g] = seen[g]
  BY <1>1, <1>6, GetOpenFacts
<1>7. CASE GetOpen(g)
  BY <1>7, GetOpenFacts
<1>8. CASE Stat(g)
  <2>1. /\ pc[g] = "stat" /\ pc'[g] = "read" /\ size'[g] = Len(file)
        /\ data'[g] = <<>> /\ file' = file /\ seen'[g] = seen[g]
    BY <1>8, StatFacts
  <2> QED
    BY <1>2, <2>1
<1>9. CASE Read(g)
  <2>1. /\ pc[g] = "read" /\ UNCHANGED <<file, size, seen>> /\ file = seen[g] /\ size[g] = Len(file)
        /\ file \in Seq(Bytes)
    BY <1>2, <1>9, ReadStep
  <2>2. CASE pc'[g] = "send" /\ data' = data /\ NoMore(g)
    <3>1. data[g] \in Seq(Bytes) /\ size[g] \in Nat /\ Len(data[g]) <= size[g]
      BY DEF Files, TypeOK
    <3>2. Len(data[g]) >= size[g]
      BY <2>1, <2>2 DEF NoMore
    <3>3. Len(data[g]) \in Nat
      BY <3>1
    <3>4. Len(data[g]) = size[g]
      BY <3>1, <3>2, <3>3
    <3> QED
      BY <1>2, <2>1, <2>2, <3>4
  <2>3. CASE pc'[g] = "read" /\ \E u \in Nat : More(g, u)
    <3>1. \A i \in DOMAIN data'[g] :
            \/ i \in DOMAIN data[g] /\ data'[g][i] = data[g][i]
            \/ i \notin DOMAIN data[g] /\ i \in DOMAIN file /\ data'[g][i] = file[i]
      BY <2>1, <2>3, MoreFacts
    <3> QED
      BY <1>2, <2>1, <2>3, <3>1
  <2> QED
    BY <1>9, <2>2, <2>3, ReadStep
<1>10. ASSUME NEW h \in Gets, Stat(h), h # g
       PROVE  pc'[g] = pc[g] /\ size'[g] = size[g] /\ UNCHANGED <<file, data, seen>>
  BY <1>1, <1>10, StatFacts
<1>11. ASSUME NEW h \in Gets, Read(h), h # g
       PROVE  pc'[g] = pc[g] /\ data'[g] = data[g] /\ UNCHANGED <<file, size, seen>>
  BY <1>1, <1>11, ReadStep
<1>12. ASSUME NEW c \in Children, Ends(c)
       PROVE  pc'[g] \in {pc[g], "dead"} /\ UNCHANGED <<file, size, data, seen>>
  BY <1>1, <1>12, EndsFacts
<1>13. CASE \E p \in Posts : PostOpen(p) \/ PostWrite(p)
  BY <1>3, <1>4, <1>5, <1>13, PostOpenFacts, PostWriteFacts
<1>14. CASE \E h \in Gets : GetOpen(h)
  BY <1>2, <1>6, <1>7, <1>14, GetOpenFacts
<1>15. CASE \E h \in Gets : Stat(h)
  BY <1>2, <1>8, <1>10, <1>15
<1>16. CASE \E h \in Gets : Read(h)
  BY <1>2, <1>9, <1>11, <1>16
<1>17. CASE \E c \in Children : Ends(c)
  BY <1>2, <1>12, <1>17
<1>18. CASE UNCHANGED vars
  BY <1>5, <1>18 DEF vars
<1> QED
  BY <1>13, <1>14, <1>15, <1>16, <1>17, <1>18 DEF Step

\* The answer for what is up to the first NUL of a content s.
LEMMA AnswerFacts ==
  ASSUME NEW s \in Seq(Bytes), NEW n \in 0 .. Len(s),
         n < Len(s) => s[n + 1] \in Nuls,
         \A i \in 1 .. n : s[i] \notin Nuls
  PROVE  Answer(s) = [status |-> 200, length |-> Len(s), body |-> SubSeq(s, 1, n)]
<1> DEFINE before == {i \in DOMAIN s : \A j \in 1 .. i : s[j] \notin Nuls}
<1>1. Len(s) \in Nat /\ n \in Nat /\ n <= Len(s) /\ DOMAIN s = 1 .. Len(s)
  OBVIOUS
<1>2. before = 1 .. n
  <2>1. ASSUME NEW i \in before PROVE i \in 1 .. n
    <3>1. i \in 1 .. Len(s) /\ \A j \in 1 .. i : s[j] \notin Nuls
      BY <1>1
    <3>2. n < Len(s) => ~(n + 1 \in 1 .. i)
      BY <3>1
    <3> QED
      BY <1>1, <3>1, <3>2
  <2>2. ASSUME NEW i \in 1 .. n PROVE i \in before
    BY <1>1
  <2> QED
    BY <2>1, <2>2
<1>3. Cardinality(1 .. n) = n
  BY <1>1, FS_Interval
<1>4. UpToNul(s) = SubSeq(s, 1, n)
  BY <1>2, <1>3 DEF UpToNul
<1>5. s # Unknown /\ s # NoFile
  BY NoBytesAssumption
<1> QED
  BY <1>4, <1>5 DEF Answer

LEMMA InitGetExact == Init => GetExact
BY StatusFacts DEF Init, GetExact, Children

LEMMA StepGetExact == Files /\ Undisturbed /\ GetExact /\ Step => GetExact'
<1> SUFFICES ASSUME Files, Undisturbed, GetExact, Step,
                    NEW g \in Gets, reply'[g].status = 200, ~MetAPost(g)'
             PROVE  reply'[g] = Answer(seen'[g])
  BY DEF GetExact, Answer, UpToNul
<1>1. ~MetAPost(g) /\ g \in Children
  BY MetGrows, MetKept DEF Children
<1>2. CASE reply'[g] = reply[g]
  <2>1. seen'[g] = seen[g]
    <3>1. CASE GetOpen(g)
      BY <1>2, <3>1, GetOpenFacts, StatusFacts
    <3>2. CASE ~GetOpen(g)
      BY <3>2, PostOpenFacts, PostWriteFacts, GetOpenFacts, StatFacts, ReadStep, EndsFacts
         DEF Step, vars
    <3> QED
      BY <3>1, <3>2
  <2> QED
    BY <1>1, <1>2, <2>1 DEF GetExact
<1>3. CASE Ends(g) /\ GetReply(g)
  <2>1. pc[g] = "send"
    BY <1>3 DEF GetReply
  <2>2. /\ seen[g] \in Seq(Bytes) /\ size[g] = Len(seen[g]) /\ Len(data[g]) = size[g]
        /\ \A i \in DOMAIN data[g] : data[g][i] = seen[g][i]
    BY <1>1, <2>1 DEF Undisturbed
  <2>3. data[g] \in Seq(Bytes) /\ size[g] \in Nat
    BY DEF Files, TypeOK
  <2>4. DOMAIN data[g] = 1 .. size[g] /\ \A i \in 1 .. size[g] : seen[g][i] \in Bytes
    BY <2>2, <2>3
  <2>5. PICK n \in 0 .. size[g] :
          /\ n < size[g] => Filled(g)[n + 1] \in Nuls \cup {Junk}
          /\ \A i \in 1 .. n : Filled(g)[i] \notin Nuls
          /\ reply'[g] = [status |-> 200, length |-> size[g], body |-> SubSeq(Filled(g), 1, n)]
    BY <1>3, GetReplyFacts
  <2>6. \A i \in 1 .. size[g] : Filled(g)[i] = seen[g][i]
    <3>1. \A i \in 1 .. size[g] : Filled(g)[i] = IF i <= Len(data[g]) THEN data[g][i] ELSE Junk
      BY <2>3, FilledFacts
    <3> QED
      BY <2>2, <2>4, <3>1
  <2>7. n < size[g] => seen[g][n + 1] \in Nuls
    <3>1. n < size[g] => n + 1 \in 1 .. size[g]
      BY <2>3
    <3>2. Junk \notin Bytes
      BY NoBytesAssumption
    <3> QED
      BY <2>4, <2>5, <2>6, <3>1, <3>2
  <2>8. \A i \in 1 .. n : seen[g][i] \notin Nuls
    <3>1. \A i \in 1 .. n : i \in 1 .. size[g]
      BY <2>3
    <3> QED
      BY <2>5, <2>6, <3>1
  <2>9. Answer(seen[g]) = [status |-> 200, length |-> size[g], body |-> SubSeq(seen[g], 1, n)]
    <3> DEFINE s == seen[g]
    <3>1. /\ s \in Seq(Bytes) /\ n \in 0 .. Len(s)
          /\ n < Len(s) => s[n + 1] \in Nuls
          /\ \A i \in 1 .. n : s[i] \notin Nuls
      BY <2>2, <2>7, <2>8
    <3>2. size[g] = Len(s)
      BY <2>2
    <3> HIDE DEF s
    <3>3. Answer(s) = [status |-> 200, length |-> Len(s), body |-> SubSeq(s, 1, n)]
      BY <3>1, AnswerFacts
    <3> QED
      BY <3>2, <3>3 DEF s
  <2>10. SubSeq(Filled(g), 1, n) = SubSeq(seen[g], 1, n)
    <3>1. Filled(g) \in Seq(Bytes \cup {Junk}) /\ Len(Filled(g)) = size[g]
      BY FilledFacts
    <3>2. Filled(g) = seen[g]
      BY <2>2, <2>3, <2>6, <3>1
    <3> QED
      BY <3>2
  <2>11. seen' = seen
    BY <1>1, <1>3, EndsFacts
  <2> QED
    BY <2>5, <2>9, <2>10, <2>11
<1>4. reply'[g] = reply[g] \/ (Ends(g) /\ GetReply(g))
  <2>1. reply' = reply \/ \E c \in Children : Ends(c)
    BY ReplyKept
  <2>2. ASSUME NEW c \in Children, Ends(c), c # g PROVE reply'[g] = reply[g]
    BY <1>1, <2>2, EndsFacts
  <2>3. ASSUME Ends(g) PROVE GetReply(g)
    BY <1>1, <2>3, EndsFacts
  <2> QED
    BY <2>1, <2>2, <2>3
<1> QED
  BY <1>2, <1>3, <1>4

-----------------------------------------------------------------------------
\* Bytes of two writers are together only if these met, or both met the reader.

LEMMA InitWriters == Init => Writers /\ Catches /\ GetMixesWhoMet
<1> SUFFICES ASSUME Init PROVE Writers /\ Catches /\ GetMixesWhoMet
  OBVIOUS
<1>1. file # NoFile => \A i \in DOMAIN file : file[i][1] = Old
  BY PayloadFacts DEF Init
<1>2. \A c \in Children : pc[c] = "open"
  BY DEF Init
<1>3. \A g \in Gets : DOMAIN data[g] = {}
  BY DEF Init
<1>4. \A g \in Gets : DOMAIN reply[g].body = {}
  BY StatusFacts DEF Init, Children
<1> QED
  BY <1>1, <1>2, <1>3, <1>4 DEF Writers, Catches, GetMixesWhoMet, Children

LEMMA StepWriters == Files /\ Meetings /\ Writers /\ Step => Writers'
<1> SUFFICES ASSUME Files, Meetings, Writers, Step PROVE Writers'
  OBVIOUS
<1>1. met \subseteq met'
  BY MetGrows
<1>2. ASSUME NEW p \in Posts, PostOpen(p) PROVE Writers'
  <2>1. DOMAIN file' = {}
    BY <1>2, PostOpenFacts
  <2> QED
    BY <2>1 DEF Writers
<1>3. ASSUME NEW p \in Posts, PostWrite(p) PROVE Writers'
  <2>1. /\ file # NoFile /\ pc[p] = "write" /\ met' = met
        /\ \A i \in DOMAIN file' : file'[i] = <<p, i>> \/ (i \in DOMAIN file /\ file'[i] = file[i])
    BY <1>3, PostWriteFacts
  <2>2. \A i \in DOMAIN file' : file'[i][1] = p \/ (i \in DOMAIN file /\ file'[i][1] = file[i][1])
    BY <2>1
  <2>3. \A i \in DOMAIN file : file[i][1] = p \/ {p, file[i][1]} \in met
    BY <2>1 DEF Writers
  <2>4. ASSUME NEW i \in DOMAIN file', NEW j \in DOMAIN file', file'[i][1] # file'[j][1]
        PROVE  {file'[i][1], file'[j][1]} \in met
    <3>1. CASE file'[i][1] = p
      BY <2>2, <2>3, <2>4, <3>1
    <3>2. CASE file'[j][1] = p
      <4>1. {file'[j][1], file'[i][1]} \in met
        BY <2>2, <2>3, <2>4, <3>2
      <4>2. {file'[j][1], file'[i][1]} = {file'[i][1], file'[j][1]}
        OBVIOUS
      <4> QED
        BY <4>1, <4>2
    <3>3. CASE file'[i][1] # p /\ file'[j][1] # p
      BY <2>1, <2>2, <2>4, <3>3 DEF Writers
    <3> QED
      BY <3>1, <3>2, <3>3
  <2>5. ASSUME NEW q \in Posts, pc'[q] = "write", NEW i \in DOMAIN file'
        PROVE  file'[i][1] = q \/ {q, file'[i][1]} \in met
    <3>1. q # p /\ pc[q] = "write" /\ q \in Window
      BY <1>3, <2>5, PostWriteFacts DEF Window, Children
    <3>2. {q, p} \in met
      BY <2>1, <3>1, WritersMet
    <3> QED
      BY <2>1, <2>2, <3>1, <3>2 DEF Writers
  <2> QED
    BY <2>1, <2>4, <2>5 DEF Writers
<1>4. ASSUME file' = file, \A p \in Posts : pc'[p] = "write" => pc[p] = "write" PROVE Writers'
  BY <1>1, <1>4 DEF Writers
<1>5. ASSUME NEW g \in Gets, GetOpen(g) \/ Stat(g) \/ Read(g) PROVE Writers'
  <2>1. g \notin Posts
    BY ChildrenAssumption
  <2> QED
    BY <1>4, <1>5, <2>1, GetOpenFacts, StatFacts, ReadStep DEF Children
<1>6. ASSUME NEW c \in Children, Ends(c) PROVE Writers'
  BY <1>4, <1>6, EndsFacts DEF Children
<1>7. CASE UNCHANGED vars
  BY <1>4, <1>7 DEF vars
<1> QED
  BY <1>2, <1>3, <1>5, <1>6, <1>7 DEF Step
LEMMA StepCatches == Files /\ Meetings /\ Writers /\ Catches /\ Step => Catches'
<1> SUFFICES ASSUME Files, Meetings, Writers, Catches, Step PROVE Catches'
  OBVIOUS
<1>1. met \subseteq met'
  BY MetGrows
<1>2. ASSUME NEW g \in Gets,
             pc'[g] = "read" => pc[g] = "read" /\ size'[g] = size[g] /\ data'[g] = data[g],
             NEW f, file' = f, f = file \/ (f = <<>> /\ f \in Seq(Bytes))
      PROVE  pc'[g] = "read" => OneGo(g)'
  <2> SUFFICES ASSUME pc'[g] = "read" PROVE OneGo(g)'
    OBVIOUS
  <2>1. OneGo(g) /\ size'[g] = size[g] /\ data'[g] = data[g]
    BY <1>2 DEF Catches
  <2>2. CASE f = file
    BY <1>1, <1>2, <2>1, <2>2 DEF OneGo
  <2>3. CASE f = <<>>
    <3>1. DOMAIN file' = {}
      BY <1>2, <2>3
    <3>2. data[g] = <<>> => DOMAIN data[g] = {}
      OBVIOUS
    <3> QED
      BY <1>1, <2>1, <3>1, <3>2 DEF OneGo
  <2> QED
    BY <1>2, <2>2, <2>3
<1>3. ASSUME NEW p \in Posts, PostWrite(p), NEW g \in Gets, pc'[g] = "read" PROVE OneGo(g)'
  <2>1. g # p /\ g \in Children
    BY ChildrenAssumption DEF Children
  <2>2. /\ pc[g] = "read" /\ g \in Window /\ size' = size /\ data' = data /\ met' = met
        /\ file \in Seq(Bytes) /\ file' \in Seq(Bytes) /\ Len(file') >= Len(file)
        /\ \A i \in DOMAIN file' : file'[i] = <<p, i>> \/ (i \in DOMAIN file /\ file'[i] = file[i])
    BY <1>3, <2>1, PostWriteFacts DEF Window
  <2>3. {g, p} \in met
    BY <1>3, <2>1, <2>2, PostWriteFacts, WritersMet
  <2>4. OneGo(g)
    BY <2>2 DEF Catches
  <2>5. CASE data[g] = <<>> /\ Len(file) >= size[g]
    <3>1. Len(file) \in Nat /\ Len(file') \in Nat /\ size[g] \in Nat
      BY <2>2 DEF Files, TypeOK
    <3> QED
      BY <2>2, <2>5, <3>1 DEF OneGo
  <2>6. CASE Len(data[g]) = size[g]
    BY <2>2, <2>6 DEF OneGo
  <2>7. CASE /\ \A i \in DOMAIN file : {g, file[i][1]} \in met
             /\ \A i \in DOMAIN data[g] : {g, data[g][i][1]} \in met
    <3>1. \A i \in DOMAIN file' : file'[i][1] = p \/ (i \in DOMAIN file /\ file'[i][1] = file[i][1])
      BY <2>2
    <3>2. \A i \in DOMAIN file' : {g, file'[i][1]} \in met
      BY <2>3, <2>7, <3>1
    <3> QED
      BY <2>2, <2>7, <3>2 DEF OneGo
  <2> QED
    BY <2>4, <2>5, <2>6, <2>7 DEF OneGo
<1>4. ASSUME NEW g \in Gets, Stat(g) PROVE OneGo(g)'
  <2>1. data' = data /\ data[g] = <<>> /\ size'[g] = Len(file) /\ file' = file /\ file \in Seq(Bytes)
    BY <1>4, StatFacts
  <2>2. Len(file) \in Nat
    BY <2>1
  <2> QED
    BY <2>1, <2>2 DEF OneGo
<1>5. ASSUME NEW g \in Gets, Read(g), pc'[g] = "read" PROVE OneGo(g)'
  <2>1. PICK u \in Nat : More(g, u)
    BY <1>5, ReadStep
  <2>2. pc[g] = "read" /\ file \in Seq(Bytes) /\ UNCHANGED <<file, size, met>>
    BY <1>5, ReadStep
  <2>3. data[g] \in Seq(Bytes) /\ size[g] \in Nat
    BY DEF Files, TypeOK
  <2>4. Len(data[g]) \in Nat /\ Len(file) \in Nat
    BY <2>2, <2>3
  <2>5. /\ Len(data[g]) < u /\ u <= size[g] /\ (u = size[g] \/ u = Len(file)) /\ Len(data'[g]) = u
    BY <2>1 DEF More
  <2>6. OneGo(g)
    BY <2>2 DEF Catches
  <2>7. CASE Len(file) >= size[g]
    <3>1. Len(data'[g]) = size[g]
      BY <2>3, <2>4, <2>5, <2>7
    <3> QED
      BY <2>2, <3>1 DEF OneGo
  <2>8. CASE Len(data[g]) = size[g]
    BY <2>3, <2>4, <2>5, <2>8
  <2>9. CASE /\ \A i \in DOMAIN file : {g, file[i][1]} \in met
             /\ \A i \in DOMAIN data[g] : {g, data[g][i][1]} \in met
    <3>1. \A i \in DOMAIN data'[g] : {g, data'[g][i][1]} \in met
      BY <2>1, <2>2, <2>9, MoreFacts
    <3> QED
      BY <2>2, <2>9, <3>1 DEF OneGo
  <2> QED
    BY <2>6, <2>7, <2>8, <2>9 DEF OneGo
\* OneGo of every GET that is reading, ...
<1>6. ASSUME NEW g \in Gets, pc'[g] = "read" PROVE OneGo(g)'
  <2>1. g \in Children /\ g \notin Posts
    BY ChildrenAssumption DEF Children
  <2>2. ASSUME NEW p \in Posts, PostOpen(p) PROVE OneGo(g)'
    <3>1. /\ file' = <<>> /\ pc'[g] = pc[g] /\ UNCHANGED <<size, data>>
      BY <2>1, <2>2, PostOpenFacts
    <3>2. <<>> \in Seq(Bytes)
      OBVIOUS
    <3> QED
      BY <1>2, <1>6, <3>1, <3>2
  <2>3. ASSUME file' = file, pc'[g] = pc[g], size'[g] = size[g], data'[g] = data[g] PROVE OneGo(g)'
    BY <1>2, <1>6, <2>3
  <2>4. ASSUME NEW h \in Gets, GetOpen(h) PROVE OneGo(g)'
    BY <1>6, <2>1, <2>3, <2>4, GetOpenFacts
  <2>5. ASSUME NEW h \in Gets, Stat(h) PROVE OneGo(g)'
    BY <1>4, <2>1, <2>3, <2>5, StatFacts
  <2>6. ASSUME NEW h \in Gets, Read(h) PROVE OneGo(g)'
    BY <1>5, <1>6, <2>1, <2>3, <2>6, ReadStep
  <2>7. ASSUME NEW c \in Children, Ends(c) PROVE OneGo(g)'
    BY <1>6, <2>1, <2>3, <2>7, EndsFacts
  <2>8. CASE UNCHANGED vars
    BY <2>3, <2>8 DEF vars
  <2> QED
    BY <1>3, <1>6, <2>2, <2>4, <2>5, <2>6, <2>7, <2>8 DEF Step
\* ... and so what it adds to what it has read.
<1>7. ASSUME NEW g \in Gets, NEW i \in DOMAIN data'[g], NEW j \in DOMAIN data'[g]
      PROVE  Mixable(data[g][i][1], data[g][j][1], g)'
  <2>1. CASE data'[g] = data[g]
    BY <1>1, <1>7, <2>1 DEF Catches, Mixable
  <2>2. ASSUME Read(g), NEW u \in Nat, More(g, u)
        PROVE  Mixable(data[g][i][1], data[g][j][1], g)'
    <3>1. pc[g] = "read" /\ file \in Seq(Bytes) /\ file # NoFile /\ UNCHANGED <<file, size, met>>
      BY <2>2, ReadStep, NoBytesAssumption
    <3>2. /\ DOMAIN data[g] = 1 .. Len(data[g])
          /\ \A k \in DOMAIN data'[g] :
               \/ k \in DOMAIN data[g] /\ data'[g][k] = data[g][k]
               \/ k \notin DOMAIN data[g] /\ k \in DOMAIN file /\ data'[g][k] = file[k]
      BY <2>2, <3>1, MoreFacts
    <3>3. OneGo(g)
      BY <3>1 DEF Catches
    <3>4. CASE data[g] = <<>>
      <4>1. DOMAIN data[g] = {}
        BY <3>4
      <4>2. /\ i \in DOMAIN file /\ data'[g][i] = file[i]
            /\ j \in DOMAIN file /\ data'[g][j] = file[j]
        BY <3>2, <4>1
      <4> QED
        BY <1>7, <3>1, <4>2 DEF Writers, Mixable
    <3>5. CASE Len(data[g]) = size[g]
      <4>1. Len(data[g]) \in Nat /\ Len(data[g]) < u /\ u <= size[g]
        BY <2>2 DEF More, Files, TypeOK
      <4> QED
        BY <3>5, <4>1
    <3>6. CASE /\ \A k \in DOMAIN file : {g, file[k][1]} \in met
               /\ \A k \in DOMAIN data[g] : {g, data[g][k][1]} \in met
      <4>1. {g, data'[g][i][1]} \in met /\ {g, data'[g][j][1]} \in met
        BY <3>2, <3>6
      <4> QED
        BY <3>1, <4>1 DEF Mixable
    <3> QED
      BY <3>3, <3>4, <3>5, <3>6 DEF OneGo
  <2>3. data'[g] = data[g] \/ (Read(g) /\ \E u \in Nat : More(g, u))
    BY PostOpenFacts, PostWriteFacts, GetOpenFacts, StatFacts, ReadStep, EndsFacts DEF Step, vars
  <2> QED
    BY <2>1, <2>2, <2>3
<1> QED
  BY <1>6, <1>7 DEF Catches, Mixable

LEMMA StepGetMixes == Files /\ Catches /\ GetMixesWhoMet /\ Step => GetMixesWhoMet'
<1> SUFFICES ASSUME Files, Catches, GetMixesWhoMet, Step PROVE GetMixesWhoMet'
  OBVIOUS
<1>1. met \subseteq met'
  BY MetGrows
<1>2. CASE reply' = reply
  BY <1>1, <1>2 DEF GetMixesWhoMet
<1>3. ASSUME NEW c \in Children, Ends(c),
             NEW g \in Gets, NEW i \in DOMAIN reply'[g].body, NEW j \in DOMAIN reply'[g].body,
             reply'[g].body[i] # Junk, reply'[g].body[j] # Junk
      PROVE  Mixable(reply[g].body[i][1], reply[g].body[j][1], g)'
  <2>1. CASE g # c
    <3>1. reply'[g] = reply[g]
      BY <1>3, <2>1, EndsFacts DEF Children
    <3> QED
      BY <1>1, <1>3, <3>1 DEF GetMixesWhoMet, Mixable
  <2>2. CASE g = c /\ GetReply(g)
    <3>1. /\ i \in DOMAIN data[g] /\ reply'[g].body[i] = data[g][i]
          /\ j \in DOMAIN data[g] /\ reply'[g].body[j] = data[g][j]
      BY <1>3, <2>2, BodyFacts
    <3> QED
      BY <1>1, <1>3, <3>1 DEF Catches, Mixable
  <2>3. CASE reply'[g].body = <<>>
    BY <1>3, <2>3
  <2> QED
    BY <1>3, <2>1, <2>2, <2>3, EndsFacts
<1> QED
  BY <1>2, <1>3, ReplyKept DEF GetMixesWhoMet, Mixable

-----------------------------------------------------------------------------
\* The invariant holds in every state, ...
THEOREM Invariance == Spec => []IInv
<1>1. Init => IInv
  BY InitFiles, InitMeetings, InitStored, InitInPlace, InitMixture, InitUndisturbed,
     InitGetExact, InitWriters DEF IInv
<1>2. IInv /\ [Next]_vars => IInv'
  BY Steps, StepFiles, StepMeetings, StepAlone, StepStored, StepInPlace, StepBytesInPlace,
     StepMixture, StepUndisturbed, StepGetExact, StepWriters, StepCatches, StepGetMixes DEF IInv
<1> QED
  BY <1>1, <1>2, PTL DEF Spec

\* ... and so do the types: fread() never delivers more than malloc() gave.
THEOREM TypeCorrect == Spec => []TypeOK
<1>1. IInv => TypeOK
  BY DEF IInv, Files
<1> QED
  BY <1>1, Invariance, PTL

\* A POST that was answered 201, shared the file with no other POST and was not cut
\* short is what the file holds until the next POST opens it (server.c:424-470).
THEOREM AckedStoredHolds == Spec => []AckedStored
<1>1. IInv => AckedStored
  BY DEF IInv, Stored, AckedStored
<1> QED
  BY <1>1, Invariance, PTL

\* The file mixes POSTs, or is empty where there was one, only if POSTs shared it, one
\* is not finished, or one was cut short.
THEOREM MixtureNeedsOverlapHolds == Spec => []MixtureNeedsOverlap
<1>1. IInv => MixtureNeedsOverlap
  BY DEF IInv
<1> QED
  BY <1>1, Invariance, PTL

\* No byte moves, in the file or on its way to a client.
THEOREM BytesInPlaceHolds == Spec => []BytesInPlace
<1>1. IInv => BytesInPlace
  BY DEF IInv
<1> QED
  BY <1>1, Invariance, PTL

\* A GET that no POST overlapped gets exactly what the file held, up to a NUL.
THEOREM GetExactHolds == Spec => []GetExact
<1>1. IInv => GetExact
  BY DEF IInv
<1> QED
  BY <1>1, Invariance, PTL

\* No answer to a GET mixes two POSTs that did not meet each other or it.
THEOREM GetMixesWhoMetHolds == Spec => []GetMixesWhoMet
<1>1. IInv => GetMixesWhoMet
  BY DEF IInv
<1> QED
  BY <1>1, Invariance, PTL
-----------------------------------------------------------------------------
\* The file is a safe register.

\* The variables of the register.
Content == IF \E p \in Posts : pc[p] = "write" THEN Unknown ELSE file
Write   == [p \in Posts |-> WriteAt(pc[p], reply[p].status)]
Lonely  == {p \in Posts : pc[p] = "write" /\ ~MetAPost(p)}
ReadBy  == [g \in Gets |-> ReadAt(pc[g], reply[g].status)]
Found   == [g \in Gets |->
             IF pc[g] \in {"stat", "read", "send"} /\ ~MetAPost(g) THEN seen[g] ELSE Unknown]
AnswerTo == [g \in Gets |-> reply[g]]

\* What the places mean to a client.
LEMMA AtFacts ==
  /\ \A s : WriteAt("open", s) = "idle" /\ WriteAt("write", s) = "busy" /\ WriteAt("send", s) = "done"
  /\ WriteAt("dead", 201) = "acked" /\ \A s : s # 201 => WriteAt("dead", s) = "gone"
  /\ \A s : ReadAt("open", s) = "idle" /\ ReadAt("stat", s) = "busy" /\ ReadAt("read", s) = "busy"
            /\ ReadAt("send", s) = "done"
  /\ ReadAt("dead", 0) = "gone" /\ \A s : s # 0 => ReadAt("dead", s) = "answered"
<1>1. \A s : WriteAt("open", s) = "idle" /\ WriteAt("write", s) = "busy" /\ WriteAt("send", s) = "done"
  BY Zenon DEF WriteAt
<1>2. \A s : WriteAt("dead", s) = IF s = 201 THEN "acked" ELSE "gone"
  BY Zenon DEF WriteAt
<1>3. \A s : ReadAt("open", s) = "idle" /\ ReadAt("stat", s) = "busy" /\ ReadAt("read", s) = "busy"
             /\ ReadAt("send", s) = "done"
  BY Zenon DEF ReadAt
<1>4. \A s : ReadAt("dead", s) = IF s = 0 THEN "gone" ELSE "answered"
  BY Zenon DEF ReadAt
<1>5. 201 # 0
  OBVIOUS
<1> QED
  BY <1>1, <1>2, <1>3, <1>4

\* The answers that are no content's.
LEMMA AnswerCases == Answer(Unknown) = NoReply /\ Answer(NoFile) = Status(404)
<1>1. Unknown # NoFile
  BY NoBytesAssumption
<1> QED
  BY <1>1, Zenon DEF Answer

\* One request moves on, in the eyes of its client; the others do not.
LEMMA WriteMoves ==
  ASSUME NEW p \in Posts, \A q \in Posts : q # p => pc'[q] = pc[q] /\ reply'[q] = reply[q]
  PROVE  Write' = [Write EXCEPT ![p] = WriteAt(pc'[p], reply'[p].status)]
BY DEF Write

LEMMA ReadMoves ==
  ASSUME NEW g \in Gets, \A h \in Gets : h # g => pc'[h] = pc[h] /\ reply'[h] = reply[h]
  PROVE  ReadBy' = [ReadBy EXCEPT ![g] = ReadAt(pc'[g], reply'[g].status)]
BY DEF ReadBy

\* What a GET does is not seen by the POSTs, and the other way round.
LEMMA PostsRest ==
  ASSUME \A p \in Posts : pc'[p] = pc[p] /\ reply'[p] = reply[p],
         \A p \in Posts : MetAPost(p)' <=> MetAPost(p)
  PROVE  /\ Write' = Write /\ Lonely' = Lonely
         /\ file' = file => Content' = Content
<1>1. Write' = Write
  BY DEF Write
<1>2. Lonely' = Lonely
  BY DEF Lonely
<1> QED
  BY <1>1, <1>2 DEF Content

LEMMA GetsRest ==
  ASSUME \A g \in Gets : pc'[g] = pc[g] /\ reply'[g] = reply[g]
  PROVE  /\ ReadBy' = ReadBy /\ AnswerTo' = AnswerTo
         /\ met' = met /\ seen' = seen => Found' = Found
<1>1. ReadBy' = ReadBy
  BY DEF ReadBy
<1>2. AnswerTo' = AnswerTo
  BY DEF AnswerTo
<1>3. met' = met /\ seen' = seen => Found' = Found
  BY DEF Found, MetAPost
<1> QED
  BY <1>1, <1>2, <1>3

\* The abstract initial state: nothing has begun.
LEMMA InitRegister == Init => Register!Init
<1> SUFFICES ASSUME Init PROVE Register!Init
  OBVIOUS
<1>1. \A c \in Children : pc[c] = "open" /\ reply[c] = NoReply
  BY DEF Init
<1>2. Content \in Seq(Bytes) \cup {NoFile}
  BY <1>1, PayloadFacts DEF Init, Content, Children
<1>3. Write = [p \in Posts |-> "idle"] /\ Lonely = {}
  BY <1>1, AtFacts DEF Write, Lonely, Children
<1>4. ReadBy = [g \in Gets |-> "idle"]
  BY <1>1, AtFacts DEF ReadBy, Children
<1>5. Found = [g \in Gets |-> Unknown]
  BY <1>1 DEF Found, Children
<1>6. Answer(Unknown) = NoReply
  BY AnswerCases
<1>7. AnswerTo = [g \in Gets |-> Answer(Unknown)]
  BY <1>1, <1>6 DEF AnswerTo, Children
<1>8. broken = {}
  BY DEF Init
<1> QED
  BY <1>2, <1>3, <1>4, <1>5, <1>7, <1>8
     DEF Register!Init, Content, Write, Lonely, ReadBy, Found, AnswerTo

\* PostReply is the acknowledgement of a write.
LEMMA AcknowledgeStep == ASSUME Files, NEW p \in Posts, PostReply(p) PROVE Register!Acknowledge(p)
<1>1. /\ p \in Children /\ pc[p] = "send" /\ Goto(p, "dead") /\ reply' = [reply EXCEPT ![p] = Status(201)]
      /\ UNCHANGED <<file, size, data, seen, last, met, broken>>
  BY DEF PostReply, Children, history
<1>2. pc'[p] = "dead" /\ \A d \in Children : d # p => pc'[d] = pc[d]
  BY <1>1, GotoFacts DEF Files, TypeOK, Places
<1>3. reply'[p].status = 201 /\ \A d \in Children : d # p => reply'[d] = reply[d]
  BY <1>1, StatusFacts, ReplyFacts DEF Files, TypeOK, Replies
<1>4. \A g \in Gets : g \in Children /\ g # p
  BY ChildrenAssumption DEF Children
<1>5. /\ Write[p] = WriteAt("send", reply[p].status)
      /\ Write' = [Write EXCEPT ![p] = WriteAt("dead", 201)]
  <2>1. \A q \in Posts : q # p => pc'[q] = pc[q] /\ reply'[q] = reply[q]
    BY <1>2, <1>3 DEF Children
  <2>2. Write[p] = WriteAt("send", reply[p].status)
    BY <1>1 DEF Write
  <2> QED
    BY <1>2, <1>3, <2>1, <2>2, WriteMoves
<1>6. Write[p] = "done" /\ Write' = [Write EXCEPT ![p] = "acked"]
  BY <1>5, AtFacts
<1>7. Content' = Content /\ Lonely' = Lonely
  BY <1>1, <1>2 DEF Content, Lonely, Children, MetAPost
<1>8. ReadBy' = ReadBy /\ Found' = Found /\ AnswerTo' = AnswerTo
  BY <1>1, <1>2, <1>3, <1>4, GetsRest
<1> QED
  BY <1>1, <1>6, <1>7, <1>8
     DEF Register!Acknowledge, Content, Write, Lonely, ReadBy, Found, AnswerTo
\* A POST is in progress for its client while it has the file open.
LEMMA BusyFacts ==
  ASSUME Files
  PROVE  /\ \A p \in Posts : Write[p] = "busy" <=> pc[p] = "write"
         /\ \A g \in Gets : ReadBy[g] = "busy" <=> pc[g] \in {"stat", "read"}
<1>1. ASSUME NEW p \in Posts PROVE Write[p] = "busy" <=> pc[p] = "write"
  <2>1. Write[p] = WriteAt(pc[p], reply[p].status)
    BY DEF Write
  <2>2. pc[p] \in {"open", "write", "send", "dead"}
    BY DEF Files, Kinds
  <2> QED
    BY <2>1, <2>2, AtFacts
<1>2. ASSUME NEW g \in Gets PROVE ReadBy[g] = "busy" <=> pc[g] \in {"stat", "read"}
  <2>1. ReadBy[g] = ReadAt(pc[g], reply[g].status)
    BY DEF ReadBy
  <2>2. pc[g] \in {"open", "stat", "read", "send", "dead"}
    BY DEF Files, Kinds
  <2> QED
    BY <2>1, <2>2, AtFacts
<1> QED
  BY <1>1, <1>2

\* The content stays as long as the same POSTs write.
LEMMA SameWriting ==
  ASSUME \A p \in Posts : pc'[p] = "write" <=> pc[p] = "write", met' = met, file' = file
  PROVE  Content' = Content /\ Lonely' = Lonely
<1>1. Content' = Content
  BY DEF Content
<1>2. \A c : MetAPost(c)' <=> MetAPost(c)
  BY DEF MetAPost
<1>3. Lonely' = Lonely
  BY <1>2 DEF Lonely
<1> QED
  BY <1>1, <1>3

\* A POST that is over without an acknowledgement was given up.
LEMMA GiveUpWriteStep ==
  ASSUME Files, NEW p \in Posts, Ends(p), pc[p] \in {"open", "send"}, reply'[p].status # 201
  PROVE  Register!GiveUpWrite(p)
<1>1. /\ p \in Children /\ pc'[p] = "dead" /\ broken' = broken
      /\ \A d \in Children : d # p => pc'[d] = pc[d] /\ reply'[d] = reply[d]
      /\ UNCHANGED <<file, seen, met>>
  BY EndsFacts DEF Children
<1>2. \A g \in Gets : g \in Children /\ g # p
  BY ChildrenAssumption DEF Children
<1>3. \A q \in Posts : q # p => pc'[q] = pc[q] /\ reply'[q] = reply[q]
  BY <1>1 DEF Children
<1>4. Write[p] \in {"idle", "done"}
  <2>1. Write[p] = WriteAt(pc[p], reply[p].status)
    BY DEF Write
  <2> QED
    BY <2>1, AtFacts
<1>5. Write' = [Write EXCEPT ![p] = "gone"]
  <2>1. WriteAt(pc'[p], reply'[p].status) = "gone"
    BY <1>1, AtFacts
  <2> QED
    BY <1>3, <2>1, WriteMoves
<1>6. Content' = Content /\ Lonely' = Lonely
  BY <1>1, <1>3, SameWriting
<1>7. ReadBy' = ReadBy /\ Found' = Found /\ AnswerTo' = AnswerTo
  BY <1>1, <1>2, GetsRest
<1> QED
  BY <1>1, <1>4, <1>5, <1>6, <1>7
     DEF Register!GiveUpWrite, Content, Write, Lonely, ReadBy, Found, AnswerTo

\* A POST that closes the file, or is killed before, ends its write.
LEMMA EndWriteStep ==
  ASSUME Files, NEW p \in Posts, pc[p] = "write", NEW place \in {"send", "dead"}, Goto(p, place),
         UNCHANGED <<reply, met, seen>>,
         file' \in Seq(Bytes),
         broken' = broken \cup {p} \/ (broken' = broken /\ place = "send"),
         ~MetAPost(p) /\ p \notin broken' => file' = Payload(p)
  PROVE  Register!EndWrite(p)
<1>1. p \in Children /\ pc'[p] = place /\ \A d \in Children : d # p => pc'[d] = pc[d]
  BY GotoFacts DEF Files, TypeOK, Places, Children
<1>2. \A g \in Gets : g \in Children /\ g # p
  BY ChildrenAssumption DEF Children
<1>3. \A q \in Posts : q # p => pc'[q] = pc[q] /\ reply'[q] = reply[q]
  BY <1>1 DEF Children
<1>4. Write[p] = "busy" /\ \A q \in Posts : Write[q] = "busy" <=> pc[q] = "write"
  BY BusyFacts
<1>5. Write' = [Write EXCEPT ![p] = IF place = "send" THEN "done" ELSE "gone"]
  <2>1. reply'[p].status = 0
    BY <1>1, StatusFacts DEF Files, Kinds
  <2>2. WriteAt(pc'[p], reply'[p].status) = IF place = "send" THEN "done" ELSE "gone"
    BY <1>1, <2>1, AtFacts
  <2> QED
    BY <1>3, <2>2, WriteMoves
<1>6. Lonely' = Lonely \ {p}
  BY <1>1, <1>3 DEF Lonely, MetAPost
<1>7. ASSUME NEW q \in Posts, q # p, pc[q] = "write" PROVE Content' = Unknown
  BY <1>3, <1>7 DEF Content
<1>8. CASE {q \in Posts : Write[q] = "busy"} # {p}
  <2>1. Content' = Unknown
    BY <1>4, <1>7, <1>8
  <2> QED
    BY <1>2, <1>4, <1>5, <1>6, <1>8, <2>1, <1>1, GetsRest
       DEF Register!EndWrite, Register!Writing, Content, Write, Lonely, ReadBy, Found, AnswerTo
<1>9. CASE {q \in Posts : Write[q] = "busy"} = {p}
  <2>1. Content' = file'
    BY <1>1, <1>3, <1>4, <1>9 DEF Content
  <2>2. p \in Lonely \ broken' => Content' = Payload(p)
    BY <2>1 DEF Lonely
  <2>3. Content' \in Seq(Bytes)
    BY <2>1
  <2> QED
    BY <1>2, <1>4, <1>5, <1>6, <1>9, <2>2, <2>3, <1>1, GetsRest
       DEF Register!EndWrite, Register!Writing, Content, Write, Lonely, ReadBy, Found, AnswerTo
<1> QED
  BY <1>8, <1>9

LEMMA PostWriteEnds == ASSUME Files, Alone, NEW p \in Posts, PostWrite(p) PROVE Register!EndWrite(p)
<1>1. pc[p] = "write" /\ Goto(p, "send") /\ UNCHANGED <<reply, met, seen>>
  BY DEF PostWrite
<1>2. file' \in Seq(Bytes)
  BY PostWriteFacts
<1>3. PICK n \in 0 .. Length[p] :
        /\ broken' = IF n < Length[p] THEN broken \cup {p} ELSE broken
        /\ file = <<>> /\ n = Length[p] => file' = Payload(p)
  BY PostWriteFacts
<1>4. broken' = broken \cup {p} \/ broken' = broken
  BY <1>3
<1>5. ASSUME ~MetAPost(p), p \notin broken' PROVE file' = Payload(p)
  <2>1. file = <<>>
    BY <1>1, <1>5 DEF Alone
  <2>2. ~(n < Length[p])
    BY <1>3, <1>5
  <2>3. n = Length[p]
    BY <2>2, PayloadFacts
  <2> QED
    BY <1>3, <2>1, <2>3
<1> QED
  BY <1>1, <1>2, <1>4, <1>5, EndWriteStep

LEMMA KilledWriting ==
  ASSUME Files, NEW p \in Posts, Killed(p), pc[p] = "write" PROVE Register!EndWrite(p)
<1>1. Goto(p, "dead") /\ UNCHANGED <<file, reply, met, seen>> /\ broken' = broken \cup {p}
  BY DEF Killed
<1>2. file \in Seq(Bytes)
  BY DEF Files, TypeOK, Kinds, Window, Children
<1>3. p \in broken'
  BY <1>1
<1> QED
  BY <1>1, <1>2, <1>3, EndWriteStep
\* An opening lets nobody meet a POST but those that have the file open and, if a POST
\* opens it, that one.
LEMMA WhoMeets ==
  ASSUME NEW c \in Children, Meets(c), NEW d \in Children, MetAPost(d)'
  PROVE  \/ MetAPost(d)
         \/ d = c /\ \E q \in Posts \ {c} : q \in Window
         \/ d # c /\ d \in Window /\ c \in Posts
<1>1. PICK q \in Posts \ {d} : {d, q} \in met'
  BY DEF MetAPost
<1>2. CASE {d, q} \in met
  BY <1>1, <1>2 DEF MetAPost
<1>3. ASSUME NEW e \in Window, {d, q} = {c, e}
      PROVE  (d = c /\ q = e) \/ (d = e /\ q = c)
  BY <1>3
<1>4. CASE \E e \in Window : {d, q} = {c, e}
  BY <1>1, <1>3, <1>4
<1> QED
  BY <1>1, <1>2, <1>4, MeetsFacts

\* Opening for writing begins a write.
LEMMA BeginWriteStep ==
  ASSUME Files, Meetings, NEW p \in Posts, PostOpen(p) PROVE Register!BeginWrite(p)
<1>1. /\ p \in Children /\ pc[p] = "open" /\ pc'[p] = "write" /\ Meets(p)
      /\ \A d \in Children : d # p => pc'[d] = pc[d]
      /\ UNCHANGED <<reply, seen, broken>>
      /\ \A d \in Window : {d, p} \in met'
  BY PostOpenFacts DEF PostOpen
<1>2. \A g \in Gets : g \in Children /\ g # p /\ g \notin Posts
  BY ChildrenAssumption DEF Children
<1>3. \A q \in Posts : q # p => pc'[q] = pc[q] /\ reply'[q] = reply[q]
  BY <1>1 DEF Children
<1>4. \A q \in Posts : Write[q] = "busy" <=> q \in Window
  <2>1. \A q \in Posts : pc[q] = "write" <=> q \in Window
    BY DEF Files, Kinds, Window, Children
  <2> QED
    BY <2>1, BusyFacts
<1>5. Write[p] = "idle" /\ Write' = [Write EXCEPT ![p] = "busy"]
  <2>1. Write[p] = WriteAt("open", reply[p].status) /\ WriteAt(pc'[p], reply'[p].status) = "busy"
    BY <1>1, AtFacts DEF Write
  <2> QED
    BY <1>3, <2>1, AtFacts, WriteMoves
<1>6. ~MetAPost(p) /\ \A c : MetAPost(c) => MetAPost(c)'
  BY <1>1, MeetsFacts, MetKept DEF Meetings, MetAPost
<1>7. Lonely' = IF {q \in Posts : Write[q] = "busy"} = {} THEN {p} ELSE {}
  <2>1. CASE \A q \in Posts : q \notin Window
    <3>1. ~MetAPost(p)'
      BY <1>1, <1>6, <2>1, WhoMeets
    <3>2. \A q \in Posts : q \in Lonely' <=> q = p
      BY <1>1, <1>3, <2>1, <3>1 DEF Lonely, Window, Children
    <3>3. Lonely' = {p}
      BY <3>2 DEF Lonely
    <3> QED
      BY <1>4, <2>1, <3>3
  <2>2. ASSUME NEW q \in Posts, q \in Window PROVE Lonely' = {}
    <3>1. q # p /\ {q, p} \in met' /\ {p, q} = {q, p}
      BY <1>1, <2>2 DEF Window
    <3>2. MetAPost(p)'
      BY <3>1 DEF MetAPost
    <3>3. \A r \in Posts : r # p /\ pc'[r] = "write" => MetAPost(r)'
      BY <1>1, <1>3 DEF MetAPost, Window, Children
    <3> QED
      BY <3>2, <3>3 DEF Lonely
  <2>3. CASE \E q \in Posts : q \in Window
    BY <1>4, <2>2, <2>3
  <2> QED
    BY <2>1, <2>3
<1>8. Content' = Unknown
  BY <1>1 DEF Content
<1>9. Found' = [g \in Gets |-> IF ReadBy[g] = "busy" THEN Unknown ELSE Found[g]]
  <2>1. ASSUME NEW g \in Gets
        PROVE  (IF pc'[g] \in {"stat", "read", "send"} /\ ~MetAPost(g)' THEN seen'[g] ELSE Unknown)
               = IF ReadBy[g] = "busy" THEN Unknown ELSE Found[g]
    <3>1. g \in Children /\ g # p /\ pc'[g] = pc[g] /\ seen'[g] = seen[g]
      BY <1>1, <1>2
    <3>2. CASE pc[g] \in {"stat", "read"}
      <4>1. g \in Window
        BY <3>1, <3>2 DEF Window
      <4>2. MetAPost(g)'
        BY <1>1, <3>1, <4>1 DEF MetAPost
      <4> QED
        BY <3>2, <4>2, BusyFacts
    <3>3. CASE pc[g] \notin {"stat", "read"}
      <4>1. pc[g] # "write"
        BY DEF Files, Kinds
      <4>2. g \notin Window
        BY <3>3, <4>1 DEF Window
      <4>3. MetAPost(g)' <=> MetAPost(g)
        BY <1>1, <1>6, <3>1, <4>2, WhoMeets
      <4> QED
        BY <3>1, <3>3, <4>3, BusyFacts DEF Found
    <3> QED
      BY <3>2, <3>3
  <2> QED
    BY <2>1 DEF Found
<1>10. ReadBy' = ReadBy /\ AnswerTo' = AnswerTo
  BY <1>1, <1>2, GetsRest
<1> QED
  BY <1>1, <1>5, <1>7, <1>8, <1>9, <1>10
     DEF Register!BeginWrite, Register!Writing, Content, Write, Lonely, ReadBy, Found, AnswerTo

\* Opening for reading begins a read.
LEMMA BeginReadStep ==
  ASSUME Files, Meetings, NEW g \in Gets, GetOpen(g) PROVE Register!BeginRead(g)
<1>1. /\ g \in Children /\ pc[g] = "open" /\ pc'[g] = "stat" /\ Meets(g)
      /\ \A d \in Children : d # g => pc'[d] = pc[d]
      /\ file # NoFile /\ seen'[g] = file /\ \A d \in Gets : d # g => seen'[d] = seen[d]
      /\ UNCHANGED <<file, reply, broken>>
      /\ \A d \in Window : {g, d} \in met'
  BY GetOpenFacts, MeetsFacts DEF GetOpen
<1>2. g \notin Posts /\ \A p \in Posts : p \in Children /\ p # g
  BY ChildrenAssumption DEF Children
<1>3. \A c : MetAPost(c) => MetAPost(c)'
  BY <1>1, MeetsFacts, MetKept
<1>4. \A d \in Children : d # g => (MetAPost(d)' <=> MetAPost(d))
  BY <1>1, <1>2, <1>3, WhoMeets
<1>5. Write' = Write /\ Lonely' = Lonely /\ Content' = Content
  BY <1>1, <1>2, <1>4, PostsRest
<1>6. ReadBy[g] = "idle" /\ ReadBy' = [ReadBy EXCEPT ![g] = "busy"]
  <2>1. ReadBy[g] = ReadAt("open", reply[g].status) /\ ReadAt(pc'[g], reply'[g].status) = "busy"
    BY <1>1, AtFacts DEF ReadBy
  <2>2. \A h \in Gets : h # g => pc'[h] = pc[h] /\ reply'[h] = reply[h]
    BY <1>1 DEF Children
  <2> QED
    BY <2>1, <2>2, AtFacts, ReadMoves
<1>7. Content # NoFile
  BY <1>1, NoBytesAssumption DEF Content
<1>8. (IF pc'[g] \in {"stat", "read", "send"} /\ ~MetAPost(g)' THEN seen'[g] ELSE Unknown) = Content
  <2>1. CASE \E p \in Posts : pc[p] = "write"
    <3>1. PICK p \in Posts : pc[p] = "write"
      BY <2>1
    <3>2. p \in Window /\ p # g
      BY <1>2, <3>1 DEF Window
    <3>3. MetAPost(g)'
      BY <1>1, <3>2 DEF MetAPost
    <3> QED
      BY <2>1, <3>3 DEF Content
  <2>2. CASE ~ \E p \in Posts : pc[p] = "write"
    <3>1. \A p \in Posts : p \notin Window
      BY <2>2 DEF Files, Kinds, Window
    <3>2. ~MetAPost(g)
      BY <1>1 DEF Meetings, MetAPost
    <3>3. ~MetAPost(g)'
      BY <1>1, <3>1, <3>2, WhoMeets
    <3> QED
      BY <1>1, <2>2, <3>3 DEF Content
  <2> QED
    BY <2>1, <2>2
<1>9. Found' = [Found EXCEPT ![g] = Content]
  <2>1. \A h \in Gets : h # g => pc'[h] = pc[h] /\ seen'[h] = seen[h] /\ (MetAPost(h)' <=> MetAPost(h))
    BY <1>1, <1>4 DEF Children
  <2> QED
    BY <1>8, <2>1 DEF Found
<1>10. AnswerTo' = AnswerTo
  BY <1>1 DEF AnswerTo
<1> QED
  BY <1>1, <1>5, <1>6, <1>7, <1>9, <1>10
     DEF Register!BeginRead, Content, Write, Lonely, ReadBy, Found, AnswerTo
\* What is seen of a GET that is over.
LEMMA GetEnds ==
  ASSUME Files, NEW g \in Gets, Ends(g)
  PROVE  /\ Content' = Content /\ Write' = Write /\ Lonely' = Lonely /\ broken' = broken
         /\ ReadBy[g] = ReadAt(pc[g], reply[g].status)
         /\ ReadBy' = [ReadBy EXCEPT ![g] = ReadAt("dead", reply'[g].status)]
         /\ Found' = [Found EXCEPT ![g] = Unknown]
         /\ AnswerTo' = [AnswerTo EXCEPT ![g] = reply'[g]]
<1>1. /\ g \in Children /\ pc'[g] = "dead"
      /\ \A d \in Children : d # g => pc'[d] = pc[d] /\ reply'[d] = reply[d]
      /\ UNCHANGED <<file, seen, met>>
  BY EndsFacts DEF Children
<1>2. g \notin Posts /\ \A p \in Posts : p \in Children /\ p # g
  BY ChildrenAssumption DEF Children
<1>3. pc[g] # "write"
  BY DEF Files, Kinds
<1>4. broken' = broken
  BY <1>1, <1>3, EndsFacts
<1>5. \A c : MetAPost(c)' <=> MetAPost(c)
  BY <1>1 DEF MetAPost
<1>6. Content' = Content /\ Write' = Write /\ Lonely' = Lonely
  BY <1>1, <1>2, <1>5, PostsRest
<1>7. \A h \in Gets : h # g => pc'[h] = pc[h] /\ reply'[h] = reply[h] /\ seen'[h] = seen[h]
  BY <1>1 DEF Children
<1>8. /\ ReadBy[g] = ReadAt(pc[g], reply[g].status)
      /\ ReadBy' = [ReadBy EXCEPT ![g] = ReadAt("dead", reply'[g].status)]
  BY <1>1, <1>7, ReadMoves DEF ReadBy
<1>9. Found' = [Found EXCEPT ![g] = Unknown]
  BY <1>1, <1>5, <1>7 DEF Found
<1>10. AnswerTo' = [AnswerTo EXCEPT ![g] = reply'[g]]
  BY <1>7 DEF AnswerTo
<1> QED
  BY <1>4, <1>6, <1>8, <1>9, <1>10

\* 404: there is nothing to read.
LEMMA ReadNothingStep == ASSUME Files, NEW g \in Gets, GetMissing(g) PROVE Register!ReadNothing(g)
<1>1. /\ g \in Children /\ pc[g] = "open" /\ file = NoFile
      /\ reply' = [reply EXCEPT ![g] = Status(404)] /\ Ends(g)
  BY WhoEnds DEF GetMissing, Children
<1>2. reply'[g] = Status(404) /\ reply'[g].status = 404
  BY <1>1, StatusFacts, ReplyFacts DEF Files, TypeOK, Replies
<1>3. Content = NoFile
  <2>1. ~ \E p \in Posts : pc[p] = "write"
    BY <1>1 DEF Files, Kinds, Window, Children
  <2> QED
    BY <1>1, <2>1 DEF Content
<1>4. Found' = Found
  <2>1. Found[g] = Unknown
    BY <1>1 DEF Found
  <2>2. Found' = [Found EXCEPT ![g] = Unknown]
    BY <1>1, GetEnds
  <2>3. [Found EXCEPT ![g] = Unknown] = Found
    BY <2>1 DEF Found
  <2> QED
    BY <2>2, <2>3
<1>5. ReadBy[g] = "idle" /\ ReadBy' = [ReadBy EXCEPT ![g] = "answered"]
  BY <1>1, <1>2, GetEnds, AtFacts
<1>6. AnswerTo' = [AnswerTo EXCEPT ![g] = Answer(NoFile)]
  BY <1>1, <1>2, GetEnds, AnswerCases
<1> QED
  BY <1>1, <1>3, <1>4, <1>5, <1>6, GetEnds
     DEF Register!ReadNothing, Content, Write, Lonely, ReadBy, Found, AnswerTo

\* 200: the answer for what was found, if no POST overlapped.
LEMMA ReplyStep ==
  ASSUME Files, Undisturbed, GetExact, Step, NEW g \in Gets, GetReply(g)
  PROVE  Register!Reply(g)
<1>1. g \in Children /\ pc[g] = "send" /\ Ends(g) /\ met' = met /\ seen' = seen
  BY WhoEnds, EndsFacts DEF GetReply, Children
<1>2. PICK n \in 0 .. size[g] :
        /\ reply' \in [Children -> Replies]
        /\ reply'[g] = [status |-> 200, length |-> size[g], body |-> SubSeq(Filled(g), 1, n)]
  BY GetReplyFacts
<1>3. reply'[g].status = 200
  BY <1>2
<1>4. reply'[g] \in [status : {200}, length : Nat, body : Seq(Bytes \cup {Junk})]
  BY <1>2, FilledFacts
<1>5. Found[g] # Unknown => reply'[g] = Answer(Found[g])
  <2>1. ASSUME Found[g] # Unknown PROVE ~MetAPost(g) /\ Found[g] = seen[g]
    BY <1>1, <2>1 DEF Found
  <2>2. ASSUME ~MetAPost(g) PROVE reply'[g] = Answer(seen[g])
    <3>1. ~MetAPost(g)'
      BY <1>1, <2>2 DEF MetAPost
    <3>2. GetExact'
      BY StepGetExact
    <3>3. reply'[g] = Answer(seen[g])'
      BY <1>3, <3>1, <3>2 DEF GetExact
    <3> QED
      BY <1>1, <3>3 DEF Answer, UpToNul
  <2> QED
    BY <2>1, <2>2
<1>6. ReadBy[g] = "done" /\ ReadBy' = [ReadBy EXCEPT ![g] = "answered"]
  BY <1>1, <1>3, GetEnds, AtFacts
<1>7. AnswerTo'[g] = reply'[g]
  BY DEF AnswerTo
<1>8. /\ AnswerTo'[g] \in [status : {200}, length : Nat, body : Seq(Bytes \cup {Junk})]
      /\ Found[g] # Unknown => AnswerTo'[g] = Answer(Found[g])
      /\ AnswerTo' = [AnswerTo EXCEPT ![g] = AnswerTo'[g]]
  BY <1>1, <1>4, <1>5, <1>7, GetEnds
<1> QED
  BY <1>1, <1>6, <1>8, GetEnds
     DEF Register!Reply, Content, Write, Lonely, ReadBy, Found, AnswerTo

\* A GET that is killed is given up.
LEMMA GiveUpReadStep == ASSUME Files, NEW g \in Gets, Killed(g) PROVE Register!GiveUpRead(g)
<1>1. g \in Children /\ pc[g] # "dead" /\ reply' = reply /\ Ends(g)
  BY WhoEnds DEF Killed, Children
<1>2. reply[g].status = 0 /\ pc[g] \in {"open", "stat", "read", "send"}
  BY <1>1, StatusFacts DEF Files, Kinds
<1>3. ReadBy[g] \in {"idle", "busy", "done"} /\ ReadBy' = [ReadBy EXCEPT ![g] = "gone"]
  BY <1>1, <1>2, GetEnds, AtFacts
<1>4. AnswerTo' = AnswerTo
  BY <1>1 DEF AnswerTo
<1> QED
  BY <1>1, <1>3, <1>4, GetEnds
     DEF Register!GiveUpRead, Content, Write, Lonely, ReadBy, Found, AnswerTo

\* A read ends when fread() has what it gets; the steps before it are not seen.
LEMMA ReadingStep ==
  ASSUME Files, NEW g \in Gets, Stat(g) \/ Read(g)
  PROVE  Register!EndRead(g) \/ UNCHANGED Register!vars
<1>1. /\ g \in Children /\ pc[g] \in {"stat", "read"} /\ pc'[g] \in {"read", "send"}
      /\ \A d \in Children : d # g => pc'[d] = pc[d]
      /\ UNCHANGED <<file, reply, seen, met, broken>>
  BY StatFacts, ReadStep
<1>2. g \notin Posts /\ \A p \in Posts : p \in Children /\ p # g
  BY ChildrenAssumption DEF Children
<1>3. \A c : MetAPost(c)' <=> MetAPost(c)
  BY <1>1 DEF MetAPost
<1>4. Content' = Content /\ Write' = Write /\ Lonely' = Lonely
  BY <1>1, <1>2, <1>3, PostsRest
<1>5. \A h \in Gets : h # g => pc'[h] = pc[h] /\ reply'[h] = reply[h] /\ seen'[h] = seen[h]
  BY <1>1 DEF Children
<1>6. Found' = Found
  BY <1>1, <1>3, <1>5 DEF Found
<1>7. AnswerTo' = AnswerTo
  BY <1>1 DEF AnswerTo
<1>8. ReadBy[g] = "busy" /\ ReadBy' = [ReadBy EXCEPT ![g] = ReadAt(pc'[g], reply'[g].status)]
  BY <1>1, <1>5, ReadMoves, BusyFacts
<1>9. CASE pc'[g] = "send"
  <2>1. ReadBy' = [ReadBy EXCEPT ![g] = "done"]
    <3>1. ReadAt("send", reply'[g].status) = "done"
      BY AtFacts
    <3> QED
      BY <1>8, <1>9, <3>1
  <2>2. Register!EndRead(g)
    BY <1>1, <1>4, <1>6, <1>7, <1>8, <2>1
       DEF Register!EndRead, Content, Write, Lonely, ReadBy, Found, AnswerTo
  <2> QED
    BY <2>2
<1>10. CASE pc'[g] = "read"
  <2>1. ReadBy' = [ReadBy EXCEPT ![g] = "busy"]
    <3>1. ReadAt("read", reply'[g].status) = "busy"
      BY AtFacts
    <3> QED
      BY <1>8, <1>10, <3>1
  <2>2. ReadBy' = ReadBy
    BY <1>8, <2>1 DEF ReadBy
  <2>3. UNCHANGED Register!vars
    BY <1>1, <1>4, <1>6, <1>7, <2>2
       DEF Register!vars, Content, Write, Lonely, ReadBy, Found, AnswerTo
  <2> QED
    BY <2>3
<1> QED
  BY <1>1, <1>9, <1>10

\* A POST that cannot open the file, or is killed, gives its write up or cuts it short.
LEMMA KilledPost ==
  ASSUME Files, NEW p \in Posts, PostOpenFails(p) \/ Killed(p)
  PROVE  Register!GiveUpWrite(p) \/ Register!EndWrite(p)
<1>1. p \in Children /\ Ends(p)
  BY WhoEnds DEF Children
<1>2. CASE PostOpenFails(p)
  <2>1. pc[p] = "open" /\ reply' = [reply EXCEPT ![p] = Status(404)]
    BY <1>2 DEF PostOpenFails
  <2>2. reply'[p].status = 404
    BY <1>1, <2>1, StatusFacts, ReplyFacts DEF Files, TypeOK, Replies
  <2> QED
    BY <1>1, <2>1, <2>2, GiveUpWriteStep
<1>3. CASE Killed(p) /\ pc[p] = "write"
  BY <1>3, KilledWriting
<1>4. CASE Killed(p) /\ pc[p] # "write"
  <2>1. pc[p] \in {"open", "send"} /\ reply'[p].status = 0
    BY <1>1, <1>4, StatusFacts DEF Killed, Files, Kinds
  <2> QED
    BY <1>1, <2>1, GiveUpWriteStep
<1> QED
  BY <1>2, <1>3, <1>4

\* Every step is a step of the register, or none.
LEMMA StepRegister == IInv /\ [Next]_vars => [Register!Next]_(Register!vars)
<1> SUFFICES ASSUME IInv, [Next]_vars PROVE [Register!Next]_(Register!vars)
  OBVIOUS
<1>1. Files /\ Meetings /\ Alone /\ Undisturbed /\ GetExact /\ Step
  BY Steps DEF IInv
<1>2. ASSUME NEW p \in Posts, PostOpen(p) \/ PostWrite(p) \/ PostReply(p) \/ PostOpenFails(p) \/ Killed(p)
      PROVE  Register!BeginWrite(p) \/ Register!EndWrite(p) \/ Register!Acknowledge(p)
             \/ Register!GiveUpWrite(p)
  BY <1>1, <1>2, BeginWriteStep, PostWriteEnds, AcknowledgeStep, KilledPost
<1>3. ASSUME NEW g \in Gets, GetOpen(g) \/ GetMissing(g) \/ GetReply(g) \/ Killed(g)
      PROVE  Register!BeginRead(g) \/ Register!ReadNothing(g) \/ Register!Reply(g)
             \/ Register!GiveUpRead(g)
  BY <1>1, <1>3, BeginReadStep, ReadNothingStep, ReplyStep, GiveUpReadStep
<1>4. ASSUME NEW g \in Gets, Stat(g) \/ Read(g)
      PROVE  Register!EndRead(g) \/ UNCHANGED Register!vars
  BY <1>1, <1>4, ReadingStep
<1>5. ASSUME UNCHANGED vars PROVE UNCHANGED Register!vars
  <2>1. Content' = Content /\ Write' = Write /\ Lonely' = Lonely /\ ReadBy' = ReadBy
        /\ Found' = Found /\ AnswerTo' = AnswerTo /\ broken' = broken
    BY <1>5 DEF vars, Content, Write, Lonely, ReadBy, Found, AnswerTo, MetAPost
  <2> QED
    BY <2>1 DEF Register!vars, Content, Write, Lonely, ReadBy, Found, AnswerTo
<1>6. CASE \E p \in Posts : PostOpen(p) \/ PostWrite(p) \/ PostReply(p) \/ PostOpenFails(p) \/ Killed(p)
  BY <1>2, <1>6 DEF Register!Next
<1>7. CASE \E g \in Gets : GetOpen(g) \/ GetMissing(g) \/ GetReply(g) \/ Killed(g)
  BY <1>3, <1>7 DEF Register!Next
<1>8. CASE \E g \in Gets : Stat(g) \/ Read(g)
  BY <1>4, <1>8 DEF Register!Next
<1>9. CASE UNCHANGED vars
  BY <1>5, <1>9
<1> QED
  BY <1>6, <1>7, <1>8, <1>9 DEF Next, Children

\* FileStore implements FileRegister: whatever the children's system calls do to each
\* other, a client can tell only where two requests overlapped (server.c:381-470).
THEOREM Refinement == Spec => Implements
<1>1. Init => Register!Init
  BY InitRegister
<1>2. IInv /\ [Next]_vars => [Register!Next]_(Register!vars)
  BY StepRegister
<1> QED
  BY <1>1, <1>2, Invariance, PTL DEF Spec, Implements, Register!Spec
=============================================================================
