------------------------------ MODULE FileStore ------------------------------
(***************************************************************************)
(* The children of several clients at one file: serve() of app/server.c    *)
(* for GET /files/<name> and POST /files/<name>.  Nothing locks the file:  *)
(* each child truncates, writes, measures and reads it through its own     *)
(* FILE, and the steps here are its system calls.                          *)
(*                                                                         *)
(* A byte is <<w, i>>: the i-th byte of what request w writes (w = Old for *)
(* what the file held at the start).  How much a POST writes is Length; it *)
(* fits in one stdio buffer, so it reaches the file when fclose() flushes. *)
(***************************************************************************)
EXTENDS Naturals, Sequences, FiniteSets

CONSTANTS
  Posts, Gets,  \* requests for the file, each in a child of its own
  Length,       \* the bytes each POST and Old have to write
  Old,          \* stands for whoever wrote the file before
  Nuls,         \* those of the bytes that are NUL
  NoFile, Junk, \* the file does not exist; memory that was never written
  Unknown       \* what FileRegister says of a file that is being written

Children == Posts \cup Gets

ASSUME LengthAssumption == Length \in [Posts \cup {Old} -> Nat]
ASSUME ChildrenAssumption == Posts \cap Gets = {} /\ Old \notin Children

VARIABLES
  file,   \* what the file holds, or NoFile
  pc,     \* the place of each child in serve()
  size,   \* data_size of a GET
  data,   \* what fread() has delivered to it
  reply,  \* the response sent: a status and, for a file, a body
  seen,   \* history: what the file held when a GET opened it
  last,   \* history: the POST that was the last to open it
  met,    \* history: pairs of requests that had it open at the same time
  broken  \* history: POSTs whose write failed or that were killed before it

vars == <<file, pc, size, data, reply, seen, last, met, broken>>
history == <<seen, last, met, broken>>

Payload(w) == [i \in 1 .. Length[w] |-> <<w, i>>]
Bytes      == (Posts \cup {Old}) \X Nat
ASSUME NoBytesAssumption ==
  NoFile \notin Seq(Bytes) /\ Unknown \notin Seq(Bytes) \cup {NoFile} /\ Junk \notin Bytes
Status(s)  == [status |-> s, length |-> 0, body |-> <<>>]
NoReply    == Status(0)

\* A child has the file open.
Window == {c \in Children : pc[c] \in {"write", "stat", "read"}}
Meets(c) == met' = met \cup {{c, d} : d \in Window}

Init ==
  /\ file \in {NoFile, Payload(Old)}
  /\ pc = [c \in Children |-> "open"]
  /\ size = [g \in Gets |-> 0]
  /\ data = [g \in Gets |-> <<>>]
  /\ reply = [c \in Children |-> NoReply]
  /\ seen = [g \in Gets |-> NoFile]
  /\ last = Old
  /\ met = {} /\ broken = {}

Goto(c, place) == pc' = [pc EXCEPT ![c] = place]

-----------------------------------------------------------------------------
\* POST.

\* Mutant: the file is not truncated.
PostOpenKeeps(p) ==
  /\ pc[p] = "open"
  /\ file' = IF file = NoFile THEN <<>> ELSE file
  /\ Goto(p, "write")
  /\ last' = p /\ Meets(p)
  /\ UNCHANGED <<size, data, reply, seen, broken>>

\* fopen(filename, "wb")
PostOpen(p) ==
  /\ pc[p] = "open"
  /\ file' = <<>>
  /\ Goto(p, "write")
  /\ last' = p /\ Meets(p)
  /\ UNCHANGED <<size, data, reply, seen, broken>>

\* It fails: the child answers 404, goes on, and dies in fwrite() to no file.
PostOpenFails(p) ==
  /\ pc[p] = "open"
  /\ reply' = [reply EXCEPT ![p] = Status(404)]
  /\ Goto(p, "dead")
  /\ UNCHANGED <<file, size, data, history>>

\* The first n bytes of w's payload over what is there, from offset 0.
Over(w, n) ==
  [i \in 1 .. (IF n > Len(file) THEN n ELSE Len(file)) |-> IF i <= n THEN <<w, i>> ELSE file[i]]

\* Mutant: they go to the end of the file.
PostWriteAppends(p) ==
  /\ pc[p] = "write"
  /\ file' = file \o Payload(p)
  /\ Goto(p, "send")
  /\ UNCHANGED <<size, data, reply, history>>

\* fwrite() and the flush of fclose(), all of it or, on a full disk, a part:
\* nobody looks at what they return.
PostWrite(p) ==
  /\ pc[p] = "write"
  /\ \E n \in 0 .. Length[p] :
       /\ file' = Over(p, n)
       /\ broken' = IF n < Length[p] THEN broken \cup {p} ELSE broken
  /\ Goto(p, "send")
  /\ UNCHANGED <<size, data, reply, seen, last, met>>

PostReply(p) ==
  /\ pc[p] = "send"
  /\ reply' = [reply EXCEPT ![p] = Status(201)]
  /\ Goto(p, "dead")
  /\ UNCHANGED <<file, size, data, history>>

-----------------------------------------------------------------------------
\* GET.

GetOpen(g) ==
  /\ pc[g] = "open" /\ file # NoFile
  /\ seen' = [seen EXCEPT ![g] = file]
  /\ Goto(g, "stat")
  /\ Meets(g)
  /\ UNCHANGED <<file, size, data, reply, last, broken>>

\* There is no such file: 404, and serve() returns.
GetMissing(g) ==
  /\ pc[g] = "open" /\ file = NoFile
  /\ reply' = [reply EXCEPT ![g] = Status(404)]
  /\ Goto(g, "dead")
  /\ UNCHANGED <<file, size, data, history>>

\* Mutant: one byte more, for the end of the string.
StatOneMore(g) ==
  /\ pc[g] = "stat"
  /\ size' = [size EXCEPT ![g] = Len(file) + 1]
  /\ Goto(g, "read")
  /\ UNCHANGED <<file, data, reply, history>>

\* fseek(fp, 0, SEEK_END); data_size = ftell(fp); rewind(fp)
Stat(g) ==
  /\ pc[g] = "stat"
  /\ size' = [size EXCEPT ![g] = Len(file)]
  /\ Goto(g, "read")
  /\ UNCHANGED <<file, data, reply, history>>

\* Mutant: it reads what the file has by now.
ReadAll(g) ==
  /\ pc[g] = "read"
  /\ data' = [data EXCEPT ![g] = file]
  /\ Goto(g, "send")
  /\ UNCHANGED <<file, size, reply, history>>

\* One read() of fread(), which goes on until it has data_size bytes or meets
\* the end of the file.
Read(g) ==
  /\ pc[g] = "read"
  /\ LET got  == Len(data[g])
         upto == IF size[g] < Len(file) THEN size[g] ELSE Len(file)
     IN IF got < upto
        THEN /\ data' = [data EXCEPT ![g] = @ \o SubSeq(file, got + 1, upto)]
             /\ UNCHANGED pc
        ELSE Goto(g, "send") /\ UNCHANGED data
  /\ UNCHANGED <<file, size, reply, history>>

\* Content-Length is data_size.  "%s" sends up to the first NUL, and the body is
\* what a client takes of that, which goes by the length.  The 500 that serve()
\* prepares after a short read is overwritten with this: the rest of the data is what
\* malloc() gave, NUL or not.
GetReply(g) ==
  /\ pc[g] = "send"
  /\ LET filled == [i \in 1 .. size[g] |-> IF i <= Len(data[g]) THEN data[g][i] ELSE Junk]
     IN \E n \in 0 .. size[g] :
          /\ n < size[g] => filled[n + 1] \in Nuls \cup {Junk}
          /\ \A i \in 1 .. n : filled[i] \notin Nuls
          /\ reply' = [reply EXCEPT ![g] =
               [status |-> 200, length |-> size[g], body |-> SubSeq(filled, 1, n)]]
  /\ Goto(g, "dead")
  /\ UNCHANGED <<file, size, data, history>>

-----------------------------------------------------------------------------

\* A signal to the server's process group (the user's Ctrl-C) ends a child anywhere;
\* what stdio has not flushed is lost.
Killed(c) ==
  /\ pc[c] # "dead"
  /\ Goto(c, "dead")
  /\ broken' = IF pc[c] = "write" THEN broken \cup {c} ELSE broken
  /\ UNCHANGED <<file, size, data, reply, seen, last, met>>

Next ==
  \/ \E p \in Posts : PostOpen(p) \/ PostOpenFails(p) \/ PostWrite(p) \/ PostReply(p)
  \/ \E g \in Gets : GetOpen(g) \/ GetMissing(g) \/ Stat(g) \/ Read(g) \/ GetReply(g)
  \/ \E c \in Children : Killed(c)

Spec == Init /\ [][Next]_vars

-----------------------------------------------------------------------------

MetAPost(c) == \E p \in Posts \ {c} : {c, p} \in met

\* (What fread() delivers fits the data_size bytes of malloc(), server.c:388.)
TypeOK ==
  /\ file = NoFile \/ file \in Seq(Bytes)
  /\ pc \in [Children -> {"open", "write", "stat", "read", "send", "dead"}]
  /\ size \in [Gets -> Nat]
  /\ data \in [Gets -> Seq(Bytes)] /\ \A g \in Gets : Len(data[g]) <= size[g]
  /\ reply \in [Children -> [status : {0, 200, 201, 404}, length : Nat, body : Seq(Bytes \cup {Junk})]]
  /\ seen \in [Gets -> {NoFile} \cup Seq(Bytes)]
  /\ last \in Posts \cup {Old}
  /\ met \subseteq SUBSET Children
  /\ broken \subseteq Posts

\* A POST that was answered 201 (server.c:470), shared the file with no other POST
\* and was not cut short is what the file holds until the next POST opens it.
AckedStored ==
  \A p \in Posts :
    reply[p].status = 201 /\ last = p /\ ~MetAPost(p) /\ p \notin broken => file = Payload(p)

\* The file is old, or what one POST wrote: a mixture, or an empty file where there
\* was one, needs POSTs that shared it, one that is not finished, or one cut short.
MixtureNeedsOverlap ==
  \/ file \in {NoFile} \cup {Payload(w) : w \in Posts \cup {Old}}
  \/ \E p \in Posts : p \in Window \/ p \in broken \/ MetAPost(p)

\* Whatever overlaps, no byte moves: byte i of the file and of every answer is
\* byte i of what somebody wrote, or was never read.
BytesInPlace ==
  /\ file # NoFile => \A i \in DOMAIN file : file[i][2] = i
  /\ \A g \in Gets : \A i \in DOMAIN reply[g].body :
       reply[g].body[i] # Junk => reply[g].body[i][2] = i

\* The answer for a file that holds c: all of it, or, if it has a NUL, what is before
\* the first one, under the length of all of it.
UpToNul(c) ==
  LET before == {i \in DOMAIN c : \A j \in 1 .. i : c[j] \notin Nuls}
  IN SubSeq(c, 1, Cardinality(before))
Answer(c) ==
  CASE c = Unknown -> NoReply
    [] c = NoFile -> Status(404)
    [] OTHER -> [status |-> 200, length |-> Len(c), body |-> UpToNul(c)]

\* A GET that no POST overlapped gets exactly what the file held, up to a NUL.
GetExact ==
  \A g \in Gets : reply[g].status = 200 /\ ~MetAPost(g) => reply[g] = Answer(seen[g])

\* How far a POST and a GET are in the eyes of its client, from its place and the
\* status of its answer.
WriteAt(place, status) ==
  CASE place = "open" -> "idle" [] place = "write" -> "busy" [] place = "send" -> "done"
    [] OTHER -> IF status = 201 THEN "acked" ELSE "gone"
ReadAt(place, status) ==
  CASE place = "open" -> "idle" [] place \in {"stat", "read"} -> "busy" [] place = "send" -> "done"
    [] OTHER -> IF status = 0 THEN "gone" ELSE "answered"

\* The file, as the clients of these requests see it, is a safe register: which child
\* opened it when, and what fwrite(), ftell() and fread() did, shows only where two
\* of them overlapped (server.c:381-407, 424-470).
Register == INSTANCE FileRegister WITH
  Contents <- Seq(Bytes),
  Answers  <- [status : {200}, length : Nat, body : Seq(Bytes \cup {Junk})],
  content  <- IF \E p \in Posts : pc[p] = "write" THEN Unknown ELSE file,
  write    <- [p \in Posts |-> WriteAt(pc[p], reply[p].status)],
  alone    <- {p \in Posts : pc[p] = "write" /\ ~MetAPost(p)},
  failed   <- broken,
  read     <- [g \in Gets |-> ReadAt(pc[g], reply[g].status)],
  found    <- [g \in Gets |->
                IF pc[g] \in {"stat", "read", "send"} /\ ~MetAPost(g) THEN seen[g] ELSE Unknown],
  answer   <- [g \in Gets |-> reply[g]]
Implements == Register!Spec

\* No answer to a GET mixes two POSTs that did not meet each other or it.
GetMixesWhoMet ==
  \A g \in Gets : \A i, j \in DOMAIN reply[g].body :
    LET Writer(k) == reply[g].body[k][1]
    IN reply[g].body[i] # Junk /\ reply[g].body[j] # Junk /\ Writer(i) # Writer(j) =>
         \/ {Writer(i), Writer(j)} \in met
         \/ {g, Writer(i)} \in met /\ {g, Writer(j)} \in met

\* server.c:391-394: "Read failed", and a 500, if fread() delivers less than
\* data_size.  An answer of 200 has only bytes of the file.
ShortReadIsAnError ==
  \A g \in Gets : reply[g].status = 200 => \A i \in DOMAIN reply[g].body : reply[g].body[i] # Junk
=============================================================================
