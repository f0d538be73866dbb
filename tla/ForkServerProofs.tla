--------------------------- MODULE ForkServerProofs ---------------------------
(***************************************************************************)
(* Proofs about ForkServer, for any set of connections, any backlog and    *)
(* any process limit.                                                      *)
(*                                                                         *)
(* The argument: where each process is in its code determines exactly      *)
(* which descriptors it has (ParentDescriptors, ChildDescriptors).  That   *)
(* is inductive once one also knows that a connection in the accept queue, *)
(* or one that never arrived, has no child yet (Fresh), and that one which *)
(* was accepted has a child, or is dropped, or is the parent's client_fd   *)
(* (Handled).  The properties of ForkServer follow from the conjunction.   *)
(***************************************************************************)
EXTENDS ForkServer, TLAPS

\* The parent's descriptors, by the app thread's place in plug_update().
ParentDescriptors ==
  fds[Parent] = CASE pc = "exited"            -> {}
                  [] pc \in {"fork", "close"} -> {Listener, client_fd}
                  [] OTHER                    -> {Listener}

\* The child's, by its place between fork() and exit().
ChildDescriptors ==
  \A c \in Conns :
    fds[c] = CASE child[c] = "close"                   -> {Listener, c}
               [] child[c] \in {"recv", "send", "exit"} -> {c}
               [] OTHER                                -> {}

\* Nobody queues twice, and who is queued, never came or was reset is unserved.
Fresh ==
  /\ \A i, j \in 1 .. Len(queue) : queue[i] = queue[j] => i = j
  /\ \A c \in Queued : client[c] \in {"connected", "answerable", "fatal", "gone"}
  /\ \A c \in Conns :
       ~Accepted(c) => child[c] = "none" /\ c \notin dropped /\ c \notin answered

\* While plug_update() has a client_fd, it is an accepted connection, forked for
\* or dropped exactly when the fork is done; every other accepted one is either.
Handled ==
  /\ pc \in {"fork", "close"} => client_fd \in Conns /\ Accepted(client_fd)
  /\ pc = "fork" => child[client_fd] = "none" /\ client_fd \notin dropped
  /\ \A c \in Conns :
       Accepted(c) /\ ~(pc = "fork" /\ c = client_fd) => child[c] # "none" \/ c \in dropped

\* A child answers in "send" only, and then exits.
AnsweredOnce == \A c \in answered : child[c] \notin {"none", "close", "recv", "send"}

\* The accept queue goes with the listening socket.
QueueNeedsListener == ~Held(Listener) => queue = <<>>

IInv ==
  /\ TypeOK /\ ParentDescriptors /\ ChildDescriptors
  /\ Fresh /\ Handled /\ AnsweredOnce /\ QueueNeedsListener

-----------------------------------------------------------------------------
\* Facts about sequences without repetition, for the accept queue.

\* Append adds the element, and no repetition if it is new.
LEMMA AppendElements ==
  ASSUME NEW S, NEW q \in Seq(S), NEW e \in S
  PROVE  LET r == Append(q, e) IN
         /\ r \in Seq(S)
         /\ {r[i] : i \in 1 .. Len(r)} = {q[i] : i \in 1 .. Len(q)} \cup {e}
         /\ (\A i, j \in 1 .. Len(q) : q[i] = q[j] => i = j)
            /\ e \notin {q[i] : i \in 1 .. Len(q)}
            => \A i, j \in 1 .. Len(r) : r[i] = r[j] => i = j
OBVIOUS

\* Tail drops the head, and nothing else if nothing is repeated.
LEMMA TailElements ==
  ASSUME NEW S, NEW q \in Seq(S), q # <<>>,
         \A i, j \in 1 .. Len(q) : q[i] = q[j] => i = j
  PROVE  /\ Head(q) \in S /\ Head(q) \in {q[i] : i \in 1 .. Len(q)}
         /\ Tail(q) \in Seq(S)
         /\ {Tail(q)[i] : i \in 1 .. Len(Tail(q))} = {q[i] : i \in 1 .. Len(q)} \ {Head(q)}
         /\ \A i, j \in 1 .. Len(Tail(q)) : Tail(q)[i] = Tail(q)[j] => i = j
OBVIOUS

\* accept() takes the oldest connection out of the queue.
LEMMA QueueTail ==
  ASSUME queue \in Seq(Conns), queue # <<>>, queue' = Tail(queue),
         \A i, j \in 1 .. Len(queue) : queue[i] = queue[j] => i = j
  PROVE  /\ Head(queue) \in Conns /\ Head(queue) \in Queued
         /\ Queued' = Queued \ {Head(queue)}
         /\ \A i, j \in 1 .. Len(queue') : queue'[i] = queue'[j] => i = j
BY TailElements DEF Queued

-----------------------------------------------------------------------------
\* The inductive invariant.

\* It resets only connections that nobody accepted.
LEMMA ClosedAccepted ==
  ASSUME TypeOK, NEW f, ListenerClosed(f), NEW d \in Conns
  PROVE  Accepted(d)' <=> Accepted(d)
<1>1. CASE UNCHANGED <<queue, client>>
  BY <1>1 DEF Accepted, Queued
<1>2. CASE /\ queue' = <<>>
           /\ client' = [c \in Conns |-> IF c \in Queued THEN "reset" ELSE client[c]]
  <2>1. Queued' = {}
    BY <1>2 DEF Queued
  <2>2. client'[d] = IF d \in Queued THEN "reset" ELSE client[d]
    BY <1>2
  <2> QED
    BY <2>1, <2>2 DEF Accepted
<1> QED
  BY <1>1, <1>2 DEF ListenerClosed

\* It holds at the start, and every step of the parent, a child, a client or the
\* kernel preserves it.
LEMMA InitIInv == Init => IInv
BY ConnsAssumption DEF Init, IInv, TypeOK, ParentDescriptors, ChildDescriptors, Fresh,
   Handled, AnsweredOnce, QueueNeedsListener, Accepted, Queued, Procs, Sockets

\* The kernel's reset of the queued connections keeps the types.
LEMMA ClosedTypes ==
  ASSUME TypeOK, NEW f, ListenerClosed(f)
  PROVE  /\ queue' \in Seq(Conns)
         /\ client' \in [Conns -> {"idle", "connected", "answerable", "fatal", "gone", "reset"}]
<1>1. CASE UNCHANGED <<queue, client>>
  BY <1>1 DEF TypeOK
<1>2. CASE /\ queue' = <<>>
           /\ client' = [c \in Conns |-> IF c \in Queued THEN "reset" ELSE client[c]]
  BY <1>2 DEF TypeOK
<1> QED
  BY <1>1, <1>2 DEF ListenerClosed

\* One case per action; under it, one step per conjunct.
LEMMA StepIInv == IInv /\ [Next]_vars => IInv'
<1> SUFFICES ASSUME IInv, [Next]_vars PROVE IInv'
  OBVIOUS
<1> USE ConnsAssumption DEF IInv, TypeOK, ParentDescriptors, ChildDescriptors, Fresh, Handled,
   AnsweredOnce, Accepted, Queued, Procs, Sockets, Running
<1>1. ASSUME NEW c \in Conns, Connect(c) PROVE IInv'
  <2>1. TypeOK'
    BY <1>1 DEF Connect
  <2>2. ParentDescriptors'
    BY <1>1 DEF Connect
  <2>3. ChildDescriptors'
    BY <1>1 DEF Connect
  <2>a. /\ Queued' = Queued \cup {c}
        /\ \A i, j \in 1 .. Len(queue') : queue'[i] = queue'[j] => i = j
    <3>1. /\ queue \in Seq(Conns) /\ queue' = Append(queue, c) /\ c \notin Queued
          /\ \A i, j \in 1 .. Len(queue) : queue[i] = queue[j] => i = j
      BY <1>1 DEF Connect
    <3> HIDE DEF IInv, TypeOK, Fresh, Handled
    <3> QED
      BY <3>1, AppendElements
  <2>4. Fresh'
    <3> HIDE DEF Queued
    <3> QED
      BY <1>1, <2>a DEF Connect
  <2>5. Handled'
    BY <1>1 DEF Connect
  <2>6. AnsweredOnce'
    BY <1>1 DEF Connect
  <2>7. QueueNeedsListener'
    BY <1>1 DEF Connect, QueueNeedsListener, Held
  <2> QED
    BY <2>1, <2>2, <2>3, <2>4, <2>5, <2>6, <2>7 DEF IInv
<1>2. ASSUME NEW c \in Conns, Send(c) PROVE IInv'
  <2>1. TypeOK'
    BY <1>2 DEF Send
  <2>2. ParentDescriptors'
    BY <1>2 DEF Send
  <2>3. ChildDescriptors'
    BY <1>2 DEF Send
  <2>4. Fresh'
    BY <1>2 DEF Send
  <2>5. Handled'
    BY <1>2 DEF Send
  <2>6. AnsweredOnce'
    BY <1>2 DEF Send
  <2>7. QueueNeedsListener'
    BY <1>2 DEF Send, QueueNeedsListener, Held
  <2> QED
    BY <2>1, <2>2, <2>3, <2>4, <2>5, <2>6, <2>7 DEF IInv
<1>3. ASSUME NEW c \in Conns, Leave(c) PROVE IInv'
  <2>1. TypeOK'
    BY <1>3 DEF Leave
  <2>2. ParentDescriptors'
    BY <1>3 DEF Leave
  <2>3. ChildDescriptors'
    BY <1>3 DEF Leave
  <2>4. Fresh'
    BY <1>3 DEF Leave
  <2>5. Handled'
    BY <1>3 DEF Leave
  <2>6. AnsweredOnce'
    BY <1>3 DEF Leave
  <2>7. QueueNeedsListener'
    BY <1>3 DEF Leave, QueueNeedsListener, Held
  <2> QED
    BY <2>1, <2>2, <2>3, <2>4, <2>5, <2>6, <2>7 DEF IInv
<1>4. CASE ExitCommand
  <2>1. TypeOK'
    BY <1>4 DEF ExitCommand
  <2>2. ParentDescriptors'
    BY <1>4 DEF ExitCommand
  <2>3. ChildDescriptors'
    BY <1>4 DEF ExitCommand
  <2>4. Fresh'
    BY <1>4 DEF ExitCommand
  <2>5. Handled'
    BY <1>4 DEF ExitCommand
  <2>6. AnsweredOnce'
    BY <1>4 DEF ExitCommand
  <2>7. QueueNeedsListener'
    BY <1>4 DEF ExitCommand, QueueNeedsListener, Held
  <2> QED
    BY <2>1, <2>2, <2>3, <2>4, <2>5, <2>6, <2>7 DEF IInv
<1>5. CASE Loop
  <2>1. TypeOK'
    BY <1>5 DEF Loop
  <2>2. ParentDescriptors'
    BY <1>5 DEF Loop
  <2>3. ChildDescriptors'
    BY <1>5 DEF Loop
  <2>4. Fresh'
    BY <1>5 DEF Loop
  <2>5. Handled'
    BY <1>5 DEF Loop
  <2>6. AnsweredOnce'
    BY <1>5 DEF Loop
  <2>7. QueueNeedsListener'
    BY <1>5 DEF Loop, QueueNeedsListener, Held
  <2> QED
    BY <2>1, <2>2, <2>3, <2>4, <2>5, <2>6, <2>7 DEF IInv
<1>6. CASE Accept
  <2>1. TypeOK'
    BY <1>6 DEF Accept
  <2>2. ParentDescriptors'
    BY <1>6 DEF Accept
  <2>3. ChildDescriptors'
    BY <1>6 DEF Accept
  <2>a. /\ Head(queue) \in Queued
        /\ Queued' = Queued \ {Head(queue)}
        /\ \A i, j \in 1 .. Len(queue') : queue'[i] = queue'[j] => i = j
    <3>1. /\ queue \in Seq(Conns) /\ queue # <<>> /\ queue' = Tail(queue)
          /\ \A i, j \in 1 .. Len(queue) : queue[i] = queue[j] => i = j
      BY <1>6 DEF Accept
    <3> HIDE DEF IInv, TypeOK, Fresh, Handled
    <3> QED
      BY <3>1, QueueTail
  <2> HIDE DEF Queued
  <2>4. Fresh'
    BY <1>6, <2>a DEF Accept
  <2>5. Handled'
    BY <1>6, <2>a DEF Accept
  <2>6. AnsweredOnce'
    BY <1>6 DEF Accept
  <2>7. QueueNeedsListener'
    BY <1>6 DEF Accept, QueueNeedsListener, Held
  <2> QED
    BY <2>1, <2>2, <2>3, <2>4, <2>5, <2>6, <2>7 DEF IInv
<1>7. CASE AcceptFails
  <2>1. TypeOK'
    BY <1>7 DEF AcceptFails
  <2>2. ParentDescriptors'
    BY <1>7 DEF AcceptFails
  <2>3. ChildDescriptors'
    BY <1>7 DEF AcceptFails
  <2>4. Fresh'
    BY <1>7 DEF AcceptFails
  <2>5. Handled'
    BY <1>7 DEF AcceptFails
  <2>6. AnsweredOnce'
    BY <1>7 DEF AcceptFails
  <2>7. QueueNeedsListener'
    BY <1>7 DEF AcceptFails, QueueNeedsListener, Held
  <2> QED
    BY <2>1, <2>2, <2>3, <2>4, <2>5, <2>6, <2>7 DEF IInv
<1>8. CASE Fork
  <2>1. TypeOK'
    BY <1>8 DEF Fork
  <2>2. ParentDescriptors'
    BY <1>8 DEF Fork
  <2>3. ChildDescriptors'
    BY <1>8 DEF Fork
  <2>4. Fresh'
    BY <1>8 DEF Fork
  <2>5. Handled'
    BY <1>8 DEF Fork
  <2>6. AnsweredOnce'
    BY <1>8 DEF Fork
  <2>7. QueueNeedsListener'
    BY <1>8 DEF Fork, QueueNeedsListener, Held
  <2> QED
    BY <2>1, <2>2, <2>3, <2>4, <2>5, <2>6, <2>7 DEF IInv
<1>9. CASE ForkFails
  <2>1. TypeOK'
    BY <1>9 DEF ForkFails
  <2>2. ParentDescriptors'
    BY <1>9 DEF ForkFails
  <2>3. ChildDescriptors'
    BY <1>9 DEF ForkFails
  <2>4. Fresh'
    BY <1>9 DEF ForkFails
  <2>5. Handled'
    BY <1>9 DEF ForkFails
  <2>6. AnsweredOnce'
    BY <1>9 DEF ForkFails
  <2>7. QueueNeedsListener'
    BY <1>9 DEF ForkFails, QueueNeedsListener, Held
  <2> QED
    BY <2>1, <2>2, <2>3, <2>4, <2>5, <2>6, <2>7 DEF IInv
<1>10. CASE CloseClient
  <2>1. TypeOK'
    BY <1>10 DEF CloseClient
  <2>2. ParentDescriptors'
    BY <1>10 DEF CloseClient
  <2>3. ChildDescriptors'
    BY <1>10 DEF CloseClient
  <2>4. Fresh'
    BY <1>10 DEF CloseClient
  <2>5. Handled'
    BY <1>10 DEF CloseClient
  <2>6. AnsweredOnce'
    BY <1>10 DEF CloseClient
  <2>7. QueueNeedsListener'
    BY <1>10 DEF CloseClient, QueueNeedsListener, Held
  <2> QED
    BY <2>1, <2>2, <2>3, <2>4, <2>5, <2>6, <2>7 DEF IInv
<1>11. CASE ProcessExit
  <2>1. TypeOK'
    BY <1>11, ClosedTypes DEF ProcessExit
  <2>2. ParentDescriptors'
    BY <1>11 DEF ProcessExit, ListenerClosed
  <2>3. ChildDescriptors'
    BY <1>11 DEF ProcessExit, ListenerClosed
  <2>4. Fresh'
    BY <1>11 DEF ProcessExit, ListenerClosed
  <2>a. \A d \in Conns : Accepted(d)' <=> Accepted(d)
    BY <1>11, ClosedAccepted DEF ProcessExit
  <2>5. Handled'
    <3> HIDE DEF Accepted
    <3> QED
      BY <1>11, <2>a DEF ProcessExit
  <2>6. AnsweredOnce'
    BY <1>11 DEF ProcessExit, ListenerClosed
  <2>7. QueueNeedsListener'
    BY <1>11 DEF ProcessExit, ListenerClosed, QueueNeedsListener, Held
  <2> QED
    BY <2>1, <2>2, <2>3, <2>4, <2>5, <2>6, <2>7 DEF IInv
<1>12. ASSUME NEW c \in Conns, CloseServer(c) PROVE IInv'
  <2>1. TypeOK'
    BY <1>12, ClosedTypes DEF CloseServer
  <2>2. ParentDescriptors'
    BY <1>12 DEF CloseServer, ListenerClosed
  <2>3. ChildDescriptors'
    <3>1. /\ child[c] = "close" /\ fds[c] = {Listener, c} /\ Listener # c
          /\ child' = [child EXCEPT ![c] = "recv"]
          /\ fds' = [fds EXCEPT ![c] = @ \ {Listener}]
      BY <1>12 DEF CloseServer
    <3>2. fds'[c] = {c} /\ child'[c] = "recv"
      BY <3>1
    <3>3. \A d \in Conns \ {c} : fds'[d] = fds[d] /\ child'[d] = child[d]
      BY <3>1
    <3> QED
      BY <3>2, <3>3
  <2>4. Fresh'
    BY <1>12 DEF CloseServer, ListenerClosed
  <2>a. \A d \in Conns : Accepted(d)' <=> Accepted(d)
    BY <1>12, ClosedAccepted DEF CloseServer
  <2>5. Handled'
    <3> HIDE DEF Accepted
    <3> QED
      BY <1>12, <2>a DEF CloseServer
  <2>6. AnsweredOnce'
    BY <1>12 DEF CloseServer, ListenerClosed
  <2>7. QueueNeedsListener'
    BY <1>12 DEF CloseServer, ListenerClosed, QueueNeedsListener, Held
  <2> QED
    BY <2>1, <2>2, <2>3, <2>4, <2>5, <2>6, <2>7 DEF IInv
<1>13. ASSUME NEW c \in Conns, Recv(c) PROVE IInv'
  <2>1. TypeOK'
    BY <1>13 DEF Recv
  <2>2. ParentDescriptors'
    BY <1>13 DEF Recv
  <2>3. ChildDescriptors'
    BY <1>13 DEF Recv
  <2>4. Fresh'
    BY <1>13 DEF Recv
  <2>5. Handled'
    BY <1>13 DEF Recv
  <2>6. AnsweredOnce'
    BY <1>13 DEF Recv
  <2>7. QueueNeedsListener'
    BY <1>13 DEF Recv, QueueNeedsListener, Held
  <2> QED
    BY <2>1, <2>2, <2>3, <2>4, <2>5, <2>6, <2>7 DEF IInv
<1>14. ASSUME NEW c \in Conns, Respond(c) PROVE IInv'
  <2>1. TypeOK'
    BY <1>14 DEF Respond
  <2>2. ParentDescriptors'
    BY <1>14 DEF Respond
  <2>3. ChildDescriptors'
    BY <1>14 DEF Respond
  <2>4. Fresh'
    BY <1>14 DEF Respond
  <2>5. Handled'
    BY <1>14 DEF Respond
  <2>6. AnsweredOnce'
    BY <1>14 DEF Respond
  <2>7. QueueNeedsListener'
    BY <1>14 DEF Respond, QueueNeedsListener, Held
  <2> QED
    BY <2>1, <2>2, <2>3, <2>4, <2>5, <2>6, <2>7 DEF IInv
<1>15. ASSUME NEW c \in Conns, ChildExit(c) PROVE IInv'
  <2>1. TypeOK'
    BY <1>15, ClosedTypes DEF ChildExit
  <2>2. ParentDescriptors'
    BY <1>15 DEF ChildExit, ListenerClosed
  <2>3. ChildDescriptors'
    BY <1>15 DEF ChildExit, ListenerClosed
  <2>4. Fresh'
    BY <1>15 DEF ChildExit, ListenerClosed
  <2>a. \A d \in Conns : Accepted(d)' <=> Accepted(d)
    BY <1>15, ClosedAccepted DEF ChildExit
  <2>5. Handled'
    <3> HIDE DEF Accepted
    <3> QED
      BY <1>15, <2>a DEF ChildExit
  <2>6. AnsweredOnce'
    BY <1>15 DEF ChildExit, ListenerClosed
  <2>7. QueueNeedsListener'
    BY <1>15 DEF ChildExit, ListenerClosed, QueueNeedsListener, Held
  <2> QED
    BY <2>1, <2>2, <2>3, <2>4, <2>5, <2>6, <2>7 DEF IInv
<1>16. CASE UNCHANGED vars
  BY <1>16 DEF vars, QueueNeedsListener, Held
<1> QED
  BY <1>1, <1>2, <1>3, <1>4, <1>5, <1>6, <1>7, <1>8, <1>9, <1>10, <1>11, <1>12, <1>13, <1>14, <1>15, <1>16 DEF Next

-----------------------------------------------------------------------------
\* The theorems.

\* The descriptors and the places of the processes agree in every behaviour.
THEOREM Invariance == Spec => []IInv
BY InitIInv, StepIInv, PTL DEF Spec

\* The variables keep their types.
THEOREM TypeCorrect == Spec => []TypeOK
<1>1. IInv => TypeOK
  BY DEF IInv
<1> QED
  BY <1>1, Invariance, PTL

\* plug_update() closes what it accepted before it accepts again (plug.c:37, 46),
\* however many forks fail.
THEOREM ParentHoldsOneHolds == Spec => []ParentHoldsOne
<1>1. IInv => ParentHoldsOne
  BY ConnsAssumption DEF IInv, TypeOK, ParentDescriptors, Handled, ParentHoldsOne
<1> QED
  BY <1>1, Invariance, PTL

\* No child keeps the connection of another client.
THEOREM OwnConnectionOnlyHolds == Spec => []OwnConnectionOnly
<1>1. IInv => OwnConnectionOnly
  BY DEF IInv, ChildDescriptors, OwnConnectionOnly
<1> QED
  BY <1>1, Invariance, PTL

\* A client sees the end of the stream only once its child exited, or was never
\* forked because fork() failed.
THEOREM EofAfterServiceHolds == Spec => []EofAfterService
<1>1. IInv => EofAfterService
  <2> SUFFICES ASSUME IInv, NEW c \in Conns, Accepted(c), ~Held(c),
                      child[c] \notin {"zombie", "reaped"}, c \notin dropped
               PROVE  FALSE
    BY DEF EofAfterService
  <2>1. c \notin fds[c] /\ c \notin fds[Parent]
    BY DEF Held, Procs
  <2>2. child[c] = "none"
    BY <2>1 DEF IInv, TypeOK, ChildDescriptors, Running
  <2>3. pc = "fork" /\ c = client_fd
    BY <2>2 DEF IInv, Handled
  <2> QED
    BY <2>1, <2>3 DEF IInv, ParentDescriptors
<1> QED
  BY <1>1, Invariance, PTL

\* After the server's exit, the port is free once no child is before its
\* close(server_fd).
THEOREM PortReleasedHolds == Spec => []PortReleased
<1>1. IInv => PortReleased
  BY ConnsAssumption DEF IInv, ParentDescriptors, ChildDescriptors, PortReleased, Held, Procs
<1> QED
  BY <1>1, Invariance, PTL

-----------------------------------------------------------------------------
\* ForkServer implements ConnectionService.

\* A connection is open from accept() until its child, or the parent if there is
\* none, closes it.
OpenMeans ==
  \A c \in Conns :
    Held(c) <=> child[c] \in Running \/ (pc \in {"fork", "close"} /\ c = client_fd)

\* It follows from the inductive invariant.
LEMMA OpenWhile == IInv => OpenMeans
<1> SUFFICES ASSUME IInv, NEW c \in Conns
             PROVE  Held(c) <=> child[c] \in Running \/ (pc \in {"fork", "close"} /\ c = client_fd)
  BY DEF OpenMeans
<1>1. \A d \in Conns : c \in fds[d] <=> c = d /\ child[c] \in Running
  BY ConnsAssumption DEF IInv, ChildDescriptors, Running
<1>2. c \in fds[Parent] <=> pc \in {"fork", "close"} /\ c = client_fd
  BY ConnsAssumption DEF IInv, TypeOK, ParentDescriptors
<1> QED
  BY <1>1, <1>2 DEF Held, Procs

\* The initial states correspond.
LEMMA InitRefines == Init => Service!Init
BY ConnsAssumption DEF Init, Service!Init, Held, Accepted, Procs

\* The end of the listening socket is the service's TurnAway.
LEMMA ClosingTurnsAway ==
  ASSUME IInv, NEW f, ListenerClosed(f), UNCHANGED answered,
         \A d \in Conns : Held(d)' <=> Held(d)
  PROVE  \/ Service!TurnAway
         \/ UNCHANGED <<queue, {c \in Conns : Held(c)}, answered,
                        {c \in Conns : client[c] = "reset" \/ (Accepted(c) /\ ~Held(c))}>>
<1> DEFINE Open  == {c \in Conns : Held(c)}
           Ended == {c \in Conns : client[c] = "reset" \/ (Accepted(c) /\ ~Held(c))}
<1>1. Open' = Open
  OBVIOUS
<1>2. \A d \in Conns : Accepted(d)' <=> Accepted(d)
  BY ClosedAccepted DEF IInv
<1>3. CASE UNCHANGED <<queue, client>>
  <2>1. Ended' = Ended
    BY <1>2, <1>3
  <2> QED
    BY <1>1, <1>3, <2>1
<1>4. CASE /\ queue' = <<>>
           /\ client' = [c \in Conns |-> IF c \in Queued THEN "reset" ELSE client[c]]
  <2>1. Queued \subseteq Conns
    BY DEF IInv, TypeOK, Queued
  <2>2. Ended' = Ended \cup Queued
    BY <1>2, <1>4, <2>1
  <2>3. CASE queue = <<>>
    <3>1. Queued = {}
      BY <2>3 DEF Queued
    <3> QED
      BY <1>1, <1>4, <2>2, <2>3, <3>1
  <2>4. CASE queue # <<>>
    BY <1>1, <1>4, <2>2, <2>4 DEF Service!TurnAway, Service!Waiting, Queued
  <2> QED
    BY <2>3, <2>4
<1> QED
  BY <1>3, <1>4 DEF ListenerClosed

\* A close of a connection by one of its holders is the service's End, if it is
\* the last one.
LEMMA EndsOne ==
  ASSUME NEW c \in Conns, UNCHANGED <<queue, client, answered>>,
         Accepted(c) /\ client[c] # "reset" /\ Held(c),
         \A d \in Conns : Accepted(d)' <=> Accepted(d),
         \A d \in Conns \ {c} : Held(d)' <=> Held(d)
  PROVE  \/ Service!Next
         \/ UNCHANGED <<queue, {d \in Conns : Held(d)}, answered,
                        {d \in Conns : client[d] = "reset" \/ (Accepted(d) /\ ~Held(d))}>>
<1> DEFINE Open  == {d \in Conns : Held(d)}
           Ended == {d \in Conns : client[d] = "reset" \/ (Accepted(d) /\ ~Held(d))}
<1>1. CASE Held(c)'
  <2>1. Open' = Open /\ Ended' = Ended
    BY <1>1
  <2> QED
    BY <2>1
<1>2. CASE ~Held(c)'
  <2>1. c \in Open /\ Open' = Open \ {c} /\ Ended' = Ended \cup {c}
    BY <1>2
  <2>2. Service!End(c)
    BY <2>1 DEF Service!End
  <2> QED
    BY <2>2 DEF Service!Next
<1> QED
  BY <1>1, <1>2

\* Every step is a step of the service, or changes nothing the service shows.
LEMMA StepRefines == IInv /\ IInv' /\ [Next]_vars => [Service!Next]_(Service!vars)
<1> DEFINE Open  == {c \in Conns : Held(c)}
           Ended == {c \in Conns : client[c] = "reset" \/ (Accepted(c) /\ ~Held(c))}
<1> SUFFICES ASSUME IInv, IInv', [Next]_vars
             PROVE  Service!Next \/ UNCHANGED <<queue, Open, answered, Ended>>
  BY DEF Service!vars
<1>a. OpenMeans /\ OpenMeans'
  BY OpenWhile, PTL
<1> USE ConnsAssumption, <1>a DEF OpenMeans, IInv, TypeOK, Accepted, Running
<1>1. ASSUME NEW c \in Conns, Connect(c) PROVE Service!Next \/ UNCHANGED <<queue, Open, answered, Ended>>
  <2>1. c \notin Queued \cup Open \cup Ended
    BY <1>1 DEF Connect, Fresh, Handled
  <2>2. queue \in Seq(Conns) /\ queue' = Append(queue, c) /\ Queued' = Queued \cup {c}
    BY <1>1 DEF Connect, Queued
  <2>3. \A d \in Conns : Held(d)' <=> Held(d)
    BY <1>1 DEF Connect
  <2>4. \A d \in Conns : /\ Accepted(d)' <=> Accepted(d)
                         /\ client[d] = "reset" <=> client'[d] = "reset"
    BY <1>1, <2>2 DEF Connect
  <2>5. Service!Arrive(c)
    BY <1>1, <2>1, <2>2, <2>3, <2>4 DEF Connect, Service!Arrive, Service!Waiting, Queued
  <2> QED
    BY <2>5 DEF Service!Next
<1>2. ASSUME NEW c \in Conns, Send(c) PROVE UNCHANGED <<queue, Open, answered, Ended>>
  BY <1>2 DEF Send, ListenerClosed, Queued, Fresh, Handled
<1>3. ASSUME NEW c \in Conns, Leave(c) PROVE UNCHANGED <<queue, Open, answered, Ended>>
  BY <1>3 DEF Leave, ListenerClosed, Queued, Fresh, Handled
<1>4. ASSUME ExitCommand PROVE UNCHANGED <<queue, Open, answered, Ended>>
  BY <1>4 DEF ExitCommand, ListenerClosed, Queued, Fresh, Handled
<1>5. ASSUME Loop PROVE UNCHANGED <<queue, Open, answered, Ended>>
  BY <1>5 DEF Loop, ListenerClosed, Queued, Fresh, Handled
<1>6. ASSUME Accept PROVE Service!Next \/ UNCHANGED <<queue, Open, answered, Ended>>
  <2> DEFINE h == Head(queue)
  <2>1. /\ h \in Conns /\ h \in Queued /\ Queued' = Queued \ {h}
        /\ pc' = "fork" /\ client_fd' = h /\ queue' = Tail(queue) /\ queue # <<>>
    <3>1. queue \in Seq(Conns) /\ \A i, j \in 1 .. Len(queue) : queue[i] = queue[j] => i = j
      BY DEF Fresh
    <3>2. queue' = Tail(queue) /\ queue # <<>> /\ pc' = "fork" /\ client_fd' = h
      BY <1>6 DEF Accept
    <3> HIDE DEF IInv, TypeOK, OpenMeans, h
    <3>3. /\ Head(queue) \in Conns /\ Head(queue) \in Queued
          /\ Queued' = Queued \ {Head(queue)}
      BY <3>1, <3>2, QueueTail
    <3> QED
      BY <3>2, <3>3 DEF h
  <2> HIDE DEF h
  <2>2. \A d \in Conns : Held(d)' <=> Held(d) \/ d = h
    BY <1>6, <2>1 DEF Accept
  <2>3. \A d \in Conns : Accepted(d)' <=> Accepted(d) \/ d = h
    BY <1>6, <2>1 DEF Accept, Fresh
  <2>4. Open' = Open \cup {h} /\ Ended' = Ended
    BY <1>6, <2>1, <2>2, <2>3 DEF Accept, Fresh
  <2>5. Service!Take
    BY <1>6, <2>1, <2>4 DEF Accept, Service!Take, h
  <2> QED
    BY <2>5 DEF Service!Next
<1>7. ASSUME AcceptFails PROVE UNCHANGED <<queue, Open, answered, Ended>>
  BY <1>7 DEF AcceptFails, ListenerClosed, Queued, Fresh, Handled
<1>8. ASSUME Fork PROVE UNCHANGED <<queue, Open, answered, Ended>>
  BY <1>8 DEF Fork, ListenerClosed, Queued, Fresh, Handled
<1>9. ASSUME ForkFails PROVE UNCHANGED <<queue, Open, answered, Ended>>
  BY <1>9 DEF ForkFails, ListenerClosed, Queued, Fresh, Handled
<1>10. ASSUME CloseClient PROVE Service!Next \/ UNCHANGED <<queue, Open, answered, Ended>>
  <2>0. PICK c \in Conns : c = client_fd
    BY <1>10 DEF CloseClient, Handled
  <2>1. queue' = queue /\ client' = client /\ answered' = answered
    BY <1>10 DEF CloseClient
  <2>2. Accepted(c) /\ client[c] # "reset" /\ Held(c)
    BY <1>10, <2>0 DEF CloseClient, Handled
  <2>3. \A d \in Conns \ {c} : Held(d)' <=> Held(d)
    BY <1>10, <2>0 DEF CloseClient
  <2>4. \A d \in Conns : Accepted(d)' <=> Accepted(d)
    BY <2>1 DEF Queued
  <2> HIDE DEF IInv, TypeOK, OpenMeans, Accepted
  <2> QED
    BY <2>1, <2>2, <2>3, <2>4, EndsOne
<1>11. ASSUME ProcessExit PROVE Service!Next \/ UNCHANGED <<queue, Open, answered, Ended>>
  <2>1. \A d \in Conns : Held(d)' <=> Held(d)
    BY <1>11 DEF ProcessExit
  <2>2. ListenerClosed(fds') /\ answered' = answered
    BY <1>11 DEF ProcessExit
  <2> HIDE DEF IInv, TypeOK, OpenMeans, Accepted
  <2> QED
    BY <2>1, <2>2, ClosingTurnsAway DEF Service!Next
<1>12. ASSUME NEW c \in Conns, CloseServer(c) PROVE Service!Next \/ UNCHANGED <<queue, Open, answered, Ended>>
  <2>1. \A d \in Conns : Held(d)' <=> Held(d)
    BY <1>12 DEF CloseServer
  <2>2. ListenerClosed(fds') /\ answered' = answered
    BY <1>12 DEF CloseServer
  <2> HIDE DEF IInv, TypeOK, OpenMeans, Accepted
  <2> QED
    BY <2>1, <2>2, ClosingTurnsAway DEF Service!Next
<1>13. ASSUME NEW c \in Conns, Recv(c) PROVE UNCHANGED <<queue, Open, answered, Ended>>
  BY <1>13 DEF Recv, ListenerClosed, Queued, Fresh, Handled
<1>14. ASSUME NEW c \in Conns, Respond(c) PROVE Service!Next \/ UNCHANGED <<queue, Open, answered, Ended>>
  <2>1. c \in Open /\ c \notin answered
    BY <1>14 DEF Respond, AnsweredOnce
  <2>2. /\ \A d \in Conns : Held(d)' <=> Held(d)
        /\ \A d \in Conns : Accepted(d)' <=> Accepted(d)
    BY <1>14 DEF Respond, Queued
  <2>3. UNCHANGED <<queue, Open, Ended>>
    BY <1>14, <2>2 DEF Respond
  <2>4. answered' = answered \/ Service!Reply(c)
    BY <1>14, <2>1, <2>3 DEF Respond, Service!Reply
  <2> QED
    BY <2>3, <2>4 DEF Service!Next
<1>15. ASSUME NEW c \in Conns, ChildExit(c) PROVE Service!Next \/ UNCHANGED <<queue, Open, answered, Ended>>
  <2>1. queue' = queue /\ client' = client
    <3>1. CASE Held(Listener)
      <4>1. PICK p \in Procs : Listener \in fds[p]
        BY <3>1 DEF Held
      <4>2. p # c
        <5>1. fds[c] = {c} /\ Listener # c
          BY <1>15 DEF ChildExit, ChildDescriptors
        <5> QED
          BY <4>1, <5>1
      <4>3. Listener \in fds'[p]
        BY <1>15, <4>1, <4>2 DEF ChildExit
      <4> QED
        BY <1>15, <4>3 DEF ChildExit, ListenerClosed
    <3>2. CASE ~Held(Listener)
      <4>1. queue = <<>> /\ Queued = {}
        BY <3>2 DEF QueueNeedsListener, Queued
      <4> QED
        BY <1>15, <4>1 DEF ChildExit, ListenerClosed
    <3> QED
      BY <3>1, <3>2
  <2>2. \A d \in Conns : Accepted(d)' <=> Accepted(d)
    BY <2>1 DEF Queued
  <2>3. \A d \in Conns \ {c} : Held(d)' <=> Held(d)
    BY <1>15 DEF ChildExit
  <2>4. c \in Open /\ Accepted(c) /\ client[c] # "reset"
    BY <1>15 DEF ChildExit, Fresh
  <2>5. answered' = answered
    BY <1>15 DEF ChildExit
  <2> HIDE DEF IInv, TypeOK, OpenMeans, Accepted
  <2> QED
    BY <2>1, <2>2, <2>3, <2>4, <2>5, EndsOne
<1>16. ASSUME UNCHANGED vars PROVE UNCHANGED <<queue, Open, answered, Ended>>
  BY <1>16 DEF vars, Queued, Held
<1> QED
  BY <1>1, <1>2, <1>3, <1>4, <1>5, <1>6, <1>7, <1>8, <1>9, <1>10, <1>11, <1>12, <1>13, <1>14, <1>15, <1>16 DEF Next

\* ForkServer implements ConnectionService: each connection is served in its turn,
\* answered at most once, while it is open, and ended once.
THEOREM Refinement == Spec => Implements
<1>1. Init => Service!Init
  BY InitRefines
<1>2. IInv /\ IInv' /\ [Next]_vars => [Service!Next]_(Service!vars)
  BY StepRefines
<1> QED
  BY <1>1, <1>2, Invariance, PTL DEF Spec, Implements, Service!Spec
=============================================================================
