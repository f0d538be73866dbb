------------------------------ MODULE ForkServer ------------------------------
(***************************************************************************)
(* The accept-fork-serve loop of app/plug.c (plug_update), the app thread  *)
(* of app/main.c that calls it, and the children it forks, each of which   *)
(* runs serve() of app/server.c on one connection and exits.               *)
(*                                                                         *)
(* A connection, the child forked for it and the descriptor that refers to *)
(* it all go by the connection's name c: every accept is followed by one   *)
(* fork.  Descriptors are per process (fds), and a child starts with a     *)
(* copy of the parent's, as fork() gives it.  What serve() answers is the  *)
(* subject of other modules: here a request is either one that serve()     *)
(* answers or one that kills the child.                                    *)
(***************************************************************************)
EXTENDS Naturals, Sequences, FiniteSets

CONSTANTS
  Conns,     \* client connections
  Backlog,   \* connection_backlog, the second argument of listen()
  MaxProcs,  \* processes the user may have, zombies included (RLIMIT_NPROC)
  Parent,    \* the server process
  Listener,  \* the listening socket
  NoConn     \* client_fd before accept() has returned

ASSUME ConnsAssumption ==
  /\ IsFiniteSet(Conns)
  /\ Parent \notin Conns /\ Listener \notin Conns /\ NoConn \notin Conns
ASSUME BoundsAssumption == Backlog \in Nat /\ MaxProcs \in Nat \ {0}

VARIABLES
  pc,           \* the app thread: "loop", "accept", "fork", "close", "exit", "exited"
  exit_signal,  \* main.c's flag, set by the input thread
  client_fd,    \* the local of plug_update: the connection just accepted
  queue,        \* connections the kernel completed and accept() has not returned
  fds,          \* the sockets each process has a descriptor for
  child,        \* the child forked for a connection
  client,       \* what the client of a connection has done
  answered,     \* connections whose client received the response
  dropped       \* connections closed because fork() failed

vars == <<pc, exit_signal, client_fd, queue, fds, child, client, answered, dropped>>

Procs   == Conns \cup {Parent}
Sockets == Conns \cup {Listener}
Running == {"close", "recv", "send", "exit"}   \* a child that has not exited

\* A process of the user's quota: the server, its running children, and those
\* that have exited: nothing under app/ waits for a forked child.
Unreaped   == {c \in Conns : child[c] \in Running \cup {"zombie"}}
Busy       == {c \in Conns : child[c] \in Running}
TableFull  == Cardinality(Unreaped) + 1 >= MaxProcs

Held(s)     == \E p \in Procs : s \in fds[p]
Queued      == {queue[i] : i \in 1 .. Len(queue)}
Accepted(c) == client[c] \notin {"idle", "reset"} /\ c \notin Queued

Init ==
  /\ pc = "loop"
  /\ exit_signal = 0
  /\ client_fd = NoConn
  /\ queue = <<>>
  /\ fds = [p \in Procs |-> IF p = Parent THEN {Listener} ELSE {}]
  /\ child = [c \in Conns |-> "none"]
  /\ client = [c \in Conns |-> "idle"]
  /\ answered = {}
  /\ dropped = {}

-----------------------------------------------------------------------------
\* The kernel and the clients.

\* The last descriptor of the listening socket is gone: the kernel resets the
\* connections that nobody accepted.
ListenerClosed(fdsNext) ==
  IF \E p \in Procs : Listener \in fdsNext[p]
  THEN UNCHANGED <<queue, client>>
  ELSE /\ queue' = <<>>
       /\ client' = [c \in Conns |-> IF c \in Queued THEN "reset" ELSE client[c]]

\* A handshake completes while the accept queue has room (Linux admits Backlog + 1).
Connect(c) ==
  /\ client[c] = "idle"
  /\ Held(Listener)
  /\ Len(queue) <= Backlog
  /\ client' = [client EXCEPT ![c] = "connected"]
  /\ queue' = Append(queue, c)
  /\ UNCHANGED <<pc, exit_signal, client_fd, fds, child, answered, dropped>>

\* The client sends its request: one that serve() answers, or one it dies of.
Send(c) ==
  /\ client[c] = "connected"
  /\ \E request \in {"answerable", "fatal"} : client' = [client EXCEPT ![c] = request]
  /\ UNCHANGED <<pc, exit_signal, client_fd, queue, fds, child, answered, dropped>>

\* The client closes its end, before or after it has sent a request.
Leave(c) ==
  /\ client[c] \in {"connected", "answerable", "fatal"}
  /\ client' = [client EXCEPT ![c] = "gone"]
  /\ UNCHANGED <<pc, exit_signal, client_fd, queue, fds, child, answered, dropped>>

-----------------------------------------------------------------------------
\* The parent: the input thread's "exit", then the app thread.

ExitCommand ==
  /\ exit_signal = 0 /\ pc # "exited"
  /\ exit_signal' = 1
  /\ UNCHANGED <<pc, client_fd, queue, fds, child, client, answered, dropped>>

\* Mutant: the flag is read once, before the first client.
LoopForever ==
  /\ pc = "loop"
  /\ pc' = IF exit_signal = 0 \/ \E c \in Conns : Accepted(c) THEN "accept" ELSE "exit"
  /\ UNCHANGED <<exit_signal, client_fd, queue, fds, child, client, answered, dropped>>

\* while (exit_signal == 0) plug_update();
Loop ==
  /\ pc = "loop"
  /\ pc' = IF exit_signal = 0 THEN "accept" ELSE "exit"
  /\ UNCHANGED <<exit_signal, client_fd, queue, fds, child, client, answered, dropped>>

Accept ==
  /\ pc = "accept" /\ queue # <<>>
  /\ client_fd' = Head(queue)
  /\ queue' = Tail(queue)
  /\ fds' = [fds EXCEPT ![Parent] = @ \cup {Head(queue)}]
  /\ pc' = "fork"
  /\ UNCHANGED <<exit_signal, child, client, answered, dropped>>

\* Mutant: the early return is forgotten.
AcceptFailsIgnored ==
  /\ pc = "accept"
  /\ pc' = "fork"
  /\ UNCHANGED <<exit_signal, client_fd, queue, fds, child, client, answered, dropped>>

\* accept() fails, and plug_update() returns.
AcceptFails ==
  /\ pc = "accept"
  /\ pc' = "loop"
  /\ UNCHANGED <<exit_signal, client_fd, queue, fds, child, client, answered, dropped>>

Fork ==
  /\ pc = "fork" /\ ~TableFull
  /\ child' = [child EXCEPT ![client_fd] = "close"]
  /\ fds' = [fds EXCEPT ![client_fd] = fds[Parent]]
  /\ pc' = "close"
  /\ UNCHANGED <<exit_signal, client_fd, queue, client, answered, dropped>>

\* For want of a process, or for any other reason (memory, a limit of the user's).
ForkFails ==
  /\ pc = "fork"
  /\ dropped' = dropped \cup {client_fd}
  /\ pc' = "close"
  /\ UNCHANGED <<exit_signal, client_fd, queue, fds, child, client, answered>>

\* Mutants: the close is forgotten after a failed fork, or always; the parent
\* waits for the child before it goes on.
CloseClientUnlessDropped ==
  /\ pc = "close"
  /\ fds' = IF client_fd \in dropped THEN fds ELSE [fds EXCEPT ![Parent] = @ \ {client_fd}]
  /\ client_fd' = NoConn
  /\ pc' = "loop"
  /\ UNCHANGED <<exit_signal, queue, child, client, answered, dropped>>
CloseClientNever ==
  /\ pc = "close"
  /\ client_fd' = NoConn
  /\ pc' = "loop"
  /\ UNCHANGED <<exit_signal, queue, fds, child, client, answered, dropped>>
CloseClientWaits ==
  /\ pc = "close" /\ client_fd \notin Busy
  /\ fds' = [fds EXCEPT ![Parent] = @ \ {client_fd}]
  /\ client_fd' = NoConn
  /\ pc' = "loop"
  /\ UNCHANGED <<exit_signal, queue, child, client, answered, dropped>>

\* close(client_fd), in the parent's branch and after a failed fork alike.
CloseClient ==
  /\ pc = "close"
  /\ fds' = [fds EXCEPT ![Parent] = @ \ {client_fd}]
  /\ client_fd' = NoConn
  /\ pc' = "loop"
  /\ UNCHANGED <<exit_signal, queue, child, client, answered, dropped>>

\* The threads are joined, plug_free() and return from main: the kernel closes
\* what is open, and init reaps the children from here on.
ProcessExit ==
  /\ pc = "exit"
  /\ pc' = "exited"
  /\ fds' = [fds EXCEPT ![Parent] = {}]
  /\ child' = [c \in Conns |-> IF child[c] = "zombie" THEN "reaped" ELSE child[c]]
  /\ ListenerClosed(fds')
  /\ UNCHANGED <<exit_signal, client_fd, answered, dropped>>

ParentStep == Loop \/ Accept \/ Fork \/ ForkFails \/ CloseClient \/ ProcessExit

-----------------------------------------------------------------------------
\* A child.

\* Mutants: the child closes the connection, or nothing.
CloseServerWrongFd(c) ==
  /\ child[c] = "close"
  /\ child' = [child EXCEPT ![c] = "recv"]
  /\ fds' = [fds EXCEPT ![c] = @ \ {c}]
  /\ ListenerClosed(fds')
  /\ UNCHANGED <<pc, exit_signal, client_fd, answered, dropped>>
CloseServerNever(c) ==
  /\ child[c] = "close"
  /\ child' = [child EXCEPT ![c] = "recv"]
  /\ UNCHANGED <<pc, exit_signal, client_fd, queue, fds, client, answered, dropped>>

\* close(server_fd)
CloseServer(c) ==
  /\ child[c] = "close"
  /\ child' = [child EXCEPT ![c] = "recv"]
  /\ fds' = [fds EXCEPT ![c] = @ \ {Listener}]
  /\ ListenerClosed(fds')
  /\ UNCHANGED <<pc, exit_signal, client_fd, answered, dropped>>

\* recv() blocks until the client sends or closes.  A request is answered or
\* kills the child; after an early close, recv() fails and serve() returns, or
\* it gives what was sent or 0 bytes, with which serve() goes on.
Recv(c) ==
  /\ child[c] = "recv"
  /\ \/ client[c] \in {"answerable", "gone"} /\ child' = [child EXCEPT ![c] = "send"]
     \/ client[c] \in {"fatal", "gone"} /\ child' = [child EXCEPT ![c] = "exit"]
  /\ UNCHANGED <<pc, exit_signal, client_fd, queue, fds, client, answered, dropped>>

\* send(), which a client that has left does not receive.
Respond(c) ==
  /\ child[c] = "send"
  /\ answered' = IF client[c] = "gone" THEN answered ELSE answered \cup {c}
  /\ child' = [child EXCEPT ![c] = "exit"]
  /\ UNCHANGED <<pc, exit_signal, client_fd, queue, fds, client, dropped>>

\* exit(0), or the death of the child.
ChildExit(c) ==
  /\ child[c] = "exit"
  /\ child' = [child EXCEPT ![c] = IF pc = "exited" THEN "reaped" ELSE "zombie"]
  /\ fds' = [fds EXCEPT ![c] = {}]
  /\ ListenerClosed(fds')
  /\ UNCHANGED <<pc, exit_signal, client_fd, answered, dropped>>

ChildStep(c) == CloseServer(c) \/ Recv(c) \/ Respond(c) \/ ChildExit(c)

Next ==
  \/ ExitCommand \/ Loop \/ Accept \/ AcceptFails \/ Fork \/ ForkFails
  \/ CloseClient \/ ProcessExit
  \/ \E c \in Conns :
       \/ Connect(c) \/ Send(c) \/ Leave(c)
       \/ CloseServer(c) \/ Recv(c) \/ Respond(c) \/ ChildExit(c)

\* The kernel schedules every thread, and accept() does not fail forever while
\* connections wait.  Nothing is assumed of the clients or of the user.
Fairness ==
  /\ WF_vars(ParentStep)
  /\ SF_vars(Accept)
  /\ \A c \in Conns : WF_vars(ChildStep(c))

Spec == Init /\ [][Next]_vars /\ Fairness

-----------------------------------------------------------------------------

TypeOK ==
  /\ pc \in {"loop", "accept", "fork", "close", "exit", "exited"}
  /\ exit_signal \in {0, 1}
  /\ client_fd \in Conns \cup {NoConn}
  /\ queue \in Seq(Conns)
  /\ fds \in [Procs -> SUBSET Sockets]
  /\ child \in [Conns -> Running \cup {"none", "zombie", "reaped"}]
  /\ client \in [Conns -> {"idle", "connected", "answerable", "fatal", "gone", "reset"}]
  /\ answered \subseteq Conns
  /\ dropped \subseteq Conns

\* A child inherits every descriptor of the parent (plug.c:34), yet never holds
\* the connection of another client: the parent has closed each one before it
\* accepts the next.  A connection held by a stranger would stay open after its
\* own child has answered and exited.
OwnConnectionOnly == \A c \in Conns : fds[c] \subseteq {c, Listener}

\* A client sees the end of the stream only when its child has exited (so after
\* the answer), or when fork() failed and plug.c:37 closed the connection.
EofAfterService ==
  \A c \in Conns :
    Accepted(c) /\ ~Held(c) => child[c] \in {"zombie", "reaped"} \/ c \in dropped

\* Once the server has exited, only a child that has not yet run close(server_fd)
\* (plug.c:41) keeps the port: a client served slowly does not block a restart.
PortReleased ==
  pc = "exited" /\ (\A c \in Conns : child[c] # "close") => ~Held(Listener)

\* The parent never holds more than one connection, and none while it waits in
\* accept() (plug.c:27): it cannot run out of descriptors, whatever forks fail.
ParentHoldsOne ==
  fds[Parent] \cap Conns = IF pc \in {"fork", "close"} THEN {client_fd} ELSE {}

\* A client that has sent its request or left sees the end of the stream, even
\* if serving it kills the child, if fork() fails or if the server exits.
Released ==
  \A c \in Conns :
    (Accepted(c) /\ client[c] \in {"answerable", "fatal", "gone"}) ~> ~Held(c)

\* An answerable request is answered whatever the other clients do: stay silent,
\* send what kills their child, leave.  Only a failed fork(), the exit of the server
\* or the client itself can prevent it.
Served ==
  \A c \in Conns :
    client[c] = "answerable" ~>
      (c \in answered \cup dropped \/ client[c] \in {"gone", "reset"})

\* Every connection gets what ConnectionService promises: it is taken up in its
\* turn, answered at most once and only while it is open, and ends once.
Service == INSTANCE ConnectionService WITH
  waiting <- queue,
  open    <- {c \in Conns : Held(c)},
  replied <- answered,
  ended   <- {c \in Conns : client[c] = "reset" \/ (Accepted(c) /\ ~Held(c))}
Implements == Service!Spec

\* The exit signal (main.c:14) is looked at only between clients (main.c:66), and
\* accept() does not return for it: a client that waits then is enough, though, for the
\* app thread to come out of accept(), look at the signal and end.
ExitsWithNextClient == exit_signal = 1 /\ queue # <<>> ~> pc = "exited"

\* README.md:10-11: an HTTP server "capable of serving multiple clients".  A
\* connection is turned away for want of a process only while MaxProcs - 1 others are
\* being served.
DroppedOnlyWhenBusy ==
  [][dropped' # dropped /\ TableFull => Cardinality(Busy) + 1 >= MaxProcs]_vars
=============================================================================
