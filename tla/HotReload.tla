------------------------------ MODULE HotReload ------------------------------
(***************************************************************************)
(* The HOT_RELOADABLE build: main() of app/main.c loads libserver.so, its  *)
(* input thread replaces it on the user's command (app/plug.h, and         *)
(* plug_pre_load and plug_post_load of app/plug.c) while the app thread    *)
(* runs plug_update() of that same library.  No lock orders the two.       *)
(*                                                                         *)
(* The two threads are the loader (main until the threads start, then the  *)
(* input thread) and the app thread.  A loaded library is known by the     *)
(* address its code is mapped at; a rebuilt one, with other code at the    *)
(* same place, counts as another address.  Each plug_init() allocates one  *)
(* Plug cell and opens one listening socket, and both go by the same       *)
(* number.  Descriptor numbers matter: they outlive the descriptors.       *)
(***************************************************************************)
EXTENDS Integers, FiniteSets

CONSTANTS
  Bases,       \* addresses dlopen() may map the library at
  MaxReloads,  \* bound: reload commands
  MaxPending,  \* bound: connections waiting on one listening socket
  Kids,        \* bound: children alive at the same time
  Client,      \* an accepted connection, in the descriptor table
  Reserved,    \* a number accept() has set aside for one
  None

ASSUME BoundsAssumption == MaxReloads \in Nat /\ MaxPending \in Nat
ASSUME NamesAssumption ==
  /\ None \notin Int \cup {Client, Reserved, "configured"}
  /\ Client \notin Int \cup {Reserved} /\ Reserved \notin Int

VARIABLES
  loader,       \* [pc, stage, sym, cpy, fd]: its place, what plug_pre_load(), simpleServer() returned
  lib,          \* where the library is mapped, or None
  fn,           \* main's five function pointers, in the order of PLUGS_LIST
  plug,         \* the library's global: a cell, or None (NULL)
  cells,        \* the Plug structures
  fdtab,        \* the process's descriptors
  pending,      \* connections waiting on each listening socket
  app,          \* [pc, base, p, sfd, sock, cfd]: the app thread and its locals
  kids,         \* the children: what directory each serves, which listeners it holds
  exit_signal,
  input,        \* [open, read]: is stdin, and the word of read[]
  fate,         \* "up", "exited", or what killed the process
  moved,        \* history: a reload mapped the library elsewhere
  disturbed,    \* history: the app thread was outside accept() during a reload
  failed        \* history: which of Calls has failed in the loader

threads == <<loader, app>>
memory  == <<lib, fn, plug, cells>>
kernel  == <<fdtab, pending>>
outside == <<kids, exit_signal, input>>
history == <<moved, disturbed, failed>>
vars == <<threads, memory, kernel, outside, fate, history>>

Cells   == 1 .. MaxReloads + 2            \* two by main(), one by each reload
Fds     == 3 .. 6                         \* more than two listeners and a client
Symbols == 1 .. 5                         \* PLUGS_LIST
Update  == 2                              \* plug_update's place in it
Calls   == {"load", "memory", "listen"}   \* dlopen() or dlsym(), malloc(), simpleServer()

FreeFds   == {n \in Fds : fdtab[n] = None}
LowestFree == CHOOSE n \in FreeFds : \A m \in FreeFds : n <= m
Used      == {k \in Cells : cells[k].state # "none"}
Fresh     == Cardinality(Used) + 1        \* the next cell and its socket

\* A listening socket lives while a process has a descriptor for it or a thread
\* is blocked in accept() on it.
Listening(s) ==
  \/ \E n \in Fds : fdtab[n] = s
  \/ app.sock = s
  \/ \E k \in Kids : kids[k] # None /\ s \in kids[k].held

Reloading == loader.stage = "command" /\ loader.pc \notin {"prompt", "ended"}
Idle      == app.pc = "blocked"
LoadFailed == "load" \in failed

\* The app thread outside plug_update(): the locals are gone.
Outside(place) ==
  [pc |-> place, base |-> None, p |-> None, sfd |-> None, sock |-> None, cfd |-> None]
Returns == app' = Outside("loop")

Init ==
  /\ loader = [pc |-> "dlclose", stage |-> "first", sym |-> 1, cpy |-> None,
                fd |-> None]
  /\ lib = None /\ plug = None
  /\ fn = [y \in Symbols |-> None]
  /\ cells = [k \in Cells |-> [state |-> "none", fd |-> None, dir |-> None]]
  /\ fdtab = [n \in Fds |-> None]
  /\ pending = [s \in Cells |-> 0]
  /\ app = Outside("none")
  /\ kids = [k \in Kids |-> None]
  /\ exit_signal = 0
  /\ input = [open |-> TRUE, read |-> "other"]
  /\ fate = "up"
  /\ moved = FALSE /\ disturbed = FALSE /\ failed = {}

-----------------------------------------------------------------------------
\* The loader: reload_libplug(), then plug_init() by itself or in plug_post_load().

Ends(how)   == fate' = how /\ UNCHANGED <<threads, memory, kernel, outside, moved, disturbed>>
Fails(call) == failed' = failed \cup {call}
At(place)   == fate = "up" /\ loader.pc = place
Goto(place) == loader' = [loader EXCEPT !.pc = place]

Dlclose ==
  /\ At("dlclose")
  /\ lib' = None /\ plug' = None
  /\ Goto("dlopen")
  /\ UNCHANGED <<fn, cells, kernel, app, outside, fate, history>>

\* A fresh mapping: its global plug is NULL.
Dlopen ==
  /\ At("dlopen")
  /\ \E b \in Bases :
       /\ lib' = b
       /\ moved' = (moved \/ (loader.stage = "command" /\ b # fn[Update]))
  /\ loader' = [loader EXCEPT !.pc = "dlsym", !.sym = 1]
  /\ UNCHANGED <<fn, plug, cells, kernel, app, outside, fate, disturbed, failed>>

\* dlopen() or a dlsym() fails: main() returns 1; the input thread ends, and
\* leaves the app thread with what is mapped and the pointers as they are.
LoadFails ==
  /\ At("dlopen") \/ At("dlsym")
  /\ Fails("load")
  /\ \/ loader.stage = "command" /\ Goto("ended")
        /\ UNCHANGED <<memory, kernel, app, outside, fate, moved, disturbed>>
     \/ loader.stage # "command" /\ Ends("exited")

Dlsym ==
  /\ At("dlsym")
  /\ fn' = [fn EXCEPT ![loader.sym] = lib]
  /\ loader' = IF loader.sym + 1 \in Symbols
               THEN [loader EXCEPT !.sym = @ + 1]
               ELSE [loader EXCEPT !.pc = "malloc"]
  /\ UNCHANGED <<lib, plug, cells, kernel, app, outside, fate, history>>

\* plug = malloc(sizeof(Plug)): neither member has a value yet.
Malloc ==
  /\ At("malloc")
  /\ plug' = Fresh
  /\ cells' = [cells EXCEPT ![Fresh].state = "allocated"]
  /\ Goto("listen")
  /\ UNCHANGED <<lib, fn, kernel, app, outside, fate, history>>

\* It returns NULL, which nobody looks at: simpleServer() is called all the same ...
MallocFails ==
  /\ At("malloc")
  /\ Fails("memory")
  /\ Goto("nomemory")
  /\ UNCHANGED <<memory, kernel, app, outside, fate, moved, disturbed>>

\* ... and its result stored through NULL (plug.c:54).  The socket it has opened dies
\* with the process.
StoreThroughNull ==
  /\ At("nomemory")
  /\ Ends("null")
  /\ UNCHANGED failed

\* simpleServer(): SO_REUSEPORT lets the new socket listen beside the old one.
Listen ==
  /\ At("listen")
  /\ fdtab' = [fdtab EXCEPT ![LowestFree] = plug]
  /\ loader' = [loader EXCEPT !.pc = "setfd", !.fd = LowestFree]
  /\ UNCHANGED <<memory, pending, app, outside, fate, history>>

\* Mutant: it returns -1 instead.
ListenFailsReturns ==
  /\ At("listen")
  /\ cells' = [cells EXCEPT ![plug].fd = -1]
  /\ Goto("setdir")
  /\ UNCHANGED <<lib, fn, plug, kernel, app, outside, fate, history>>

\* Any of its calls fails: exit(EXIT_FAILURE).
ListenFails ==
  /\ At("listen") \/ At("nomemory")
  /\ Fails("listen")
  /\ Ends("exited")

SetFd ==
  /\ At("setfd")
  /\ cells' = [cells EXCEPT ![plug].fd = loader.fd]
  /\ loader' = [loader EXCEPT !.pc = "setdir", !.fd = None]
  /\ UNCHANGED <<lib, fn, plug, kernel, app, outside, fate, history>>

\* plug->dir = "./".  The first plug_init() is main()'s: it goes on to store the
\* configured directory and to load the library again.
SetDir ==
  /\ At("setdir")
  /\ IF loader.stage = "first"
     THEN /\ cells' = [cells EXCEPT ![plug].dir = "configured"]
          /\ loader' = [loader EXCEPT !.pc = "dlclose", !.stage = "second", !.cpy = plug]
     ELSE /\ cells' = [cells EXCEPT ![plug].dir = "default"]
          /\ Goto("copydir")
  /\ UNCHANGED <<lib, fn, plug, kernel, app, outside, fate, history>>

\* Mutants: the directory, or the close, is forgotten, or the close meets the new socket.
CopyDirNever ==
  /\ At("copydir")
  /\ Goto("closeold")
  /\ UNCHANGED <<memory, kernel, app, outside, fate, history>>
CloseOldNever ==
  /\ At("closeold")
  /\ Goto("freeold")
  /\ UNCHANGED <<memory, kernel, app, outside, fate, history>>

CloseNew ==
  /\ At("closeold")
  /\ fdtab' = [fdtab EXCEPT ![cells[plug].fd] = None]
  /\ Goto("freeold")
  /\ UNCHANGED <<memory, app, outside, fate, history>>
  /\ pending' = [s \in Cells |-> IF Listening(s)' THEN pending[s] ELSE 0]

CopyDir ==
  /\ At("copydir")
  /\ cells' = [cells EXCEPT ![plug].dir = cells[loader.cpy].dir]
  /\ Goto("closeold")
  /\ UNCHANGED <<lib, fn, plug, kernel, app, outside, fate, history>>

\* A socket that nothing refers to any more drops who waits on it.
Drained == pending' = [s \in Cells |-> IF Listening(s)' THEN pending[s] ELSE 0]

CloseOld ==
  /\ At("closeold")
  /\ fdtab' = [fdtab EXCEPT ![cells[loader.cpy].fd] = None]
  /\ Goto("freeold")
  /\ UNCHANGED <<memory, app, outside, fate, history>>
  /\ Drained

\* Mutant: the library's own pointer is reset with it.
FreeOldAndPlug ==
  /\ At("freeold")
  /\ cells' = [cells EXCEPT ![loader.cpy].state = "freed"]
  /\ plug' = None
  /\ loader' = [loader EXCEPT !.pc = "prompt", !.stage = "command", !.cpy = None]
  /\ app' = IF loader.stage = "second" THEN [app EXCEPT !.pc = "loop"] ELSE app
  /\ UNCHANGED <<lib, fn, kernel, outside, fate, history>>

\* free(cpy).  After main()'s own reload the threads start.
FreeOld ==
  /\ At("freeold")
  /\ cells' = [cells EXCEPT ![loader.cpy].state = "freed"]
  /\ loader' = [loader EXCEPT !.pc = "prompt", !.stage = "command", !.cpy = None]
  /\ app' = IF loader.stage = "second" THEN [app EXCEPT !.pc = "loop"] ELSE app
  /\ UNCHANGED <<lib, fn, plug, kernel, outside, fate, history>>

\* plug_pre_load(), with which a reload begins.
BeginReload ==
  /\ At("prompt") /\ Fresh \in Cells
  /\ loader' = [loader EXCEPT !.pc = "dlclose", !.cpy = plug]
  /\ disturbed' = (disturbed \/ ~Idle)
  /\ UNCHANGED <<memory, pending, app, kids, exit_signal, fate, moved, failed>>

\* What the user types: "reload", ...
ReloadTyped ==
  /\ input.open
  /\ input' = [input EXCEPT !.read = "reload"]
  /\ BeginReload

\* Mutant: plug_pre_load() already closes the socket.
ReloadCommandCloses ==
  /\ ReloadTyped
  /\ fdtab' = [fdtab EXCEPT ![cells[plug].fd] = None]

ReloadCommand ==
  /\ ReloadTyped
  /\ UNCHANGED fdtab

\* ... "clear" or anything else, which does nothing but replace what read[] held, ...
OtherCommand ==
  /\ At("prompt") /\ input.open
  /\ input' = [input EXCEPT !.read = "other"]
  /\ UNCHANGED <<threads, memory, kernel, kids, exit_signal, fate, history>>

\* ... "exit", ...
ExitCommand ==
  /\ At("prompt") /\ input.open
  /\ exit_signal' = 1
  /\ Goto("ended")
  /\ UNCHANGED <<memory, kernel, app, kids, input, fate, history>>

\* ... or Ctrl+D.
EndOfInput ==
  /\ At("prompt") /\ input.open
  /\ input' = [input EXCEPT !.open = FALSE]
  /\ UNCHANGED <<threads, memory, kernel, kids, exit_signal, fate, history>>

\* fscanf() fails from then on, nobody looks, and read[] keeps its word: "reload" is
\* obeyed again, as often as the thread runs; all other words make it spin.
ReloadAgain ==
  /\ ~input.open /\ input.read = "reload"
  /\ BeginReload
  /\ UNCHANGED <<input, fdtab>>

\* Both threads are joined: plug_free(), and main() returns.
FreePlug ==
  /\ fate = "up" /\ app.pc = "done" /\ loader.pc = "ended"
  /\ cells' = [cells EXCEPT ![plug].state = "freed"]
  /\ fate' = "exited"
  /\ UNCHANGED <<threads, lib, fn, plug, kernel, outside, history>>

LoaderStep ==
  \/ Dlclose \/ Dlopen \/ LoadFails \/ Dlsym
  \/ Malloc \/ MallocFails \/ StoreThroughNull \/ Listen \/ ListenFails
  \/ SetFd \/ SetDir \/ CopyDir \/ CloseOld \/ FreeOld \/ ReloadAgain \/ FreePlug

-----------------------------------------------------------------------------
\* The app thread.

InLibrary == {"enter", "deref", "accept", "error", "fork", "close"}

\* It runs code of the library where it was when plug_update() was called.
Mapped == app.base = lib
InCode(place) == fate = "up" /\ app.pc = place /\ Mapped

Loop ==
  /\ fate = "up" /\ app.pc = "loop"
  /\ app' = IF exit_signal = 0
            THEN [app EXCEPT !.pc = "enter", !.base = fn[Update]]
            ELSE [app EXCEPT !.pc = "done"]
  /\ UNCHANGED <<loader, memory, kernel, outside, fate, history>>

\* Its code is gone: the next instruction faults, or is another function's.
Unmapped ==
  /\ fate = "up" /\ app.pc \in InLibrary /\ ~Mapped
  /\ Ends("unmapped")
  /\ UNCHANGED failed

\* plug->server_fd: the pointer is read, then what it points to.
LoadPlug ==
  /\ InCode("enter")
  /\ app' = [app EXCEPT !.pc = "deref", !.p = plug]
  /\ UNCHANGED <<loader, memory, kernel, outside, fate, history>>

NullPlug ==
  /\ InCode("deref") /\ app.p = None
  /\ Ends("null")
  /\ UNCHANGED failed

\* Before plug_init() has stored it, and after free(), server_fd is any number.
LoadServerFd ==
  /\ InCode("deref") /\ app.p # None
  /\ \E n \in IF cells[app.p].state = "allocated" /\ cells[app.p].fd # None
              THEN {cells[app.p].fd} ELSE Fds \cup {None} :
       app' = [app EXCEPT !.pc = "accept", !.sfd = n]
  /\ UNCHANGED <<loader, memory, kernel, outside, fate, history>>

\* accept() sets the lowest free number aside, and blocks.
AcceptBlocks ==
  /\ InCode("accept") /\ app.sfd # None /\ fdtab[app.sfd] \in Cells
  /\ app' = [app EXCEPT !.pc = "blocked", !.sock = fdtab[app.sfd], !.cfd = LowestFree]
  /\ fdtab' = [fdtab EXCEPT ![LowestFree] = Reserved]
  /\ UNCHANGED <<loader, memory, pending, outside, fate, history>>

\* accept() fails, for the number is no listening socket or for any other reason, ...
AcceptFails ==
  /\ InCode("accept")
  /\ app' = [app EXCEPT !.pc = "error"]
  /\ UNCHANGED <<loader, memory, kernel, outside, fate, history>>

\* ... and plug_update() returns.
AcceptFailed ==
  /\ InCode("error")
  /\ Returns
  /\ UNCHANGED <<loader, memory, kernel, outside, fate, history>>

\* The blocked call holds its socket, even if the loader has closed the
\* descriptor since: it returns a connection of that socket, and lets go of it.
AcceptReturns ==
  /\ fate = "up" /\ app.pc = "blocked" /\ pending[app.sock] > 0
  /\ app' = [app EXCEPT !.pc = "fork", !.sock = None]
  /\ fdtab' = [fdtab EXCEPT ![app.cfd] = Client]
  /\ disturbed' = (disturbed \/ Reloading)
  /\ UNCHANGED <<loader, memory, outside, fate, moved, failed>>
  /\ pending' = [s \in Cells |->
       IF ~Listening(s)' THEN 0 ELSE IF s = app.sock THEN pending[s] - 1 ELSE pending[s]]

\* It may as well return an error (a signal, or a connection aborted meanwhile).
AcceptInterrupted ==
  /\ fate = "up" /\ app.pc = "blocked"
  /\ app' = [app EXCEPT !.pc = "error", !.sock = None, !.cfd = None]
  /\ fdtab' = [fdtab EXCEPT ![app.cfd] = None]
  /\ disturbed' = (disturbed \/ Reloading)
  /\ UNCHANGED <<loader, memory, outside, fate, moved, failed>>
  /\ Drained

\* Mutant: the child does not close server_fd.
ForkKeepsServerFd ==
  /\ InCode("fork")
  /\ \E k \in Kids :
       /\ kids[k] = None
       /\ kids' = [kids EXCEPT ![k] =
            [dir  |-> IF plug = None THEN "null"
                      ELSE IF cells[plug].dir = None THEN "garbage" ELSE cells[plug].dir,
             held |-> {fdtab[n] : n \in Fds} \cap Cells]]
  /\ app' = [app EXCEPT !.pc = "close"]
  /\ UNCHANGED <<loader, memory, kernel, exit_signal, input, fate, history>>

\* The child has the parent's memory and descriptors; it closes the number in
\* server_fd and serves the directory it finds through plug, or faults.
Fork ==
  /\ InCode("fork")
  /\ \E k \in Kids :
       /\ kids[k] = None
       /\ kids' = [kids EXCEPT ![k] =
            [dir  |-> IF plug = None THEN "null"
                      ELSE IF cells[plug].dir = None THEN "garbage" ELSE cells[plug].dir,
             held |-> {fdtab[n] : n \in Fds \ {app.sfd}} \cap Cells]]
  /\ app' = [app EXCEPT !.pc = "close"]
  /\ UNCHANGED <<loader, memory, kernel, exit_signal, input, fate, history>>

ForkFails ==
  /\ InCode("fork")
  /\ app' = [app EXCEPT !.pc = "close"]
  /\ UNCHANGED <<loader, memory, kernel, outside, fate, history>>

\* Mutant: it closes the listening socket.
CloseClientWrongFd ==
  /\ InCode("close")
  /\ fdtab' = [fdtab EXCEPT ![app.sfd] = None]
  /\ Returns
  /\ UNCHANGED <<loader, memory, pending, outside, fate, history>>

\* close(client_fd), and plug_update() returns.
CloseClient ==
  /\ InCode("close")
  /\ fdtab' = [fdtab EXCEPT ![app.cfd] = None]
  /\ Returns
  /\ UNCHANGED <<loader, memory, pending, outside, fate, history>>

AppStep ==
  \/ Loop \/ Unmapped \/ LoadPlug \/ NullPlug \/ LoadServerFd \/ AcceptBlocks
  \/ AcceptFails \/ AcceptFailed \/ AcceptReturns \/ Fork \/ ForkFails \/ CloseClient

-----------------------------------------------------------------------------
\* The environment: a client, whose connection the kernel gives to any of the
\* sockets listening on the port; and the end of a child.

Connect ==
  /\ fate = "up"
  /\ \E s \in Cells :
       /\ Listening(s) /\ pending[s] < MaxPending
       /\ pending' = [pending EXCEPT ![s] = @ + 1]
  /\ UNCHANGED <<threads, memory, fdtab, outside, fate, history>>

KidExits ==
  /\ fate = "up"
  /\ \E k \in Kids : kids[k] # None /\ kids' = [kids EXCEPT ![k] = None]
  /\ UNCHANGED <<threads, memory, fdtab, exit_signal, input, fate, history>>
  /\ Drained

Next ==
  \/ Dlclose \/ Dlopen \/ LoadFails \/ Dlsym
  \/ Malloc \/ MallocFails \/ StoreThroughNull \/ Listen \/ ListenFails
  \/ SetFd \/ SetDir \/ CopyDir \/ CloseOld \/ FreeOld
  \/ ReloadCommand \/ OtherCommand \/ ExitCommand \/ EndOfInput \/ ReloadAgain \/ FreePlug
  \/ Loop \/ Unmapped \/ LoadPlug \/ NullPlug \/ LoadServerFd \/ AcceptBlocks
  \/ AcceptFails \/ AcceptFailed \/ AcceptReturns \/ AcceptInterrupted
  \/ Fork \/ ForkFails \/ CloseClient
  \/ Connect \/ KidExits

\* Both threads are scheduled, and an accept() that can succeed does not fail for ever;
\* nothing is assumed of the user, the clients and the signals.
Spec ==
  /\ Init /\ [][Next]_vars
  /\ WF_vars(LoaderStep) /\ WF_vars(AppStep) /\ SF_vars(AcceptBlocks) /\ SF_vars(AcceptReturns)

-----------------------------------------------------------------------------

TypeOK ==
  /\ loader \in [pc : {"dlclose", "dlopen", "dlsym", "malloc", "nomemory", "listen", "setfd",
                       "setdir", "copydir", "closeold", "freeold", "prompt", "ended"},
                 stage : {"first", "second", "command"}, sym : Symbols,
                 cpy : Cells \cup {None}, fd : Fds \cup {None}]
  /\ lib \in Bases \cup {None} /\ plug \in Cells \cup {None}
  /\ fn \in [Symbols -> Bases \cup {None}]
  /\ cells \in [Cells -> [state : {"none", "allocated", "freed"}, fd : Fds \cup {None},
                          dir : {None, "default", "configured"}]]
  /\ fdtab \in [Fds -> Cells \cup {None, Client, Reserved}]
  /\ pending \in [Cells -> 0 .. MaxPending]
  /\ app \in [pc : InLibrary \cup {"none", "loop", "blocked", "done"},
              base : Bases \cup {None}, p : Cells \cup {None}, sfd : Fds \cup {None},
              sock : Cells \cup {None}, cfd : Fds \cup {None}]
  /\ kids \in [Kids -> {None} \cup [dir : {"null", "garbage", "default", "configured"},
                                   held : SUBSET Cells]]
  /\ input \in [open : BOOLEAN, read : {"reload", "other"}]
  /\ exit_signal \in {0, 1} /\ fate \in {"up", "exited", "unmapped", "null"}
  /\ moved \in BOOLEAN /\ disturbed \in BOOLEAN /\ failed \subseteq Calls

\* From the start of the threads to the end, through every reload, the server has
\* a descriptor of a socket that listens on the port: plug_post_load() opens the
\* new one (plug.c:62) before it closes the old one (plug.c:66).
PortAttended ==
  fate = "up" /\ loader.stage = "command" => \E n \in Fds : fdtab[n] \in Cells

\* Between commands nothing of an earlier load is left and nothing of the
\* configuration is lost: one structure, with the directory main() was given and
\* the only listening descriptor; all the others are freed.
Settled ==
  fate = "up" /\ loader.pc = "prompt" =>
    /\ plug \in Cells
    /\ cells[plug].state = "allocated" /\ cells[plug].dir = "configured"
    /\ \A k \in Used \ {plug} : cells[k].state = "freed"
    /\ {n \in Fds : fdtab[n] \in Cells} = {cells[plug].fd}
    /\ fdtab[cells[plug].fd] = plug

\* The two threads never close a number the other one meanwhile uses: the loader
\* closes the old socket (plug.c:66), the app thread its own client (plug.c:46).
RightDescriptor ==
  /\ loader.pc = "closeold" => fdtab[cells[loader.cpy].fd] = loader.cpy
  /\ app.pc \in {"fork", "close"} => fdtab[app.cfd] = Client

\* Whatever ends the process has one of these causes.  It runs into code that is gone
\* (plug.c:28 and after) only if a reload moved the library, could not load it, or met
\* the app thread outside accept().  It follows a NULL (plug.c:22, 54), wherever the
\* library is, only after one of the last two or a failed malloc().  It exits only on
\* "exit", when simpleServer() fails, at startup or in a reload, or when the library
\* cannot be loaded at startup.  So a server that each reload finds, and leaves, in
\* accept() survives them all if no call fails and the library comes back in its place.
IdleReloadSafe ==
  /\ fate = "unmapped" => moved \/ disturbed \/ LoadFailed
  /\ fate = "null" => disturbed \/ LoadFailed \/ "memory" \in failed
  /\ fate = "exited" => \/ exit_signal = 1 \/ "listen" \in failed
                        \/ LoadFailed /\ loader.stage # "command"

\* The number that the app thread calls accept() with (plug.c:22, 27) is, at the time of
\* the call, the descriptor of the socket of the structure in use, after any number of
\* reloads, unless one of them met the thread outside accept().
AcceptsOnListener ==
  app.pc = "accept" /\ ~disturbed => app.sfd # None /\ plug # None /\ fdtab[app.sfd] = plug

\* From dlclose() until plug.c:63 the directory is not there: the library's global is
\* NULL, or its structure has not got it yet.
DirMissing ==
  loader.pc \in {"dlopen", "dlsym", "malloc", "nomemory", "listen", "setfd", "setdir", "copydir"}

\* A child that is forked while no reload is at these places, and none has failed to
\* load the library, serves the directory main() was given: in the middle of a reload,
\* before it and after it.
ServesConfigured ==
  [][\A k \in Kids :
       kids[k] = None /\ kids'[k] # None =>
         kids'[k].dir = "configured" \/ DirMissing \/ LoadFailed]_vars

\* A child lets go of the listening socket (plug.c:41), although the number it closes was
\* read before accept(): only in a process that has reloaded the library can it keep one,
\* and then it keeps one only.
ChildLetsGo ==
  \A k \in Kids :
    kids[k] # None /\ kids[k].held # {} => Cardinality(Used) > 2 /\ Cardinality(kids[k].held) = 1

\* main.c:26: "Type 'reload' to reload the plug".  A reload of an idle server in
\* which no call fails leaves a server that still runs.
SurvivesReload == fate \in {"unmapped", "null"} => disturbed \/ failed # {}

\* plug.c:68: "Reloaded Global State".  After a reload of an idle server whoever waits
\* on a listening socket of it is accepted, unless the server is ended or stdin is.
AcceptedAfterReload ==
  \A s \in Cells :
    pending[s] > 0 /\ ~disturbed ~>
      pending[s] = 0 \/ disturbed \/ fate # "up" \/ exit_signal = 1 \/ ~input.open
=============================================================================
