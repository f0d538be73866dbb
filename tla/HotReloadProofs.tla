--------------------------- MODULE HotReloadProofs ---------------------------
(***************************************************************************)
(* Proofs about HotReload, for any number of reloads, children, waiting    *)
(* connections and load addresses.                                         *)
(*                                                                         *)
(* The properties speak of the state between commands, or of what the app  *)
(* thread meets in the middle of a reload.  The invariant says, for each   *)
(* place of the loader, which structures there are and what is in them     *)
(* (Structures), which descriptors are open and whose (Sockets), and, as   *)
(* long as no reload has met the app thread outside of accept() or moved   *)
(* the library, that the thread's return address is still good (Code).     *)
(***************************************************************************)
EXTENDS HotReload, FiniteSetTheorems, TLAPS

\* How often plug_init() has been called.
Loads == Cardinality(Used)

\* The places before and after the new structure exists; a loader that has ended and
\* has a cpy is one that could not load the library.
Before == {"dlclose", "dlopen", "dlsym", "malloc", "nomemory"}
After  == {"listen", "setfd", "setdir", "copydir", "closeold", "freeold"}
Resting == loader.pc = "prompt" \/ (loader.pc = "ended" /\ loader.cpy = None)
HasNew == loader.pc \in After \/ Resting
InCall == app.pc \in {"blocked", "fork", "close"}

\* main() loads twice before the threads start; cpy is what the loader has to free.
Stages ==
  /\ loader.stage = "first" =>
       /\ loader.pc \in Before \cup {"listen", "setfd", "setdir"} /\ loader.cpy = None
       /\ Loads = IF loader.pc \in Before THEN 0 ELSE 1
  /\ loader.stage = "second" =>
       /\ loader.pc \in Before \cup After /\ loader.cpy \in Cells
       /\ Loads = IF loader.pc \in Before THEN 1 ELSE 2
  /\ loader.stage = "command" =>
       /\ loader.cpy = None <=> Resting
       /\ Loads >= 2
       /\ loader.pc \in Before => Loads < MaxReloads + 2
       /\ loader.pc \in After => Loads > 2
  /\ loader.pc = "ended" => (loader.cpy = None <=> exit_signal = 1)
  /\ exit_signal = 1 => loader.pc = "ended"
  /\ app.pc = "none" <=> loader.stage # "command"
  /\ app.pc = "done" => exit_signal = 1
  /\ app.pc = "blocked" => app.sock \in Cells

\* The structures are numbered as plug_init() makes them.
Numbered == \E n \in 0 .. MaxReloads + 2 : Used = 1 .. n

\* The structure in use, the one that will be, and nothing else.
Structures ==
  /\ loader.cpy # None =>
       loader.cpy \in Used /\ cells[loader.cpy].state = "allocated"
       /\ cells[loader.cpy].dir = "configured"
  /\ HasNew => plug \in Used /\ plug # loader.cpy /\ cells[plug].state = "allocated"
  /\ Resting \/ loader.pc \in {"closeold", "freeold"} => cells[plug].dir = "configured"
  /\ ~HasNew => plug = IF loader.pc = "dlclose" THEN loader.cpy ELSE None
  /\ \A k \in Used : k # loader.cpy /\ (HasNew => k # plug) => cells[k].state = "freed"

\* Their sockets, and the one descriptor of the app thread.
OldOpen == loader.cpy # None /\ loader.pc # "freeold"
NewOpen == HasNew /\ loader.pc # "listen"
OldFd   == cells[loader.cpy].fd
NewFd   == IF loader.pc = "setfd" THEN loader.fd ELSE cells[plug].fd
Sockets ==
  /\ OldOpen => OldFd \in Fds /\ fdtab[OldFd] = loader.cpy
  /\ NewOpen => NewFd \in Fds /\ fdtab[NewFd] = plug
  /\ \A n \in Fds : fdtab[n] \in Cells => (OldOpen /\ n = OldFd) \/ (NewOpen /\ n = NewFd)
  /\ \A n \in Fds : fdtab[n] \in {Client, Reserved} => n = app.cfd
  /\ IF InCall
     THEN app.cfd \in Fds /\ fdtab[app.cfd] = IF app.pc = "blocked" THEN Reserved ELSE Client
     ELSE app.cfd = None

\* accept() and socket() take the lowest number that is free, so three are enough; the
\* number in server_fd is one of them, and names the listener until a reload.
Numbers ==
  /\ fdtab[6] = None
  /\ InCall => app.sfd \in 3 .. 5 /\ app.sfd # app.cfd
  /\ InCall /\ Loads = 2 => fdtab[app.sfd] \in Cells

\* The app thread's code is where it was, if no reload moved the library; all of
\* main's pointers point there when a load is complete.
Code ==
  /\ loader.pc = "dlsym" => \A y \in Symbols : y < loader.sym => fn[y] = lib
  /\ loader.pc = "malloc" \/ HasNew => \A y \in Symbols : fn[y] = lib
  /\ ~moved /\ loader.stage = "command" /\ loader.pc = "dlsym" => lib = fn[Update]
  /\ ~moved /\ app.pc \in InLibrary \cup {"blocked"} => app.base = fn[Update]

\* As long as nothing was disturbed the app thread is in accept() while a reload lasts,
\* and what it has read of plug is the structure in use and its descriptor.
Undisturbed ==
  /\ ~disturbed /\ Reloading => Idle
  /\ ~disturbed /\ app.pc = "deref" => app.p = plug
  /\ ~disturbed /\ app.pc = "accept" => Resting /\ app.sfd = cells[plug].fd

\* A running process has met no failure but that which ended the loader, or is about to.
Failures ==
  /\ LoadFailed <=> loader.pc = "ended" /\ exit_signal = 0
  /\ loader.pc = "nomemory" => "memory" \in failed

Strong == Numbered /\ Stages /\ Structures /\ Sockets /\ Numbers /\ Code /\ Undisturbed /\ Failures
IInv == /\ TypeOK /\ (fate = "up" => Strong)
        /\ RightDescriptor /\ IdleReloadSafe /\ AcceptsOnListener /\ ChildLetsGo

-----------------------------------------------------------------------------
\* The records, field by field.

LoaderT == [pc : Before \cup After \cup {"prompt", "ended"}, stage : {"first", "second", "command"},
            sym : Symbols, cpy : Cells \cup {None}, fd : Fds \cup {None}]
AppT == [pc : InLibrary \cup {"none", "loop", "blocked", "done"}, base : Bases \cup {None},
         p : Cells \cup {None}, sfd : Fds \cup {None}, sock : Cells \cup {None}, cfd : Fds \cup {None}]
CellT == [state : {"none", "allocated", "freed"}, fd : Fds \cup {None},
          dir : {None, "default", "configured"}]

LoaderBecomes(place, stage, sym, cpy, fd) ==
  /\ loader' \in LoaderT
  /\ loader'.pc = place /\ loader'.stage = stage /\ loader'.sym = sym
  /\ loader'.cpy = cpy /\ loader'.fd = fd
AppBecomes(place, base, p, sfd, sock, cfd) ==
  /\ app' \in AppT
  /\ app'.pc = place /\ app'.base = base /\ app'.p = p
  /\ app'.sfd = sfd /\ app'.sock = sock /\ app'.cfd = cfd
CellBecomes(k, state, fd, dir) ==
  /\ cells' \in [Cells -> CellT]
  /\ cells'[k].state = state /\ cells'[k].fd = fd /\ cells'[k].dir = dir
  /\ \A j \in Cells : j # k => cells'[j] = cells[j]

Places == Before \cup After \cup {"prompt", "ended"}

\* The loader goes to its next place, ...
LEMMA GotoForm ==
  ASSUME loader \in LoaderT, NEW place \in Places, loader' = [loader EXCEPT !.pc = place]
  PROVE  LoaderBecomes(place, loader.stage, loader.sym, loader.cpy, loader.fd)
BY DEF LoaderT, LoaderBecomes, Places

\* ... at the first symbol, ...
LEMMA FirstForm ==
  ASSUME loader \in LoaderT, NEW place \in Places,
         loader' = [loader EXCEPT !.pc = place, !.sym = 1]
  PROVE  LoaderBecomes(place, loader.stage, 1, loader.cpy, loader.fd)
<1>1. 1 \in Symbols
  BY DEF Symbols
<1> QED
  BY <1>1 DEF LoaderT, LoaderBecomes, Places

\* ... or on to the next, ...
LEMMA SymForm ==
  ASSUME loader \in LoaderT, NEW sym \in Symbols, loader' = [loader EXCEPT !.sym = sym]
  PROVE  LoaderBecomes(loader.pc, loader.stage, sym, loader.cpy, loader.fd)
BY DEF LoaderT, LoaderBecomes

\* ... and keeps the new descriptor ...
LEMMA FdForm ==
  ASSUME loader \in LoaderT, NEW place \in Places, NEW fd \in Fds \cup {None},
         loader' = [loader EXCEPT !.pc = place, !.fd = fd]
  PROVE  LoaderBecomes(place, loader.stage, loader.sym, loader.cpy, fd)
BY DEF LoaderT, LoaderBecomes, Places

\* ... or the old structure ...
LEMMA CpyForm ==
  ASSUME loader \in LoaderT, NEW place \in Places, NEW cpy \in Cells \cup {None},
         loader' = [loader EXCEPT !.pc = place, !.cpy = cpy]
  PROVE  LoaderBecomes(place, loader.stage, loader.sym, cpy, loader.fd)
BY DEF LoaderT, LoaderBecomes, Places

\* ... until the next load.
LEMMA StageForm ==
  ASSUME loader \in LoaderT, NEW place \in Places, NEW cpy \in Cells \cup {None},
         NEW stage \in {"second", "command"},
         loader' = [loader EXCEPT !.pc = place, !.stage = stage, !.cpy = cpy]
  PROVE  LoaderBecomes(place, stage, loader.sym, cpy, loader.fd)
BY DEF LoaderT, LoaderBecomes, Places

AppPlaces == InLibrary \cup {"loop", "blocked", "done"}

\* The app thread goes to its next place, ...
LEMMA AppGotoForm ==
  ASSUME app \in AppT, NEW place \in AppPlaces,
         app' = [app EXCEPT !.pc = place]
  PROVE  AppBecomes(place, app.base, app.p, app.sfd, app.sock, app.cfd)
BY DEF AppT, AppBecomes, AppPlaces

\* ... keeps its return address, ...
LEMMA BaseForm ==
  ASSUME app \in AppT, NEW place \in AppPlaces, NEW base \in Bases \cup {None},
         app' = [app EXCEPT !.pc = place, !.base = base]
  PROVE  AppBecomes(place, base, app.p, app.sfd, app.sock, app.cfd)
BY DEF AppT, AppBecomes, AppPlaces

\* ... what it has read of plug, ...
LEMMA PForm ==
  ASSUME app \in AppT, NEW place \in AppPlaces, NEW p \in Cells \cup {None},
         app' = [app EXCEPT !.pc = place, !.p = p]
  PROVE  AppBecomes(place, app.base, p, app.sfd, app.sock, app.cfd)
BY DEF AppT, AppBecomes, AppPlaces

\* ... and of server_fd, ...
LEMMA SfdForm ==
  ASSUME app \in AppT, NEW place \in AppPlaces, NEW sfd \in Fds \cup {None},
         app' = [app EXCEPT !.pc = place, !.sfd = sfd]
  PROVE  AppBecomes(place, app.base, app.p, sfd, app.sock, app.cfd)
BY DEF AppT, AppBecomes, AppPlaces

\* ... waits in accept(), ...
LEMMA CallForm ==
  ASSUME app \in AppT, NEW place \in AppPlaces,
         NEW sock \in Cells \cup {None}, NEW cfd \in Fds \cup {None},
         app' = [app EXCEPT !.pc = place, !.sock = sock, !.cfd = cfd]
  PROVE  AppBecomes(place, app.base, app.p, app.sfd, sock, cfd)
BY DEF AppT, AppBecomes, AppPlaces

\* ... comes out of it, ...
LEMMA SockForm ==
  ASSUME app \in AppT, NEW place \in AppPlaces, NEW sock \in Cells \cup {None},
         app' = [app EXCEPT !.pc = place, !.sock = sock]
  PROVE  AppBecomes(place, app.base, app.p, app.sfd, sock, app.cfd)
BY DEF AppT, AppBecomes, AppPlaces

\* ... and forgets them all.
LEMMA ReturnForm ==
  Returns => AppBecomes("loop", None, None, None, None, None)
BY DEF AppT, AppBecomes, Returns, Outside

\* What those to the structures do.
LEMMA CellForms ==
  ASSUME cells \in [Cells -> CellT], NEW k \in Cells, NEW state \in {"allocated", "freed"},
         NEW fd \in Fds \cup {None}, NEW dir \in {None, "default", "configured"}
  PROVE  /\ cells' = [cells EXCEPT ![k].state = state] =>
              CellBecomes(k, state, cells[k].fd, cells[k].dir)
         /\ cells' = [cells EXCEPT ![k].fd = fd] =>
              CellBecomes(k, cells[k].state, fd, cells[k].dir)
         /\ cells' = [cells EXCEPT ![k].dir = dir] =>
              CellBecomes(k, cells[k].state, cells[k].fd, dir)
BY DEF CellT, CellBecomes

\* The descriptors in use are three at most.
LEMMA LowestFreeFacts ==
  ASSUME TypeOK, Sockets
  PROVE  LowestFree \in Fds /\ fdtab[LowestFree] = None
         /\ \A n \in Fds : fdtab[n] = None => LowestFree <= n
<1>1. \A n \in Fds : fdtab[n] \in Cells \cup {Client, Reserved, None}
  BY DEF TypeOK
<1>2. \A n \in Fds : fdtab[n] # None => n \in {OldFd, NewFd, app.cfd}
  BY <1>1 DEF Sockets
<1>3. FreeFds # {} /\ FreeFds \subseteq {3, 4, 5, 6}
  BY <1>2 DEF FreeFds, Fds
<1>4. \E n \in FreeFds : \A m \in FreeFds : n <= m
  <2>1. CASE 3 \in FreeFds
    BY <1>3, <2>1
  <2>2. CASE 3 \notin FreeFds /\ 4 \in FreeFds
    BY <1>3, <2>2
  <2>3. CASE 3 \notin FreeFds /\ 4 \notin FreeFds /\ 5 \in FreeFds
    BY <1>3, <2>3
  <2>4. CASE FreeFds = {6}
    BY <2>4
  <2> QED
    <3>1. FreeFds = {6} \/ 3 \in FreeFds \/ 4 \in FreeFds \/ 5 \in FreeFds
      BY <1>3
    <3> QED
      BY <2>1, <2>2, <2>3, <2>4, <3>1
<1>5. LowestFree \in FreeFds /\ \A m \in FreeFds : LowestFree <= m
  BY <1>4 DEF LowestFree
<1> QED
  BY <1>5 DEF FreeFds

\* The number of loads counts the structures.
LEMMA Count ==
  ASSUME NEW n \in Nat, Used = 1 .. n
  PROVE  Loads = n /\ Fresh = n + 1
BY FS_Interval DEF Loads, Fresh
-----------------------------------------------------------------------------
\* What the steps do, field by field.

\* TypeOK, by the names of the records.
LEMMA RecordTypes ==
  /\ TypeOK => loader \in LoaderT /\ app \in AppT /\ cells \in [Cells -> CellT]
  /\ TypeOK => lib \in Bases \cup {None} /\ fn \in [Symbols -> Bases \cup {None}]
BY DEF TypeOK, LoaderT, AppT, CellT, Before, After

\* Where no structure is made the loads stay as they are.
LEMMA SameLoads ==
  ASSUME \A k \in Cells : cells'[k].state = "none" <=> cells[k].state = "none"
  PROVE  Used' = Used /\ Loads' = Loads
<1>1. Used' = Used
  BY DEF Used
<1> QED
  BY <1>1 DEF Loads

\* A change to a structure that is there makes none.
LEMMA OldCell ==
  ASSUME TypeOK, NEW k \in Used, NEW state \in {"allocated", "freed"}, NEW fd, NEW dir,
         CellBecomes(k, state, fd, dir)
  PROVE  Used' = Used /\ Loads' = Loads
<1>1. \A j \in Cells : cells'[j].state = "none" <=> cells[j].state = "none"
  BY DEF CellBecomes, Used
<1> QED
  BY <1>1, SameLoads

\* Dlclose.
LEMMA DlcloseFacts ==
  ASSUME TypeOK, Dlclose
  PROVE  /\ loader.pc = "dlclose" /\ lib' = None /\ plug' = None
         /\ LoaderBecomes("dlopen", loader.stage, loader.sym, loader.cpy, loader.fd)
         /\ UNCHANGED <<fn, cells, fdtab, pending, app, kids, exit_signal, input, fate,
                        moved, disturbed, failed>>
<1>1. loader \in LoaderT /\ "dlopen" \in Places
  BY RecordTypes DEF Before, Places
<1> QED
  BY <1>1, GotoForm DEF Dlclose, At, Goto, kernel, outside, history

\* Dlopen.
LEMMA DlopenFacts ==
  ASSUME TypeOK, Dlopen
  PROVE  /\ loader.pc = "dlopen" /\ lib' \in Bases
         /\ moved' = (moved \/ (loader.stage = "command" /\ lib' # fn[Update]))
         /\ LoaderBecomes("dlsym", loader.stage, 1, loader.cpy, loader.fd)
         /\ UNCHANGED <<fn, plug, cells, fdtab, pending, app, kids, exit_signal, input, fate,
                        disturbed, failed>>
<1>1. loader \in LoaderT /\ "dlsym" \in Places /\ 1 \in Symbols
  BY RecordTypes DEF Before, Places, Symbols
<1>2. /\ loader.pc = "dlopen" /\ lib' \in Bases
      /\ moved' = (moved \/ (loader.stage = "command" /\ lib' # fn[Update]))
      /\ loader' = [loader EXCEPT !.pc = "dlsym", !.sym = 1]
      /\ UNCHANGED <<fn, plug, cells, fdtab, pending, app, kids, exit_signal, input, fate,
                     disturbed, failed>>
  BY DEF Dlopen, At, kernel, outside, history
<1>3. LoaderBecomes("dlsym", loader.stage, 1, loader.cpy, loader.fd)
  BY <1>1, <1>2, FirstForm
<1> QED
  BY <1>2, <1>3

\* LoadFails, on a command.
LEMMA LoadFailsFacts ==
  ASSUME TypeOK, LoadFails, fate' = "up"
  PROVE  /\ loader.pc \in {"dlopen", "dlsym"} /\ loader.stage = "command"
         /\ LoaderBecomes("ended", loader.stage, loader.sym, loader.cpy, loader.fd)
         /\ failed' = failed \cup {"load"}
         /\ UNCHANGED <<lib, fn, plug, cells, fdtab, pending, app, kids, exit_signal, input, fate,
                        moved, disturbed>>
<1>1. loader \in LoaderT /\ "ended" \in Places
  BY RecordTypes DEF Places
<1> QED
  BY <1>1, GotoForm DEF LoadFails, At, Goto, Fails, Ends, memory, kernel, outside

\* MallocFails.
LEMMA MallocFailsFacts ==
  ASSUME TypeOK, MallocFails
  PROVE  /\ loader.pc = "malloc"
         /\ LoaderBecomes("nomemory", loader.stage, loader.sym, loader.cpy, loader.fd)
         /\ failed' = failed \cup {"memory"}
         /\ UNCHANGED <<lib, fn, plug, cells, fdtab, pending, app, kids, exit_signal, input, fate,
                        moved, disturbed>>
<1>1. loader \in LoaderT /\ "nomemory" \in Places
  BY RecordTypes DEF Places, Before
<1> QED
  BY <1>1, GotoForm DEF MallocFails, At, Goto, Fails, memory, kernel, outside

\* Dlsym.
LEMMA DlsymFacts ==
  ASSUME TypeOK, Dlsym
  PROVE  /\ loader.pc = "dlsym" /\ loader.sym \in Symbols
         /\ fn' \in [Symbols -> Bases \cup {None}] /\ fn'[loader.sym] = lib
         /\ \A y \in Symbols : y # loader.sym => fn'[y] = fn[y]
         /\ IF loader.sym + 1 \in Symbols
            THEN LoaderBecomes("dlsym", loader.stage, loader.sym + 1, loader.cpy, loader.fd)
            ELSE LoaderBecomes("malloc", loader.stage, loader.sym, loader.cpy, loader.fd)
         /\ UNCHANGED <<lib, plug, cells, fdtab, pending, app, kids, exit_signal, input, fate,
                        moved, disturbed, failed>>
<1>1. loader \in LoaderT /\ loader.sym \in Symbols /\ loader.pc \in Places
  BY RecordTypes DEF LoaderT, Places
<1>2. "malloc" \in Places
  BY DEF Before, Places
<1>3. /\ loader.pc = "dlsym" /\ fn' = [fn EXCEPT ![loader.sym] = lib]
      /\ loader' = IF loader.sym + 1 \in Symbols
                   THEN [loader EXCEPT !.sym = loader.sym + 1]
                   ELSE [loader EXCEPT !.pc = "malloc"]
      /\ UNCHANGED <<lib, plug, cells, fdtab, pending, app, kids, exit_signal, input, fate,
                     moved, disturbed, failed>>
  BY DEF Dlsym, At, kernel, outside, history
<1>4. /\ fn' \in [Symbols -> Bases \cup {None}] /\ fn'[loader.sym] = lib
      /\ \A y \in Symbols : y # loader.sym => fn'[y] = fn[y]
  BY <1>1, <1>3, RecordTypes
<1>5. loader.sym + 1 \in Symbols =>
        LoaderBecomes("dlsym", loader.stage, loader.sym + 1, loader.cpy, loader.fd)
  BY <1>1, <1>3, SymForm
<1>6. loader.sym + 1 \notin Symbols =>
        LoaderBecomes("malloc", loader.stage, loader.sym, loader.cpy, loader.fd)
  BY <1>1, <1>2, <1>3, GotoForm
<1> QED
  BY <1>1, <1>3, <1>4, <1>5, <1>6

\* Malloc: one structure more.
LEMMA MallocFacts ==
  ASSUME TypeOK, Numbered, Stages, Malloc
  PROVE  /\ loader.pc = "malloc" /\ plug' \in Cells /\ plug' \notin Used
         /\ CellBecomes(plug', "allocated", cells[plug'].fd, cells[plug'].dir)
         /\ Used' = Used \cup {plug'} /\ Loads \in Nat /\ Loads' = Loads + 1 /\ Numbered'
         /\ LoaderBecomes("listen", loader.stage, loader.sym, loader.cpy, loader.fd)
         /\ UNCHANGED <<lib, fn, fdtab, pending, app, kids, exit_signal, input, fate,
                        moved, disturbed, failed>>
<1>1. loader \in LoaderT /\ cells \in [Cells -> CellT] /\ "listen" \in Places
  BY RecordTypes DEF After, Places
<1>2. /\ loader.pc = "malloc" /\ plug' = Fresh /\ cells' = [cells EXCEPT ![Fresh].state = "allocated"]
      /\ Goto("listen")
      /\ UNCHANGED <<lib, fn, fdtab, pending, app, kids, exit_signal, input, fate,
                     moved, disturbed, failed>>
  BY DEF Malloc, At, kernel, outside, history
<1>3. PICK n \in 0 .. MaxReloads + 2 : Used = 1 .. n
  BY DEF Numbered
<1>4. n \in Nat /\ Loads = n /\ Fresh = n + 1
  BY <1>3, Count, BoundsAssumption
<1>5. n < MaxReloads + 2
  BY <1>1, <1>2, <1>4, BoundsAssumption DEF Stages, Before, LoaderT
<1>6. Fresh \in Cells /\ Fresh \notin Used
  BY <1>3, <1>4, <1>5, BoundsAssumption DEF Cells
<1>7. CellBecomes(Fresh, "allocated", cells[Fresh].fd, cells[Fresh].dir)
  <2> DEFINE k == Fresh
  <2>1. k \in Cells /\ cells' = [cells EXCEPT ![k].state = "allocated"]
    BY <1>2, <1>6
  <2> HIDE DEF k
  <2>2. CellBecomes(k, "allocated", cells[k].fd, cells[k].dir)
    BY <1>1, <2>1, CellForms
  <2> QED
    BY <2>2 DEF k
<1>8. Used' = Used \cup {Fresh}
  BY <1>6, <1>7 DEF Used, CellBecomes
<1>9. Used' = 1 .. n + 1 /\ n + 1 \in 0 .. MaxReloads + 2
  BY <1>3, <1>4, <1>5, <1>8, BoundsAssumption
<1>10. Loads' = n + 1
  BY <1>4, <1>9, FS_Interval DEF Loads
<1>11. LoaderBecomes("listen", loader.stage, loader.sym, loader.cpy, loader.fd)
  BY <1>1, <1>2, GotoForm DEF Goto
<1> QED
  BY <1>2, <1>4, <1>6, <1>7, <1>8, <1>9, <1>10, <1>11 DEF Numbered

\* Listen.
LEMMA ListenFacts ==
  ASSUME TypeOK, Structures, Sockets, Listen
  PROVE  /\ loader.pc = "listen" /\ plug \in Used /\ LowestFree \in Fds
         /\ fdtab' \in [Fds -> Cells \cup {None, Client, Reserved}]
         /\ fdtab[LowestFree] = None /\ fdtab'[LowestFree] = plug
         /\ \A n \in Fds : n # LowestFree => fdtab'[n] = fdtab[n]
         /\ LoaderBecomes("setfd", loader.stage, loader.sym, loader.cpy, LowestFree)
         /\ UNCHANGED <<lib, fn, plug, cells, pending, app, kids, exit_signal, input, fate,
                        moved, disturbed, failed>>
<1>1. loader \in LoaderT /\ "setfd" \in Places
  BY RecordTypes DEF After, Places
<1>2. LowestFree \in Fds /\ fdtab[LowestFree] = None
  BY LowestFreeFacts
<1>3. /\ loader.pc = "listen" /\ fdtab' = [fdtab EXCEPT ![LowestFree] = plug]
      /\ loader' = [loader EXCEPT !.pc = "setfd", !.fd = LowestFree]
      /\ UNCHANGED <<lib, fn, plug, cells, pending, app, kids, exit_signal, input, fate,
                     moved, disturbed, failed>>
  BY DEF Listen, At, memory, outside, history
<1>4. plug \in Used /\ plug \in Cells
  <2>1. HasNew
    BY <1>3 DEF HasNew, After
  <2> QED
    BY <2>1 DEF Structures, Used
<1>5. LoaderBecomes("setfd", loader.stage, loader.sym, loader.cpy, LowestFree)
  BY <1>1, <1>2, <1>3, FdForm
<1>6. fdtab \in [Fds -> Cells \cup {None, Client, Reserved}]
  BY DEF TypeOK
<1> QED
  BY <1>2, <1>3, <1>4, <1>5, <1>6

\* SetFd.
LEMMA SetFdFacts ==
  ASSUME TypeOK, Structures, SetFd
  PROVE  /\ loader.pc = "setfd" /\ plug \in Used
         /\ CellBecomes(plug, cells[plug].state, loader.fd, cells[plug].dir)
         /\ Used' = Used /\ Loads' = Loads
         /\ LoaderBecomes("setdir", loader.stage, loader.sym, loader.cpy, None)
         /\ UNCHANGED <<lib, fn, plug, fdtab, pending, app, kids, exit_signal, input, fate,
                        moved, disturbed, failed>>
<1>1. loader \in LoaderT /\ cells \in [Cells -> CellT] /\ "setdir" \in Places /\ loader.fd \in Fds \cup {None}
  BY RecordTypes DEF After, LoaderT, Places
<1>2. /\ loader.pc = "setfd" /\ cells' = [cells EXCEPT ![plug].fd = loader.fd]
      /\ loader' = [loader EXCEPT !.pc = "setdir", !.fd = None]
      /\ UNCHANGED <<lib, fn, plug, fdtab, pending, app, kids, exit_signal, input, fate,
                     moved, disturbed, failed>>
  BY DEF SetFd, At, kernel, outside, history
<1>3. plug \in Used /\ plug \in Cells /\ cells[plug].state = "allocated"
  BY <1>2 DEF Structures, HasNew, After, Used
<1>4. CellBecomes(plug, cells[plug].state, loader.fd, cells[plug].dir)
  BY <1>1, <1>2, <1>3, CellForms
<1>5. Used' = Used /\ Loads' = Loads
  BY <1>3, <1>4, OldCell
<1>6. LoaderBecomes("setdir", loader.stage, loader.sym, loader.cpy, None)
  BY <1>1, <1>2, FdForm
<1> QED
  BY <1>2, <1>3, <1>4, <1>5, <1>6

\* Where the loader frees the old structure, there is one.
LEMMA OldThere ==
  ASSUME TypeOK, Stages, Structures, loader.pc \in {"copydir", "closeold", "freeold"}
  PROVE  /\ loader.stage \in {"second", "command"} /\ loader.cpy \in Used /\ loader.cpy \in Cells
         /\ plug \in Used /\ plug \in Cells /\ plug # loader.cpy
<1>1. loader \in LoaderT
  BY RecordTypes
<1>2. loader.stage \in {"second", "command"} /\ loader.cpy # None
  <2>1. loader.stage # "first"
    BY DEF Stages, Before
  <2>2. loader.stage = "second" => loader.cpy # None
    BY NamesAssumption DEF Stages, Cells
  <2>3. loader.stage = "command" => loader.cpy # None
    BY DEF Stages, Resting
  <2> QED
    BY <1>1, <2>1, <2>2, <2>3 DEF LoaderT
<1>3. HasNew
  BY DEF HasNew, After
<1> QED
  BY <1>2, <1>3 DEF Structures, Used

\* SetDir.
LEMMA SetDirFacts ==
  ASSUME TypeOK, Structures, SetDir
  PROVE  /\ loader.pc = "setdir" /\ plug \in Used /\ plug \in Cells
         /\ CellBecomes(plug, cells[plug].state, cells[plug].fd,
                        IF loader.stage = "first" THEN "configured" ELSE "default")
         /\ Used' = Used /\ Loads' = Loads
         /\ IF loader.stage = "first"
            THEN LoaderBecomes("dlclose", "second", loader.sym, plug, loader.fd)
            ELSE LoaderBecomes("copydir", loader.stage, loader.sym, loader.cpy, loader.fd)
         /\ UNCHANGED <<lib, fn, plug, fdtab, pending, app, kids, exit_signal, input, fate,
                        moved, disturbed, failed>>
<1>1. loader \in LoaderT /\ cells \in [Cells -> CellT] /\ "dlclose" \in Places /\ "copydir" \in Places
  BY RecordTypes DEF Before, After, Places
<1>2. /\ loader.pc = "setdir"
      /\ UNCHANGED <<lib, fn, plug, fdtab, pending, app, kids, exit_signal, input, fate,
                     moved, disturbed, failed>>
  BY DEF SetDir, At, kernel, outside, history
<1>3. plug \in Used /\ plug \in Cells /\ cells[plug].state = "allocated"
  <2>1. HasNew
    BY <1>2 DEF HasNew, After
  <2> QED
    BY <2>1 DEF Structures, Used
<1>4. CASE loader.stage = "first"
  <2>1. /\ cells' = [cells EXCEPT ![plug].dir = "configured"]
        /\ loader' = [loader EXCEPT !.pc = "dlclose", !.stage = "second", !.cpy = plug]
    BY <1>4 DEF SetDir
  <2>2. CellBecomes(plug, cells[plug].state, cells[plug].fd, "configured")
    BY <1>1, <1>3, <2>1, CellForms
  <2>3. LoaderBecomes("dlclose", "second", loader.sym, plug, loader.fd)
    BY <1>1, <1>3, <2>1, StageForm
  <2> QED
    BY <1>2, <1>3, <1>4, <2>2, <2>3, OldCell
<1>5. CASE loader.stage # "first"
  <2>1. cells' = [cells EXCEPT ![plug].dir = "default"] /\ loader' = [loader EXCEPT !.pc = "copydir"]
    BY <1>5 DEF SetDir, Goto
  <2>2. CellBecomes(plug, cells[plug].state, cells[plug].fd, "default")
    BY <1>1, <1>3, <2>1, CellForms
  <2>3. LoaderBecomes("copydir", loader.stage, loader.sym, loader.cpy, loader.fd)
    BY <1>1, <2>1, GotoForm
  <2> QED
    BY <1>2, <1>3, <1>5, <2>2, <2>3, OldCell
<1> QED
  BY <1>4, <1>5

\* CopyDir.
LEMMA CopyDirFacts ==
  ASSUME TypeOK, Stages, Structures, CopyDir
  PROVE  /\ loader.pc = "copydir" /\ plug \in Used /\ plug \in Cells
         /\ CellBecomes(plug, cells[plug].state, cells[plug].fd, "configured")
         /\ Used' = Used /\ Loads' = Loads
         /\ LoaderBecomes("closeold", loader.stage, loader.sym, loader.cpy, loader.fd)
         /\ UNCHANGED <<lib, fn, plug, fdtab, pending, app, kids, exit_signal, input, fate,
                        moved, disturbed, failed>>
<1>1. loader \in LoaderT /\ cells \in [Cells -> CellT] /\ "closeold" \in Places
  BY RecordTypes DEF After, Places
<1>2. /\ loader.pc = "copydir" /\ loader' = [loader EXCEPT !.pc = "closeold"]
      /\ cells' = [cells EXCEPT ![plug].dir = cells[loader.cpy].dir]
      /\ UNCHANGED <<lib, fn, plug, fdtab, pending, app, kids, exit_signal, input, fate,
                     moved, disturbed, failed>>
  BY DEF CopyDir, At, Goto, kernel, outside, history
<1>3. loader.cpy \in Used /\ plug \in Used /\ plug \in Cells /\ cells[loader.cpy].dir = "configured"
      /\ cells[plug].state = "allocated"
  <2>1. HasNew /\ loader.cpy # None
    BY <1>2, OldThere, NamesAssumption DEF HasNew, After, Cells
  <2> QED
    BY <2>1, <1>2, OldThere DEF Structures
<1>4. CellBecomes(plug, cells[plug].state, cells[plug].fd, "configured")
  <2>1. cells' = [cells EXCEPT ![plug].dir = "configured"]
    BY <1>2, <1>3
  <2> QED
    BY <1>1, <1>3, <2>1, CellForms
<1>5. LoaderBecomes("closeold", loader.stage, loader.sym, loader.cpy, loader.fd)
  BY <1>1, <1>2, GotoForm
<1> QED
  BY <1>2, <1>3, <1>4, <1>5, OldCell

\* A socket that is drained keeps at most who waited.
LEMMA DrainedType ==
  ASSUME TypeOK, Drained
  PROVE  pending' \in [Cells -> 0 .. MaxPending]
BY BoundsAssumption DEF TypeOK, Drained

\* CloseOld.
LEMMA CloseOldFacts ==
  ASSUME TypeOK, Stages, Structures, Sockets, CloseOld
  PROVE  /\ loader.pc = "closeold" /\ OldFd \in Fds /\ fdtab[OldFd] = loader.cpy
         /\ fdtab' \in [Fds -> Cells \cup {None, Client, Reserved}] /\ fdtab'[OldFd] = None
         /\ \A n \in Fds : n # OldFd => fdtab'[n] = fdtab[n]
         /\ pending' \in [Cells -> 0 .. MaxPending]
         /\ LoaderBecomes("freeold", loader.stage, loader.sym, loader.cpy, loader.fd)
         /\ UNCHANGED <<lib, fn, plug, cells, app, kids, exit_signal, input, fate,
                        moved, disturbed, failed>>
<1>1. loader \in LoaderT /\ "freeold" \in Places
  BY RecordTypes DEF After, Places
<1>2. /\ loader.pc = "closeold" /\ loader' = [loader EXCEPT !.pc = "freeold"]
      /\ fdtab' = [fdtab EXCEPT ![OldFd] = None] /\ Drained
      /\ UNCHANGED <<lib, fn, plug, cells, app, kids, exit_signal, input, fate, moved, disturbed, failed>>
  BY DEF CloseOld, At, Goto, OldFd, memory, outside, history
<1>3. OldFd \in Fds /\ fdtab[OldFd] = loader.cpy
  <2>1. OldOpen
    BY <1>2, OldThere, NamesAssumption DEF OldOpen, Cells
  <2> QED
    BY <2>1 DEF Sockets
<1>4. fdtab \in [Fds -> Cells \cup {None, Client, Reserved}]
  BY DEF TypeOK
<1>5. LoaderBecomes("freeold", loader.stage, loader.sym, loader.cpy, loader.fd)
  BY <1>1, <1>2, GotoForm
<1> QED
  BY <1>2, <1>3, <1>4, <1>5, DrainedType

\* FreeOld.
LEMMA FreeOldFacts ==
  ASSUME TypeOK, Stages, Structures, FreeOld
  PROVE  /\ loader.pc = "freeold" /\ loader.cpy \in Used /\ loader.cpy \in Cells
         /\ CellBecomes(loader.cpy, "freed", cells[loader.cpy].fd, cells[loader.cpy].dir)
         /\ Used' = Used /\ Loads' = Loads
         /\ LoaderBecomes("prompt", "command", loader.sym, None, loader.fd)
         /\ IF loader.stage = "second"
            THEN AppBecomes("loop", app.base, app.p, app.sfd, app.sock, app.cfd)
            ELSE app' = app
         /\ UNCHANGED <<lib, fn, plug, fdtab, pending, kids, exit_signal, input, fate,
                        moved, disturbed, failed>>
<1>1. /\ loader \in LoaderT /\ cells \in [Cells -> CellT] /\ app \in AppT
      /\ "prompt" \in Places /\ "loop" \in AppPlaces
  BY RecordTypes DEF Places, AppPlaces
<1>2. /\ loader.pc = "freeold" /\ cells' = [cells EXCEPT ![loader.cpy].state = "freed"]
      /\ loader' = [loader EXCEPT !.pc = "prompt", !.stage = "command", !.cpy = None]
      /\ app' = IF loader.stage = "second" THEN [app EXCEPT !.pc = "loop"] ELSE app
      /\ UNCHANGED <<lib, fn, plug, fdtab, pending, kids, exit_signal, input, fate,
                     moved, disturbed, failed>>
  BY DEF FreeOld, At, kernel, outside, history
<1>3. loader.cpy \in Used /\ loader.cpy \in Cells
  BY <1>2, OldThere
<1>4. CellBecomes(loader.cpy, "freed", cells[loader.cpy].fd, cells[loader.cpy].dir)
  <2> DEFINE k == loader.cpy
  <2>1. k \in Cells /\ cells' = [cells EXCEPT ![k].state = "freed"]
    BY <1>2, <1>3
  <2> HIDE DEF k
  <2>2. CellBecomes(k, "freed", cells[k].fd, cells[k].dir)
    BY <1>1, <2>1, CellForms
  <2> QED
    BY <2>2 DEF k
<1>5. LoaderBecomes("prompt", "command", loader.sym, None, loader.fd)
  BY <1>1, <1>2, StageForm
<1>6. IF loader.stage = "second"
      THEN AppBecomes("loop", app.base, app.p, app.sfd, app.sock, app.cfd)
      ELSE app' = app
  BY <1>1, <1>2, AppGotoForm
<1>7. Used' = Used /\ Loads' = Loads
  <2> DEFINE k == loader.cpy  fd == cells[k].fd  dir == cells[k].dir
  <2>1. k \in Used /\ CellBecomes(k, "freed", fd, dir)
    BY <1>3, <1>4
  <2> HIDE DEF k, fd, dir
  <2> QED
    BY <2>1, OldCell
<1> QED
  BY <1>2, <1>3, <1>4, <1>5, <1>6, <1>7

\* At the prompt a structure is in use, and nothing is freed or loaded.
LEMMA AtPrompt ==
  ASSUME TypeOK, Stages, Structures, loader.pc = "prompt"
  PROVE  /\ loader.stage = "command" /\ loader.cpy = None /\ plug \in Used /\ plug \in Cells
         /\ exit_signal = 0
<1>1. loader \in LoaderT /\ exit_signal \in {0, 1}
  BY RecordTypes DEF TypeOK
<1>2. HasNew
  BY DEF HasNew, Resting
<1>3. loader.stage = "command"
  BY <1>1 DEF Stages, LoaderT, Before, After
<1>4. loader.cpy = None
  BY <1>3 DEF Stages, Resting
<1>5. exit_signal = 0
  BY <1>1 DEF Stages
<1> QED
  BY <1>2, <1>3, <1>4, <1>5 DEF Structures, Used

\* A reload begins where there is a number left for its structure.
LEMMA BeginReloadFacts ==
  ASSUME TypeOK, Numbered, Stages, Structures, BeginReload
  PROVE  /\ loader.pc = "prompt" /\ Loads \in Nat /\ Loads < MaxReloads + 2
         /\ LoaderBecomes("dlclose", loader.stage, loader.sym, plug, loader.fd)
         /\ disturbed' = (disturbed \/ ~Idle)
         /\ UNCHANGED <<lib, fn, plug, cells, pending, app, kids, exit_signal, fate, moved, failed>>
<1>1. loader \in LoaderT /\ "dlclose" \in Places
  BY RecordTypes DEF Before, Places
<1>2. /\ loader.pc = "prompt" /\ Fresh \in Cells /\ disturbed' = (disturbed \/ ~Idle)
      /\ loader' = [loader EXCEPT !.pc = "dlclose", !.cpy = plug]
      /\ UNCHANGED <<lib, fn, plug, cells, pending, app, kids, exit_signal, fate, moved, failed>>
  BY DEF BeginReload, At, memory
<1>3. PICK n \in 0 .. MaxReloads + 2 : Used = 1 .. n
  BY DEF Numbered
<1>4. Loads \in Nat /\ Loads < MaxReloads + 2
  <2>1. n \in Nat /\ Loads = n /\ Fresh = n + 1
    BY <1>3, Count, BoundsAssumption
  <2> QED
    BY <1>2, <2>1, BoundsAssumption DEF Cells
<1>5. plug \in Cells
  BY <1>2, AtPrompt
<1>6. LoaderBecomes("dlclose", loader.stage, loader.sym, plug, loader.fd)
  BY <1>1, <1>2, <1>5, CpyForm
<1> QED
  BY <1>2, <1>4, <1>6

InputT == [open : BOOLEAN, read : {"reload", "other"}]

\* What is typed.
LEMMA InputFacts ==
  ASSUME TypeOK
  PROVE  /\ ReloadCommand =>
              /\ input.open /\ BeginReload /\ fdtab' = fdtab
              /\ input' \in InputT
         /\ ReloadAgain => BeginReload /\ fdtab' = fdtab /\ input' = input
         /\ OtherCommand \/ EndOfInput =>
              /\ loader.pc = "prompt" /\ input.open
              /\ input' \in InputT
              /\ UNCHANGED <<loader, app, lib, fn, plug, cells, fdtab, pending, kids, exit_signal, fate,
                             moved, disturbed, failed>>
<1>1. input \in InputT
  BY DEF TypeOK, InputT
<1>2. ASSUME ReloadCommand
      PROVE  /\ input.open /\ BeginReload /\ fdtab' = fdtab
             /\ input' \in InputT
  <2>1. /\ input.open /\ BeginReload /\ fdtab' = fdtab
        /\ input' = [input EXCEPT !.read = "reload"]
    BY <1>2 DEF ReloadCommand, ReloadTyped
  <2> QED
    BY <1>1, <2>1 DEF InputT
<1>3. ASSUME OtherCommand \/ EndOfInput
      PROVE  /\ loader.pc = "prompt" /\ input.open
             /\ input' \in InputT
             /\ UNCHANGED <<loader, app, lib, fn, plug, cells, fdtab, pending, kids, exit_signal, fate,
                            moved, disturbed, failed>>
  <2>1. CASE OtherCommand
    BY <1>1, <2>1 DEF OtherCommand, At, InputT, threads, memory, kernel, history
  <2>2. CASE EndOfInput
    BY <1>1, <2>2 DEF EndOfInput, At, InputT, threads, memory, kernel, history
  <2> QED
    BY <1>3, <2>1, <2>2
<1> QED
  BY <1>2, <1>3 DEF ReloadAgain

\* ExitCommand.
LEMMA ExitCommandFacts ==
  ASSUME TypeOK, ExitCommand
  PROVE  /\ loader.pc = "prompt" /\ exit_signal' = 1
         /\ LoaderBecomes("ended", loader.stage, loader.sym, loader.cpy, loader.fd)
         /\ UNCHANGED <<lib, fn, plug, cells, fdtab, pending, app, kids, input, fate,
                        moved, disturbed, failed>>
<1>1. loader \in LoaderT /\ "ended" \in Places
  BY RecordTypes DEF Places
<1>2. /\ loader.pc = "prompt" /\ exit_signal' = 1 /\ loader' = [loader EXCEPT !.pc = "ended"]
      /\ UNCHANGED <<lib, fn, plug, cells, fdtab, pending, app, kids, input, fate,
                     moved, disturbed, failed>>
  BY DEF ExitCommand, At, Goto, memory, kernel, history
<1> QED
  BY <1>1, <1>2, GotoForm
-----------------------------------------------------------------------------
\* The app thread's steps.

\* Loop.
LEMMA LoopFacts ==
  ASSUME TypeOK, Loop
  PROVE  /\ app.pc = "loop"
         /\ IF exit_signal = 0
            THEN AppBecomes("enter", fn[Update], app.p, app.sfd, app.sock, app.cfd)
            ELSE AppBecomes("done", app.base, app.p, app.sfd, app.sock, app.cfd)
         /\ UNCHANGED <<loader, lib, fn, plug, cells, fdtab, pending, kids, exit_signal, input, fate,
                        moved, disturbed, failed>>
<1>1. app \in AppT /\ "enter" \in AppPlaces /\ "done" \in AppPlaces /\ fn[Update] \in Bases \cup {None}
  BY RecordTypes DEF AppPlaces, InLibrary, Update, Symbols
<1>2. /\ app.pc = "loop"
      /\ app' = IF exit_signal = 0
                THEN [app EXCEPT !.pc = "enter", !.base = fn[Update]]
                ELSE [app EXCEPT !.pc = "done"]
      /\ UNCHANGED <<loader, lib, fn, plug, cells, fdtab, pending, kids, exit_signal, input, fate,
                     moved, disturbed, failed>>
  BY DEF Loop, memory, kernel, outside, history
<1>3. CASE exit_signal = 0
  BY <1>1, <1>2, <1>3, BaseForm
<1>4. CASE exit_signal # 0
  BY <1>1, <1>2, <1>4, AppGotoForm
<1> QED
  BY <1>2, <1>3, <1>4

\* LoadPlug.
LEMMA LoadPlugFacts ==
  ASSUME TypeOK, LoadPlug
  PROVE  /\ app.pc = "enter" /\ app.base = lib
         /\ AppBecomes("deref", app.base, plug, app.sfd, app.sock, app.cfd)
         /\ UNCHANGED <<loader, lib, fn, plug, cells, fdtab, pending, kids, exit_signal, input, fate,
                        moved, disturbed, failed>>
<1>1. app \in AppT /\ "deref" \in AppPlaces /\ plug \in Cells \cup {None}
  BY RecordTypes DEF AppPlaces, InLibrary, TypeOK
<1>2. /\ app.pc = "enter" /\ app.base = lib /\ app' = [app EXCEPT !.pc = "deref", !.p = plug]
      /\ UNCHANGED <<loader, lib, fn, plug, cells, fdtab, pending, kids, exit_signal, input, fate,
                     moved, disturbed, failed>>
  BY DEF LoadPlug, InCode, Mapped, memory, kernel, outside, history
<1> QED
  BY <1>1, <1>2, PForm

\* LoadServerFd.
LEMMA LoadServerFdFacts ==
  ASSUME TypeOK, LoadServerFd
  PROVE  /\ app.pc = "deref" /\ app.base = lib
         /\ \E n \in Fds \cup {None} :
              /\ AppBecomes("accept", app.base, app.p, n, app.sock, app.cfd)
              /\ cells[app.p].state = "allocated" /\ cells[app.p].fd # None => n = cells[app.p].fd
         /\ app.p # None
         /\ UNCHANGED <<loader, lib, fn, plug, cells, fdtab, pending, kids, exit_signal, input, fate,
                        moved, disturbed, failed>>
<1>1. app \in AppT /\ "accept" \in AppPlaces /\ cells \in [Cells -> CellT]
  BY RecordTypes DEF AppPlaces, InLibrary
<1>2. /\ app.pc = "deref" /\ app.base = lib /\ app.p # None
      /\ UNCHANGED <<loader, lib, fn, plug, cells, fdtab, pending, kids, exit_signal, input, fate,
                     moved, disturbed, failed>>
  BY DEF LoadServerFd, InCode, Mapped, memory, kernel, outside, history
<1>3. app.p \in Cells
  BY <1>1, <1>2 DEF AppT
<1>4. cells[app.p].fd \in Fds \cup {None}
  BY <1>1, <1>3 DEF CellT
<1>5. PICK n \in IF cells[app.p].state = "allocated" /\ cells[app.p].fd # None
                 THEN {cells[app.p].fd} ELSE Fds \cup {None} :
              app' = [app EXCEPT !.pc = "accept", !.sfd = n]
  BY DEF LoadServerFd
<1>6. n \in Fds \cup {None}
  BY <1>4, <1>5
<1>7. AppBecomes("accept", app.base, app.p, n, app.sock, app.cfd)
  BY <1>1, <1>5, <1>6, SfdForm
<1>8. cells[app.p].state = "allocated" /\ cells[app.p].fd # None => n = cells[app.p].fd
  BY <1>5
<1> QED
  BY <1>2, <1>6, <1>7, <1>8

\* AcceptBlocks: one descriptor more.
LEMMA AcceptBlocksFacts ==
  ASSUME TypeOK, Sockets, AcceptBlocks
  PROVE  /\ app.pc = "accept" /\ app.base = lib /\ app.sfd \in Fds /\ fdtab[app.sfd] \in Cells
         /\ LowestFree \in Fds /\ fdtab[LowestFree] = None
         /\ \A n \in Fds : fdtab[n] = None => LowestFree <= n
         /\ fdtab' \in [Fds -> Cells \cup {None, Client, Reserved}]
         /\ fdtab'[LowestFree] = Reserved /\ \A n \in Fds : n # LowestFree => fdtab'[n] = fdtab[n]
         /\ AppBecomes("blocked", app.base, app.p, app.sfd, fdtab[app.sfd], LowestFree)
         /\ UNCHANGED <<loader, lib, fn, plug, cells, pending, kids, exit_signal, input, fate,
                        moved, disturbed, failed>>
<1>1. app \in AppT /\ "blocked" \in AppPlaces /\ fdtab \in [Fds -> Cells \cup {None, Client, Reserved}]
  BY RecordTypes DEF AppPlaces, TypeOK
<1>2. /\ app.pc = "accept" /\ app.base = lib /\ app.sfd # None /\ fdtab[app.sfd] \in Cells
      /\ app' = [app EXCEPT !.pc = "blocked", !.sock = fdtab[app.sfd], !.cfd = LowestFree]
      /\ fdtab' = [fdtab EXCEPT ![LowestFree] = Reserved]
      /\ UNCHANGED <<loader, lib, fn, plug, cells, pending, kids, exit_signal, input, fate,
                     moved, disturbed, failed>>
  BY DEF AcceptBlocks, InCode, Mapped, memory, outside, history
<1>3. app.sfd \in Fds
  BY <1>1, <1>2 DEF AppT
<1>4. LowestFree \in Fds /\ fdtab[LowestFree] = None /\ \A n \in Fds : fdtab[n] = None => LowestFree <= n
  BY LowestFreeFacts
<1>5. AppBecomes("blocked", app.base, app.p, app.sfd, fdtab[app.sfd], LowestFree)
  <2> DEFINE sock == fdtab[app.sfd]
  <2>1. sock \in Cells \cup {None} /\ app' = [app EXCEPT !.pc = "blocked", !.sock = sock, !.cfd = LowestFree]
    BY <1>2
  <2> HIDE DEF sock
  <2>2. AppBecomes("blocked", app.base, app.p, app.sfd, sock, LowestFree)
    BY <1>1, <1>4, <2>1, CallForm
  <2> QED
    BY <2>2 DEF sock
<1> QED
  BY <1>1, <1>2, <1>3, <1>4, <1>5

\* AcceptFails, ...
LEMMA AcceptFailsFacts ==
  ASSUME TypeOK, AcceptFails
  PROVE  /\ app.pc = "accept" /\ AppBecomes("error", app.base, app.p, app.sfd, app.sock, app.cfd)
         /\ UNCHANGED <<loader, lib, fn, plug, cells, fdtab, pending, kids, exit_signal, input, fate,
                        moved, disturbed, failed>>
<1>1. app \in AppT /\ "error" \in AppPlaces
  BY RecordTypes DEF AppPlaces, InLibrary
<1> QED
  BY <1>1, AppGotoForm DEF AcceptFails, InCode, memory, kernel, outside, history

\* ... and AcceptFailed: plug_update() returns.
LEMMA AcceptFailedFacts ==
  ASSUME AcceptFailed
  PROVE  /\ app.pc = "error" /\ AppBecomes("loop", None, None, None, None, None)
         /\ UNCHANGED <<loader, lib, fn, plug, cells, fdtab, pending, kids, exit_signal, input, fate,
                        moved, disturbed, failed>>
BY ReturnForm DEF AcceptFailed, InCode, memory, kernel, outside, history

\* AcceptInterrupted: the number set aside is free again.
LEMMA AcceptInterruptedFacts ==
  ASSUME TypeOK, Sockets, AcceptInterrupted
  PROVE  /\ app.pc = "blocked" /\ app.cfd \in Fds /\ fdtab[app.cfd] = Reserved
         /\ disturbed' = (disturbed \/ Reloading)
         /\ fdtab' \in [Fds -> Cells \cup {None, Client, Reserved}]
         /\ fdtab'[app.cfd] = None /\ \A n \in Fds : n # app.cfd => fdtab'[n] = fdtab[n]
         /\ pending' \in [Cells -> 0 .. MaxPending]
         /\ AppBecomes("error", app.base, app.p, app.sfd, None, None)
         /\ UNCHANGED <<loader, lib, fn, plug, cells, kids, exit_signal, input, fate, moved, failed>>
<1>1. /\ app \in AppT /\ "error" \in AppPlaces
      /\ fdtab \in [Fds -> Cells \cup {None, Client, Reserved}]
  BY RecordTypes DEF AppPlaces, InLibrary, TypeOK
<1>2. /\ app.pc = "blocked" /\ disturbed' = (disturbed \/ Reloading) /\ Drained
      /\ app' = [app EXCEPT !.pc = "error", !.sock = None, !.cfd = None]
      /\ fdtab' = [fdtab EXCEPT ![app.cfd] = None]
      /\ UNCHANGED <<loader, lib, fn, plug, cells, kids, exit_signal, input, fate, moved, failed>>
  BY DEF AcceptInterrupted, memory, outside, history
<1>3. app.cfd \in Fds /\ fdtab[app.cfd] = Reserved
  BY <1>2 DEF Sockets, InCall
<1>4. AppBecomes("error", app.base, app.p, app.sfd, None, None)
  BY <1>1, <1>2, CallForm
<1> QED
  BY <1>1, <1>2, <1>3, <1>4, DrainedType

\* AcceptReturns.
LEMMA AcceptReturnsFacts ==
  ASSUME TypeOK, Stages, Sockets, AcceptReturns
  PROVE  /\ app.pc = "blocked" /\ app.cfd \in Fds /\ disturbed' = (disturbed \/ Reloading)
         /\ fdtab' \in [Fds -> Cells \cup {None, Client, Reserved}]
         /\ fdtab'[app.cfd] = Client /\ \A n \in Fds : n # app.cfd => fdtab'[n] = fdtab[n]
         /\ pending' \in [Cells -> 0 .. MaxPending]
         /\ AppBecomes("fork", app.base, app.p, app.sfd, None, app.cfd)
         /\ UNCHANGED <<loader, lib, fn, plug, cells, kids, exit_signal, input, fate, moved, failed>>
<1>1. /\ app \in AppT /\ "fork" \in AppPlaces
      /\ fdtab \in [Fds -> Cells \cup {None, Client, Reserved}]
      /\ pending \in [Cells -> 0 .. MaxPending]
  BY RecordTypes DEF AppPlaces, InLibrary, TypeOK
<1>2. /\ app.pc = "blocked" /\ disturbed' = (disturbed \/ Reloading) /\ pending[app.sock] > 0
      /\ app' = [app EXCEPT !.pc = "fork", !.sock = None]
      /\ fdtab' = [fdtab EXCEPT ![app.cfd] = Client]
      /\ UNCHANGED <<loader, lib, fn, plug, cells, kids, exit_signal, input, fate, moved, failed>>
  BY DEF AcceptReturns, memory, outside, history
<1>3. pending' = [s \in Cells |->
                    IF ~Listening(s)' THEN 0 ELSE IF s = app.sock THEN pending[s] - 1 ELSE pending[s]]
  BY DEF AcceptReturns
<1>4. app.cfd \in Fds
  BY <1>2 DEF Sockets, InCall
<1>5. pending' \in [Cells -> 0 .. MaxPending]
  <2>1. \A s \in Cells : pending[s] \in 0 .. MaxPending
    BY <1>1
  <2>2. \A s \in Cells : s = app.sock => pending[s] - 1 \in 0 .. MaxPending
    BY <1>2, <2>1, BoundsAssumption
  <2> QED
    BY <1>3, <2>1, <2>2, BoundsAssumption
<1>6. AppBecomes("fork", app.base, app.p, app.sfd, None, app.cfd)
  BY <1>1, <1>2, SockForm
<1> QED
  BY <1>1, <1>2, <1>4, <1>5, <1>6

\* The next child: the directory it finds, and the listening sockets it keeps.
KidT == [dir : {"null", "garbage", "default", "configured"}, held : SUBSET Cells]
KidDir  == IF plug = None THEN "null"
           ELSE IF cells[plug].dir = None THEN "garbage" ELSE cells[plug].dir
KidHeld == {fdtab[n] : n \in Fds \ {app.sfd}} \cap Cells

\* Fork and ForkFails.
LEMMA ForkFacts ==
  ASSUME TypeOK, Fork \/ ForkFails
  PROVE  /\ app.pc = "fork" /\ app.base = lib
         /\ AppBecomes("close", app.base, app.p, app.sfd, app.sock, app.cfd)
         /\ \/ kids' = kids
            \/ \E k \in Kids :
                 /\ kids' \in [Kids -> {None} \cup KidT]
                 /\ kids'[k].dir = KidDir /\ kids'[k].held = KidHeld
                 /\ \A j \in Kids : j # k => kids'[j] = kids[j]
         /\ UNCHANGED <<loader, lib, fn, plug, cells, fdtab, pending, exit_signal, input, fate,
                        moved, disturbed, failed>>
<1>1. app \in AppT /\ "close" \in AppPlaces /\ kids \in [Kids -> {None} \cup KidT]
  BY RecordTypes DEF AppPlaces, InLibrary, TypeOK, KidT
<1>2. /\ app.pc = "fork" /\ app.base = lib /\ app' = [app EXCEPT !.pc = "close"]
      /\ UNCHANGED <<loader, lib, fn, plug, cells, fdtab, pending, exit_signal, input, fate,
                     moved, disturbed, failed>>
  BY DEF Fork, ForkFails, InCode, Mapped, memory, kernel, outside, history
<1>3. AppBecomes("close", app.base, app.p, app.sfd, app.sock, app.cfd)
  BY <1>1, <1>2, AppGotoForm
<1>4. CASE Fork
  <2>1. KidDir \in {"null", "garbage", "default", "configured"} /\ KidHeld \in SUBSET Cells
    <3>1. plug \in Cells \cup {None} /\ \A k \in Cells : cells[k].dir \in {None, "default", "configured"}
      BY RecordTypes DEF TypeOK, CellT
    <3> QED
      BY <3>1 DEF KidDir, KidHeld
  <2>2. PICK k \in Kids : kids' = [kids EXCEPT ![k] = [dir |-> KidDir, held |-> KidHeld]]
    BY <1>4 DEF Fork, KidDir, KidHeld
  <2> DEFINE kid == [dir |-> KidDir, held |-> KidHeld]
  <2>3. kid \in KidT /\ kid.dir = KidDir /\ kid.held = KidHeld
    BY <2>1 DEF KidT
  <2>4. kids' = [kids EXCEPT ![k] = kid]
    BY <2>2
  <2> HIDE DEF kid
  <2>5. /\ kids' \in [Kids -> {None} \cup KidT] /\ kids'[k] = kid
        /\ \A j \in Kids : j # k => kids'[j] = kids[j]
    BY <1>1, <2>3, <2>4
  <2> QED
    BY <1>2, <1>3, <2>3, <2>5
<1>5. CASE ForkFails
  <2>1. kids' = kids
    BY <1>5 DEF ForkFails, outside
  <2> QED
    BY <1>2, <1>3, <2>1
<1> QED
  BY <1>4, <1>5

\* CloseClient: one descriptor less, and plug_update() returns.
LEMMA CloseClientFacts ==
  ASSUME TypeOK, Sockets, CloseClient
  PROVE  /\ app.pc = "close" /\ app.cfd \in Fds /\ fdtab[app.cfd] = Client
         /\ fdtab' \in [Fds -> Cells \cup {None, Client, Reserved}]
         /\ fdtab'[app.cfd] = None /\ \A n \in Fds : n # app.cfd => fdtab'[n] = fdtab[n]
         /\ AppBecomes("loop", None, None, None, None, None)
         /\ UNCHANGED <<loader, lib, fn, plug, cells, pending, kids, exit_signal, input, fate,
                        moved, disturbed, failed>>
<1>1. /\ app.pc = "close" /\ fdtab' = [fdtab EXCEPT ![app.cfd] = None] /\ Returns
      /\ UNCHANGED <<loader, lib, fn, plug, cells, pending, kids, exit_signal, input, fate,
                     moved, disturbed, failed>>
  BY DEF CloseClient, InCode, memory, outside, history
<1>2. app.cfd \in Fds /\ fdtab[app.cfd] = Client
  BY <1>1 DEF Sockets, InCall
<1>3. fdtab \in [Fds -> Cells \cup {None, Client, Reserved}]
  BY DEF TypeOK
<1> QED
  BY <1>1, <1>2, <1>3, ReturnForm

\* Connect and KidExits.
LEMMA OutsideFacts ==
  ASSUME TypeOK, Connect \/ KidExits
  PROVE  /\ pending' \in [Cells -> 0 .. MaxPending] /\ kids' \in [Kids -> {None} \cup KidT]
         /\ \A k \in Kids : kids'[k] \in {None, kids[k]}
         /\ UNCHANGED <<loader, app, lib, fn, plug, cells, fdtab, exit_signal, input, fate,
                        moved, disturbed, failed>>
<1>1. pending \in [Cells -> 0 .. MaxPending] /\ kids \in [Kids -> {None} \cup KidT]
  BY DEF TypeOK, KidT
<1>2. UNCHANGED <<loader, app, lib, fn, plug, cells, fdtab, exit_signal, input, fate,
                  moved, disturbed, failed>>
  BY DEF Connect, KidExits, threads, memory, outside, history
<1>3. CASE Connect
  <2>1. PICK s \in Cells : pending[s] < MaxPending /\ pending' = [pending EXCEPT ![s] = @ + 1]
    BY <1>3 DEF Connect
  <2>2. pending[s] + 1 \in 0 .. MaxPending
    BY <1>1, <2>1, BoundsAssumption
  <2>3. kids' = kids
    BY <1>3 DEF Connect, outside
  <2> QED
    BY <1>1, <1>2, <2>1, <2>2, <2>3
<1>4. CASE KidExits
  <2>1. PICK k \in Kids : kids' = [kids EXCEPT ![k] = None]
    BY <1>4 DEF KidExits
  <2>2. Drained
    BY <1>4 DEF KidExits
  <2> QED
    BY <1>1, <1>2, <2>1, <2>2, DrainedType
<1> QED
  BY <1>3, <1>4
-----------------------------------------------------------------------------
\* The steps after which the process still runs, by who takes them.
LoaderRuns == \/ Dlclose \/ Dlopen \/ LoadFails \/ Dlsym \/ Malloc \/ MallocFails
              \/ Listen \/ SetFd \/ SetDir
              \/ CopyDir \/ CloseOld \/ FreeOld
UserRuns   == ReloadCommand \/ ReloadAgain \/ (OtherCommand \/ EndOfInput) \/ ExitCommand
AppRuns    == \/ Loop \/ LoadPlug \/ LoadServerFd \/ AcceptBlocks \/ AcceptFails \/ AcceptFailed
              \/ AcceptReturns \/ AcceptInterrupted \/ (Fork \/ ForkFails) \/ CloseClient
OthersRun  == Connect \/ KidExits

\* Only a process that runs takes steps.
LEMMA Alive == Next => fate = "up"
BY DEF Next, Dlclose, Dlopen, LoadFails, Dlsym, Malloc, MallocFails, StoreThroughNull, Listen, ListenFails,
       SetFd, SetDir, CopyDir, CloseOld, FreeOld, ReloadCommand, ReloadTyped, BeginReload, OtherCommand,
       ExitCommand, EndOfInput, ReloadAgain, FreePlug, Loop, Unmapped, LoadPlug, NullPlug, LoadServerFd,
       AcceptBlocks, AcceptFails, AcceptFailed, AcceptReturns, AcceptInterrupted, Fork, ForkFails,
       CloseClient, Connect, KidExits, At, InCode

\* A step after which it runs is one of those.
LEMMA Running ==
  ASSUME Next, fate' = "up"
  PROVE  fate = "up" /\ (LoaderRuns \/ UserRuns \/ AppRuns \/ OthersRun)
<1>1. fate = "up"
  BY Alive
<1>2. ~ListenFails /\ ~StoreThroughNull /\ ~FreePlug /\ ~Unmapped /\ ~NullPlug
  BY DEF ListenFails, StoreThroughNull, FreePlug, Unmapped, NullPlug, Ends
<1> QED
  BY <1>1, <1>2 DEF Next, LoaderRuns, UserRuns, AppRuns, OthersRun

\* The app thread and the outside leave the loader's state alone.
LEMMA AppLeaves ==
  ASSUME TypeOK, Stages, Sockets, AppRuns \/ OthersRun
  PROVE  UNCHANGED <<loader, lib, fn, plug, cells, exit_signal, input, fate, moved, failed>>
<1>1. CASE AppRuns
  BY <1>1, LoopFacts, LoadPlugFacts, LoadServerFdFacts, AcceptBlocksFacts, AcceptFailsFacts, AcceptFailedFacts,
     AcceptReturnsFacts, AcceptInterruptedFacts, ForkFacts, CloseClientFacts DEF AppRuns
<1>2. CASE OthersRun
  BY <1>2, OutsideFacts DEF OthersRun
<1> QED
  BY <1>1, <1>2

\* A user's command leaves the memory alone.
LEMMA UserLeaves ==
  ASSUME TypeOK, Numbered, Stages, Structures, UserRuns
  PROVE  /\ loader.pc = "prompt"
         /\ UNCHANGED <<lib, fn, plug, cells, fdtab, pending, app, kids, fate, moved, failed>>
<1>1. CASE ReloadCommand \/ ReloadAgain
  BY <1>1, InputFacts, BeginReloadFacts
<1>2. CASE OtherCommand \/ EndOfInput
  BY <1>2, InputFacts
<1>3. CASE ExitCommand
  BY <1>3, ExitCommandFacts
<1> QED
  BY <1>1, <1>2, <1>3 DEF UserRuns

\* Without a change to the structures the loads stay as they are.
LEMMA SameCells ==
  ASSUME cells' = cells
  PROVE  Used' = Used /\ Loads' = Loads
BY SameLoads

LEMMA LoadsType ==
  ASSUME Numbered
  PROVE  Loads \in 0 .. MaxReloads + 2 /\ Loads \in Nat
BY Count, BoundsAssumption DEF Numbered

\* Every step keeps the numbering.
LEMMA NumberedStep ==
  ASSUME TypeOK, Strong, LoaderRuns \/ UserRuns \/ AppRuns \/ OthersRun
  PROVE  Numbered'
<1> USE DEF Strong
<1>1. ASSUME Used' = Used PROVE Numbered'
  BY <1>1 DEF Numbered
<1>2. CASE LoaderRuns
  <2>1. CASE Malloc
    BY <2>1, MallocFacts
  <2>2. CASE SetFd \/ SetDir \/ CopyDir \/ FreeOld
    BY <1>1, <2>2, SetFdFacts, SetDirFacts, CopyDirFacts, FreeOldFacts
  <2>3. CASE Dlclose \/ Dlopen \/ LoadFails \/ Dlsym \/ MallocFails \/ Listen \/ CloseOld
    <3>1. cells' = cells
      BY <2>3 DEF Dlclose, Dlopen, LoadFails, Dlsym, MallocFails, Listen, CloseOld, Ends, memory
    <3> QED
      BY <1>1, <3>1, SameCells
  <2> QED
    BY <1>2, <2>1, <2>2, <2>3 DEF LoaderRuns
<1>3. CASE UserRuns
  BY <1>1, <1>3, UserLeaves, SameCells
<1>4. CASE AppRuns \/ OthersRun
  BY <1>1, <1>4, AppLeaves, SameCells
<1> QED
  BY <1>2, <1>3, <1>4

\* TypeOK, with names for the records, before and after a step.
Typed ==
  /\ loader \in LoaderT /\ app \in AppT /\ cells \in [Cells -> CellT] /\ input \in InputT
  /\ lib \in Bases \cup {None} /\ plug \in Cells \cup {None}
  /\ fn \in [Symbols -> Bases \cup {None}]
  /\ fdtab \in [Fds -> Cells \cup {None, Client, Reserved}]
  /\ pending \in [Cells -> 0 .. MaxPending]
  /\ kids \in [Kids -> {None} \cup KidT]
  /\ exit_signal \in {0, 1} /\ fate \in {"up", "exited", "unmapped", "null"}
  /\ moved \in BOOLEAN /\ disturbed \in BOOLEAN /\ failed \subseteq Calls
LEMMA Variables ==
  (TypeOK <=> Typed) /\ (TypeOK' <=> Typed')
BY DEF Typed, TypeOK, LoaderT, AppT, CellT, InputT, KidT, Before, After

\* Every step keeps the types.
LEMMA TypeStep ==
  ASSUME TypeOK, Strong, fate' = "up", LoaderRuns \/ UserRuns \/ AppRuns \/ OthersRun
  PROVE  TypeOK'
<1> USE DEF Strong
<1>1. CASE LoaderRuns
  <2>1. CASE Dlclose
    BY <2>1, DlcloseFacts, Variables DEF Typed, LoaderBecomes
  <2>2. CASE Dlopen
    BY <2>2, DlopenFacts, Variables DEF Typed, LoaderBecomes
  <2>3. CASE LoadFails
    BY <2>3, LoadFailsFacts, Variables DEF Typed, LoaderBecomes, Calls
  <2>4. CASE Dlsym
    BY <2>4, DlsymFacts, Variables DEF Typed, LoaderBecomes
  <2>5. CASE Malloc
    BY <2>5, MallocFacts, Variables DEF Typed, LoaderBecomes, CellBecomes
  <2>6. CASE Listen
    BY <2>6, ListenFacts, Variables DEF Typed, LoaderBecomes
  <2>7. CASE SetFd
    BY <2>7, SetFdFacts, Variables DEF Typed, LoaderBecomes, CellBecomes
  <2>8. CASE SetDir
    BY <2>8, SetDirFacts, Variables DEF Typed, LoaderBecomes, CellBecomes
  <2>9. CASE CopyDir
    BY <2>9, CopyDirFacts, Variables DEF Typed, LoaderBecomes, CellBecomes
  <2>10. CASE CloseOld
    BY <2>10, CloseOldFacts, Variables DEF Typed, LoaderBecomes
  <2>11. CASE FreeOld
    BY <2>11, FreeOldFacts, Variables DEF Typed, LoaderBecomes, CellBecomes, AppBecomes
  <2>12. CASE MallocFails
    BY <2>12, MallocFailsFacts, Variables DEF Typed, LoaderBecomes, Calls
  <2> QED
    BY <1>1, <2>1, <2>2, <2>3, <2>4, <2>5, <2>6, <2>7, <2>8, <2>9, <2>10, <2>11, <2>12 DEF LoaderRuns
<1>2. CASE UserRuns
  <2>1. CASE ReloadCommand
    BY <2>1, InputFacts, BeginReloadFacts, Variables DEF Typed, LoaderBecomes, Idle
  <2>2. CASE ReloadAgain
    BY <2>2, InputFacts, BeginReloadFacts, Variables DEF Typed, LoaderBecomes, Idle
  <2>3. CASE OtherCommand \/ EndOfInput
    BY <2>3, InputFacts, Variables DEF Typed
  <2>4. CASE ExitCommand
    BY <2>4, ExitCommandFacts, Variables DEF Typed, LoaderBecomes
  <2> QED
    BY <1>2, <2>1, <2>2, <2>3, <2>4 DEF UserRuns
<1>3. CASE AppRuns
  <2>1. CASE Loop
    BY <2>1, LoopFacts, Variables DEF Typed, AppBecomes
  <2>2. CASE LoadPlug
    BY <2>2, LoadPlugFacts, Variables DEF Typed, AppBecomes
  <2>3. CASE LoadServerFd
    BY <2>3, LoadServerFdFacts, Variables DEF Typed, AppBecomes
  <2>4. CASE AcceptBlocks
    BY <2>4, AcceptBlocksFacts, Variables DEF Typed, AppBecomes
  <2>5. CASE AcceptFails
    BY <2>5, AcceptFailsFacts, Variables DEF Typed, AppBecomes
  <2>6. CASE AcceptReturns
    BY <2>6, AcceptReturnsFacts, Variables DEF Typed, AppBecomes, Reloading
  <2>7. CASE Fork \/ ForkFails
    BY <2>7, ForkFacts, Variables DEF Typed, AppBecomes
  <2>8. CASE CloseClient
    BY <2>8, CloseClientFacts, Variables DEF Typed, AppBecomes
  <2>9. CASE AcceptFailed
    BY <2>9, AcceptFailedFacts, Variables DEF Typed, AppBecomes
  <2>10. CASE AcceptInterrupted
    BY <2>10, AcceptInterruptedFacts, Variables DEF Typed, AppBecomes, Reloading
  <2> QED
    BY <1>3, <2>1, <2>2, <2>3, <2>4, <2>5, <2>6, <2>7, <2>8, <2>9, <2>10 DEF AppRuns
<1>4. CASE OthersRun
  BY <1>4, OutsideFacts, Variables DEF Typed, OthersRun
<1> QED
  BY <1>1, <1>2, <1>3, <1>4

\* Every step keeps the order of the loads.
LEMMA StagesStep ==
  ASSUME TypeOK, Strong, fate' = "up", LoaderRuns \/ UserRuns \/ AppRuns \/ OthersRun
  PROVE  Stages'
<1> USE DEF Strong
<1>1. Typed /\ Loads \in Nat /\ None \notin Cells
  BY Variables, LoadsType, NamesAssumption DEF Cells
<1>2. CASE LoaderRuns
  <2> USE DEF Stages, Before, After, Resting, LoaderBecomes, Typed
  <2>1. CASE Dlclose
    BY <1>1, <2>1, DlcloseFacts, SameCells
  <2>2. CASE Dlopen
    BY <1>1, <2>2, DlopenFacts, SameCells
  <2>3. CASE LoadFails
    BY <1>1, <2>3, LoadFailsFacts, SameCells
  <2>4. CASE Dlsym
    BY <1>1, <2>4, DlsymFacts, SameCells
  <2>5. CASE Malloc
    BY <1>1, <2>5, MallocFacts
  <2>6. CASE Listen
    BY <1>1, <2>6, ListenFacts, SameCells
  <2>7. CASE SetFd
    BY <1>1, <2>7, SetFdFacts
  <2>8. CASE SetDir
    BY <1>1, <2>8, SetDirFacts
  <2>9. CASE CopyDir
    BY <1>1, <2>9, CopyDirFacts
  <2>10. CASE CloseOld
    BY <1>1, <2>10, CloseOldFacts, SameCells
  <2>11. CASE FreeOld
    <3>1. loader.stage \in {"second", "command"} /\ loader.pc = "freeold"
      BY <2>11, FreeOldFacts, OldThere
    <3>2. CASE loader.stage = "second"
      BY <1>1, <2>11, <3>1, <3>2, FreeOldFacts DEF AppBecomes
    <3>3. CASE loader.stage = "command"
      BY <1>1, <2>11, <3>1, <3>3, FreeOldFacts
    <3> QED
      BY <3>1, <3>2, <3>3
  <2>12. CASE MallocFails
    BY <1>1, <2>12, MallocFailsFacts, SameCells
  <2> QED
    BY <1>2, <2>1, <2>2, <2>3, <2>4, <2>5, <2>6, <2>7, <2>8, <2>9, <2>10, <2>11, <2>12 DEF LoaderRuns
<1>3. CASE UserRuns
  <2> USE DEF Stages, Before, After, Resting, LoaderBecomes, Typed
  <2>1. Loads' = Loads /\ app' = app /\ loader.stage = "command" /\ loader.cpy = None /\ plug \in Cells
    BY <1>3, UserLeaves, SameCells, AtPrompt
  <2>2. CASE ReloadCommand \/ ReloadAgain
    BY <1>1, <2>1, <2>2, InputFacts, BeginReloadFacts
  <2>3. CASE OtherCommand \/ EndOfInput
    BY <1>1, <2>1, <2>3, InputFacts
  <2>4. CASE ExitCommand
    BY <1>1, <2>1, <2>4, ExitCommandFacts
  <2> QED
    BY <1>3, <2>2, <2>3, <2>4 DEF UserRuns
<1>4. CASE AppRuns \/ OthersRun
  <2>1. /\ app.pc = "none" <=> app'.pc = "none"
        /\ app'.pc = "done" => app.pc = "done" \/ exit_signal # 0
        /\ app'.pc = "blocked" => app'.sock \in Cells
    <3>1. CASE Loop
      BY <3>1, LoopFacts DEF AppBecomes
    <3>2. CASE LoadPlug
      BY <3>2, LoadPlugFacts DEF AppBecomes
    <3>3. CASE LoadServerFd
      BY <3>3, LoadServerFdFacts DEF AppBecomes
    <3>4. CASE AcceptBlocks
      BY <3>4, AcceptBlocksFacts DEF AppBecomes
    <3>5. CASE AcceptFails
      BY <3>5, AcceptFailsFacts DEF AppBecomes
    <3>6. CASE AcceptReturns
      BY <3>6, AcceptReturnsFacts DEF AppBecomes
    <3>7. CASE Fork \/ ForkFails
      BY <3>7, ForkFacts DEF AppBecomes
    <3>8. CASE CloseClient
      BY <3>8, CloseClientFacts DEF AppBecomes
    <3>9. CASE OthersRun
      BY <3>9, OutsideFacts DEF OthersRun, Stages
    <3>10. CASE AcceptFailed
      BY <3>10, AcceptFailedFacts DEF AppBecomes
    <3>11. CASE AcceptInterrupted
      BY <3>11, AcceptInterruptedFacts DEF AppBecomes
    <3> QED
      BY <1>4, <3>1, <3>2, <3>3, <3>4, <3>5, <3>6, <3>7, <3>8, <3>9, <3>10, <3>11 DEF AppRuns
  <2>2. UNCHANGED <<loader, exit_signal>> /\ Loads' = Loads
    BY <1>4, AppLeaves, SameCells
  <2> QED
    BY <1>1, <2>1, <2>2 DEF Stages, Resting, Typed
<1> QED
  BY <1>2, <1>3, <1>4

\* Every step keeps the structures.
LEMMA StructuresStep ==
  ASSUME TypeOK, Strong, fate' = "up", LoaderRuns \/ UserRuns \/ AppRuns \/ OthersRun
  PROVE  Structures'
<1> USE DEF Strong
<1>1. Typed /\ None \notin Cells /\ Used \subseteq Cells
  BY Variables, NamesAssumption DEF Cells, Used
<1>2. CASE LoaderRuns
  <2> USE DEF Structures, HasNew, Before, After, Resting, LoaderBecomes
  <2>1. CASE Dlclose
    BY <1>1, <2>1, DlcloseFacts, SameCells
  <2>2. CASE Dlopen
    BY <1>1, <2>2, DlopenFacts, SameCells
  <2>3. CASE LoadFails
    BY <1>1, <2>3, LoadFailsFacts, SameCells DEF Stages
  <2>4. CASE Dlsym
    BY <1>1, <2>4, DlsymFacts, SameCells
  <2>5. CASE Malloc
    BY <1>1, <2>5, MallocFacts DEF CellBecomes
  <2>6. CASE Listen
    BY <1>1, <2>6, ListenFacts, SameCells
  <2>7. CASE SetFd
    BY <1>1, <2>7, SetFdFacts DEF CellBecomes
  <2>8. CASE SetDir
    BY <1>1, <2>8, SetDirFacts DEF CellBecomes, Stages
  <2>9. CASE CopyDir
    BY <1>1, <2>9, CopyDirFacts DEF CellBecomes
  <2>10. CASE CloseOld
    BY <1>1, <2>10, CloseOldFacts, SameCells
  <2>11. CASE FreeOld
    BY <1>1, <2>11, FreeOldFacts DEF CellBecomes
  <2>12. CASE MallocFails
    BY <1>1, <2>12, MallocFailsFacts, SameCells
  <2> QED
    BY <1>2, <2>1, <2>2, <2>3, <2>4, <2>5, <2>6, <2>7, <2>8, <2>9, <2>10, <2>11, <2>12 DEF LoaderRuns
<1>3. CASE UserRuns
  <2> USE DEF Structures, HasNew, Before, After, Resting, LoaderBecomes
  <2>1. Used' = Used /\ plug' = plug /\ cells' = cells /\ loader.cpy = None /\ plug \in Used
    BY <1>3, UserLeaves, SameCells, AtPrompt
  <2>2. CASE ReloadCommand \/ ReloadAgain
    BY <1>1, <2>1, <2>2, InputFacts, BeginReloadFacts
  <2>3. CASE OtherCommand \/ EndOfInput
    BY <1>1, <2>1, <2>3, InputFacts
  <2>4. CASE ExitCommand
    BY <1>1, <2>1, <2>4, ExitCommandFacts
  <2> QED
    BY <1>3, <2>2, <2>3, <2>4 DEF UserRuns
<1>4. CASE AppRuns \/ OthersRun
  <2>1. UNCHANGED <<loader, plug, cells>> /\ Used' = Used
    BY <1>4, AppLeaves, SameCells
  <2> QED
    BY <2>1 DEF Structures, HasNew, Resting
<1> QED
  BY <1>2, <1>3, <1>4

\* Every step keeps the descriptors apart.
LEMMA SocketsStep ==
  ASSUME TypeOK, Strong, fate' = "up", LoaderRuns \/ UserRuns \/ AppRuns \/ OthersRun
  PROVE  Sockets'
<1> USE DEF Strong
<1>1. Typed /\ None \notin Cells \cup {Client, Reserved} /\ Used \subseteq Cells /\ None \notin Fds
      /\ Client \notin Cells \cup {Reserved} /\ Reserved \notin Cells
  BY Variables, NamesAssumption DEF Cells, Used, Fds
<1>2. CASE LoaderRuns
  <2> USE DEF Sockets, OldOpen, NewOpen, OldFd, NewFd, HasNew, Before, After, Resting, LoaderBecomes
  <2>1. CASE Dlclose
    BY <1>1, <2>1, DlcloseFacts DEF InCall
  <2>2. CASE Dlopen
    BY <1>1, <2>2, DlopenFacts DEF InCall
  <2>3. CASE LoadFails
    BY <1>1, <2>3, LoadFailsFacts DEF InCall, Stages
  <2>4. CASE Dlsym
    BY <1>1, <2>4, DlsymFacts DEF InCall
  <2>5. CASE Malloc
    BY <1>1, <2>5, MallocFacts DEF InCall, CellBecomes, Structures
  <2>6. CASE Listen
    BY <1>1, <2>6, ListenFacts DEF InCall, Structures
  <2>7. CASE SetFd
    BY <1>1, <2>7, SetFdFacts DEF InCall, CellBecomes, Structures
  <2>8. CASE SetDir
    <3>1. loader.pc = "setdir" /\ plug # loader.cpy
      BY <2>8, SetDirFacts DEF Structures
    <3>2. cells'[plug].fd = cells[plug].fd /\ (loader.cpy \in Cells => cells'[loader.cpy].fd = cells[loader.cpy].fd)
      BY <2>8, <3>1, SetDirFacts DEF CellBecomes
    <3>3. CASE loader.stage = "first"
      BY <1>1, <2>8, <3>1, <3>2, <3>3, SetDirFacts DEF InCall, Stages
    <3>4. CASE loader.stage # "first"
      BY <1>1, <2>8, <3>1, <3>2, <3>4, SetDirFacts DEF InCall, Structures
    <3> QED
      BY <3>3, <3>4
  <2>9. CASE CopyDir
    BY <1>1, <2>9, CopyDirFacts DEF InCall, CellBecomes, Structures
  <2>10. CASE CloseOld
    BY <1>1, <2>10, CloseOldFacts, OldThere DEF InCall
  <2>11. CASE FreeOld
    <3>1. loader.pc = "freeold" /\ plug # loader.cpy /\ plug \in Cells
      BY <2>11, FreeOldFacts, OldThere
    <3>2. cells'[plug].fd = cells[plug].fd
      BY <2>11, <3>1, FreeOldFacts DEF CellBecomes
    <3>3. app'.cfd = app.cfd /\ (InCall <=> InCall') /\ (InCall => app'.pc = app.pc)
      BY <2>11, FreeOldFacts, <1>1 DEF AppBecomes, InCall, Stages
    <3> QED
      BY <1>1, <2>11, <3>1, <3>2, <3>3, FreeOldFacts
  <2>12. CASE MallocFails
    BY <1>1, <2>12, MallocFailsFacts DEF InCall
  <2> QED
    BY <1>2, <2>1, <2>2, <2>3, <2>4, <2>5, <2>6, <2>7, <2>8, <2>9, <2>10, <2>11, <2>12 DEF LoaderRuns
<1>3. CASE UserRuns
  <2> USE DEF Sockets, OldOpen, NewOpen, OldFd, NewFd, HasNew, Before, After, Resting, LoaderBecomes
  <2>1. /\ UNCHANGED <<plug, cells, fdtab, app>> /\ loader.cpy = None /\ plug \in Cells
        /\ InCall' <=> InCall
    BY <1>3, UserLeaves, AtPrompt DEF InCall
  <2>2. CASE ReloadCommand \/ ReloadAgain
    BY <1>1, <2>1, <2>2, InputFacts, BeginReloadFacts
  <2>3. CASE OtherCommand \/ EndOfInput
    BY <1>1, <2>1, <2>3, InputFacts
  <2>4. CASE ExitCommand
    BY <1>1, <2>1, <2>4, ExitCommandFacts
  <2> QED
    BY <1>3, <2>2, <2>3, <2>4 DEF UserRuns
<1>4. CASE AppRuns \/ OthersRun
  <2>1. /\ UNCHANGED <<loader, plug, cells>> /\ (OldOpen <=> OldOpen') /\ (NewOpen <=> NewOpen')
        /\ OldFd' = OldFd /\ NewFd' = NewFd
    BY <1>4, AppLeaves DEF OldOpen, NewOpen, OldFd, NewFd, HasNew, Resting
  <2>2. \A n \in Fds : fdtab'[n] \in Cells <=> fdtab[n] \in Cells
    BY <1>1, <1>4, LoopFacts, LoadPlugFacts, LoadServerFdFacts, AcceptBlocksFacts, AcceptFailsFacts, AcceptFailedFacts,
       AcceptReturnsFacts, AcceptInterruptedFacts, ForkFacts, CloseClientFacts, OutsideFacts DEF AppRuns, OthersRun, Sockets, InCall
  <2>3. \A n \in Fds : fdtab[n] \in Cells => fdtab'[n] = fdtab[n]
    BY <1>1, <1>4, LoopFacts, LoadPlugFacts, LoadServerFdFacts, AcceptBlocksFacts, AcceptFailsFacts, AcceptFailedFacts,
       AcceptReturnsFacts, AcceptInterruptedFacts, ForkFacts, CloseClientFacts, OutsideFacts DEF AppRuns, OthersRun, Sockets, InCall
  <2>4. /\ \A n \in Fds : fdtab'[n] \in {Client, Reserved} => n = app'.cfd
        /\ IF InCall'
           THEN app'.cfd \in Fds /\ fdtab'[app'.cfd] = IF app'.pc = "blocked" THEN Reserved ELSE Client
           ELSE app'.cfd = None
    <3> USE DEF Sockets, InCall, AppBecomes
    <3>1. CASE Loop
      BY <1>1, <3>1, LoopFacts
    <3>2. CASE LoadPlug
      BY <1>1, <3>2, LoadPlugFacts
    <3>3. CASE LoadServerFd
      BY <1>1, <3>3, LoadServerFdFacts
    <3>4. CASE AcceptBlocks
      BY <1>1, <3>4, AcceptBlocksFacts
    <3>5. CASE AcceptFails
      BY <1>1, <3>5, AcceptFailsFacts
    <3>6. CASE AcceptReturns
      BY <1>1, <3>6, AcceptReturnsFacts
    <3>7. CASE Fork \/ ForkFails
      BY <1>1, <3>7, ForkFacts
    <3>8. CASE CloseClient
      BY <1>1, <3>8, CloseClientFacts
    <3>9. CASE OthersRun
      BY <1>1, <3>9, OutsideFacts DEF OthersRun
    <3>10. CASE AcceptFailed
      BY <1>1, <3>10, AcceptFailedFacts
    <3>11. CASE AcceptInterrupted
      BY <1>1, <3>11, AcceptInterruptedFacts
    <3> QED
      BY <1>4, <3>1, <3>2, <3>3, <3>4, <3>5, <3>6, <3>7, <3>8, <3>9, <3>10, <3>11 DEF AppRuns
  <2>5. /\ OldOpen => loader.cpy \in Cells
        /\ NewOpen => plug \in Cells
    BY <1>1 DEF OldOpen, NewOpen, Structures
  <2> QED
    BY <2>1, <2>2, <2>3, <2>4, <2>5 DEF Sockets
<1> QED
  BY <1>2, <1>3, <1>4

\* With two descriptors open at most, the lowest free number is below 6.
LEMMA ThirdIsFree ==
  ASSUME TypeOK, Sockets, ~NewOpen \/ ~InCall
  PROVE  LowestFree # 6
<1>1. \A n \in Fds : fdtab[n] \in Cells \cup {Client, Reserved, None}
  BY DEF TypeOK
<1>2. \E n \in 3 .. 5 : fdtab[n] = None
  <2>1. CASE NewOpen
    <3>1. app.cfd = None /\ None \notin Fds
      BY <2>1, NamesAssumption DEF Sockets, Fds
    <3>2. \A n \in Fds : fdtab[n] # None => n = OldFd \/ n = NewFd
      BY <1>1, <3>1 DEF Sockets
    <3> QED
      BY <3>2 DEF Fds
  <2>2. CASE ~NewOpen
    <3>1. \A n \in Fds : fdtab[n] # None => n = OldFd \/ n = app.cfd
      BY <1>1, <2>2 DEF Sockets
    <3> QED
      BY <3>1 DEF Fds
  <2> QED
    BY <2>1, <2>2
<1> QED
  BY <1>2, LowestFreeFacts DEF Fds

\* Every step keeps the numbers small.
LEMMA NumbersStep ==
  ASSUME TypeOK, Strong, fate' = "up", LoaderRuns \/ UserRuns \/ AppRuns \/ OthersRun
  PROVE  Numbers'
<1> USE DEF Strong
<1>1. Typed /\ None \notin Cells \cup {Client, Reserved} /\ Used \subseteq Cells /\ None \notin Fds
      /\ Client \notin Cells \cup {Reserved} /\ Reserved \notin Cells
  BY Variables, NamesAssumption DEF Cells, Used, Fds
<1>2. Loads \in Nat /\ (InCall => loader.stage = "command" /\ Loads >= 2)
  <2>1. InCall => app.pc # "none"
    BY DEF InCall
  <2> QED
    BY <2>1, LoadsType DEF Stages
<1>3. ASSUME fdtab' = fdtab, app' = app, Loads' = Loads PROVE Numbers'
  BY <1>3 DEF Numbers, InCall
<1>4. CASE LoaderRuns
  <2>1. CASE Dlclose \/ Dlopen \/ LoadFails \/ Dlsym \/ MallocFails
    BY <1>3, <2>1, SameCells, DlcloseFacts, DlopenFacts, LoadFailsFacts, DlsymFacts, MallocFailsFacts
  <2>2. CASE Malloc
    BY <1>2, <2>2, MallocFacts DEF Numbers, InCall
  <2>3. CASE Listen
    <3>1. loader.pc = "listen" /\ ~NewOpen
      BY <2>3, ListenFacts DEF NewOpen
    <3>2. LowestFree # 6
      BY <3>1, ThirdIsFree
    <3>3. fdtab'[6] = None
      BY <2>3, <3>2, ListenFacts DEF Numbers, Fds
    <3>4. app' = app /\ Loads' = Loads /\ (InCall => app.sfd \in Fds)
      BY <2>3, ListenFacts, SameCells DEF Numbers, Fds
    <3>5. InCall /\ Loads = 2 => fdtab'[app.sfd] \in Cells
      BY <1>1, <2>3, <3>4, ListenFacts DEF Numbers
    <3> QED
      BY <3>3, <3>4, <3>5 DEF Numbers, InCall
  <2>4. CASE SetFd \/ SetDir \/ CopyDir
    BY <1>3, <2>4, SetFdFacts, SetDirFacts, CopyDirFacts
  <2>5. CASE CloseOld
    <3>1. /\ loader.pc = "closeold" /\ Loads' = Loads /\ app' = app
          /\ OldFd \in Fds /\ fdtab[OldFd] = loader.cpy /\ fdtab'[OldFd] = None
          /\ \A n \in Fds : n # OldFd => fdtab'[n] = fdtab[n]
      BY <2>5, CloseOldFacts, SameCells
    <3>2. InCall => Loads # 2
      BY <1>2, <3>1 DEF Stages, After
    <3> QED
      BY <3>1, <3>2 DEF Numbers, InCall, Fds
  <2>6. CASE FreeOld
    <3>1. InCall' <=> InCall
      BY <1>1, <2>6, FreeOldFacts DEF InCall, AppBecomes, Stages
    <3> QED
      BY <2>6, <3>1, FreeOldFacts DEF Numbers, AppBecomes
  <2> QED
    BY <1>4, <2>1, <2>2, <2>3, <2>4, <2>5, <2>6 DEF LoaderRuns
<1>5. CASE UserRuns
  BY <1>3, <1>5, UserLeaves, SameCells
<1>6. CASE AppRuns \/ OthersRun
  <2> USE DEF Numbers, InCall, AppBecomes
  <2>1. Loads' = Loads
    BY <1>6, AppLeaves, SameCells
  <2>2. CASE Loop
    BY <2>2, LoopFacts
  <2>3. CASE LoadPlug
    BY <2>3, LoadPlugFacts
  <2>4. CASE LoadServerFd
    BY <2>4, LoadServerFdFacts
  <2>5. CASE AcceptBlocks
    <3>1. app.pc = "accept"
      BY <2>5, AcceptBlocksFacts
    <3>2. LowestFree # 6
      <4>1. ~InCall
        BY <3>1
      <4> HIDE DEF InCall
      <4> QED
        BY <4>1, ThirdIsFree
    <3>3. fdtab'[6] = None
      BY <2>5, <3>2, AcceptBlocksFacts DEF Fds
    <3>4. /\ app.sfd \in Fds /\ fdtab[app.sfd] \in Cells /\ app'.sfd = app.sfd /\ app'.cfd = LowestFree
          /\ app'.pc = "blocked"
      BY <2>5, AcceptBlocksFacts
    <3>5. app.sfd # 6 /\ app.sfd # LowestFree
      BY <1>1, <2>5, <3>4, AcceptBlocksFacts
    <3>6. fdtab'[app.sfd] = fdtab[app.sfd]
      BY <2>5, <3>4, <3>5, AcceptBlocksFacts
    <3>7. app.sfd \in 3 .. 5
      BY <3>4, <3>5 DEF Fds
    <3> QED
      BY <3>3, <3>4, <3>5, <3>6, <3>7
  <2>6. CASE AcceptFails \/ AcceptFailed
    BY <2>6, AcceptFailsFacts, AcceptFailedFacts
  <2>7. CASE AcceptReturns
    <3>1. app.pc = "blocked" /\ app'.pc = "fork" /\ app'.sfd = app.sfd /\ app'.cfd = app.cfd
      BY <2>7, AcceptReturnsFacts
    <3>2. app.sfd \in Fds /\ app.sfd # app.cfd /\ app.cfd # 6
      BY <1>1, <3>1 DEF Fds, Sockets
    <3>3. fdtab'[6] = None /\ fdtab'[app.sfd] = fdtab[app.sfd]
      BY <2>7, <3>2, AcceptReturnsFacts DEF Fds
    <3> QED
      BY <2>1, <3>1, <3>3
  <2>8. CASE Fork \/ ForkFails
    BY <2>1, <2>8, ForkFacts
  <2>9. CASE CloseClient
    BY <2>9, CloseClientFacts DEF Fds
  <2>10. CASE OthersRun
    BY <2>1, <2>10, OutsideFacts DEF OthersRun
  <2>11. CASE AcceptInterrupted
    BY <2>1, <2>11, AcceptInterruptedFacts DEF Fds
  <2> QED
    BY <1>6, <2>2, <2>3, <2>4, <2>5, <2>6, <2>7, <2>8, <2>9, <2>10, <2>11 DEF AppRuns
<1> QED
  BY <1>4, <1>5, <1>6

\* Every step keeps the addresses.
LEMMA CodeStep ==
  ASSUME TypeOK, Strong, fate' = "up", LoaderRuns \/ UserRuns \/ AppRuns \/ OthersRun
  PROVE  Code'
<1> USE DEF Strong
<1>1. Typed
  BY Variables
<1>2. CASE LoaderRuns
  <2> USE DEF Code, HasNew, Before, After, Resting, LoaderBecomes
  <2>1. CASE Dlclose
    BY <2>1, DlcloseFacts
  <2>2. CASE Dlopen
    <3>1. /\ loader'.pc = "dlsym" /\ loader'.sym = 1 /\ loader'.stage = loader.stage
          /\ fn' = fn /\ app' = app /\ moved' = (moved \/ (loader.stage = "command" /\ lib' # fn[Update]))
      BY <2>2, DlopenFacts
    <3>2. \A y \in Symbols : ~(y < 1)
      BY DEF Symbols
    <3>3. ~moved' => ~moved /\ (loader.stage = "command" => lib' = fn[Update])
      BY <3>1
    <3>4. ~moved' /\ app'.pc \in InLibrary \cup {"blocked"} => app'.base = fn'[Update]
      BY <3>1, <3>3
    <3> QED
      BY <3>1, <3>2, <3>3, <3>4
  <2>3. CASE LoadFails
    BY <1>1, <2>3, LoadFailsFacts DEF Stages
  <2>4. CASE Dlsym
    <3>1. loader.pc = "dlsym" /\ loader.sym \in 1 .. 5 /\ fn'[loader.sym] = lib
          /\ lib' = lib /\ moved' = moved /\ app' = app
          /\ \A y \in Symbols : y # loader.sym => fn'[y] = fn[y]
      BY <2>4, DlsymFacts DEF Symbols
    <3>2. \A y \in Symbols : y < loader.sym \/ y = loader.sym => fn'[y] = lib
      BY <3>1
    <3>3. ~moved /\ loader.stage = "command" => fn'[Update] = fn[Update]
      BY <3>1 DEF Update, Symbols
    <3>4. app.pc = "none" \/ loader.stage = "command"
      BY DEF Stages
    <3>5. ~moved' /\ app'.pc \in InLibrary \cup {"blocked"} => app'.base = fn'[Update]
      BY <3>1, <3>3, <3>4 DEF InLibrary
    <3>6. CASE loader.sym + 1 \in Symbols
      <4>1. LoaderBecomes("dlsym", loader.stage, loader.sym + 1, loader.cpy, loader.fd)
        BY <2>4, <3>6, DlsymFacts
      <4>2. \A y \in Symbols : y < loader.sym + 1 => y < loader.sym \/ y = loader.sym
        BY <3>1 DEF Symbols
      <4> QED
        BY <3>1, <3>2, <3>3, <3>5, <4>1, <4>2
    <3>7. CASE loader.sym + 1 \notin Symbols
      <4>1. LoaderBecomes("malloc", loader.stage, loader.sym, loader.cpy, loader.fd)
        BY <2>4, <3>7, DlsymFacts
      <4>2. \A y \in Symbols : y < loader.sym \/ y = loader.sym
        BY <3>1, <3>7 DEF Symbols
      <4> QED
        BY <3>1, <3>2, <3>5, <4>1, <4>2
    <3> QED
      BY <3>6, <3>7
  <2>5. CASE Malloc
    BY <2>5, MallocFacts
  <2>6. CASE Listen
    BY <2>6, ListenFacts
  <2>7. CASE SetFd
    BY <2>7, SetFdFacts
  <2>8. CASE SetDir
    BY <2>8, SetDirFacts
  <2>9. CASE CopyDir
    BY <2>9, CopyDirFacts
  <2>10. CASE CloseOld
    BY <2>10, CloseOldFacts
  <2>11. CASE FreeOld
    <3>1. app'.pc \in InLibrary \cup {"blocked"} => app'.pc = app.pc /\ app'.base = app.base
      BY <2>11, FreeOldFacts DEF AppBecomes, InLibrary
    <3> QED
      BY <2>11, <3>1, FreeOldFacts
  <2>12. CASE MallocFails
    BY <2>12, MallocFailsFacts
  <2> QED
    BY <1>2, <2>1, <2>2, <2>3, <2>4, <2>5, <2>6, <2>7, <2>8, <2>9, <2>10, <2>11, <2>12 DEF LoaderRuns
<1>3. CASE UserRuns
  <2>1. UNCHANGED <<lib, fn, moved, app>> /\ loader.pc = "prompt"
    BY <1>3, UserLeaves
  <2>2. loader'.pc \in {"dlclose", "prompt", "ended"}
    BY <1>3, <2>1, InputFacts, BeginReloadFacts, ExitCommandFacts DEF UserRuns, LoaderBecomes
  <2> QED
    BY <2>1, <2>2 DEF Code, HasNew, Before, After, Resting
<1>4. CASE AppRuns \/ OthersRun
  <2>1. UNCHANGED <<loader, lib, fn, moved>>
    BY <1>4, AppLeaves
  <2>2. app'.pc \in InLibrary \cup {"blocked"} =>
          \/ app'.base = fn[Update]
          \/ app.pc \in InLibrary \cup {"blocked"} /\ app'.base = app.base
    BY <1>4, LoopFacts, LoadPlugFacts, LoadServerFdFacts, AcceptBlocksFacts, AcceptFailsFacts, AcceptFailedFacts,
       AcceptReturnsFacts, AcceptInterruptedFacts, ForkFacts, CloseClientFacts, OutsideFacts
    DEF AppRuns, OthersRun, AppBecomes, InLibrary
  <2> QED
    BY <2>1, <2>2 DEF Code, HasNew, Resting
<1> QED
  BY <1>2, <1>3, <1>4

\* Where the loader is, once the threads run.
LEMMA AppBegun ==
  ASSUME Stages, Structures, Failures, TypeOK, app.pc # "none"
  PROVE  /\ loader.stage = "command"
         /\ Reloading \/ LoadFailed \/ (Resting /\ HasNew /\ plug \in Cells)
<1>1. loader.stage = "command"
  BY DEF Stages
<1>2. exit_signal \in {0, 1}
  BY DEF TypeOK
<1>3. CASE loader.pc \in {"prompt", "ended"}
  <2>1. LoadFailed \/ Resting
    BY <1>2, <1>3 DEF Failures, Resting, Stages
  <2>2. Resting => HasNew /\ plug \in Cells
    BY DEF HasNew, Structures, Used
  <2> QED
    BY <1>1, <2>1, <2>2
<1>4. CASE loader.pc \notin {"prompt", "ended"}
  BY <1>1, <1>4 DEF Reloading
<1> QED
  BY <1>1, <1>3, <1>4

\* Every step keeps an undisturbed app thread in accept(), or on its way to it with what
\* is still there.
LEMMA UndisturbedStep ==
  ASSUME TypeOK, Strong, fate' = "up", LoaderRuns \/ UserRuns \/ AppRuns \/ OthersRun
  PROVE  Undisturbed'
<1> USE DEF Strong
<1>1. CASE LoaderRuns
  <2>1. disturbed' = disturbed
    BY <1>1, DlcloseFacts, DlopenFacts, LoadFailsFacts, DlsymFacts, MallocFacts, MallocFailsFacts,
       ListenFacts, SetFdFacts, SetDirFacts, CopyDirFacts, CloseOldFacts, FreeOldFacts DEF LoaderRuns
  <2>2. app' = app \/ (FreeOld /\ app.pc = "none")
    BY <1>1, DlcloseFacts, DlopenFacts, LoadFailsFacts, DlsymFacts, MallocFacts, MallocFailsFacts,
       ListenFacts, SetFdFacts, SetDirFacts, CopyDirFacts, CloseOldFacts, FreeOldFacts DEF LoaderRuns, Stages
  <2>3. loader.pc \notin {"prompt", "ended"}
    BY <1>1 DEF LoaderRuns, Dlclose, Dlopen, LoadFails, Dlsym, Malloc, MallocFails, Listen, SetFd, SetDir,
                CopyDir, CloseOld, FreeOld, At
  <2>4. loader'.stage = "command" => loader.stage = "command" \/ loader'.pc = "prompt"
    BY <1>1, DlcloseFacts, DlopenFacts, LoadFailsFacts, DlsymFacts, MallocFacts, MallocFailsFacts,
       ListenFacts, SetFdFacts, SetDirFacts, CopyDirFacts, CloseOldFacts, FreeOldFacts DEF LoaderRuns, LoaderBecomes
  <2>5. FreeOld => loader'.pc = "prompt" /\ app'.pc \in {"loop", app.pc}
    BY FreeOldFacts DEF LoaderBecomes, AppBecomes
  <2>6. ~disturbed => app.pc \in {"none", "blocked"}
    BY <2>3 DEF Undisturbed, Reloading, Idle, Stages
  <2>7. ~disturbed => app'.pc \in {"none", "blocked", "loop"}
    BY <2>2, <2>5, <2>6
  <2> QED
    BY <2>1, <2>2, <2>3, <2>4, <2>5, <2>7 DEF Undisturbed, Reloading, Idle
<1>2. CASE UserRuns
  <2>1. UNCHANGED <<app, plug, cells>> /\ loader.pc = "prompt"
    BY <1>2, UserLeaves
  <2>2. CASE ReloadCommand \/ ReloadAgain
    <3>1. disturbed' = (disturbed \/ ~Idle)
      BY <2>2, InputFacts, BeginReloadFacts
    <3> QED
      BY <2>1, <3>1 DEF Undisturbed, Idle
  <2>3. CASE OtherCommand \/ EndOfInput
    BY <2>1, <2>3, InputFacts DEF Undisturbed, Reloading, Idle, Resting
  <2>4. CASE ExitCommand
    <3>1. disturbed' = disturbed /\ loader'.pc = "ended" /\ loader'.cpy = None
      BY <2>4, ExitCommandFacts, AtPrompt DEF LoaderBecomes
    <3> QED
      BY <2>1, <3>1 DEF Undisturbed, Reloading, Resting
  <2> QED
    BY <1>2, <2>2, <2>3, <2>4 DEF UserRuns
<1>3. CASE AppRuns \/ OthersRun
  <2>1. UNCHANGED <<loader, plug, cells>>
    BY <1>3, AppLeaves
  <2>2. CASE AcceptReturns \/ AcceptInterrupted
    BY <2>1, <2>2, AcceptReturnsFacts, AcceptInterruptedFacts DEF Undisturbed, Reloading, Idle, AppBecomes
  <2>3. CASE LoadPlug
    BY <2>1, <2>3, LoadPlugFacts DEF AppBecomes, Undisturbed, Reloading, Idle
  <2>4. CASE LoadServerFd
    <3>1. /\ app.pc = "deref" /\ app'.pc = "accept" /\ disturbed' = disturbed /\ app.p # None
          /\ cells[app.p].state = "allocated" /\ cells[app.p].fd # None => app'.sfd = cells[app.p].fd
      BY <2>4, LoadServerFdFacts DEF AppBecomes
    <3>2. ASSUME ~disturbed PROVE Resting /\ app'.sfd = cells[plug].fd
      <4>1. app.p = plug /\ ~Reloading
        BY <3>1, <3>2 DEF Undisturbed, Idle
      <4>2. Resting /\ HasNew /\ NewOpen
        <5>1. loader.pc \in {"prompt", "ended"}
          BY <3>1, <4>1, AppBegun DEF Reloading
        <5>2. HasNew
          BY <3>1, <4>1, <5>1 DEF Structures
        <5> QED
          BY <5>1, <5>2 DEF HasNew, After, NewOpen
      <4>3. cells[plug].state = "allocated" /\ cells[plug].fd \in Fds
        BY <4>2 DEF Structures, Sockets, NewFd, Resting
      <4> QED
        BY <3>1, <4>1, <4>2, <4>3, NamesAssumption DEF Fds
    <3> QED
      BY <2>1, <3>1, <3>2 DEF Undisturbed, Reloading, Idle, Resting
  <2>5. CASE ~AcceptReturns /\ ~AcceptInterrupted /\ ~LoadPlug /\ ~LoadServerFd
    <3>1. disturbed' = disturbed /\ (Idle => Idle') /\ (app'.pc \in {"deref", "accept"} => app' = app)
      BY <1>3, <2>5, LoopFacts, AcceptBlocksFacts, AcceptFailsFacts, AcceptFailedFacts, ForkFacts,
         CloseClientFacts, OutsideFacts DEF AppRuns, OthersRun, AppBecomes, Idle
    <3> QED
      BY <2>1, <3>1 DEF Undisturbed, Reloading, Resting
  <2> QED
    BY <2>2, <2>3, <2>4, <2>5
<1> QED
  BY <1>1, <1>2, <1>3

\* Every step records what fails.
LEMMA FailuresStep ==
  ASSUME TypeOK, Strong, fate' = "up", LoaderRuns \/ UserRuns \/ AppRuns \/ OthersRun
  PROVE  Failures'
<1> USE DEF Strong, Failures, LoadFailed
<1>1. CASE LoaderRuns
  <2>1. exit_signal' = exit_signal /\ loader.pc \notin {"prompt", "ended"}
    BY <1>1, DlcloseFacts, DlopenFacts, LoadFailsFacts, DlsymFacts, MallocFacts, MallocFailsFacts,
       ListenFacts, SetFdFacts, SetDirFacts, CopyDirFacts, CloseOldFacts, FreeOldFacts
    DEF LoaderRuns, After
  <2>2. exit_signal = 0
    BY <2>1 DEF Stages, TypeOK
  <2>3. CASE LoadFails
    BY <2>1, <2>2, <2>3, LoadFailsFacts DEF LoaderBecomes
  <2>4. CASE MallocFails
    BY <2>1, <2>2, <2>4, MallocFailsFacts DEF LoaderBecomes
  <2>5. CASE ~LoadFails /\ ~MallocFails
    <3>1. failed' = failed /\ loader'.pc \notin {"ended", "nomemory"}
      BY <1>1, <2>5, DlcloseFacts, DlopenFacts, DlsymFacts, MallocFacts, ListenFacts, SetFdFacts,
         SetDirFacts, CopyDirFacts, CloseOldFacts, FreeOldFacts DEF LoaderRuns, LoaderBecomes
    <3> QED
      BY <2>1, <2>2, <3>1
  <2> QED
    BY <2>3, <2>4, <2>5
<1>2. CASE UserRuns
  <2>1. failed' = failed /\ loader.pc = "prompt"
    BY <1>2, UserLeaves
  <2>2. loader'.pc \in {"dlclose", "prompt"} \/ (loader'.pc = "ended" /\ exit_signal' = 1)
    BY <1>2, <2>1, InputFacts, BeginReloadFacts, ExitCommandFacts DEF UserRuns, LoaderBecomes
  <2> QED
    BY <2>1, <2>2
<1>3. CASE AppRuns \/ OthersRun
  BY <1>3, AppLeaves
<1> QED
  BY <1>1, <1>2, <1>3
-----------------------------------------------------------------------------
\* What follows from the invariant while the process runs.

\* One of the two sockets is always open.
LEMMA Attended ==
  ASSUME TypeOK, Strong
  PROVE  PortAttended
<1> SUFFICES ASSUME loader.stage = "command"
             PROVE  \E n \in Fds : fdtab[n] \in Cells
  BY DEF PortAttended
<1> USE DEF Strong
<1>1. OldOpen => OldFd \in Fds /\ fdtab[OldFd] \in Cells
  BY DEF OldOpen, Sockets, Structures, Used
<1>2. NewOpen => NewFd \in Fds /\ fdtab[NewFd] \in Cells
  BY DEF NewOpen, Sockets, Structures, Used
<1>3. CASE loader.cpy = None
  <2>1. NewOpen
    BY <1>3 DEF Stages, Resting, NewOpen, HasNew
  <2> QED
    BY <1>2, <2>1
<1>4. CASE loader.cpy # None
  <2>1. OldOpen \/ NewOpen
    BY <1>4 DEF OldOpen, NewOpen, HasNew, After
  <2> QED
    BY <1>1, <1>2, <2>1
<1> QED
  BY <1>3, <1>4

\* At the prompt only the structure in use is left.
LEMMA SettledNow ==
  ASSUME TypeOK, Strong
  PROVE  Settled
<1> SUFFICES ASSUME loader.pc = "prompt"
             PROVE  /\ plug \in Cells
                    /\ cells[plug].state = "allocated" /\ cells[plug].dir = "configured"
                    /\ \A k \in Used \ {plug} : cells[k].state = "freed"
                    /\ {n \in Fds : fdtab[n] \in Cells} = {cells[plug].fd}
                    /\ fdtab[cells[plug].fd] = plug
  BY DEF Settled
<1> USE DEF Strong
<1>1. loader.cpy = None /\ plug \in Used /\ plug \in Cells /\ HasNew /\ Resting
  BY AtPrompt DEF HasNew, Resting
<1>2. /\ cells[plug].state = "allocated" /\ cells[plug].dir = "configured"
      /\ \A k \in Used \ {plug} : cells[k].state = "freed"
  BY <1>1, NamesAssumption DEF Structures, Used, Cells
<1>3. ~OldOpen /\ NewOpen /\ NewFd = cells[plug].fd
  BY <1>1 DEF OldOpen, NewOpen, NewFd
<1>4. cells[plug].fd \in Fds /\ fdtab[cells[plug].fd] = plug
      /\ \A n \in Fds : fdtab[n] \in Cells => n = cells[plug].fd
  BY <1>3 DEF Sockets
<1> QED
  BY <1>1, <1>2, <1>4

\* What is closed is what was opened for it.
LEMMA Described ==
  ASSUME TypeOK, Strong
  PROVE  RightDescriptor
<1> USE DEF Strong
<1>1. loader.pc = "closeold" => OldOpen
  BY OldThere, NamesAssumption DEF OldOpen, Cells
<1> QED
  BY <1>1 DEF RightDescriptor, Sockets, OldFd, InCall

\* A library that was not moved is still there for a thread that was not disturbed.
LEMMA CodeThere ==
  ASSUME TypeOK, Strong, app.pc \in InLibrary
  PROVE  /\ app.base # lib => moved \/ disturbed \/ LoadFailed
         /\ app.pc = "deref" /\ app.p = None => disturbed \/ LoadFailed
<1> USE DEF Strong
<1>1. app.pc # "none" /\ ~Idle
  BY DEF InLibrary, Idle
<1>2. disturbed \/ LoadFailed \/ HasNew
  BY <1>1, AppBegun DEF Undisturbed
<1>3. ~moved /\ HasNew => app.base = lib
  BY DEF Code, Update, Symbols
<1>4. app.pc = "deref" /\ app.p = None => disturbed \/ LoadFailed
  BY <1>1, AppBegun, NamesAssumption DEF Undisturbed, Cells
<1> QED
  BY <1>2, <1>3, <1>4

\* The number that accept() gets is the listener's.
LEMMA Listens ==
  ASSUME TypeOK, Strong
  PROVE  AcceptsOnListener
<1> SUFFICES ASSUME app.pc = "accept", ~disturbed
             PROVE  app.sfd # None /\ plug # None /\ fdtab[app.sfd] = plug
  BY DEF AcceptsOnListener
<1>1. Resting /\ app.sfd = cells[plug].fd
  BY DEF Strong, Undisturbed
<1>2. HasNew /\ NewOpen /\ NewFd = cells[plug].fd
  BY <1>1 DEF Resting, HasNew, NewOpen, NewFd
<1>3. cells[plug].fd \in Fds /\ fdtab[cells[plug].fd] = plug /\ plug \in Cells
  BY <1>2 DEF Strong, Structures, Sockets, Used
<1> QED
  BY <1>1, <1>3, NamesAssumption DEF Fds, Cells

\* The sockets a child keeps are those of the one other number.
LEMMA HeldByKid ==
  ASSUME TypeOK, Strong, app.pc = "fork", KidHeld # {}
  PROVE  Loads > 2 /\ Cardinality(KidHeld) = 1
<1> USE DEF Strong
<1>1. /\ None \notin Cells /\ Client \notin Cells /\ Loads \in Nat
      /\ InCall /\ loader.stage = "command" /\ Loads >= 2
  BY LoadsType, NamesAssumption DEF Cells, InCall, Stages
<1>2. /\ app.sfd \in 3 .. 5 /\ app.cfd \in Fds /\ app.sfd # app.cfd
      /\ fdtab[6] = None /\ fdtab[app.cfd] = Client
  BY <1>1 DEF Numbers, Sockets
<1>3. PICK m \in Fds : m # app.sfd /\ fdtab[m] \in Cells
  BY DEF KidHeld
<1>4. \A n \in Fds : n # app.sfd /\ fdtab[n] \in Cells => n = m
  <2>1. ASSUME NEW n \in Fds, fdtab[n] \in Cells
        PROVE  n \in {3, 4, 5} /\ n # app.cfd
    <3>1. n # 6 /\ n # app.cfd
      BY <1>1, <1>2, <2>1
    <3> QED
      BY <3>1 DEF Fds
  <2>2. m \in {3, 4, 5} /\ m # app.cfd
    BY <1>3, <2>1
  <2>3. app.cfd \in {3, 4, 5} /\ app.sfd \in {3, 4, 5}
    <3>1. app.cfd # 6
      BY <1>1, <1>2, NamesAssumption
    <3> QED
      BY <1>2, <3>1 DEF Fds
  <2> QED
    BY <1>2, <1>3, <2>1, <2>2, <2>3
<1>5. KidHeld = {fdtab[m]}
  BY <1>3, <1>4 DEF KidHeld
<1>6. Cardinality(KidHeld) = 1
  BY <1>5, FS_Singleton
<1>7. Loads # 2
  <2> SUFFICES ASSUME Loads = 2 PROVE FALSE
    OBVIOUS
  <2>1. fdtab[app.sfd] \in Cells /\ app.sfd \in Fds
    BY <1>1, <1>2 DEF Numbers, Fds
  <2>2. ~(OldOpen /\ NewOpen)
    BY <1>1 DEF OldOpen, NewOpen, HasNew, Stages
  <2>3. m = app.sfd
    BY <1>3, <2>1, <2>2 DEF Sockets
  <2> QED
    BY <1>3, <2>3
<1> QED
  BY <1>1, <1>6, <1>7

\* A new child comes of fork() only.
LEMMA NewKid ==
  ASSUME TypeOK, Strong, fate' = "up", LoaderRuns \/ UserRuns \/ AppRuns \/ OthersRun,
         NEW k \in Kids, kids'[k] # None, kids'[k] # kids[k]
  PROVE  app.pc = "fork" /\ kids'[k].dir = KidDir /\ kids'[k].held = KidHeld
<1> USE DEF Strong
<1>1. CASE LoaderRuns
  BY <1>1, DlcloseFacts, DlopenFacts, LoadFailsFacts, DlsymFacts, MallocFacts, MallocFailsFacts,
     ListenFacts, SetFdFacts, SetDirFacts, CopyDirFacts, CloseOldFacts, FreeOldFacts DEF LoaderRuns
<1>2. CASE UserRuns
  BY <1>2, UserLeaves
<1>3. CASE Fork \/ ForkFails
  BY <1>3, ForkFacts
<1>4. CASE AppRuns /\ ~(Fork \/ ForkFails)
  BY <1>4, LoopFacts, LoadPlugFacts, LoadServerFdFacts, AcceptBlocksFacts, AcceptFailsFacts,
     AcceptFailedFacts, AcceptReturnsFacts, AcceptInterruptedFacts, CloseClientFacts DEF AppRuns
<1>5. CASE OthersRun
  BY <1>5, OutsideFacts DEF OthersRun
<1> QED
  BY <1>1, <1>2, <1>3, <1>4, <1>5

\* Where the loader is, and what a child forked there finds through plug.
LEMMA ServedByKid ==
  ASSUME TypeOK, Strong, app.pc = "fork", KidDir # "configured"
  PROVE  DirMissing \/ LoadFailed
<1> USE DEF Strong
<1>1. loader.stage = "command" /\ loader \in LoaderT /\ exit_signal \in {0, 1}
      /\ None \notin Cells /\ Used \subseteq Cells
  BY RecordTypes, NamesAssumption DEF Stages, TypeOK, Cells, Used
<1>2. \/ DirMissing \/ LoadFailed \/ Resting
      \/ loader.pc \in {"dlclose", "closeold", "freeold"}
  BY <1>1 DEF LoaderT, Before, After, DirMissing, Failures, Stages, Resting
<1>3. CASE Resting \/ loader.pc \in {"closeold", "freeold"}
  <2>1. plug \in Cells /\ cells[plug].dir = "configured"
    BY <1>1, <1>3 DEF Structures, HasNew, After
  <2> QED
    BY <1>1, <2>1, NamesAssumption DEF KidDir
<1>4. CASE loader.pc = "dlclose"
  <2>1. loader.cpy # None /\ ~HasNew
    BY <1>1, <1>4 DEF Stages, Resting, HasNew, After
  <2>2. plug \in Cells /\ cells[plug].dir = "configured"
    BY <1>1, <1>4, <2>1 DEF Structures
  <2> QED
    BY <1>1, <2>2, NamesAssumption DEF KidDir
<1> QED
  BY <1>2, <1>3, <1>4

\* The loads are counted up.
LEMMA LoadsGrow ==
  ASSUME TypeOK, Strong, fate' = "up", LoaderRuns \/ UserRuns \/ AppRuns \/ OthersRun
  PROVE  Loads \in Nat /\ Loads' \in Nat /\ Loads' >= Loads
<1> USE DEF Strong
<1>1. Loads \in Nat
  BY LoadsType
<1>2. Loads' = Loads \/ Loads' = Loads + 1
  <2>1. CASE UserRuns \/ AppRuns \/ OthersRun
    BY <2>1, UserLeaves, AppLeaves, SameCells
  <2>2. CASE LoaderRuns
    BY <2>2, SameCells, DlcloseFacts, DlopenFacts, LoadFailsFacts, DlsymFacts, MallocFacts, MallocFailsFacts,
       ListenFacts, SetFdFacts, SetDirFacts, CopyDirFacts, CloseOldFacts, FreeOldFacts DEF LoaderRuns
  <2> QED
    BY <2>1, <2>2
<1> QED
  BY <1>1, <1>2

\* A step changes no child but one that is forked or ends.
LEMMA KidsStep ==
  ASSUME TypeOK, Strong, fate' = "up", LoaderRuns \/ UserRuns \/ AppRuns \/ OthersRun, ChildLetsGo
  PROVE  ChildLetsGo'
<1> SUFFICES ASSUME NEW k \in Kids, kids'[k] # None, kids'[k].held # {}
             PROVE  Loads' > 2 /\ Cardinality(kids'[k].held) = 1
  BY DEF ChildLetsGo, Loads
<1>1. Loads > 2 /\ Cardinality(kids'[k].held) = 1
  <2>1. CASE kids'[k] = kids[k]
    BY <2>1 DEF ChildLetsGo, Loads
  <2>2. CASE kids'[k] # kids[k]
    <3>1. app.pc = "fork" /\ kids'[k].held = KidHeld
      BY <2>2, NewKid
    <3> QED
      BY <3>1, HeldByKid
  <2> QED
    BY <2>1, <2>2
<1> QED
  BY <1>1, LoadsGrow
-----------------------------------------------------------------------------
\* The steps that end the process, and the invariant.

\* A death has a cause, and leaves all as it was but for the last free().
LEMMA Deaths ==
  ASSUME TypeOK, Strong, Next, fate' # "up"
  PROVE  /\ fate' \in {"exited", "unmapped", "null"} /\ failed' \subseteq Calls
         /\ IdleReloadSafe'
         /\ UNCHANGED <<loader, app, lib, fn, plug, fdtab, pending, kids, exit_signal, input,
                        moved, disturbed>>
         /\ cells' \in [Cells -> CellT] /\ Used' = Used
         /\ cells' = cells \/ loader.pc = "ended"
<1> USE DEF Strong
<1>1. cells \in [Cells -> CellT] /\ failed \subseteq Calls
  BY RecordTypes DEF TypeOK
<1>2. CASE FreePlug
  <2>1. /\ fate' = "exited" /\ loader.pc = "ended" /\ app.pc = "done"
        /\ cells' = [cells EXCEPT ![plug].state = "freed"]
        /\ UNCHANGED <<loader, app, lib, fn, plug, fdtab, pending, kids, exit_signal, input,
                       moved, disturbed, failed>>
    BY <1>2 DEF FreePlug, threads, kernel, outside, history
  <2>2. plug \in Used /\ plug \in Cells /\ exit_signal = 1
    BY <2>1 DEF Stages, Resting, HasNew, Structures, Used
  <2>3. CellBecomes(plug, "freed", cells[plug].fd, cells[plug].dir)
    BY <1>1, <2>1, <2>2, CellForms
  <2>4. Used' = Used
    <3> DEFINE fd == cells[plug].fd  dir == cells[plug].dir
    <3>1. CellBecomes(plug, "freed", fd, dir)
      BY <2>3
    <3> HIDE DEF fd, dir
    <3> QED
      BY <2>2, <3>1, OldCell
  <2>5. IdleReloadSafe'
    BY <2>1, <2>2 DEF IdleReloadSafe
  <2> QED
    BY <1>1, <2>1, <2>3, <2>4, <2>5 DEF CellBecomes
<1>3. CASE ListenFails \/ LoadFails
  <2>1. Ends("exited") /\ \/ Fails("listen")
                          \/ Fails("load") /\ loader.stage # "command"
    <3>1. ~(UNCHANGED fate)
      BY Alive
    <3>2. CASE ListenFails
      BY <3>2 DEF ListenFails
    <3>3. CASE LoadFails
      BY <3>1, <3>3 DEF LoadFails
    <3> QED
      BY <1>3, <3>2, <3>3
  <2>2. /\ failed' \subseteq Calls
        /\ "listen" \in failed' \/ ("load" \in failed' /\ loader.stage # "command")
    BY <1>1, <2>1 DEF Fails, Calls
  <2>3. UNCHANGED <<loader, app, lib, fn, plug, cells, fdtab, pending, kids, exit_signal, input,
                    moved, disturbed>> /\ fate' = "exited"
    BY <2>1 DEF Ends, threads, memory, kernel, outside
  <2>4. IdleReloadSafe'
    BY <2>2, <2>3 DEF IdleReloadSafe, LoadFailed
  <2> QED
    BY <1>1, <2>2, <2>3, <2>4, SameCells
<1>4. CASE Unmapped \/ NullPlug \/ StoreThroughNull
  <2>1. failed' = failed
        /\ UNCHANGED <<loader, app, lib, fn, plug, cells, fdtab, pending, kids, exit_signal, input,
                       moved, disturbed>>
    BY <1>4 DEF Unmapped, NullPlug, StoreThroughNull, Ends, threads, memory, kernel, outside
  <2>2. Unmapped => fate' = "unmapped" /\ (moved \/ disturbed \/ LoadFailed)
    BY CodeThere DEF Unmapped, Mapped, Ends
  <2>3. NullPlug => fate' = "null" /\ (disturbed \/ LoadFailed)
    BY CodeThere DEF NullPlug, InCode, InLibrary, Ends
  <2>4. StoreThroughNull => fate' = "null" /\ "memory" \in failed
    BY DEF StoreThroughNull, At, Failures, Ends
  <2>5. IdleReloadSafe'
    BY <1>4, <2>1, <2>2, <2>3, <2>4 DEF IdleReloadSafe, LoadFailed
  <2> QED
    BY <1>1, <1>4, <2>1, <2>2, <2>3, <2>4, <2>5, SameCells
<1>5. FreePlug \/ ListenFails \/ LoadFails \/ Unmapped \/ NullPlug \/ StoreThroughNull
  <2>1. fate = "up"
    BY Alive
  <2> QED
    BY <2>1 DEF Next, Dlclose, Dlopen, Dlsym, Malloc, MallocFails, Listen, SetFd, SetDir, CopyDir,
         CloseOld, FreeOld, ReloadCommand, ReloadTyped, BeginReload, OtherCommand, ExitCommand,
         EndOfInput, ReloadAgain, Loop, LoadPlug, LoadServerFd, AcceptBlocks, AcceptFails, AcceptFailed,
         AcceptReturns, AcceptInterrupted, Fork, ForkFails, CloseClient, Connect, KidExits
<1> QED
  BY <1>2, <1>3, <1>4, <1>5

\* The invariant holds at first.
LEMMA Initially == Init => IInv
<1> SUFFICES ASSUME Init PROVE IInv
  OBVIOUS
<1>1. None \notin Cells /\ None \notin Fds /\ None \notin {Client, Reserved, "configured"}
      /\ Update \in Symbols
  BY NamesAssumption DEF Cells, Fds, Update, Symbols
<1>2. Used = {} /\ Used = 1 .. 0
  BY DEF Init, Used
<1>3. Loads = 0 /\ Numbered
  BY <1>2, Count, BoundsAssumption DEF Numbered
<1>4. TypeOK
  <2>1. loader \in LoaderT
    <3>1. 1 \in Symbols
      BY DEF Symbols
    <3> QED
      BY <3>1 DEF Init, LoaderT, Before
  <2>2. app \in AppT
    BY DEF Init, AppT, Outside
  <2>3. cells \in [Cells -> CellT] /\ kids \in [Kids -> {None} \cup KidT]
    BY DEF Init, CellT
  <2>4. input \in InputT
    BY DEF Init, InputT
  <2>5. pending \in [Cells -> 0 .. MaxPending]
    BY BoundsAssumption DEF Init
  <2>6. /\ lib \in Bases \cup {None} /\ plug \in Cells \cup {None}
        /\ fn \in [Symbols -> Bases \cup {None}]
        /\ fdtab \in [Fds -> Cells \cup {None, Client, Reserved}]
        /\ exit_signal \in {0, 1} /\ fate \in {"up", "exited", "unmapped", "null"}
        /\ moved \in BOOLEAN /\ disturbed \in BOOLEAN /\ failed \subseteq Calls
    BY DEF Init
  <2> QED
    BY <2>1, <2>2, <2>3, <2>4, <2>5, <2>6, Variables DEF Typed
<1>5. Stages
  BY <1>1, <1>3 DEF Init, Stages, Before, After, Outside
<1>6. ~HasNew /\ ~Resting /\ loader.cpy = None
  BY DEF Init, HasNew, After, Resting
<1>7. Structures
  BY <1>2, <1>6 DEF Init, Structures
<1>8. Sockets
  BY <1>1, <1>6 DEF Init, Sockets, OldOpen, NewOpen, InCall, Outside
<1>9. Numbers
  BY <1>1 DEF Init, Numbers, InCall, Outside, Fds
<1>10. Code
  BY <1>6 DEF Init, Code, Outside, InLibrary
<1>11. Undisturbed
  BY DEF Init, Undisturbed, Reloading, Outside
<1>12. Failures
  BY DEF Init, Failures, LoadFailed
<1>13. Strong
  BY <1>3, <1>5, <1>7, <1>8, <1>9, <1>10, <1>11, <1>12 DEF Strong
<1> QED
  BY <1>4, <1>13, Described, Listens DEF IInv, Init, IdleReloadSafe, ChildLetsGo

\* Every step of a running process keeps it, ...
LEMMA StepUp ==
  ASSUME IInv, Next, fate' = "up"
  PROVE  IInv'
<1>1. fate = "up" /\ (LoaderRuns \/ UserRuns \/ AppRuns \/ OthersRun)
  BY Running
<1>2. TypeOK /\ Strong /\ ChildLetsGo
  BY <1>1 DEF IInv
<1>3. TypeOK' /\ Numbered' /\ Stages' /\ Structures' /\ Sockets' /\ Numbers' /\ Code'
      /\ Undisturbed' /\ Failures'
  BY <1>1, <1>2, TypeStep, NumberedStep, StagesStep, StructuresStep, SocketsStep, NumbersStep, CodeStep,
     UndisturbedStep, FailuresStep
<1>4. Strong'
  BY <1>3 DEF Strong
<1>5. ChildLetsGo'
  BY <1>1, <1>2, KidsStep
<1>6. RightDescriptor' /\ AcceptsOnListener'
  BY <1>3, <1>4, Described, Listens, PTL
<1>7. IdleReloadSafe'
  BY DEF IdleReloadSafe
<1> QED
  BY <1>3, <1>4, <1>5, <1>6, <1>7 DEF IInv

\* ... and so does its end, ...
LEMMA StepDown ==
  ASSUME IInv, Next, fate' # "up"
  PROVE  IInv'
<1>1. fate = "up"
  BY Alive
<1>2. TypeOK /\ Strong /\ RightDescriptor /\ AcceptsOnListener /\ ChildLetsGo
  BY <1>1 DEF IInv
<1>3. /\ fate' \in {"exited", "unmapped", "null"} /\ failed' \subseteq Calls
      /\ IdleReloadSafe'
      /\ UNCHANGED <<loader, app, lib, fn, plug, fdtab, pending, kids, exit_signal, input,
                     moved, disturbed>>
      /\ cells' \in [Cells -> CellT] /\ Used' = Used
      /\ cells' = cells \/ loader.pc = "ended"
  BY <1>2, Deaths
<1>4. TypeOK'
  BY <1>2, <1>3, Variables DEF Typed
<1>5. RightDescriptor' /\ AcceptsOnListener'
  BY <1>2, <1>3 DEF RightDescriptor, AcceptsOnListener
<1>6. ChildLetsGo'
  BY <1>2, <1>3 DEF ChildLetsGo
<1> QED
  BY <1>3, <1>4, <1>5, <1>6 DEF IInv

\* ... and a step of nothing.
LEMMA Stutter ==
  ASSUME IInv, UNCHANGED vars
  PROVE  IInv'
<1>1. /\ UNCHANGED <<loader, app, lib, fn, plug, cells, fdtab, pending>>
      /\ UNCHANGED <<kids, exit_signal, input, fate, moved, disturbed, failed>>
  BY DEF vars, threads, memory, kernel, outside, history
<1>2. TypeOK'
  BY <1>1, Variables DEF IInv, Typed
<1>3. /\ RightDescriptor' /\ IdleReloadSafe' /\ AcceptsOnListener' /\ ChildLetsGo'
  BY <1>1 DEF IInv, RightDescriptor, IdleReloadSafe, AcceptsOnListener, ChildLetsGo, LoadFailed, Used
<1>4. ASSUME fate = "up" PROVE Strong'
  <2>1. Strong /\ Used' = Used /\ Loads' = Loads
    BY <1>1, <1>4, SameCells DEF IInv
  <2>2. (HasNew' <=> HasNew) /\ (Resting' <=> Resting) /\ (InCall' <=> InCall) /\ (Idle' <=> Idle)
        /\ (Reloading' <=> Reloading) /\ (LoadFailed' <=> LoadFailed)
    BY <1>1 DEF HasNew, Resting, InCall, Idle, Reloading, LoadFailed
  <2>3. Numbered' /\ Stages' /\ Structures'
    BY <1>1, <2>1, <2>2 DEF Strong, Numbered, Stages, Structures
  <2>4. Sockets' /\ Numbers'
    BY <1>1, <2>1, <2>2 DEF Strong, Sockets, Numbers, OldOpen, NewOpen, OldFd, NewFd
  <2>5. Code' /\ Undisturbed' /\ Failures'
    BY <1>1, <2>1, <2>2 DEF Strong, Code, Undisturbed, Failures
  <2> QED
    BY <2>3, <2>4, <2>5 DEF Strong
<1> QED
  BY <1>1, <1>2, <1>3, <1>4 DEF IInv
-----------------------------------------------------------------------------
\* The theorems.

\* The inductive invariant: every state the two threads, the user, the clients and the
\* children can bring the server into is one of those described above.
THEOREM Invariance == Spec => []IInv
<1>1. Init => IInv
  BY Initially
<1>2. IInv /\ [Next]_vars => IInv'
  BY StepUp, StepDown, Stutter
<1> QED
  BY <1>1, <1>2, PTL DEF Spec

\* Every variable keeps the type the code gives it: in particular no descriptor number
\* beyond the four of the table is ever asked for, and no more structures are made
\* than loads are possible.
THEOREM TypeCorrect == Spec => []TypeOK
<1>1. IInv => TypeOK
  BY DEF IInv
<1> QED
  BY <1>1, Invariance, PTL

\* Through every reload the server has a descriptor of a socket that listens:
\* plug_post_load() opens the new one before it closes the old one (plug.c:62, 66).
THEOREM PortAttendedHolds == Spec => []PortAttended
<1>1. IInv => PortAttended
  BY Attended DEF IInv, PortAttended
<1> QED
  BY <1>1, Invariance, PTL

\* Between commands one structure is left, with the configured directory and the only
\* listening descriptor: a reload leaks nothing and loses nothing (plug.c:59-69).
THEOREM SettledHolds == Spec => []Settled
<1>1. IInv => Settled
  BY SettledNow DEF IInv, Settled
<1> QED
  BY <1>1, Invariance, PTL

\* Neither thread closes a number that is the other one's (plug.c:46, 66).
THEOREM RightDescriptorHolds == Spec => []RightDescriptor
<1>1. IInv => RightDescriptor
  BY DEF IInv
<1> QED
  BY <1>1, Invariance, PTL

\* Whatever ends the process has a cause of its kind: code that is gone, a library that
\* moved, was not loaded or went from under a running thread; a NULL, one of the last two
\* or no memory; an exit, the command, the port or the startup (main.c:37-44, 87-101,
\* plug.c:21-69).
THEOREM IdleReloadSafeHolds == Spec => []IdleReloadSafe
<1>1. IInv => IdleReloadSafe
  BY DEF IInv
<1> QED
  BY <1>1, Invariance, PTL

\* As long as every reload finds, and leaves, the app thread in accept(), the number it
\* next calls accept() with is the descriptor of the newest socket (plug.c:22, 27, 62-66).
THEOREM AcceptsOnListenerHolds == Spec => []AcceptsOnListener
<1>1. IInv => AcceptsOnListener
  BY DEF IInv
<1> QED
  BY <1>1, Invariance, PTL

\* A child serves the configured directory, whatever the reloads have met, unless it is
\* forked between dlclose() and plug.c:63, or after a load that failed (plug.c:39-43).
THEOREM ServesConfiguredHolds == Spec => ServesConfigured
<1>1. IInv /\ [Next]_vars =>
        [\A k \in Kids :
           kids[k] = None /\ kids'[k] # None =>
             kids'[k].dir = "configured" \/ DirMissing \/ LoadFailed]_vars
  <2> SUFFICES ASSUME IInv, Next, NEW k \in Kids, kids[k] = None, kids'[k] # None
               PROVE  kids'[k].dir = "configured" \/ DirMissing \/ LoadFailed
    OBVIOUS
  <2>1. fate = "up" /\ TypeOK /\ Strong
    BY Alive DEF IInv
  <2>2. fate' = "up"
    BY <2>1, Deaths
  <2>3. app.pc = "fork" /\ kids'[k].dir = KidDir
    BY <2>1, <2>2, Running, NewKid
  <2> QED
    BY <2>1, <2>3, ServedByKid
<1> QED
  BY <1>1, Invariance, PTL DEF Spec, ServesConfigured

\* A child closes the listening socket, and keeps one at most, and that only after a
\* reload, although the number it closes is stale by then (plug.c:22, 41).
THEOREM ChildLetsGoHolds == Spec => []ChildLetsGo
<1>1. IInv => ChildLetsGo
  BY DEF IInv
<1> QED
  BY <1>1, Invariance, PTL

=============================================================================
