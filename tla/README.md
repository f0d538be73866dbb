# TLA+ models of the HTTP server

The program is a small HTTP/1.1 server in C (`app/`): an app thread accepts
connections on port 4221 and forks a child for each; the child reads one request,
answers it and exits. With `HOT_RELOADABLE` a second thread reads commands from
stdin and can replace the serving code, a shared library, while the server runs.
This directory models it in TLA+, checks the models with TLC on small instances
and proves theorems about them with TLAPS. The tool that builds the program, `nob`, is
modelled too.

## The system

| Part | Code | State | Operations |
| --- | --- | --- | --- |
| app thread | `main.c:61-72`, `plug.c:21-48` | `exit_signal`, `server_fd`, `client_fd`, its descriptors | poll the signal, `accept`, `fork`, `close` |
| children | `plug.c:39-43`, `server.c:244-513` | inherited descriptors, one connection | `close(server_fd)`, `serve`, `exit` |
| input thread | `main.c:21-59` | `exit_signal`, the library, the word it read last | `reload`, `exit`, `clear`, unknown words, the end of stdin |
| plug / library loader | `plug.h`, `plug.c:50-79` | `libplug`, function pointers, the `Plug` structure (`server_fd`, `dir`) | `reload_libplug`, `plug_init`, `plug_pre_load`, `plug_post_load`, `plug_free` |
| listening socket | `server.c:116-158` | the socket, its accept queue | `socket`, `bind` with `SO_REUSEPORT`, `listen` |
| request parsing and routing | `server.c:160-242` | `readbuf` (changed in place by `strtok`), `Header` | `parseHeaders`, `getResponseType` |
| responses | `server.c:277-512` | `response`, `content`, `contentLength`, the heap | one case per response type, two `send`s, `free` |
| files | `server.c:343-475` | the files under `dir`, shared by all children | GET: open, measure, read. POST: truncate, write |
| gzip | `server.c:61-113` | output buffer, `z_stream` | grow and go on until the stream is out |
| build tool | `nob.c`, `nob.h:218-289, 526-630, 909-955` | its own binary and `nob.old`, `main`, `libserver.so`, their times | rebuild itself, `build`, `reload`, `run`, `clean` |
| diagnostics | `hexdump`, `get_file_path_from_fd`, `test.c` | none | printing |

How they interact: `main` loads the library and starts the two threads. The app
thread calls `plug_update` through a pointer that the input thread replaces, and
both use the one `Plug` structure and the one descriptor table, without a lock. A
child gets a copy of the memory and of every descriptor at `fork`, so what the
parent has open at that moment decides what the child keeps alive. Children share
nothing with each other but the file system, the process table and the listening
socket they inherit until they close it. The user builds with `nob`, whose `reload` writes
the library that the server's `reload` then loads; `nob` first compiles itself, under its
own name, when `nob.c` is newer.

What is hard: the order of `close`s in parent and children (a descriptor left open
keeps a connection or the port alive in another process); children that nobody
waits for; a reload under a thread that is inside the code being unloaded, blocked
on the socket being closed, or between reading a field and using it; files written
and read by several children; a request that arrives in pieces; a buffer parsed by
one function after another has written NULs into it; a command line that ends; a tool
that replaces itself while it may be interrupted or started twice; failing calls in the
middle of everything.

## The modules

| Module | Models | Notes |
| --- | --- | --- |
| `ConnectionService` | what a client is promised | abstract: a connection waits in a queue, is taken in its turn, is replied to at most once and only while open, and ends once |
| `ForkServer` | `plug_update`, `app`, the children, the process table, descriptors | implements `ConnectionService` |
| `ForkServerProofs` | proofs about `ForkServer` | |
| `HotReload` | `main`, `reload_plug`, `reload_libplug`, `plug_init`, `plug_post_load`, interleaved with the app thread | every read and write of shared state is a step |
| `HotReloadProofs` | proofs about `HotReload` | |
| `FileRegister` | what the clients of one file are promised | abstract: a safe register, with reads and writes that begin and end |
| `FileStore` | GET and POST of one file by several children | every system call is a step; implements `FileRegister` |
| `FileStoreProofs` | proofs about `FileStore`, with the refinement | |
| `Gzip` | `gzip()` | zlib from how the loop uses it |
| `GzipProofs` | proofs about `Gzip` | |
| `Serve` | `serve`, `parseHeaders`, `getResponseType` and the tokenizer of `nob.h` | one child from `recv` to exit, the buffer symbol by symbol |
| `ServeProofs`, `ServeBodyProofs` | proofs about `Serve`: what is answered, and what a POST stores | |
| `NobBuild` | `main` of `nob.c`, `NOB_GO_REBUILD_URSELF`, `nob_needs_rebuild`, `nob_rename`, `nob_cmd_run_sync` | what a compiler does to its output is external |
| `NobBuildProofs` | proofs about `NobBuild` | |
| `MC*` | instances for TLC | |

`ForkServer` takes from `serve` only that a request is answerable or kills the
child; `Serve` says which is which, `FileStore` what the answers about a file hold,
and `Gzip` what the compression that `Serve` calls delivers: `Serve`'s action
`EchoGzip` has the three ways in which `Gzip` ends after a successful
`deflateInit2` (complete; no buffer and Z_OK; a crash when `realloc` fails), and
`EchoGzipFails` is its `Z_MEM_ERROR`. That it has no other is `Complete` and
`NeverCutShort`, proved of `Gzip`.

State and code: a variable has the name of the C variable it stands for
(`exit_signal`, `client_fd`, `plug`, `contentLength`, `max_compressed_len`, ...);
`pc` is the place in the code. Descriptors in `ForkServer` are the sockets they
refer to, because the numbers do not matter there; in `HotReload` they are numbers,
because freed numbers are reused. Operators with "Mutant" in their comment are the
deliberately wrong variants of an action with which the properties are tested; they
are not part of any specification. PROJECT.json maps each definition to its lines.

### ForkServer

The app thread's actions are `Loop`, `Accept`, `AcceptFails`, `Fork`, `ForkFails`,
`CloseClient` and, at the end, `ProcessExit`; a child's are `CloseServer`, the
steps of its service and its exit; a client connects, sends what can be answered or
what kills the child, or leaves. A child that exits becomes a zombie until the
parent exits, as nothing under `app/` waits for it. `fork` fails when the process table is
full, and may fail for any other reason. Properties:

* `OwnConnectionOnly`, `ParentHoldsOne`: no process ever holds another client's
  connection, and the parent at most the one it is about to hand over.
* `EofAfterService`: the client sees the end of the stream only when its child is
  gone or `fork` failed and its connection was dropped.
* `PortReleased`: after the server has exited, only a child that has not yet come to
  `close(server_fd)` can keep the port.
* `Released`, `Served` (liveness), `Implements` (refinement of `ConnectionService`).
* `ExitsWithNextClient` (liveness): the app thread looks at `exit_signal` only between
  clients, so `exit` does nothing until a client comes; once one waits, the server ends.

Violated by the code: `DroppedOnlyWhenBusy` (zombies fill the process table: a connection is
dropped for want of a process although nobody is being served).

### HotReload

The loader's steps (`Dlclose`, `Dlopen`, `Dlsym`, `Malloc`, `Listen`, `SetFd`,
`SetDir`, `CopyDir`, `CloseOld`, `FreeOld`) are those of a reload in program
order, taken at the start and for each `reload` command; the app thread's are those
of `plug_update` with its reads of `plug` and `server_fd` apart. A call in a
library that is gone (`Unmapped`) is harmless if the new one was mapped with the
same code at the same place and fatal otherwise: both are tried.

Every call may fail. Without a library (`LoadFails`) the input thread ends, or `main` at
startup; `simpleServer` exits (`ListenFails`), also in a reload; a failed `malloc`
(`MallocFails`) is not noticed until `plug.c:54` stores through NULL
(`StoreThroughNull`). `accept` fails at once (`AcceptFails`), on a number that is no
listening socket or for another reason, or after it has blocked (`AcceptInterrupted`);
`plug_update` returns in both cases (`AcceptFailed`). Three history variables tell what
has happened: `moved` (a reload mapped other code, or the same elsewhere), `disturbed`
(the app thread was outside of `accept` during a reload) and `failed` (which of the
loader's calls have failed). Properties:

* `PortAttended`: once the server listens, there is a listening socket at every
  moment of a reload.
* `Settled`: between reloads exactly one structure and one listening socket exist.
* `RightDescriptor`: each thread closes the descriptor it means to, although
  numbers are reused.
* `AcceptsOnListener`: when `accept` is called its number is that of the socket of the
  structure in use, after any number of reloads, unless one met the app thread
  outside of `accept`.
* `IdleReloadSafe`: every end of the process has a cause of its kind. Unmapped code: a
  library that moved or did not load, or a disturbed reload. A NULL: the latter two, or
  a failed `malloc`. An exit: the command, a failed `simpleServer`, or a library that
  does not load at startup. So a reload that finds the server in `accept`, leaves it there, has
  its calls succeed and its code at the same place, ends it never.
* `ServesConfigured` (an action property): a child without the configured directory was
  forked between `dlclose` and `plug.c:63`, or after a load that failed. At every other
  place, in the middle of a reload or after it, a `fork` finds the directory.
* `ChildLetsGo`: a child keeps a listening socket only in a process that has reloaded,
  and then one only.

The input thread does not look at what `fscanf` returns. At the end of stdin `read[]` keeps
its word: after `reload` the thread reloads without end (`ReloadAgain`, up to the bound),
after another word it spins, which changes nothing. Nobody can type `exit` any more. The
properties hold of those reloads too; that they go on without end is nothing a property
here denies.

Violated by the code: `SurvivesReload` (returning from `accept` into the library
that is gone), `AcceptedAfterReload` (the app thread still waits on the closed
socket while a connection to the new one waits).

### FileStore

* `AckedStored`: a POST that was answered 201, met no other POST and was not cut
  short is what the file holds until the next one opens it.
* `MixtureNeedsOverlap`, `BytesInPlace`: any other content needs POSTs that overlap
  or are cut short, and even then no byte changes its place.
* `GetExact`, `GetMixesWhoMet`: the same for what a GET answers. `"%s"` ends at the first
  NUL of a file (`Nuls` says which bytes are NULs): what is exact is then the part before
  it, under the length of the whole. Without a NUL it goes on behind the data, where a
  client that goes by the length does not look.
* `Implements`: one file is a safe register (`FileRegister`): a write that no other write
  overlaps and that is not cut short stores its payload, a read that no write overlaps
  returns what is stored, an acknowledgement follows the write; nothing is promised of what
  overlaps. The mapping hides the truncation, the measuring and the reading: while a POST
  has the file open the register's content is `Unknown`, and what a GET found is `Unknown`
  once it has met a POST.

Violated by the code: `ShortReadIsAnError` (the 500 prepared after a short `fread`
is overwritten by a 200).

### Gzip

`InBounds`: zlib is never told to write outside of the buffer. `Complete`: Z_OK
means the whole stream, or no buffer at all. `NeverCutShort`: the loop does not
give up half way.

### Serve

A message is a sequence of symbols: the bytes that the code looks at (CR, LF, space,
NUL) and pieces of text that it does not split. `recv` delivers any part of it from the
start. `Strtok` is what `strtok` writes into the buffer, `LastToken` the tokenizer
that runs over the result, line by line (`NextToken`). Properties:

* `OneAnswer`: never two responses, and one for every request that arrived whole,
  names what it must and meets no failing call.
* `LengthTrue`: as many bytes follow the headers as they announce, although the
  second `send` is always made (a file excepted, which `"%s"` cuts at its first NUL or
  follows with memory up to the next one, and of which nothing is read if `fseek`,
  `ftell` or `malloc` fails: `GetFileUnread`).
* `GzipLabelTrue`, `OnlyHeapFreed`: label, content and `free` agree.
* `PlainBodyStored`, `StoredFromBody`: which bodies a POST stores as they are, and
  that no line of the head gets into the file of a request that arrived whole and
  has not too many lines.

Violated by the code: `EncodingTrue` ("gzip, deflate, br" is answered with plain
text called deflate), `AckedBodyStored` (201 although the body arrived later, or had
line ends, or began with white space).

### NobBuild

Each shell runs at most one nob. A nob checks itself (`CheckOld`, `CheckNew`,
`CheckFails`); if it is out of date it renames itself away, compiles, and runs the new one
with the same arguments (`Reexec`: the new one goes through the check again); otherwise it
builds the library and the program, runs it, or cleans. A compiler is one `Spawn` and
then the external `LinkerOpens` and `CompilerSucceeds`, or `CompilerFails`. Sources are
versions; a file knows the version it was compiled from, its time in whole seconds, and
whether it is complete. `./app/main` and `./main` are one file seen from two directories.

* `NobSurvives`: an interrupted or failed self-rebuild leaves a nob that runs, as `nob`
  or as `nob.old`. Two nobs that rebuild themselves at a time can lose both (the second
  renames the half-written file of the first over `nob.old`), and so can one that was started
  before another was interrupted and comes to its renaming afterwards.
* `WorksWithNewCode`: what gets to the commands has the code that `nob.c` had at the
  check, unless that was saved while a compiler read it, or in the second in which the
  binary, or the `nob.old` that a failed rebuild brings back, was written (`nob.h:928` has
  `>` on whole seconds), or another nob ran.
* `BuiltWhatItSays`: status 0, or a running server, means that the library and the program
  are the ones this nob compiled. With an outfile the program is built there, but `run`
  still executes `main` (`nob.c:72-77`): the property leaves it out.
* `Terminates` (liveness): a nob that no other disturbs ends or comes to its server. Two
  that overlap need not: each finds that the other has renamed `nob` away, and rebuilds.

`clean` removes what exists and reports failure if one of the four files is missing, as
`nob.old` is until nob has rebuilt itself.

Undefined reads: the uninitialised `contentLength` may be anything, 0 included. An
empty `recv` parses stack memory, which holds no request because only children ever
receive one: it is no known route. What follows a message that is cut off is read up
to the next NUL of the stack and can spoil the last line.

## The runs

| Run | Instance | Shows |
| --- | --- | --- |
| `fork_server` | 3 clients, accept queue of 2 (`Backlog` 1), 3 processes | all of ForkServer's invariants, refinement and liveness |
| `fork_server_zombies` | 2 clients, 2 processes | a drop with nobody being served |
| `hot_reload` | 2 reloads, typed or repeated, 2 libraries, descriptors 3..6 | HotReload's invariants |
| `hot_reload_fault`, `hot_reload_starve` | 1 reload | the crash; the starved connection |
| `file_store` | 2 POSTs (3 bytes, 1 byte), 1 GET, old file of 2 bytes or none, a NUL at the end of the longer POST | FileStore's invariants and refinement |
| `file_store_short_read` | the same | 200 with bytes nobody wrote |
| `gzip` | streams of 1..9, first buffers of 1..4 | Gzip's invariants, up to four growths |
| `serve` | every route and method, eight heads, every body of up to 3 symbols | Serve's invariants |
| `serve_deflate`, `serve_body` | the same | the two violations |
| `nob_build` | 2 shells, 2 commands, 2 versions of `nob.c`, 2 seconds | NobBuild's invariants, action property and liveness |

Why the bounds are enough. ForkServer: children interact through inherited
descriptors and the process table only; with three clients there are two live
children and an accept in progress, the queue overflows, and the third `fork` fails.
HotReload: two reloads are needed for the app thread to hold what belongs to the
library before the last, and for descriptor numbers to come round; four numbers leave
one for each listening socket, a client and a reuse. FileStore: mixtures are a matter
of two writers; unequal lengths make one's tail show behind the other, and the GET can
meet either. Gzip: a bound of 1 with a stream of 9 grows four times, and each
growth is like the one before (the theorems hold for all). Serve: the code never relates
more than two neighbouring symbols of a body, `TokenLimit` is 3 instead of 100 and the
buffer 15 symbols instead of 2048 bytes so that both limits are met. NobBuild: what goes wrong needs one edit and one nob, or two nobs
that overlap; the second command also finds what the first left behind; times matter only as
earlier, equal or later. (Three commands, checked once for the invariants alone, show
nothing new.)

CHECK_DEADLOCK is off everywhere: every model ends (the process exits, the children are
gone, the clients have left), or its app thread waits for a client that may not come.

Fairness. `ForkServer`: weak fairness of the parent's steps and of each child, because
the kernel schedules a runnable thread; strong fairness of `Accept`, because
`accept` on a queue that is not empty may fail now and then (`plug.c:28`) but not for
ever. Clients have none: a silent client keeps its child (there is no timeout at
`server.c:248`), and `Served` and `Released` speak of those that send or leave.
`HotReload`: weak fairness of each thread (of the repeated reload at the end of stdin too), and
strong fairness of `AcceptBlocks` and `AcceptReturns`, because an `accept` that can
succeed may fail now and then but not for ever; none of what the user types, nor of
`AcceptInterrupted`. `NobBuild`: weak fairness of each nob with its compiler,
which are scheduled and end; not of the server that `run` starts, nor of the user. The
other modules state no liveness.

## The proofs

Every safety property that a run finds to hold is a theorem. The
constants are arbitrary up to the named assumptions of the modules, which TLC evaluates on
each run. In every proof module the properties follow from one inductive invariant, which says more
than they do: what holds at each place of the code. Each of its parts was first checked by TLC on
a small instance, then proved action by action.

`ForkServerProofs`, for every set of clients, `Backlog` and `MaxProcs` (from
`ConnsAssumption` and `BoundsAssumption`): type correctness, `ParentHoldsOne`,
`OwnConnectionOnly`, `EofAfterService`, `PortReleased`, and `Refinement`
(`Spec => Implements`). The properties are not inductive: that a child holds no
stranger's connection depends on what the parent held at every earlier `fork`. `IInv`
therefore says of every place of the parent (`ParentDescriptors`) and of every child
(`ChildDescriptors`) what it holds, that connections not yet accepted are held by
nobody (`Fresh`), what is known of those that are (`Handled`), when an answer was sent
(`AnsweredOnce`), and that a queue needs somebody who holds the listener
(`QueueNeedsListener`). The refinement maps the step of each action under this
invariant to a step of `ConnectionService` or to a stutter.

`HotReloadProofs`, for any number of reloads, waiting connections, children and load
addresses (from `BoundsAssumption` and `NamesAssumption`, which keeps names and numbers
apart): the seven invariants of the run and its action property, `ServesConfigured`. `PortAttended` and `Settled` speak of the ends of a
reload; between them everything depends on the place of the loader. `Stages` says how often the
library was loaded at each place, `Structures` which `Plug` structures there are and which
fields they have, `Sockets` and `Numbers` which descriptors are open and why three are enough,
`Code` that every function pointer leads into the library that is mapped, and `Undisturbed`
and `Failures` what the history variables are worth. `Strong`, the conjunction, holds as long as
the server has not met one of its ends (`fate = "up"`); the properties themselves go on holding.

`FileStoreProofs`, for any number of POSTs and GETs of any length and any choice of NULs
(from `LengthAssumption`, `ChildrenAssumption` and `NoBytesAssumption`): the invariants of the run
and `Refinement` (`Spec => Implements`). The invariant says what is known of two requests as
long as they have not met: a POST that is alone finds the file empty when it writes (`Alone`,
`Stored`), a GET that met no POST has in hand a piece of what it opened (`Undisturbed`), bytes
of two writers are together only where their writers have met (`Writers`, `Catches`), and no byte
moves (`InPlace`). The refinement needs, besides, that a write is followed by its acknowledgement
and that the register's content is known exactly when no POST has the file open.

`GzipProofs`, for every stream length and every first guess (from
`SizesAssumption` and `BoundsAssumption`): type correctness, `InBounds`, `Complete`,
`NeverCutShort`. `InBounds` is a sum that a growth preserves only because the output is
exactly full then (`total_out = max_compressed_len`): `Sync` states that the fields of
the `z_stream` add up, `Places` what is known at each place of the function.

`ServeProofs`, for any requests, buffer size, token limit and lengths (from `RequestsAssumption` and
`LengthsAssumption`): `OneAnswer`, `LengthTrue`, `GzipLabelTrue`, `OnlyHeapFreed`. The
invariant `Answering` says what was sent at each place (`Outs`), what the content is and that
the header says gzip exactly if it was compressed (`Contents`), that the length announced is
that of the inline body or of the content but never of both (`Formed`), and that a request that arrived
whole is routed as it was meant (`Routed`), which takes a message of more than one symbol.

`ServeBodyProofs`, for any messages, buffer size and token limit (besides from `SymbolsAssumption`: the
bytes that the code looks at are four, and no piece of text of a head is one of them; and from
`SizesAssumption`): type correctness, `PlainBodyStored`, `StoredFromBody`. The invariant `Posting` says what
readbuf holds at each place (`Received`) and what has been stored (`Kept`); the rest is about the
operators. `LastToken` is a recursive function of the number of tokens: that it exists
(`ChopsExist`) and what it yields is proved by induction over the set of the steps at which it is
true (`SetInduction`, from the least element of a set of numbers). `Strtok` leaves each line of the head
with a NUL and its LF (`StrtokHead`), so that the tokenizer takes exactly one token for each
(`HeadChopped`) and trims the empty line away before it takes the next (`BodyChopped`); from there on it never
goes back (`PieceFrom`), so that the last token is a piece of the body (`TokenFromBody`), and all of it if it
has no line end (`PlainBodyToken`).

`NobBuildProofs`, for any number of shells, versions, seconds and commands (from
`BoundsAssumption` and `NoneAssumption`): type correctness, `NobSurvives`, `WorksWithNewCode`, and the
action property `BuiltWhatItSays`. `Stages` says where the last whole nob is at each place of
the one that rebuilds (`Survival`), that a file that looks up to date is (`UpToDate`), that a nob
that met no other is the only one and runs what is on the disk (`Alone`), and whose output the library and
the program are at each place of the build (`Built`).

Two properties of `NobBuild` turned out to be true only of the small instance when their proof was tried, and
the history variables that excuse a loss were corrected; with a third version of `nob.c`, TLC finds both
behaviours in the old form. A nob that was checked before another was interrupted in the middle
of its rebuild renames that one's half-written binary over `nob.old` (`overlapped` in `CheckOld`). And an edit in
the second in which `nob.old` was written is not seen once a failed rebuild has brought `nob.old`
back (`hidden` in `EditNob`).

Model-checked only: liveness (`Released`, `Served`, `ExitsWithNextClient`, `Terminates`), which under fairness is
out of the prover's reach.

## Hazards no property excludes

Some hazards are what the code does, and no line of the repository says it should not. The models have the
outcome, and the properties around it name it as their exception instead of hiding
it: a `fork` between `dlclose` and `plug.c:63` (`DirMissing` in `ServesConfigured`), a child killed after
its `fopen` or a `fwrite` that fails (`broken` in `FileStore`), a first `calloc` of `gzip`
that fails (`Complete`), a body cut at a NUL (`Answer`), a path that names nothing
(`Named`), a `fwrite` to no file (a crash, in `PostMissing`), two nobs that overlap
(`overlapped`, `met`), an edit under a compiler or in the second of the binary (`hidden`), `run` with an
outfile. PROJECT.json has each with its line. What such a property shows is that nothing else
leads there.

## Not modelled

Of `nob.h` what nothing under `app/` calls: directories, copying, the string builder's
files, the temporary allocator, Windows. Of `nob.c` the flags of the compilers, and the
build that is not hot reloadable, which the constant `hot_reload` excludes. `hexdump` is never called; `get_file_path_from_fd` prints, and its `exit` is an outcome of
`Serve`'s `GetFile` and `GetFileUnread`; `test.c` is a separate program. Of requests: the Host and Accept
headers, which are parsed and never used; texts and files that do not fit the fixed-size
fields and the response buffer (the models are of requests within those sizes). Of a
User-Agent only the first word counts, as in the code. `HOT_RELOADABLE` off is
`ForkServer` alone.

## Plan

Done, in this order: `ForkServer` with its abstract specification and proofs,
`HotReload`, `FileStore`, `Gzip` with proofs, `Serve`, `NobBuild`, `FileRegister` with the
refinement.

Proofs: `ForkServer`, `Gzip`, `FileStore` with its refinement, `HotReload`, `Serve`,
`NobBuild`.

Next: a composition of `Serve` and `ForkServer` that derives "answerable" and "fatal" from the
request.
