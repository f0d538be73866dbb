------------------------------- MODULE NobBuild -------------------------------
(***************************************************************************)
(* The build tool, app/nob.c with what it uses of app/nob.h: invocations   *)
(* of ./nob build, reload, run and clean, each of which first rebuilds nob *)
(* itself if nob.c is newer (NOB_GO_REBUILD_URSELF), in a directory that   *)
(* nothing locks, while the sources are edited and the user presses        *)
(* Ctrl-C.  The file system's clock has whole seconds: nob_needs_rebuild() *)
(* compares st_mtime as an int.                                            *)
(*                                                                         *)
(* Whether the program is ./app/main or ./main, and so on, is the same     *)
(* file seen from two working directories.                                 *)
(***************************************************************************)
EXTENDS Naturals, FiniteSets

CONSTANTS
  Procs,      \* shells, each with at most one nob at a time
  MaxVersion, \* bound: versions of nob.c
  MaxTime,    \* bound: the clock
  MaxStarts,  \* bound: commands entered
  None        \* no such file; nobody

ASSUME BoundsAssumption == MaxVersion \in Nat \ {0} /\ MaxTime \in Nat /\ MaxStarts \in Nat

Files    == {"nob", "nob.old", "main", "libserver.so"}
Versions == 1 .. MaxVersion

\* A file, as the tool and the compilers leave it.
File == [ver : Versions \cup {0}, time : 0 .. MaxTime, whole : BOOLEAN, by : Procs \cup {None}]

\* None is no name and no file.
ASSUME NoneAssumption ==
  None \notin Files \cup {"build", "reload", "run", "self", "lib"} \cup Procs \cup File

VARIABLES
  now,       \* the clock, in seconds
  nobsrc,    \* nob.c: [ver, time]
  fs,        \* each file: None, or [ver, time, whole, by], by the nob whose compiler wrote it
  proc,      \* each shell's nob: [pc, cmd, outfile, job, read, code] and, as history,
             \* [checked, met]: the version of nob.c when nob_needs_rebuild() looked,
             \* whether another nob ran at the same time; pc is "ok" or "failed" after it
  starts,    \* commands entered so far
  hidden,    \* history: versions of nob.c saved while a compiler was at work on nob,
             \* or in the second that nob or nob.old was written
  overlapped \* history: two self-rebuilds at a time, one over what an interrupted one left,
             \* or a clean, since nob was last made by hand

history == <<hidden, overlapped>>
world == <<now, nobsrc, starts>>
vars == <<world, fs, proc, history>>

Ended      == {"ok", "failed"}
Active     == {p \in Procs : proc[p].pc \notin Ended}
Rebuilding == {p \in Active : proc[p].pc \in {"rename", "self", "restore"} \/ proc[p].job = "self"}

\* A shell whose nob has exited, with status 0 or another.
NoProc(place) ==
  [pc |-> place, cmd |-> None, outfile |-> FALSE, job |-> None, read |-> 1, code |-> 1,
   checked |-> 1, met |-> FALSE]

Whole(f) == fs[f] # None /\ fs[f].whole

Init ==
  /\ now = 0 /\ starts = 0
  /\ nobsrc = [ver |-> 1, time |-> 0]
  /\ fs = [f \in Files |-> IF f = "nob" THEN [ver |-> 1, time |-> 0, whole |-> TRUE, by |-> None]
                           ELSE None]
  /\ proc = [p \in Procs |-> NoProc("ok")]
  /\ hidden = {} /\ overlapped = FALSE

At(p, place)   == proc[p].pc = place
Goto(p, place) ==
  proc' = [proc EXCEPT ![p] = IF place \in Ended THEN NoProc(place)
                              ELSE [@ EXCEPT !.pc = place, !.job = None, !.read = 1]]

-----------------------------------------------------------------------------
\* NOB_GO_REBUILD_URSELF

\* The shells are interchangeable: a command goes to the same one of those that are free.
Shell == CHOOSE q \in Procs : Active # Procs => q \notin Active

\* The user enters a command; what the shell executes is ./nob as it is now.
Start(p) ==
  /\ p = Shell /\ p \notin Active /\ Whole("nob")
  /\ starts < MaxStarts /\ starts' = starts + 1
  /\ proc' = [q \in Procs |->
       IF q = p THEN [NoProc("check") EXCEPT !.code = fs["nob"].ver, !.met = Active # {}]
       ELSE [proc[q] EXCEPT !.met = q \in Active]]
  /\ fs' = [f \in Files |-> IF fs[f] # None /\ fs[f].by = p THEN [fs[f] EXCEPT !.by = None] ELSE fs[f]]
  /\ UNCHANGED <<now, nobsrc, history>>

\* Mutant: only a missing binary is rebuilt.
NeedsRebuildIfNone == fs["nob"] = None

\* A binary that is not there, or older than its source in whole seconds.
NeedsRebuild == fs["nob"] # None => nobsrc.time > fs["nob"].time

\* Out of date: nob is going to rebuild itself.
CheckOld(p) ==
  /\ At(p, "check") /\ NeedsRebuild
  /\ Goto(p, "rename")
  /\ overlapped' = (overlapped \/ Rebuilding # {} \/ (fs["nob"] # None /\ ~Whole("nob")))
  /\ UNCHANGED <<world, fs, hidden>>

\* Up to date: main() looks at the command (which nothing did before).
CheckNew(p) ==
  /\ At(p, "check") /\ ~NeedsRebuild
  /\ \/ \E cmd \in {"build", "reload", "run"}, outfile \in BOOLEAN :
          proc' = [proc EXCEPT ![p] = [@ EXCEPT !.pc = "lib", !.cmd = cmd, !.outfile = outfile,
                                                !.checked = nobsrc.ver]]
     \/ proc' = [proc EXCEPT ![p] = [@ EXCEPT !.pc = "clean", !.checked = nobsrc.ver]]
     \/ Goto(p, "failed")  \* an unknown one
  /\ UNCHANGED <<world, fs, history>>

\* __FILE__ is relative: from another directory than the one nob was compiled in
\* the source is not found.
CheckFails(p) ==
  /\ At(p, "check") /\ fs["nob"] # None
  /\ Goto(p, "failed")
  /\ UNCHANGED <<world, fs, history>>

\* rename(2): what the new name was is gone.
Rename(old, new) == fs' = [fs EXCEPT ![new] = fs[old], ![old] = None]

\* Mutant: the old binary is deleted.
RenameAwayDeletes(p) ==
  /\ At(p, "rename") /\ fs["nob"] # None
  /\ fs' = [fs EXCEPT !["nob"] = None]
  /\ Goto(p, "self")
  /\ UNCHANGED <<world, history>>

\* nob becomes nob.old.
RenameAway(p) ==
  /\ At(p, "rename") /\ fs["nob"] # None
  /\ Rename("nob", "nob.old")
  /\ Goto(p, "self")
  /\ UNCHANGED <<world, history>>

RenameAwayFails(p) ==
  /\ At(p, "rename") /\ fs["nob"] = None
  /\ Goto(p, "failed")
  /\ UNCHANGED <<world, fs, history>>

\* Mutant: the exit(1) is forgotten.
RestoreGoesOn(p) ==
  /\ At(p, "restore")
  /\ IF fs["nob.old"] # None THEN Rename("nob.old", "nob") ELSE UNCHANGED fs
  /\ Goto(p, "reexec")
  /\ UNCHANGED <<world, history>>

\* The compiler failed: nob.old is nob again, if it is there; exit(1) in any case.
Restore(p) ==
  /\ At(p, "restore")
  /\ IF fs["nob.old"] # None THEN Rename("nob.old", "nob") ELSE UNCHANGED fs
  /\ Goto(p, "failed")
  /\ UNCHANGED <<world, history>>

\* The new nob runs with the same arguments, and the old one waits for it and
\* exits as it does.  A nob that is missing or half written cannot be executed.
Reexec(p) ==
  /\ At(p, "reexec")
  /\ proc' = IF Whole("nob") THEN [proc EXCEPT ![p].pc = "check", ![p].code = fs["nob"].ver]
             ELSE [proc EXCEPT ![p] = NoProc("failed")]
  /\ UNCHANGED <<world, fs, history>>

-----------------------------------------------------------------------------
\* nob_cmd_run_sync() of a compiler, which reads its sources, opens its output
\* and closes it.

\* fork() and execvp(); the compiler reads version v of nob.c, or the server's sources.
Spawn(p, job, v) ==
  /\ proc' = [proc EXCEPT ![p].pc = "cc", ![p].job = job, ![p].read = v]
  /\ UNCHANGED <<world, fs, history>>

RebuildUrself(p) == At(p, "self") /\ Spawn(p, "self", nobsrc.ver)
BuildServer(p)   == At(p, "lib")  /\ Spawn(p, "lib", 0)
BuildMain(p)     == At(p, "main") /\ Spawn(p, "main", 0)

\* Its -o; None for the outfile the user named, which nothing looks at again.
Output(p) ==
  CASE proc[p].job = "self" -> "nob"
    [] proc[p].job = "lib"  -> "libserver.so"
    [] proc[p].job = "main" -> IF proc[p].outfile THEN None ELSE "main"

\* The linker unlinks its output and creates it anew.  (Versions and
\* times matter for nob only.)
LinkerOpens(p) ==
  /\ At(p, "cc")
  /\ fs' = [f \in Files |->
       IF f # Output(p) THEN fs[f]
       ELSE [ver |-> proc[p].read, time |-> IF proc[p].job = "self" THEN now ELSE 0,
             whole |-> FALSE, by |-> p]]
  /\ proc' = [proc EXCEPT ![p].pc = "ld"]
  /\ UNCHANGED <<world, history>>

\* What main() does after a command that succeeded, or one that failed.
AfterSuccess(p) ==
  CASE proc[p].job = "self" -> "reexec"
    [] proc[p].job = "lib"  -> IF proc[p].cmd = "reload" THEN "ok" ELSE "main"
    [] proc[p].job = "main" -> IF proc[p].cmd = "run" THEN "run" ELSE "ok"
AfterFailure(p) == IF proc[p].job = "self" THEN "restore" ELSE "failed"

\* Exit status 0: the file is whole, whatever its name is by now.
Finished(p) ==
  fs' = [f \in Files |->
    IF fs[f] # None /\ fs[f].by = p /\ ~fs[f].whole
    THEN [fs[f] EXCEPT !.whole = TRUE, !.time = IF proc[p].job = "self" THEN now ELSE 0]
    ELSE fs[f]]

\* Mutant: the next command is appended to this one.
CompilerSucceedsKeeps(p) ==
  /\ At(p, "ld")
  /\ Finished(p)
  /\ proc' = [proc EXCEPT ![p].pc = AfterSuccess(p)]
  /\ UNCHANGED <<world, history>>

CompilerSucceeds(p) ==
  /\ At(p, "ld")
  /\ Finished(p)
  /\ Goto(p, AfterSuccess(p))
  /\ UNCHANGED <<world, history>>

\* The output of a compiler that does not succeed: removed by name, or left.
Abandoned(p) ==
  \/ UNCHANGED fs
  \/ At(p, "ld") /\ fs' = [f \in Files |-> IF f = Output(p) THEN None ELSE fs[f]]

\* Mutant: whatever it exits with counts as success.
CompilerFailsIgnored(p) ==
  /\ proc[p].pc \in {"cc", "ld"}
  /\ Abandoned(p)
  /\ Goto(p, AfterSuccess(p))
  /\ UNCHANGED <<world, history>>

\* fork() fails, an error in the source, a signal.
CompilerFails(p) ==
  /\ proc[p].pc \in {"cc", "ld"}
  /\ Abandoned(p)
  /\ Goto(p, AfterFailure(p))
  /\ UNCHANGED <<world, history>>

-----------------------------------------------------------------------------
\* The rest of main()

\* run: ./main, whatever outfile says.  The server then runs until it exits.
RunMain(p) ==
  /\ At(p, "run")
  /\ Goto(p, IF Whole("main") THEN "serving" ELSE "failed")
  /\ UNCHANGED <<world, fs, history>>

ServerExits(p) ==
  /\ At(p, "serving")
  /\ Goto(p, "ok") \/ Goto(p, "failed")
  /\ UNCHANGED <<world, fs, history>>

\* rm of the four files removes those there are, and fails if one is missing.
Cleaned == {"main", "libserver.so", "nob", "nob.old"}
Clean(p) ==
  /\ At(p, "clean")
  /\ Goto(p, IF \A f \in Cleaned : fs[f] # None THEN "ok" ELSE "failed")
  /\ fs' = [f \in Files |-> IF f \in Cleaned THEN None ELSE fs[f]]
  /\ overlapped' = TRUE
  /\ UNCHANGED <<world, hidden>>

-----------------------------------------------------------------------------
\* The user, the editor and the clock.

\* Ctrl-C: nob and its compiler, or its server, end together.
Killed(p) ==
  /\ p \in Active
  /\ IF proc[p].pc \in {"cc", "ld"} THEN Abandoned(p) ELSE UNCHANGED fs
  /\ Goto(p, "failed")
  /\ UNCHANGED <<world, history>>

EditNob ==
  /\ nobsrc.ver < MaxVersion
  /\ nobsrc' = [ver |-> nobsrc.ver + 1, time |-> now]
  /\ hidden' = IF \/ \E p \in Procs : proc[p].job = "self"
                  \/ \E f \in {"nob", "nob.old"} : fs[f] # None /\ fs[f].time = now
               THEN hidden \cup {nobsrc.ver + 1} ELSE hidden
  /\ UNCHANGED <<now, starts, fs, proc, overlapped>>

\* nob is compiled by hand when there is none that runs.
Bootstrap ==
  /\ ~Whole("nob")
  /\ fs' = [fs EXCEPT !["nob"] = [ver |-> nobsrc.ver, time |-> now, whole |-> TRUE, by |-> None]]
  /\ overlapped' = (Rebuilding # {})
  /\ proc' = [q \in Procs |-> [proc[q] EXCEPT !.met = q \in Active]]
  /\ UNCHANGED <<world, hidden>>

Tick ==
  /\ now < MaxTime
  /\ now' = now + 1
  /\ UNCHANGED <<nobsrc, starts, fs, proc, history>>

NobStep(p) ==
  \/ CheckOld(p) \/ CheckNew(p) \/ CheckFails(p)
  \/ RenameAway(p) \/ RenameAwayFails(p) \/ Restore(p) \/ Reexec(p)
  \/ RebuildUrself(p) \/ BuildServer(p) \/ BuildMain(p)
  \/ LinkerOpens(p) \/ CompilerSucceeds(p) \/ CompilerFails(p) \/ RunMain(p) \/ Clean(p)

Next ==
  \/ \E p \in Procs : Start(p) \/ NobStep(p) \/ ServerExits(p) \/ Killed(p)
  \/ EditNob \/ Bootstrap \/ Tick

\* nob and its compilers are scheduled and compilers end; the server may run for ever.
Spec == Init /\ [][Next]_vars /\ \A p \in Procs : WF_vars(NobStep(p))

-----------------------------------------------------------------------------

TypeOK ==
  /\ now \in 0 .. MaxTime /\ starts \in 0 .. MaxStarts
  /\ nobsrc \in [ver : Versions, time : 0 .. now]
  /\ \A f \in Files : fs[f] # None => fs[f] \in File /\ fs[f].time <= now
  /\ \A p \in Procs :
       /\ proc[p].pc \in Ended \cup {"check", "rename", "self", "cc", "ld", "restore", "reexec",
                                     "lib", "main", "run", "serving", "clean"}
       /\ proc[p].job \in {"self", "lib", "main"} <=> proc[p].pc \in {"cc", "ld"}
       /\ proc[p].code \in Versions /\ proc[p].read \in Versions \cup {0}
       /\ proc[p].checked \in Versions
  /\ hidden \subseteq Versions /\ overlapped \in BOOLEAN

\* Whenever a self-rebuild is interrupted, a nob that runs is left, under its name
\* or as nob.old (nob.h:274): losing it takes two self-rebuilds at a time, one over the half
\* written nob that an interrupted one has left, or a clean.
NobSurvives == Whole("nob") \/ Whole("nob.old") \/ overlapped

\* What gets past NOB_GO_REBUILD_URSELF is the code of nob.c as it was then, unless
\* another nob ran or that version was saved under a compiler or in the very second in which
\* nob, or the nob.old that a failed rebuild brings back, was written (nob.h:928 has > on
\* whole seconds).
WorksWithNewCode ==
  \A p \in Active :
    proc[p].pc \in {"lib", "main", "run", "serving", "clean"} /\ ~proc[p].met =>
      proc[p].code = proc[p].checked \/ proc[p].checked \in hidden

\* A nob that says success, or runs the server, while no other ran, leaves or runs
\* what it compiled itself (nob.c:52-77), as long as it was given no outfile.
BuiltWhatItSays ==
  [][\A p \in Procs :
       /\ proc[p].pc # proc'[p].pc /\ proc'[p].pc \in {"ok", "serving"}
       /\ ~proc[p].met /\ proc[p].pc # "serving"
       /\ proc[p].cmd \in {"build", "reload", "run"}
       => LET Own(f) == fs'[f] # None /\ fs'[f].whole /\ fs'[f].by = p
          IN /\ Own("libserver.so")
             /\ proc[p].cmd # "reload" /\ ~proc[p].outfile => Own("main")
    ]_vars

\* Every nob comes to an end or to its server: a rebuilt nob is not older than nob.c
\* (nob.h:928) and one that could not be rebuilt gives up (nob.h:281), so none rebuilds
\* itself again and again.  (Two at a time can:
\* each may find that the other has renamed nob away, and rebuild it.)
Terminates ==
  \A p \in Procs : At(p, "check") ~> proc[p].pc \in Ended \cup {"serving"} \/ proc[p].met
=============================================================================
