--------------------------- MODULE NobBuildProofs ---------------------------
(***************************************************************************)
(* Proofs about NobBuild, for any number of shells, versions, seconds and  *)
(* commands.                                                               *)
(*                                                                         *)
(* A step moves one nob, or the file system, or neither.  Each form of     *)
(* move gets a lemma that says, field by field, what it leaves behind; the *)
(* parts of the invariant are then kept action by action.                  *)
(***************************************************************************)
EXTENDS NobBuild, TLAPS

Places == Ended \cup {"check", "rename", "self", "cc", "ld", "restore", "reexec",
                      "lib", "main", "run", "serving", "clean"}
Jobs   == {"self", "lib", "main"}
Cmds   == {"build", "reload", "run"}

Nob == [pc : Places, cmd : Cmds \cup {None}, outfile : BOOLEAN, job : Jobs \cup {None},
        read : Versions \cup {0}, code : Versions, checked : Versions, met : BOOLEAN]

\* The types, with the fields that TypeOK need not name.
Nobs == /\ proc \in [Procs -> Nob]
        /\ \A p \in Procs : proc[p].job \in Jobs <=> proc[p].pc \in {"cc", "ld"}
Disk == /\ fs \in [Files -> File \cup {None}]
        /\ \A f \in Files : fs[f] # None => fs[f].time <= now
Clock == /\ now \in 0 .. MaxTime /\ starts \in 0 .. MaxStarts
         /\ nobsrc \in [ver : Versions, time : 0 .. MaxTime] /\ nobsrc.time <= now
         /\ hidden \subseteq Versions /\ overlapped \in BOOLEAN
Typed == Nobs /\ Disk /\ Clock

\* Between renaming nob away and having it back.
Rebuilds(p) == proc[p].pc \in {"rename", "self", "restore"} \/ proc[p].job = "self"

\* Without an overlap one nob rebuilds at a time; it renames away a nob that is whole, if there
\* is one, and from then on that one is nob.old.
Survival ==
  overlapped \/
    /\ \A p, q \in Procs : Rebuilds(p) /\ Rebuilds(q) => p = q
    /\ \A p \in Procs : Rebuilds(p) =>
         IF proc[p].pc = "rename" THEN fs["nob"] = None \/ Whole("nob") ELSE Whole("nob.old")
    /\ Whole("nob") \/ Whole("nob.old")

\* v is what nob.c holds, or nobody could tell.
Current(v) == v = nobsrc.ver \/ nobsrc.ver \in hidden

\* A nob that looks up to date is, and the compiler of one is writing what it read; a half
\* written file is the one a compiler is at work on, or was when it ended.
UpToDate ==
  /\ \A f \in {"nob", "nob.old"} : fs[f] # None => fs[f].ver \in Versions
  /\ \A f \in {"nob", "nob.old"} :
       Whole(f) /\ fs[f].time >= nobsrc.time => Current(fs[f].ver)
  /\ \A p \in Procs : proc[p].job = "self" => proc[p].read \in Versions /\ Current(proc[p].read)
  /\ \A p \in Procs, f \in {"nob", "nob.old"} :
       fs[f] # None /\ ~fs[f].whole /\ fs[f].by = p =>
         \/ proc[p].pc \in Ended \cup {"restore"}
         \/ proc[p].job = "self" /\ proc[p].pc = "ld" /\ fs[f].ver = proc[p].read

\* A nob that met no other is alone; it runs what is on the disk until it has looked, and
\* works with what it found then.
Working(p) == proc[p].pc \in {"lib", "main", "run", "serving", "clean"} \/ proc[p].job \in {"lib", "main"}
Alone ==
  \A p \in Active : ~proc[p].met =>
    /\ \A q \in Active : q = p
    /\ At(p, "check") => Whole("nob") /\ fs["nob"].ver = proc[p].code
    /\ Working(p) => proc[p].code = proc[p].checked \/ proc[p].checked \in hidden

\* What such a nob has compiled is there, and nobody else's.
Opened(f, p) == fs[f] # None /\ fs[f].by = p
Done(f, p)   == Opened(f, p) /\ fs[f].whole
HasBuilt(p) ==
  /\ proc[p].cmd # None => Working(p) /\ proc[p].pc # "clean"
  /\ ~proc[p].met =>
       /\ proc[p].job = "lib" /\ proc[p].pc = "ld" => Opened("libserver.so", p)
       /\ proc[p].job = "main" /\ proc[p].pc = "ld" /\ ~proc[p].outfile => Opened("main", p)
       /\ proc[p].pc \in {"main", "run"} \/ proc[p].job = "main" => Done("libserver.so", p)
       /\ proc[p].pc = "run" /\ ~proc[p].outfile => Done("main", p)
Built == \A p \in Procs : HasBuilt(p)

Stages == Typed /\ Survival /\ UpToDate /\ Alone /\ Built

-----------------------------------------------------------------------------
\* Moves of one nob.

\* NoProc(place) is a nob that has done nothing.
LEMMA NoProcType ==
  ASSUME NEW place \in Places
  PROVE  /\ NoProc(place) \in Nob
         /\ NoProc(place).pc = place /\ NoProc(place).job = None /\ NoProc(place).cmd = None
<1>1. 1 \in Versions /\ 1 \in Versions \cup {0}
  BY BoundsAssumption DEF Versions
<1> QED  BY <1>1 DEF NoProc, Nob

\* Every other nob stays where it is.
Apart(p) == \A q \in Procs : q # p => proc'[q] = proc[q]

\* A nob that goes on to another place has no job there, and is the same otherwise.
LEMMA Goes ==
  ASSUME Nobs, NEW p \in Procs, NEW place \in Places \ {"cc", "ld"}, Goto(p, place)
  PROVE  /\ Nobs' /\ Apart(p)
         /\ proc'[p].pc = place /\ proc'[p].job = None
         /\ place \in Ended => proc'[p].cmd = None
         /\ place \notin Ended =>
              /\ proc'[p].cmd = proc[p].cmd /\ proc'[p].outfile = proc[p].outfile
              /\ proc'[p].code = proc[p].code /\ proc'[p].checked = proc[p].checked
              /\ proc'[p].met = proc[p].met
<1>1. proc \in [Procs -> Nob] /\ proc[p] \in Nob
  BY DEF Nobs
<1>2. 1 \in Versions \cup {0}
  BY BoundsAssumption DEF Versions
<1>3. CASE place \in Ended
  <2>1. proc' = [proc EXCEPT ![p] = NoProc(place)]
    BY <1>3 DEF Goto
  <2>2. proc'[p] = NoProc(place) /\ Apart(p) /\ proc' \in [Procs -> Nob]
    BY <2>1, <1>1, NoProcType DEF Apart
  <2>3. None \notin Jobs
    BY NoneAssumption DEF Jobs, Files
  <2>4. Nobs'
    BY <2>2, <2>3, NoProcType DEF Nobs, Apart
  <2> QED  BY <1>3, <2>2, <2>4, NoProcType
<1>4. CASE place \notin Ended
  <2>1. proc' = [proc EXCEPT ![p] = [@ EXCEPT !.pc = place, !.job = None, !.read = 1]]
    BY <1>4 DEF Goto
  <2>2. proc'[p] = [proc[p] EXCEPT !.pc = place, !.job = None, !.read = 1] /\ Apart(p)
    BY <2>1, <1>1 DEF Apart
  <2>3. proc'[p] \in Nob
    BY <2>2, <1>1, <1>2 DEF Nob
  <2>4. /\ proc'[p].pc = place /\ proc'[p].job = None
        /\ proc'[p].cmd = proc[p].cmd /\ proc'[p].outfile = proc[p].outfile
        /\ proc'[p].code = proc[p].code /\ proc'[p].checked = proc[p].checked
        /\ proc'[p].met = proc[p].met
    BY <2>2, <1>1 DEF Nob
  <2>5. proc' \in [Procs -> Nob]
    BY <2>1, <2>2, <2>3, <1>1 DEF Apart
  <2>6. None \notin Jobs
    BY NoneAssumption DEF Jobs, Files
  <2>7. Nobs'
    BY <2>2, <2>4, <2>5, <2>6 DEF Nobs, Apart
  <2> QED  BY <1>4, <2>2, <2>4, <2>7
<1> QED  BY <1>3, <1>4

\* fork(): a job of its own, and the sources as they are.
LEMMA Spawns ==
  ASSUME Nobs, NEW p \in Procs, NEW job \in Jobs, NEW v \in Versions \cup {0}, Spawn(p, job, v)
  PROVE  /\ Nobs' /\ Apart(p)
         /\ proc'[p].pc = "cc" /\ proc'[p].job = job /\ proc'[p].read = v
         /\ proc'[p].cmd = proc[p].cmd /\ proc'[p].outfile = proc[p].outfile
         /\ proc'[p].code = proc[p].code /\ proc'[p].checked = proc[p].checked
         /\ proc'[p].met = proc[p].met
<1>1. proc \in [Procs -> Nob] /\ proc[p] \in Nob
  BY DEF Nobs
<1>2. proc' = [proc EXCEPT ![p].pc = "cc", ![p].job = job, ![p].read = v]
  BY DEF Spawn
<1>3. proc'[p] = [proc[p] EXCEPT !.pc = "cc", !.job = job, !.read = v] /\ Apart(p)
  BY <1>1, <1>2 DEF Apart
<1>4. proc'[p] \in Nob
  BY <1>1, <1>3 DEF Nob, Places
<1>5. /\ proc'[p].pc = "cc" /\ proc'[p].job = job /\ proc'[p].read = v
      /\ proc'[p].cmd = proc[p].cmd /\ proc'[p].outfile = proc[p].outfile
      /\ proc'[p].code = proc[p].code /\ proc'[p].checked = proc[p].checked
      /\ proc'[p].met = proc[p].met
  BY <1>1, <1>3 DEF Nob
<1>6. proc' \in [Procs -> Nob]
  BY <1>1, <1>2, <1>3, <1>4 DEF Apart
<1>7. Nobs'
  BY <1>3, <1>5, <1>6 DEF Nobs, Apart
<1> QED  BY <1>3, <1>5, <1>7

\* The linker is at work.
LEMMA Links ==
  ASSUME Nobs, NEW p \in Procs, At(p, "cc"), proc' = [proc EXCEPT ![p].pc = "ld"]
  PROVE  /\ Nobs' /\ Apart(p)
         /\ proc'[p].pc = "ld" /\ proc'[p].job = proc[p].job /\ proc'[p].read = proc[p].read
         /\ proc'[p].cmd = proc[p].cmd /\ proc'[p].outfile = proc[p].outfile
         /\ proc'[p].code = proc[p].code /\ proc'[p].checked = proc[p].checked
         /\ proc'[p].met = proc[p].met
<1>1. proc \in [Procs -> Nob] /\ proc[p] \in Nob /\ proc[p].job \in Jobs
  BY DEF Nobs, At
<1>2. proc'[p] = [proc[p] EXCEPT !.pc = "ld"] /\ Apart(p)
  BY <1>1 DEF Apart
<1>3. proc'[p] \in Nob
  BY <1>1, <1>2 DEF Nob, Places
<1>4. /\ proc'[p].pc = "ld" /\ proc'[p].job = proc[p].job /\ proc'[p].read = proc[p].read
      /\ proc'[p].cmd = proc[p].cmd /\ proc'[p].outfile = proc[p].outfile
      /\ proc'[p].code = proc[p].code /\ proc'[p].checked = proc[p].checked
      /\ proc'[p].met = proc[p].met
  BY <1>1, <1>2 DEF Nob
<1>5. proc' \in [Procs -> Nob]
  BY <1>1, <1>2, <1>3 DEF Apart
<1>6. Nobs'
  BY <1>1, <1>2, <1>4, <1>5 DEF Nobs, Apart
<1> QED  BY <1>2, <1>4, <1>6

\* main() has a command to work on.
LEMMA Chooses ==
  ASSUME Nobs, Clock, NEW p \in Procs, NEW cmd \in Cmds, NEW outfile \in BOOLEAN, At(p, "check"),
         proc' = [proc EXCEPT ![p] = [@ EXCEPT !.pc = "lib", !.cmd = cmd, !.outfile = outfile,
                                               !.checked = nobsrc.ver]]
  PROVE  /\ Nobs' /\ Apart(p)
         /\ proc'[p].pc = "lib" /\ proc'[p].job = None /\ proc'[p].checked = nobsrc.ver
         /\ proc'[p].code = proc[p].code /\ proc'[p].met = proc[p].met
<1>1. proc \in [Procs -> Nob] /\ proc[p] \in Nob /\ proc[p].job \notin Jobs /\ nobsrc.ver \in Versions
  BY DEF Nobs, At, Clock
<1>2. proc[p].job = None
  BY <1>1 DEF Nob
<1>3. /\ proc'[p] = [proc[p] EXCEPT !.pc = "lib", !.cmd = cmd, !.outfile = outfile,
                                    !.checked = nobsrc.ver]
      /\ Apart(p)
  BY <1>1 DEF Apart
<1>4. proc'[p] \in Nob
  BY <1>1, <1>3 DEF Nob, Places
<1>5. /\ proc'[p].pc = "lib" /\ proc'[p].job = None /\ proc'[p].checked = nobsrc.ver
      /\ proc'[p].code = proc[p].code /\ proc'[p].met = proc[p].met
  BY <1>1, <1>2, <1>3 DEF Nob
<1>6. proc' \in [Procs -> Nob]
  BY <1>1, <1>3, <1>4 DEF Apart
<1>7. Nobs'
  BY <1>1, <1>2, <1>3, <1>5, <1>6 DEF Nobs, Apart
<1> QED  BY <1>3, <1>5, <1>7

\* Or it is clean.
LEMMA Cleans ==
  ASSUME Nobs, Clock, NEW p \in Procs, At(p, "check"),
         proc' = [proc EXCEPT ![p] = [@ EXCEPT !.pc = "clean", !.checked = nobsrc.ver]]
  PROVE  /\ Nobs' /\ Apart(p)
         /\ proc'[p].pc = "clean" /\ proc'[p].job = None /\ proc'[p].checked = nobsrc.ver
         /\ proc'[p].cmd = proc[p].cmd
         /\ proc'[p].code = proc[p].code /\ proc'[p].met = proc[p].met
<1>1. proc \in [Procs -> Nob] /\ proc[p] \in Nob /\ proc[p].job \notin Jobs /\ nobsrc.ver \in Versions
  BY DEF Nobs, At, Clock
<1>2. proc[p].job = None
  BY <1>1 DEF Nob
<1>3. proc'[p] = [proc[p] EXCEPT !.pc = "clean", !.checked = nobsrc.ver] /\ Apart(p)
  BY <1>1 DEF Apart
<1>4. proc'[p] \in Nob
  BY <1>1, <1>3 DEF Nob, Places
<1>5. /\ proc'[p].pc = "clean" /\ proc'[p].job = None /\ proc'[p].checked = nobsrc.ver
      /\ proc'[p].cmd = proc[p].cmd
      /\ proc'[p].code = proc[p].code /\ proc'[p].met = proc[p].met
  BY <1>1, <1>2, <1>3 DEF Nob
<1>6. proc' \in [Procs -> Nob]
  BY <1>1, <1>3, <1>4 DEF Apart
<1>7. Nobs'
  BY <1>1, <1>2, <1>3, <1>5, <1>6 DEF Nobs, Apart
<1> QED  BY <1>3, <1>5, <1>7

\* What becomes of a nob that is up to date.
LEMMA Looks ==
  ASSUME Nobs, Clock, NEW p \in Procs, CheckNew(p)
  PROVE  /\ Nobs' /\ Apart(p)
         /\ proc'[p].pc \in {"lib", "clean", "failed"} /\ proc'[p].job = None
         /\ proc'[p].pc = "clean" => proc'[p].cmd = proc[p].cmd
         /\ proc'[p].pc = "failed" => proc'[p].cmd = None
         /\ proc'[p].pc # "failed" =>
              /\ proc'[p].checked = nobsrc.ver
              /\ proc'[p].code = proc[p].code /\ proc'[p].met = proc[p].met
<1>1. CASE \E cmd \in {"build", "reload", "run"}, outfile \in BOOLEAN :
             proc' = [proc EXCEPT ![p] = [@ EXCEPT !.pc = "lib", !.cmd = cmd, !.outfile = outfile,
                                                   !.checked = nobsrc.ver]]
  <2>1. PICK cmd \in Cmds, outfile \in BOOLEAN :
          proc' = [proc EXCEPT ![p] = [@ EXCEPT !.pc = "lib", !.cmd = cmd, !.outfile = outfile,
                                                !.checked = nobsrc.ver]]
    BY <1>1 DEF Cmds
  <2>2. At(p, "check")
    BY DEF CheckNew
  <2> QED  BY <2>1, <2>2, Chooses
<1>2. CASE proc' = [proc EXCEPT ![p] = [@ EXCEPT !.pc = "clean", !.checked = nobsrc.ver]]
  <2>1. At(p, "check")
    BY DEF CheckNew
  <2> QED  BY <1>2, <2>1, Cleans
<1>3. CASE Goto(p, "failed")
  <2>1. "failed" \in Places \ {"cc", "ld"} /\ "failed" \in Ended
    BY DEF Places, Ended
  <2> QED  BY <1>3, <2>1, Goes
<1> QED  BY <1>1, <1>2, <1>3 DEF CheckNew

\* The new nob looks again.
LEMMA Reexecutes ==
  ASSUME Nobs, NEW p \in Procs, NEW code \in Versions, At(p, "reexec"),
         proc' = [proc EXCEPT ![p].pc = "check", ![p].code = code]
  PROVE  /\ Nobs' /\ Apart(p)
         /\ proc'[p].pc = "check" /\ proc'[p].job = None /\ proc'[p].code = code
         /\ proc'[p].cmd = proc[p].cmd /\ proc'[p].met = proc[p].met
<1>1. proc \in [Procs -> Nob] /\ proc[p] \in Nob /\ proc[p].job \notin Jobs
  BY DEF Nobs, At
<1>2. proc[p].job = None
  BY <1>1 DEF Nob
<1>3. proc'[p] = [proc[p] EXCEPT !.pc = "check", !.code = code] /\ Apart(p)
  BY <1>1 DEF Apart
<1>4. proc'[p] \in Nob
  BY <1>1, <1>3 DEF Nob, Places
<1>5. /\ proc'[p].pc = "check" /\ proc'[p].job = None /\ proc'[p].code = code
      /\ proc'[p].cmd = proc[p].cmd /\ proc'[p].met = proc[p].met
  BY <1>1, <1>2, <1>3 DEF Nob
<1>6. proc' \in [Procs -> Nob]
  BY <1>1, <1>3, <1>4 DEF Apart
<1>7. Nobs'
  BY <1>1, <1>2, <1>3, <1>5, <1>6 DEF Nobs, Apart
<1> QED  BY <1>3, <1>5, <1>7

\* What becomes of a nob that has rebuilt itself.
LEMMA Returns ==
  ASSUME Nobs, UpToDate, NEW p \in Procs, Reexec(p)
  PROVE  /\ Nobs' /\ Apart(p)
         /\ proc'[p].pc \in {"check", "failed"} /\ proc'[p].job = None
         /\ proc'[p].pc = "failed" => proc'[p].cmd = None
         /\ proc'[p].pc = "check" =>
              /\ Whole("nob") /\ proc'[p].code = fs["nob"].ver
              /\ proc'[p].cmd = proc[p].cmd /\ proc'[p].met = proc[p].met
<1>1. CASE Whole("nob")
  <2>1. fs["nob"].ver \in Versions
    BY <1>1 DEF Whole, UpToDate
  <2> QED  BY <2>1, <1>1, Reexecutes DEF Reexec
<1>2. CASE ~Whole("nob")
  <2>1. Goto(p, "failed")
    BY <1>2 DEF Reexec, Goto, Ended
  <2> QED  BY <2>1, Goes DEF Places, Ended
<1> QED  BY <1>1, <1>2

\* Each nob is told of the others, and is otherwise as it was.
LEMMA Meets ==
  ASSUME Nobs, NEW q \in Procs, NEW met \in BOOLEAN, NEW new, new = [proc[q] EXCEPT !.met = met]
  PROVE  /\ new \in Nob /\ new.met = met
         /\ new.pc = proc[q].pc /\ new.cmd = proc[q].cmd /\ new.outfile = proc[q].outfile
         /\ new.job = proc[q].job /\ new.read = proc[q].read /\ new.code = proc[q].code
         /\ new.checked = proc[q].checked
<1>1. proc[q] \in Nob
  BY DEF Nobs
<1> QED  BY <1>1 DEF Nob

\* What a nob is, but for whether it met another.
Same(q) ==
  /\ proc'[q].pc = proc[q].pc /\ proc'[q].cmd = proc[q].cmd /\ proc'[q].outfile = proc[q].outfile
  /\ proc'[q].job = proc[q].job /\ proc'[q].read = proc[q].read /\ proc'[q].code = proc[q].code
  /\ proc'[q].checked = proc[q].checked

\* A nob starts as what is on the disk, and those that run meet it.
LEMMA Begins ==
  ASSUME Nobs, UpToDate, NEW p \in Procs, Start(p)
  PROVE  /\ Nobs' /\ p \notin Active
         /\ proc'[p].pc = "check" /\ proc'[p].job = None /\ proc'[p].cmd = None
         /\ proc'[p].code = fs["nob"].ver /\ (~proc'[p].met => Active = {})
         /\ \A q \in Procs : q # p => Same(q) /\ (~proc'[q].met => q \notin Active)
<1>1. fs["nob"].ver \in Versions /\ proc \in [Procs -> Nob] /\ p \notin Active
  BY DEF Start, Whole, UpToDate, Nobs
<1>2. proc' = [q \in Procs |->
         IF q = p THEN [NoProc("check") EXCEPT !.code = fs["nob"].ver, !.met = Active # {}]
         ELSE [proc[q] EXCEPT !.met = q \in Active]]
  BY DEF Start
<1>3. PICK met \in BOOLEAN : met <=> Active # {}
  OBVIOUS
<1>4. proc'[p] = [NoProc("check") EXCEPT !.code = fs["nob"].ver, !.met = Active # {}]
  BY <1>2
<1>5. proc'[p] = [NoProc("check") EXCEPT !.code = fs["nob"].ver, !.met = met]
  BY <1>3, <1>4
<1>6. NoProc("check") \in Nob /\ NoProc("check").pc = "check" /\ NoProc("check").job = None
      /\ NoProc("check").cmd = None
  BY NoProcType DEF Places
<1>7. proc'[p] \in Nob
  BY <1>1, <1>5, <1>6 DEF Nob
<1>8. /\ proc'[p].pc = "check" /\ proc'[p].job = None /\ proc'[p].cmd = None
      /\ proc'[p].code = fs["nob"].ver /\ (proc'[p].met <=> met)
  BY <1>5, <1>6 DEF Nob
<1>9. ASSUME NEW q \in Procs, q # p
      PROVE  proc'[q] \in Nob /\ Same(q) /\ (~proc'[q].met => q \notin Active)
  <2>1. PICK m \in BOOLEAN : m <=> q \in Active
    OBVIOUS
  <2>2. proc'[q] = [proc[q] EXCEPT !.met = q \in Active]
    BY <1>2, <1>9
  <2>3. proc'[q] = [proc[q] EXCEPT !.met = m]
    BY <2>1, <2>2
  <2>4. proc'[q].met = m /\ proc'[q] \in Nob /\ Same(q)
    BY <2>3, Meets DEF Same
  <2> QED  BY <2>1, <2>4
<1>10. proc' \in [Procs -> Nob]
  BY <1>2, <1>7, <1>9
<1>11. None \notin Jobs
  BY NoneAssumption DEF Jobs, Files
<1>12. Nobs'
  <2>1. ASSUME NEW q \in Procs
        PROVE  proc'[q].job \in Jobs <=> proc'[q].pc \in {"cc", "ld"}
    <3>1. CASE q = p
      BY <3>1, <1>8, <1>11
    <3>2. CASE q # p
      BY <3>2, <1>9 DEF Same, Nobs
    <3> QED  BY <3>1, <3>2
  <2> QED  BY <1>10, <2>1 DEF Nobs
<1> QED  BY <1>1, <1>3, <1>8, <1>9, <1>12

\* Those that run meet whoever compiles nob by hand.
LEMMA Greets ==
  ASSUME Nobs, Bootstrap
  PROVE  /\ Nobs'
         /\ \A q \in Procs : Same(q) /\ (~proc'[q].met => q \notin Active)
<1>1. proc \in [Procs -> Nob] /\ proc' = [q \in Procs |-> [proc[q] EXCEPT !.met = q \in Active]]
  BY DEF Nobs, Bootstrap
<1>2. ASSUME NEW q \in Procs
      PROVE  proc'[q] \in Nob /\ Same(q) /\ (~proc'[q].met => q \notin Active)
  <2>1. PICK m \in BOOLEAN : m <=> q \in Active
    OBVIOUS
  <2>2. proc'[q] = [proc[q] EXCEPT !.met = q \in Active]
    BY <1>1
  <2>3. proc'[q] = [proc[q] EXCEPT !.met = m]
    BY <2>1, <2>2
  <2>4. proc'[q].met = m /\ proc'[q] \in Nob /\ Same(q)
    BY <2>3, Meets DEF Same
  <2> QED  BY <2>1, <2>4
<1>3. proc' \in [Procs -> Nob]
  BY <1>1, <1>2
<1>4. Nobs'
  BY <1>2, <1>3 DEF Nobs, Same
<1> QED  BY <1>2, <1>4

-----------------------------------------------------------------------------
\* Moves of the file system.

\* Which file a compiler writes.
LEMMA Outputs ==
  ASSUME NEW p \in Procs
  PROVE  /\ proc[p].job = "self" => Output(p) = "nob"
         /\ proc[p].job = "lib" => Output(p) = "libserver.so"
         /\ proc[p].job = "main" => Output(p) = IF proc[p].outfile THEN None ELSE "main"
BY Zenon DEF Output

\* Where a nob goes when its compiler has succeeded, or not.
LEMMA Afters ==
  ASSUME NEW p \in Procs
  PROVE  /\ proc[p].job = "self" => AfterSuccess(p) = "reexec"
         /\ proc[p].job = "lib" => AfterSuccess(p) = IF proc[p].cmd = "reload" THEN "ok" ELSE "main"
         /\ proc[p].job = "main" => AfterSuccess(p) = IF proc[p].cmd = "run" THEN "run" ELSE "ok"
BY Zenon DEF AfterSuccess

\* Nothing is both a file and no file.
LEMMA FileNotNone == ASSUME NEW x \in File PROVE x # None
BY NoneAssumption

\* Who starts has written nothing yet.
LEMMA Disowns ==
  ASSUME Disk, NEW p \in Procs, Start(p)
  PROVE  /\ Disk'
         /\ \A f \in Files : fs'[f] = None <=> fs[f] = None
         /\ \A f \in Files : fs[f] # None =>
              /\ fs'[f].ver = fs[f].ver /\ fs'[f].time = fs[f].time /\ fs'[f].whole = fs[f].whole
              /\ fs'[f].by # p /\ fs'[f].by \in {None, fs[f].by}
<1>1. /\ fs \in [Files -> File \cup {None}] /\ now' = now /\ \A f \in Files : fs[f] # None => fs[f].time <= now
      /\ fs' = [f \in Files |-> IF fs[f] # None /\ fs[f].by = p THEN [fs[f] EXCEPT !.by = None] ELSE fs[f]]
  BY DEF Disk, Start
<1>2. ASSUME NEW f \in Files, fs[f] = None
      PROVE  fs'[f] = None
  BY <1>1, <1>2
<1>3. ASSUME NEW f \in Files, fs[f] # None
      PROVE  /\ fs'[f] \in File /\ fs'[f] # None
             /\ fs'[f].ver = fs[f].ver /\ fs'[f].time = fs[f].time /\ fs'[f].whole = fs[f].whole
             /\ fs'[f].by # p /\ fs'[f].by \in {None, fs[f].by}
  <2>1. fs[f] \in File /\ None # p
    BY <1>1, <1>3, NoneAssumption
  <2>2. CASE fs[f].by = p
    <3>1. fs'[f] = [fs[f] EXCEPT !.by = None]
      BY <1>1, <1>3, <2>2
    <3>2. fs'[f] \in File
      BY <2>1, <3>1 DEF File
    <3> QED  BY <2>1, <3>1, <3>2, FileNotNone DEF File
  <2>3. CASE fs[f].by # p
    BY <1>1, <1>3, <2>1, <2>3
  <2> QED  BY <2>2, <2>3
<1>4. fs' \in [Files -> File \cup {None}]
  BY <1>1, <1>2, <1>3
<1>5. Disk'
  BY <1>1, <1>2, <1>3, <1>4 DEF Disk
<1> QED  BY <1>2, <1>3, <1>5

\* rename(2)
LEMMA Renames ==
  ASSUME Disk, NEW old \in Files, NEW new \in Files, old # new, Rename(old, new), now' = now
  PROVE  /\ Disk' /\ fs'[new] = fs[old] /\ fs'[old] = None
         /\ \A f \in Files \ {old, new} : fs'[f] = fs[f]
<1>1. /\ fs \in [Files -> File \cup {None}] /\ \A f \in Files : fs[f] # None => fs[f].time <= now
      /\ fs' = [fs EXCEPT ![new] = fs[old], ![old] = None]
  BY DEF Disk, Rename
<1>2. /\ fs'[new] = fs[old] /\ fs'[old] = None
      /\ \A f \in Files \ {old, new} : fs'[f] = fs[f]
  BY <1>1
<1>3. fs' \in [Files -> File \cup {None}]
  BY <1>1
<1>4. Disk'
  BY <1>1, <1>2, <1>3 DEF Disk
<1> QED  BY <1>2, <1>4

\* The linker's output is new, and its own.
LEMMA Opens ==
  ASSUME Nobs, Disk, Clock, NEW p \in Procs, LinkerOpens(p)
  PROVE  /\ Disk'
         /\ \A f \in Files : f # Output(p) => fs'[f] = fs[f]
         /\ Output(p) \in Files =>
              /\ fs'[Output(p)] # None /\ fs'[Output(p)].by = p /\ ~fs'[Output(p)].whole
              /\ fs'[Output(p)].ver = proc[p].read
<1> DEFINE new == [ver |-> proc[p].read, time |-> IF proc[p].job = "self" THEN now ELSE 0,
                   whole |-> FALSE, by |-> p]
<1>1. /\ fs \in [Files -> File \cup {None}] /\ \A f \in Files : fs[f] # None => fs[f].time <= now
      /\ now' = now /\ now \in 0 .. MaxTime /\ proc[p].read \in Versions \cup {0} /\ 0 \in 0 .. MaxTime
  BY BoundsAssumption DEF Disk, LinkerOpens, world, Clock, Nobs, Nob
<1>2. fs' = [f \in Files |-> IF f # Output(p) THEN fs[f] ELSE new]
  BY DEF LinkerOpens
<1>3. new \in File /\ new.time <= now /\ new.by = p /\ ~new.whole /\ new.ver = proc[p].read
  <2>1. PICK t \in 0 .. MaxTime : t = (IF proc[p].job = "self" THEN now ELSE 0) /\ t <= now
    BY <1>1
  <2>2. new = [ver |-> proc[p].read, time |-> t, whole |-> FALSE, by |-> p]
    BY <2>1
  <2> QED  BY <1>1, <2>1, <2>2 DEF File
<1> HIDE DEF new
<1>4. /\ \A f \in Files : f # Output(p) => fs'[f] = fs[f]
      /\ Output(p) \in Files => fs'[Output(p)] = new
  BY <1>2
<1>5. fs' \in [Files -> File \cup {None}]
  BY <1>1, <1>2, <1>3
<1>6. Disk'
  <2>1. ASSUME NEW f \in Files, fs'[f] # None
        PROVE  fs'[f].time <= now'
    <3>1. CASE f = Output(p)
      BY <3>1, <1>1, <1>3, <1>4
    <3>2. CASE f # Output(p)
      BY <3>2, <2>1, <1>1, <1>4
    <3> QED  BY <3>1, <3>2
  <2> QED  BY <1>5, <2>1 DEF Disk
<1> QED  BY <1>3, <1>4, <1>6, FileNotNone

\* What the compiler had opened is whole; the rest is as it was.
LEMMA Finishes ==
  ASSUME Disk, Clock, NEW p \in Procs, Finished(p), now' = now
  PROVE  /\ Disk'
         /\ \A f \in Files : \/ fs'[f] = fs[f] /\ (Opened(f, p) => fs[f].whole)
                             \/ /\ Opened(f, p) /\ ~fs[f].whole /\ Done(f, p)'
                                /\ fs'[f].ver = fs[f].ver
<1> DEFINE new(f) == [fs[f] EXCEPT !.whole = TRUE, !.time = IF proc[p].job = "self" THEN now ELSE 0]
<1>1. /\ fs \in [Files -> File \cup {None}] /\ \A f \in Files : fs[f] # None => fs[f].time <= now
      /\ now' = now /\ now \in 0 .. MaxTime /\ 0 \in 0 .. MaxTime
  BY BoundsAssumption DEF Disk, Clock
<1>2. fs' = [f \in Files |-> IF fs[f] # None /\ fs[f].by = p /\ ~fs[f].whole THEN new(f) ELSE fs[f]]
  BY DEF Finished
<1>3. ASSUME NEW f \in Files, Opened(f, p), ~fs[f].whole
      PROVE  new(f) \in File /\ new(f).time <= now /\ new(f).by = p /\ new(f).whole = TRUE /\ new(f).ver = fs[f].ver
  <2>1. PICK t \in 0 .. MaxTime : t = (IF proc[p].job = "self" THEN now ELSE 0) /\ t <= now
    BY <1>1
  <2>2. new(f) = [fs[f] EXCEPT !.whole = TRUE, !.time = t] /\ fs[f] \in File
    BY <2>1, <1>1, <1>3 DEF Opened
  <2>3. fs[f].by = p
    BY <1>3 DEF Opened
  <2> HIDE DEF new
  <2> QED  BY <2>1, <2>2, <2>3 DEF File
<1> HIDE DEF new
<1>4. ASSUME NEW f \in Files
      PROVE  /\ fs'[f] \in File \cup {None} /\ (fs'[f] # None => fs'[f].time <= now)
             /\ \/ fs'[f] = fs[f] /\ (Opened(f, p) => fs[f].whole)
                \/ /\ Opened(f, p) /\ ~fs[f].whole /\ Done(f, p)'
                   /\ fs'[f].ver = fs[f].ver
  <2>1. CASE Opened(f, p) /\ ~fs[f].whole
    <3>1. fs'[f] = new(f)
      BY <1>2, <2>1 DEF Opened
    <3>2. new(f) \in File /\ new(f).time <= now /\ new(f).by = p /\ new(f).whole = TRUE /\ new(f).ver = fs[f].ver
      BY <1>3, <2>1
    <3>3. Done(f, p)'
      BY <3>1, <3>2, FileNotNone DEF Done, Opened
    <3> QED  BY <2>1, <3>1, <3>2, <3>3
  <2>2. CASE ~(Opened(f, p) /\ ~fs[f].whole)
    BY <1>1, <1>2, <2>2 DEF Opened
  <2> QED  BY <2>1, <2>2
<1>5. fs' \in [Files -> File \cup {None}]
  BY <1>2, <1>4
<1> QED  BY <1>1, <1>4, <1>5 DEF Disk

\* A compiler that does not succeed takes its output with it, or leaves it.
LEMMA Abandons ==
  ASSUME Disk, NEW p \in Procs, Abandoned(p), now' = now
  PROVE  /\ Disk'
         /\ \A f \in Files : fs'[f] = fs[f] \/ (f = Output(p) /\ fs'[f] = None)
<1>1. /\ fs \in [Files -> File \cup {None}] /\ \A f \in Files : fs[f] # None => fs[f].time <= now
      /\ fs' = fs \/ fs' = [f \in Files |-> IF f = Output(p) THEN None ELSE fs[f]]
  BY DEF Disk, Abandoned
<1>2. \A f \in Files : fs'[f] = fs[f] \/ (f = Output(p) /\ fs'[f] = None)
  BY <1>1
<1>3. fs' \in [Files -> File \cup {None}]
  BY <1>1
<1> QED  BY <1>1, <1>2, <1>3 DEF Disk

\* A nob made by hand is new.
LEMMA MadeByHand ==
  ASSUME Disk, Clock, Bootstrap
  PROVE  /\ Disk'
         /\ fs'["nob"] # None /\ fs'["nob"].whole /\ fs'["nob"].ver = nobsrc.ver /\ fs'["nob"].by = None
         /\ \A f \in Files \ {"nob"} : fs'[f] = fs[f]
<1> DEFINE new == [ver |-> nobsrc.ver, time |-> now, whole |-> TRUE, by |-> None]
<1>1. /\ fs \in [Files -> File \cup {None}] /\ \A f \in Files : fs[f] # None => fs[f].time <= now
      /\ now' = now /\ now \in 0 .. MaxTime /\ nobsrc.ver \in Versions \cup {0} /\ "nob" \in Files
  BY DEF Disk, Clock, Bootstrap, world, Files
<1>2. fs' = [fs EXCEPT !["nob"] = new]
  BY DEF Bootstrap
<1>3. new \in File /\ new.time <= now /\ new.by = None /\ new.whole /\ new.ver = nobsrc.ver
  BY <1>1 DEF File
<1> HIDE DEF new
<1>4. fs'["nob"] = new /\ \A f \in Files \ {"nob"} : fs'[f] = fs[f]
  BY <1>1, <1>2
<1>5. fs' \in [Files -> File \cup {None}]
  BY <1>1, <1>2, <1>3
<1>6. Disk'
  <2>1. ASSUME NEW f \in Files, fs'[f] # None
        PROVE  fs'[f].time <= now'
    <3>1. CASE f = "nob"
      BY <3>1, <1>1, <1>3, <1>4
    <3>2. CASE f # "nob"
      BY <3>2, <2>1, <1>1, <1>4
    <3> QED  BY <3>1, <3>2
  <2> QED  BY <1>5, <2>1 DEF Disk
<1> QED  BY <1>3, <1>4, <1>6, FileNotNone

\* rm takes everything.
LEMMA Removes ==
  ASSUME NEW p \in Procs, Clean(p)
  PROVE  Disk' /\ \A f \in Files : fs'[f] = None
<1>1. fs' = [f \in Files |-> IF f \in Cleaned THEN None ELSE fs[f]] /\ Cleaned = Files
  BY DEF Clean, Cleaned, Files
<1>2. \A f \in Files : fs'[f] = None
  BY <1>1
<1>3. fs' \in [Files -> File \cup {None}]
  BY <1>1
<1> QED  BY <1>2, <1>3 DEF Disk

-----------------------------------------------------------------------------
\* Every step keeps the types.

\* The clock, the source and the histories move by the editor, the clock and the checks only.
LEMMA ClockKept ==
  ASSUME Nobs, Clock, Next
  PROVE  Clock'
<1>1. CASE \E p \in Procs : Start(p) \/ NobStep(p) \/ ServerExits(p) \/ Killed(p)
  <2>1. PICK p \in Procs : Start(p) \/ NobStep(p) \/ ServerExits(p) \/ Killed(p)
    BY <1>1
  <2>2. CASE Start(p)
    <3>1. /\ starts < MaxStarts /\ starts' = starts + 1 /\ now' = now /\ nobsrc' = nobsrc
          /\ hidden' = hidden /\ overlapped' = overlapped
      BY <2>2 DEF Start, history
    <3> QED  BY <3>1, BoundsAssumption DEF Clock
  <2>3. CASE CheckOld(p)
    BY <2>3 DEF CheckOld, Clock, world
  <2>4. CASE Clean(p)
    BY <2>4 DEF Clean, Clock, world
  <2>5. CASE UNCHANGED <<world, history>>
    BY <2>5 DEF Clock, world, history
  <2> QED  BY <2>1, <2>2, <2>3, <2>4, <2>5
      DEF NobStep, CheckNew, CheckFails, RenameAway, RenameAwayFails, Restore, Reexec, RebuildUrself,
          BuildServer, BuildMain, Spawn, LinkerOpens, CompilerSucceeds, CompilerFails, RunMain,
          ServerExits, Killed
<1>2. CASE EditNob
  <2>1. nobsrc' = [ver |-> nobsrc.ver + 1, time |-> now] /\ nobsrc.ver + 1 \in Versions
    BY <1>2, BoundsAssumption DEF EditNob, Clock, Versions
  <2>2. nobsrc' \in [ver : Versions, time : 0 .. MaxTime] /\ nobsrc'.time = now
    BY <2>1 DEF Clock
  <2>3. hidden' \subseteq Versions
    BY <1>2, <2>1 DEF EditNob, Clock
  <2> QED  BY <1>2, <2>2, <2>3 DEF EditNob, Clock
<1>3. CASE Bootstrap
  BY <1>3 DEF Bootstrap, Clock, world
<1>4. CASE Tick
  BY <1>4, BoundsAssumption DEF Tick, Clock, history
<1> QED  BY <1>1, <1>2, <1>3, <1>4 DEF Next

\* Each step moves one nob by one of the forms above.
LEMMA NobsKept ==
  ASSUME Typed, UpToDate, Next
  PROVE  Nobs'
<1>1. CASE \E p \in Procs : Start(p) \/ NobStep(p) \/ ServerExits(p) \/ Killed(p)
  <2>1. PICK p \in Procs : Start(p) \/ NobStep(p) \/ ServerExits(p) \/ Killed(p)
    BY <1>1
  <2>2. CASE Start(p)
    BY <2>2, Begins DEF Typed
  <2>3. CASE \E place \in Places \ {"cc", "ld"} : Goto(p, place)
    BY <2>3, Goes DEF Typed
  <2>4. CASE CheckOld(p) \/ CheckFails(p) \/ RenameAway(p) \/ RenameAwayFails(p) \/ Restore(p)
    BY <2>3, <2>4 DEF CheckOld, CheckFails, RenameAway, RenameAwayFails, Restore, Places, Ended
  <2>5. CASE RunMain(p) \/ ServerExits(p) \/ Clean(p) \/ Killed(p)
    BY <2>3, <2>5 DEF RunMain, ServerExits, Clean, Killed, Places, Ended
  <2>6. CASE CheckNew(p)
    BY <2>6, <2>3, Chooses, Cleans DEF CheckNew, Places, Ended, Cmds, Typed
  <2>7. CASE Reexec(p)
    BY <2>7, Returns DEF Typed
  <2>8. CASE RebuildUrself(p) \/ BuildServer(p) \/ BuildMain(p)
    <3>1. nobsrc.ver \in Versions \cup {0} /\ 0 \in Versions \cup {0}
      BY DEF Typed, Clock
    <3> QED  BY <3>1, <2>8, Spawns DEF RebuildUrself, BuildServer, BuildMain, Jobs, Typed
  <2>9. CASE LinkerOpens(p)
    BY <2>9, Links DEF LinkerOpens, Typed
  <2>10. CASE CompilerSucceeds(p)
    <3>1. proc[p].job \in Jobs
      BY <2>10 DEF CompilerSucceeds, At, Typed, Nobs
    <3>2. AfterSuccess(p) \in Places \ {"cc", "ld"}
      BY <3>1, Afters DEF Jobs, Places, Ended
    <3> QED  BY <2>3, <2>10, <3>2 DEF CompilerSucceeds
  <2>11. CASE CompilerFails(p)
    BY <2>3, <2>11 DEF CompilerFails, AfterFailure, Places, Ended
  <2> QED  BY <2>1, <2>2, <2>4, <2>5, <2>6, <2>7, <2>8, <2>9, <2>10, <2>11 DEF NobStep
<1>2. CASE EditNob \/ Tick
  BY <1>2 DEF EditNob, Tick, Typed, Nobs
<1>3. CASE Bootstrap
  BY <1>3, Greets DEF Typed
<1> QED  BY <1>1, <1>2, <1>3 DEF Next

\* Each step leaves the disk alone, or moves it by one of the forms above.
LEMMA DiskKept ==
  ASSUME Typed, Next
  PROVE  Disk'
<1>1. CASE \E p \in Procs : Start(p) \/ NobStep(p) \/ ServerExits(p) \/ Killed(p)
  <2>1. PICK p \in Procs : Start(p) \/ NobStep(p) \/ ServerExits(p) \/ Killed(p)
    BY <1>1
  <2>2. CASE UNCHANGED <<now, fs>>
    BY <2>2 DEF Typed, Disk
  <2>3. CASE Start(p)
    BY <2>3, Disowns DEF Typed
  <2>4. CASE RenameAway(p) \/ Restore(p)
    BY <2>2, <2>4, Renames DEF RenameAway, Restore, Files, Typed, world
  <2>5. CASE LinkerOpens(p)
    BY <2>5, Opens DEF Typed
  <2>6. CASE CompilerSucceeds(p)
    BY <2>6, Finishes DEF CompilerSucceeds, Typed, world
  <2>7. CASE CompilerFails(p) \/ Killed(p)
    BY <2>2, <2>7, Abandons DEF CompilerFails, Killed, Typed, world
  <2>8. CASE Clean(p)
    BY <2>8, Removes
  <2> QED  BY <2>1, <2>2, <2>3, <2>4, <2>5, <2>6, <2>7, <2>8
      DEF NobStep, CheckOld, CheckNew, CheckFails, RenameAwayFails, Reexec, RebuildUrself,
          BuildServer, BuildMain, Spawn, RunMain, ServerExits, world
<1>2. CASE EditNob
  BY <1>2 DEF EditNob, Typed, Disk
<1>3. CASE Tick
  <2>1. fs' = fs /\ now' = now + 1 /\ now \in Nat
    BY <1>3 DEF Tick, Typed, Clock
  <2>2. \A f \in Files : fs[f] # None => fs[f].time \in Nat
    BY DEF Typed, Disk, File
  <2> QED  BY <2>1, <2>2 DEF Typed, Disk
<1>4. CASE Bootstrap
  BY <1>4, MadeByHand DEF Typed
<1> QED  BY <1>1, <1>2, <1>3, <1>4 DEF Next

-----------------------------------------------------------------------------
\* A nob survives.

\* Nobody begins to rebuild, or gets on with it, and nothing is lost: a lone rebuild stays alone.
LEMMA QuietStep ==
  ASSUME Survival, overlapped' = overlapped,
         \A q \in Procs : Rebuilds(q)' => Rebuilds(q) /\ (proc'[q].pc = "rename" <=> proc[q].pc = "rename"),
         Whole("nob") => Whole("nob")', Whole("nob.old") => Whole("nob.old")',
         fs["nob"] = None => fs'["nob"] = None
  PROVE  Survival'
<1> SUFFICES ASSUME ~overlapped
             PROVE  /\ \A p, q \in Procs : Rebuilds(p)' /\ Rebuilds(q)' => p = q
                    /\ \A p \in Procs : Rebuilds(p)' =>
                         IF proc'[p].pc = "rename" THEN fs'["nob"] = None \/ Whole("nob")' ELSE Whole("nob.old")'
                    /\ Whole("nob")' \/ Whole("nob.old")'
  BY DEF Survival
<1>1. /\ \A p, q \in Procs : Rebuilds(p) /\ Rebuilds(q) => p = q
      /\ \A p \in Procs : Rebuilds(p) =>
           IF proc[p].pc = "rename" THEN fs["nob"] = None \/ Whole("nob") ELSE Whole("nob.old")
      /\ Whole("nob") \/ Whole("nob.old")
  BY DEF Survival
<1> QED  BY <1>1

\* While nob is being compiled its place is nobody's: nob.old is what counts.
LEMMA CompilingStep ==
  ASSUME Survival, overlapped' = overlapped, NEW p \in Procs, Apart(p), proc[p].job = "self",
         proc[p].pc # "rename", proc'[p].pc # "rename", Whole("nob.old") => Whole("nob.old")'
  PROVE  Survival'
<1> SUFFICES ASSUME ~overlapped
             PROVE  /\ \A r, q \in Procs : Rebuilds(r)' /\ Rebuilds(q)' => r = q
                    /\ \A q \in Procs : Rebuilds(q)' =>
                         IF proc'[q].pc = "rename" THEN fs'["nob"] = None \/ Whole("nob")' ELSE Whole("nob.old")'
                    /\ Whole("nob")' \/ Whole("nob.old")'
  BY DEF Survival
<1>1. Rebuilds(p)
  BY DEF Rebuilds
<1>2. (\A q \in Procs : Rebuilds(q) => q = p) /\ Whole("nob.old")'
  BY <1>1 DEF Survival
<1>3. \A q \in Procs : Rebuilds(q)' => q = p
  BY <1>2 DEF Apart, Rebuilds
<1> QED  BY <1>2, <1>3

\* A nob is lost to an overlap or a clean only.
LEMMA SurvivalKept ==
  ASSUME Typed, UpToDate, Survival, Next
  PROVE  Survival'
<1>1. CASE \E p \in Procs : Start(p) \/ NobStep(p) \/ ServerExits(p) \/ Killed(p)
  <2>1. PICK p \in Procs : Start(p) \/ NobStep(p) \/ ServerExits(p) \/ Killed(p)
    BY <1>1
  <2>2. None # "self" /\ "nob" \in Files /\ "nob.old" \in Files
    BY NoneAssumption DEF Files
  <2>3. proc[p].job = "self" => proc[p].pc \in {"cc", "ld"}
    BY DEF Typed, Nobs, Jobs
  <2>4. ASSUME NEW place \in Places \ {"cc", "ld", "rename", "self", "restore"}, Goto(p, place),
               UNCHANGED <<fs, overlapped>>
        PROVE  Survival'
    <3>1. \A q \in Procs : Rebuilds(q)' => Rebuilds(q) /\ (proc'[q].pc = "rename" <=> proc[q].pc = "rename")
      BY <2>2, <2>4, Goes DEF Apart, Rebuilds, Typed
    <3> QED  BY <3>1, <2>4, QuietStep DEF Whole
  <2>5. CASE Start(p)
    <3>1. \A q \in Procs : Rebuilds(q)' => Rebuilds(q) /\ (proc'[q].pc = "rename" <=> proc[q].pc = "rename")
      BY <2>2, <2>5, Begins DEF Same, Rebuilds, Typed
    <3>2. \A f \in Files : (fs'[f] = None <=> fs[f] = None) /\ (fs[f] # None => fs'[f].whole = fs[f].whole)
      BY <2>5, Disowns DEF Typed
    <3> QED  BY <2>2, <2>5, <3>1, <3>2, QuietStep DEF Whole, Start, history
  <2>6. CASE CheckOld(p)
    <3>1. Goto(p, "rename") /\ fs' = fs /\ (~overlapped' => ~overlapped /\ Rebuilding = {} /\ (fs["nob"] = None \/ Whole("nob")))
      BY <2>6 DEF CheckOld
    <3>2. Apart(p) /\ proc'[p].pc = "rename"
      BY <3>1, Goes DEF Places, Ended, Typed
    <3>3. Rebuilding = {} => \A q \in Procs : ~Rebuilds(q)
      BY DEF Rebuilding, Rebuilds, Active, Ended, Typed, Nobs, Jobs
    <3>4. ~overlapped' => \A q \in Procs : Rebuilds(q)' => q = p
      BY <3>1, <3>2, <3>3 DEF Apart, Rebuilds
    <3> QED  BY <3>1, <3>2, <3>4 DEF Survival, Whole
  <2>7. CASE CheckNew(p)
    <3>1. UNCHANGED <<fs, overlapped>>
      BY <2>7 DEF CheckNew, history
    <3>2. Apart(p) /\ proc'[p].pc \in {"lib", "clean", "failed"} /\ proc'[p].job = None
      BY <2>7, Looks DEF Typed
    <3>3. \A q \in Procs : Rebuilds(q)' => Rebuilds(q) /\ (proc'[q].pc = "rename" <=> proc[q].pc = "rename")
      BY <2>2, <3>2 DEF Apart, Rebuilds
    <3> QED  BY <3>1, <3>3, QuietStep DEF Whole
  <2>8. CASE CheckFails(p) \/ RenameAwayFails(p) \/ RunMain(p) \/ ServerExits(p)
    BY <2>4, <2>8 DEF CheckFails, RenameAwayFails, RunMain, ServerExits, history, Places, Ended
  <2>9. CASE RenameAway(p)
    <3>1. Goto(p, "self") /\ fs["nob"] # None /\ overlapped' = overlapped /\ proc[p].pc = "rename"
      BY <2>9 DEF RenameAway, history, At
    <3>2. Apart(p) /\ proc'[p].pc = "self"
      BY <3>1, Goes DEF Places, Ended, Typed
    <3>3. fs'["nob.old"] = fs["nob"]
      BY <2>2, <2>9, Renames DEF RenameAway, Typed, world
    <3>4. Rebuilds(p)
      BY <3>1 DEF Rebuilds
    <3>5. CASE ~overlapped
      <4>1. (\A q \in Procs : Rebuilds(q) => q = p) /\ Whole("nob")
        BY <3>1, <3>4, <3>5 DEF Survival
      <4>2. Whole("nob.old")'
        BY <3>3, <4>1 DEF Whole
      <4>3. \A q \in Procs : Rebuilds(q)' => q = p
        BY <3>2, <4>1 DEF Apart, Rebuilds
      <4> QED  BY <3>2, <4>2, <4>3 DEF Survival
    <3> QED  BY <3>1, <3>5 DEF Survival
  <2>10. CASE Restore(p)
    <3>1. Goto(p, "failed") /\ overlapped' = overlapped /\ proc[p].pc = "restore"
      BY <2>10 DEF Restore, history, At
    <3>2. Apart(p) /\ proc'[p].pc = "failed" /\ proc'[p].job = None
      BY <3>1, Goes DEF Places, Ended, Typed
    <3>3. Rebuilds(p)
      BY <3>1 DEF Rebuilds
    <3>4. CASE ~overlapped
      <4>1. (\A q \in Procs : Rebuilds(q) => q = p) /\ Whole("nob.old")
        BY <3>1, <3>3, <3>4 DEF Survival
      <4>2. fs'["nob"] = fs["nob.old"]
        BY <2>2, <2>10, <4>1, Renames DEF Restore, Typed, world, Whole
      <4>3. Whole("nob")'
        BY <4>1, <4>2 DEF Whole
      <4>4. \A q \in Procs : ~Rebuilds(q)'
        BY <2>2, <3>2, <4>1 DEF Apart, Rebuilds
      <4> QED  BY <4>3, <4>4 DEF Survival
    <3> QED  BY <3>1, <3>4 DEF Survival
  <2>11. CASE Reexec(p)
    <3>1. UNCHANGED <<fs, overlapped>> /\ At(p, "reexec")
      BY <2>11 DEF Reexec, history
    <3>2. Apart(p) /\ proc'[p].pc \in {"check", "failed"} /\ proc'[p].job = None
      BY <2>11, Returns DEF Typed
    <3>3. \A q \in Procs : Rebuilds(q)' => Rebuilds(q) /\ (proc'[q].pc = "rename" <=> proc[q].pc = "rename")
      BY <2>2, <3>2 DEF Apart, Rebuilds
    <3> QED  BY <3>1, <3>3, QuietStep DEF Whole
  <2>12. CASE RebuildUrself(p) \/ BuildServer(p) \/ BuildMain(p)
    <3>1. nobsrc.ver \in Versions \cup {0} /\ 0 \in Versions \cup {0}
      BY DEF Typed, Clock
    <3>2. UNCHANGED <<fs, overlapped>>
      BY <2>12 DEF RebuildUrself, BuildServer, BuildMain, Spawn, history
    <3>3. Apart(p) /\ proc'[p].pc = "cc" /\ (proc'[p].job = "self" => proc[p].pc = "self")
      BY <3>1, <2>12, Spawns DEF RebuildUrself, BuildServer, BuildMain, Jobs, Typed, At
    <3>4. \A q \in Procs : Rebuilds(q)' => Rebuilds(q) /\ (proc'[q].pc = "rename" <=> proc[q].pc = "rename")
      BY <3>3 DEF Apart, Rebuilds
    <3> QED  BY <3>2, <3>4, QuietStep DEF Whole
  <2>13. CASE LinkerOpens(p)
    <3>1. overlapped' = overlapped /\ proc[p].pc = "cc"
      BY <2>13 DEF LinkerOpens, history, At
    <3>2. Apart(p) /\ proc'[p].pc = "ld" /\ proc'[p].job = proc[p].job
      BY <2>13, Links DEF LinkerOpens, Typed
    <3>3. \A f \in Files : f # Output(p) => fs'[f] = fs[f]
      BY <2>13, Opens DEF Typed
    <3>4. CASE proc[p].job = "self"
      <4>1. Whole("nob.old") => Whole("nob.old")'
        BY <2>2, <3>3, <3>4, Outputs DEF Whole
      <4> QED  BY <3>1, <3>2, <3>4, <4>1, CompilingStep
    <3>5. CASE proc[p].job # "self"
      <4>1. proc[p].job \in {"lib", "main"}
        BY <3>1, <3>5 DEF Typed, Nobs, Jobs
      <4>2. Output(p) \notin {"nob", "nob.old"}
        BY <4>1, Outputs, NoneAssumption DEF Files
      <4>3. fs'["nob"] = fs["nob"] /\ fs'["nob.old"] = fs["nob.old"]
        BY <2>2, <3>3, <4>2
      <4>4. \A q \in Procs : Rebuilds(q)' => Rebuilds(q) /\ (proc'[q].pc = "rename" <=> proc[q].pc = "rename")
        BY <3>1, <3>2, <3>5 DEF Apart, Rebuilds
      <4> QED  BY <3>1, <4>3, <4>4, QuietStep DEF Whole
    <3> QED  BY <3>4, <3>5
  <2>14. CASE CompilerSucceeds(p)
    <3>1. overlapped' = overlapped /\ proc[p].pc = "ld" /\ proc[p].job \in Jobs
      BY <2>14 DEF CompilerSucceeds, history, At, Typed, Nobs
    <3>2. AfterSuccess(p) \in {"reexec", "ok", "main", "run"}
      BY <3>1, Afters DEF Jobs
    <3>3. Apart(p) /\ proc'[p].pc \in {"reexec", "ok", "main", "run"} /\ proc'[p].job = None
      BY <2>14, <3>2, Goes DEF CompilerSucceeds, Places, Ended, Typed
    <3>4. \A f \in Files : (fs[f] = None => fs'[f] = None) /\ (Whole(f) => Whole(f)')
      BY <2>14, Finishes DEF CompilerSucceeds, Typed, world, Opened, Done, Whole
    <3>5. \A q \in Procs : Rebuilds(q)' => Rebuilds(q) /\ (proc'[q].pc = "rename" <=> proc[q].pc = "rename")
      BY <2>2, <3>3 DEF Apart, Rebuilds
    <3> QED  BY <2>2, <3>1, <3>4, <3>5, QuietStep
  <2>15. CASE CompilerFails(p) \/ Killed(p)
    <3>1. overlapped' = overlapped
      BY <2>15 DEF CompilerFails, Killed, history
    <3>2. proc'[p].pc \in {"restore", "failed"} /\ (proc'[p].pc = "restore" => proc[p].job = "self")
          /\ proc'[p].job = None /\ Apart(p)
      BY <2>15, Goes DEF CompilerFails, Killed, AfterFailure, Places, Ended, Typed
    <3>3. \A f \in Files : fs'[f] = fs[f] \/ (proc[p].pc \in {"cc", "ld"} /\ f = Output(p) /\ fs'[f] = None)
      BY <2>15, Abandons DEF CompilerFails, Killed, Typed, world
    <3>4. CASE proc[p].job = "self"
      <4>1. Whole("nob.old") => Whole("nob.old")'
        BY <2>2, <3>3, <3>4, Outputs DEF Whole
      <4> QED  BY <2>3, <3>1, <3>2, <3>4, <4>1, CompilingStep
    <3>5. CASE proc[p].job # "self"
      <4>1. proc[p].pc \in {"cc", "ld"} => Output(p) \notin {"nob", "nob.old"}
        <5>1. proc[p].pc \in {"cc", "ld"} => proc[p].job \in {"lib", "main"}
          BY <3>5 DEF Typed, Nobs, Jobs
        <5> QED  BY <5>1, Outputs, NoneAssumption DEF Files
      <4>2. fs'["nob"] = fs["nob"] /\ fs'["nob.old"] = fs["nob.old"]
        BY <2>2, <3>3, <4>1
      <4>3. \A q \in Procs : Rebuilds(q)' => Rebuilds(q) /\ (proc'[q].pc = "rename" <=> proc[q].pc = "rename")
        BY <2>2, <3>2, <3>5 DEF Apart, Rebuilds
      <4> QED  BY <3>1, <4>2, <4>3, QuietStep DEF Whole
    <3> QED  BY <3>4, <3>5
  <2>16. CASE Clean(p)
    BY <2>16 DEF Clean, Survival
  <2> QED  BY <2>1, <2>5, <2>6, <2>7, <2>8, <2>9, <2>10, <2>11, <2>12, <2>13, <2>14, <2>15, <2>16
      DEF NobStep
<1>2. CASE EditNob \/ Tick
  BY <1>2, QuietStep DEF EditNob, Tick, history, Rebuilds, Whole
<1>3. CASE Bootstrap
  <2>1. Whole("nob")' /\ (~overlapped' => Rebuilding = {})
    BY <1>3, MadeByHand DEF Typed, Whole, Bootstrap
  <2>2. Rebuilding = {} => \A q \in Procs : ~Rebuilds(q)
    BY DEF Rebuilding, Rebuilds, Active, Ended, Typed, Nobs, Jobs
  <2>3. \A q \in Procs : Rebuilds(q)' => Rebuilds(q)
    BY <1>3, Greets DEF Same, Rebuilds, Typed
  <2> QED  BY <2>1, <2>2, <2>3 DEF Survival
<1> QED  BY <1>1, <1>2, <1>3 DEF Next

-----------------------------------------------------------------------------
\* A nob that looks up to date is.

\* Nothing is said of nob.c, a compiler of nob goes on or ends, and what there is of a nob is
\* what there was under either name, or nothing: the files keep what is known of them.
LEMMA KnownStep ==
  ASSUME UpToDate, nobsrc' = nobsrc, hidden \subseteq hidden', NEW p \in Procs, Apart(p),
         proc'[p].job = "self" => proc[p].job = "self" /\ proc'[p].read = proc[p].read,
         \A f \in {"nob", "nob.old"} : fs'[f] = None \/ \E g \in {"nob", "nob.old"} : fs'[f] = fs[g],
         \A f \in {"nob", "nob.old"} : Opened(f, p) /\ ~fs[f].whole =>
           \/ proc'[p].pc \in Ended \cup {"restore"}
           \/ proc'[p].job = "self" /\ proc'[p].pc = "ld" /\ proc[p].pc = "ld"
  PROVE  UpToDate'
<1>1. \A f \in {"nob", "nob.old"} : fs'[f] # None => fs'[f].ver \in Versions
  BY DEF UpToDate
<1>2. ASSUME NEW f \in {"nob", "nob.old"}, Whole(f)', fs'[f].time >= nobsrc'.time
      PROVE  Current(fs[f].ver)'
  <2>1. PICK g \in {"nob", "nob.old"} : fs'[f] = fs[g]
    BY <1>2 DEF Whole
  <2>2. Whole(g) /\ fs[g].time >= nobsrc.time
    BY <1>2, <2>1 DEF Whole
  <2>3. Current(fs[g].ver)
    BY <2>2 DEF UpToDate
  <2> QED  BY <2>1, <2>3 DEF Current
<1>3. ASSUME NEW q \in Procs, proc'[q].job = "self"
      PROVE  proc'[q].read \in Versions /\ Current(proc[q].read)'
  <2>1. proc[q].job = "self" /\ proc'[q].read = proc[q].read
    BY <1>3 DEF Apart
  <2>2. proc[q].read \in Versions /\ Current(proc[q].read)
    BY <2>1 DEF UpToDate
  <2> QED  BY <2>1, <2>2 DEF Current
<1>4. \A q \in Procs, f \in {"nob", "nob.old"} :
        fs'[f] # None /\ ~fs'[f].whole /\ fs'[f].by = q =>
          \/ proc'[q].pc \in Ended \cup {"restore"}
          \/ proc'[q].job = "self" /\ proc'[q].pc = "ld" /\ fs'[f].ver = proc'[q].read
  <2> SUFFICES ASSUME NEW q \in Procs, NEW f \in {"nob", "nob.old"}, fs'[f] # None, ~fs'[f].whole, fs'[f].by = q
               PROVE  \/ proc'[q].pc \in Ended \cup {"restore"}
                      \/ proc'[q].job = "self" /\ proc'[q].pc = "ld" /\ fs'[f].ver = proc'[q].read
    OBVIOUS
  <2>1. PICK g \in {"nob", "nob.old"} : fs'[f] = fs[g]
    OBVIOUS
  <2>2. \/ proc[q].pc \in Ended \cup {"restore"}
        \/ proc[q].job = "self" /\ proc[q].pc = "ld" /\ fs[g].ver = proc[q].read
    BY <2>1 DEF UpToDate
  <2>3. CASE q # p
    BY <2>1, <2>2, <2>3 DEF Apart
  <2>4. CASE q = p
    BY <2>1, <2>2, <2>4 DEF Opened, Ended
  <2> QED  BY <2>3, <2>4
<1> QED
  <2>1. (\A q \in Procs, f \in {"nob", "nob.old"} :
          fs[f] # None /\ ~fs[f].whole /\ fs[f].by = q =>
            \/ proc[q].pc \in Ended \cup {"restore"}
            \/ proc[q].job = "self" /\ proc[q].pc = "ld" /\ fs[f].ver = proc[q].read)'
    BY <1>4
  <2> QED  BY <1>1, <1>2, <1>3, <2>1 DEF UpToDate

\* A half written nob is that of the compiler at work, or of one that has ended.
LEMMA HalfWritten ==
  ASSUME UpToDate, NEW p \in Procs, NEW f \in {"nob", "nob.old"}, Opened(f, p), ~fs[f].whole
  PROVE  \/ proc[p].pc \in Ended \cup {"restore"}
         \/ proc[p].job = "self" /\ proc[p].pc = "ld" /\ fs[f].ver = proc[p].read
BY DEF UpToDate, Opened

\* What is known of nob, nob.old and of those who write them stays known.
LEMMA UpToDateKept ==
  ASSUME Typed, UpToDate, Next
  PROVE  UpToDate'
<1>1. "nob" \in Files /\ "nob.old" \in Files /\ None # "self" /\ {"nob", "nob.old"} \subseteq Files
  BY NoneAssumption DEF Files
<1>2. CASE \E p \in Procs : Start(p) \/ NobStep(p) \/ ServerExits(p) \/ Killed(p)
  <2>1. PICK p \in Procs : Start(p) \/ NobStep(p) \/ ServerExits(p) \/ Killed(p)
    BY <1>2
  <2>2. ASSUME NEW place \in Places \ {"cc", "ld"}, Goto(p, place), UNCHANGED <<fs, nobsrc, hidden>>,
               proc[p].pc \notin Ended \cup {"restore", "cc", "ld"} \/ place \in Ended
        PROVE  UpToDate'
    <3>1. Apart(p) /\ proc'[p].pc = place /\ proc'[p].job = None
      BY <2>2, Goes DEF Typed
    <3>2. \A f \in {"nob", "nob.old"} : Opened(f, p) /\ ~fs[f].whole => proc'[p].pc \in Ended
      BY <2>2, <3>1, HalfWritten
    <3> QED  BY <1>1, <2>2, <3>1, <3>2, KnownStep
  <2>3. CASE CheckOld(p) \/ CheckFails(p) \/ RenameAwayFails(p) \/ RunMain(p) \/ ServerExits(p)
    BY <2>2, <2>3 DEF CheckOld, CheckFails, RenameAwayFails, RunMain, ServerExits, world, history,
                      Places, Ended, At
  <2>4. CASE CheckNew(p)
    <3>1. UNCHANGED <<fs, nobsrc, hidden>> /\ proc[p].pc = "check"
      BY <2>4 DEF CheckNew, world, history, At
    <3>2. Apart(p) /\ proc'[p].job = None
      BY <2>4, Looks DEF Typed
    <3>3. \A f \in {"nob", "nob.old"} : ~(Opened(f, p) /\ ~fs[f].whole)
      BY <3>1, HalfWritten DEF Ended
    <3> QED  BY <1>1, <3>1, <3>2, <3>3, KnownStep
  <2>5. CASE RenameAway(p) \/ Restore(p)
    <3>1. nobsrc' = nobsrc /\ hidden' = hidden /\ now' = now /\ proc[p].pc \in {"rename", "restore"}
      BY <2>5 DEF RenameAway, Restore, world, history, At
    <3>2. Apart(p) /\ proc'[p].job = None /\ (proc[p].pc = "restore" => proc'[p].pc = "failed")
      BY <2>5, Goes DEF RenameAway, Restore, Places, Ended, Typed, At
    <3>3. \A f \in {"nob", "nob.old"} : fs'[f] = None \/ \E g \in {"nob", "nob.old"} : fs'[f] = fs[g]
      <4>1. CASE fs' = fs
        BY <4>1
      <4>2. CASE Rename("nob", "nob.old")
        BY <1>1, <3>1, <4>2, Renames DEF Typed
      <4>3. CASE Rename("nob.old", "nob")
        BY <1>1, <3>1, <4>3, Renames DEF Typed
      <4> QED  BY <2>5, <4>1, <4>2, <4>3 DEF RenameAway, Restore
    <3>4. \A f \in {"nob", "nob.old"} : Opened(f, p) /\ ~fs[f].whole => proc'[p].pc \in Ended
      BY <3>1, <3>2, HalfWritten DEF Ended
    <3> QED  BY <1>1, <3>1, <3>2, <3>3, <3>4, KnownStep
  <2>6. CASE Reexec(p)
    <3>1. UNCHANGED <<fs, nobsrc, hidden>> /\ proc[p].pc = "reexec"
      BY <2>6 DEF Reexec, world, history, At
    <3>2. Apart(p) /\ proc'[p].job = None
      BY <2>6, Returns DEF Typed
    <3>3. \A f \in {"nob", "nob.old"} : ~(Opened(f, p) /\ ~fs[f].whole)
      BY <3>1, HalfWritten DEF Ended
    <3> QED  BY <1>1, <3>1, <3>2, <3>3, KnownStep
  <2>7. CASE BuildServer(p) \/ BuildMain(p)
    <3>1. UNCHANGED <<fs, nobsrc, hidden>> /\ proc[p].pc \in {"lib", "main"}
      BY <2>7 DEF BuildServer, BuildMain, Spawn, world, history, At
    <3>2. Apart(p) /\ proc'[p].job # "self"
      BY <2>7, Spawns DEF BuildServer, BuildMain, Jobs, Typed
    <3>3. \A f \in {"nob", "nob.old"} : ~(Opened(f, p) /\ ~fs[f].whole)
      BY <3>1, HalfWritten DEF Ended
    <3> QED  BY <1>1, <3>1, <3>2, <3>3, KnownStep
  <2>8. CASE RebuildUrself(p)
    <3>1. UNCHANGED <<fs, nobsrc, hidden>> /\ proc[p].pc = "self" /\ nobsrc.ver \in Versions
      BY <2>8 DEF RebuildUrself, Spawn, world, history, At, Typed, Clock
    <3>2. Apart(p) /\ proc'[p].job = "self" /\ proc'[p].read = nobsrc.ver /\ proc'[p].pc = "cc"
      BY <2>8, <3>1, Spawns DEF RebuildUrself, Jobs, Typed
    <3>3. \A f \in {"nob", "nob.old"} : ~(Opened(f, p) /\ ~fs[f].whole)
      BY <3>1, HalfWritten DEF Ended
    <3>4. ASSUME NEW q \in Procs, proc'[q].job = "self"
          PROVE  proc'[q].read \in Versions /\ (proc'[q].read = nobsrc.ver \/ nobsrc.ver \in hidden)
      BY <3>1, <3>2, <3>4 DEF UpToDate, Apart, Current
    <3>5. ASSUME NEW q \in Procs, NEW f \in {"nob", "nob.old"}, fs[f] # None, ~fs[f].whole, fs[f].by = q
          PROVE  \/ proc'[q].pc \in Ended \cup {"restore"}
                 \/ proc'[q].job = "self" /\ proc'[q].pc = "ld" /\ fs[f].ver = proc'[q].read
      BY <3>2, <3>3, <3>5 DEF Apart, UpToDate, Opened
    <3> QED  BY <3>1, <3>4, <3>5 DEF UpToDate, Current, Whole
  <2>9. CASE LinkerOpens(p)
    <3>1. nobsrc' = nobsrc /\ hidden' = hidden /\ proc[p].pc = "cc" /\ proc[p].job \in Jobs
      BY <2>9 DEF LinkerOpens, world, history, At, Typed, Nobs
    <3>2. Apart(p) /\ proc'[p].pc = "ld" /\ proc'[p].job = proc[p].job /\ proc'[p].read = proc[p].read
      BY <2>9, Links DEF LinkerOpens, Typed
    <3>3. /\ \A f \in Files : f # Output(p) => fs'[f] = fs[f]
          /\ Output(p) \in Files =>
              /\ fs'[Output(p)] # None /\ fs'[Output(p)].by = p /\ ~fs'[Output(p)].whole
              /\ fs'[Output(p)].ver = proc[p].read
      BY <2>9, Opens DEF Typed
    <3>4. \A f \in {"nob", "nob.old"} : ~(Opened(f, p) /\ ~fs[f].whole)
      BY <3>1, HalfWritten DEF Ended
    <3>5. CASE proc[p].job # "self"
      <4>1. Output(p) \notin {"nob", "nob.old"}
        BY <3>1, <3>5, Outputs, NoneAssumption DEF Files, Jobs
      <4>2. \A f \in {"nob", "nob.old"} : fs'[f] = fs[f]
        BY <1>1, <3>3, <4>1
      <4> QED  BY <3>1, <3>2, <3>4, <3>5, <4>2, KnownStep
    <3>6. CASE proc[p].job = "self"
      <4>1. Output(p) = "nob" /\ proc[p].read \in Versions
        BY <3>6, Outputs DEF UpToDate
      <4>2. /\ fs'["nob"] # None /\ fs'["nob"].by = p /\ ~fs'["nob"].whole
            /\ fs'["nob"].ver = proc[p].read /\ fs'["nob.old"] = fs["nob.old"]
        BY <1>1, <3>3, <4>1
      <4>3. \A f \in {"nob", "nob.old"} : fs'[f] # None => fs'[f].ver \in Versions
        BY <4>1, <4>2 DEF UpToDate
      <4>4. ASSUME NEW f \in {"nob", "nob.old"}, Whole(f)', fs'[f].time >= nobsrc'.time
            PROVE  Current(fs[f].ver)'
        <5>1. f = "nob.old" /\ Whole(f) /\ fs'[f] = fs[f] /\ fs[f].time >= nobsrc.time
          BY <3>1, <4>2, <4>4 DEF Whole
        <5>2. Current(fs[f].ver)
          BY <5>1 DEF UpToDate
        <5> QED  BY <3>1, <5>1, <5>2 DEF Current
      <4>5. ASSUME NEW q \in Procs, proc'[q].job = "self"
            PROVE  proc'[q].read \in Versions /\ Current(proc[q].read)'
        <5>1. proc[q].job = "self" /\ proc'[q].read = proc[q].read
          BY <3>2, <4>5 DEF Apart
        <5>2. proc[q].read \in Versions /\ Current(proc[q].read)
          BY <5>1 DEF UpToDate
        <5> QED  BY <3>1, <5>1, <5>2 DEF Current
      <4>6. ASSUME NEW q \in Procs, NEW f \in {"nob", "nob.old"}, fs'[f] # None, ~fs'[f].whole, fs'[f].by = q
            PROVE  \/ proc'[q].pc \in Ended \cup {"restore"}
                   \/ proc'[q].job = "self" /\ proc'[q].pc = "ld" /\ fs'[f].ver = proc'[q].read
        <5>1. CASE f = "nob"
          BY <3>2, <3>6, <4>2, <4>6, <5>1
        <5>2. CASE f = "nob.old"
          <6>1. fs'[f] = fs[f]
            BY <4>2, <5>2
          <6>2. q # p
            BY <3>4, <4>6, <6>1 DEF Opened
          <6> QED  BY <3>2, <4>6, <6>1, <6>2 DEF UpToDate, Apart
        <5> QED  BY <5>1, <5>2
      <4>7. (\A q \in Procs, f \in {"nob", "nob.old"} :
              fs[f] # None /\ ~fs[f].whole /\ fs[f].by = q =>
                \/ proc[q].pc \in Ended \cup {"restore"}
                \/ proc[q].job = "self" /\ proc[q].pc = "ld" /\ fs[f].ver = proc[q].read)'
        BY <4>6
      <4> QED  BY <4>3, <4>4, <4>5, <4>7 DEF UpToDate
    <3> QED  BY <3>5, <3>6
  <2>10. CASE CompilerSucceeds(p)
    <3>1. nobsrc' = nobsrc /\ hidden' = hidden /\ proc[p].pc = "ld" /\ proc[p].job \in Jobs
      BY <2>10 DEF CompilerSucceeds, world, history, At, Typed, Nobs
    <3>2. AfterSuccess(p) \in {"reexec", "ok", "main", "run"}
      BY <3>1, Afters DEF Jobs
    <3>3. Apart(p) /\ proc'[p].job = None
      BY <2>10, <3>2, Goes DEF CompilerSucceeds, Places, Ended, Typed
    <3>4. \A f \in Files : \/ fs'[f] = fs[f] /\ (Opened(f, p) => fs[f].whole)
                           \/ /\ Opened(f, p) /\ ~fs[f].whole /\ Done(f, p)'
                              /\ fs'[f].ver = fs[f].ver
      BY <2>10, Finishes DEF CompilerSucceeds, Typed, world
    <3>5. \A f \in {"nob", "nob.old"} : Opened(f, p) /\ ~fs[f].whole =>
            proc[p].job = "self" /\ fs[f].ver = proc[p].read
      BY <3>1, HalfWritten DEF Ended
    <3>6. proc[p].job = "self" => proc[p].read \in Versions /\ Current(proc[p].read)
      BY DEF UpToDate
    <3>7. \A f \in {"nob", "nob.old"} : fs'[f] # None => fs'[f].ver \in Versions
      BY <1>1, <3>4, <3>5, <3>6 DEF UpToDate
    <3>8. ASSUME NEW f \in {"nob", "nob.old"}, Whole(f)', fs'[f].time >= nobsrc'.time
          PROVE  Current(fs[f].ver)'
      <4>1. CASE fs'[f] = fs[f]
        <5>1. Whole(f) /\ fs[f].time >= nobsrc.time
          BY <3>1, <3>8, <4>1 DEF Whole
        <5>2. Current(fs[f].ver)
          BY <5>1 DEF UpToDate
        <5> QED  BY <3>1, <4>1, <5>2 DEF Current
      <4>2. CASE fs'[f] # fs[f]
        <5>1. Opened(f, p) /\ ~fs[f].whole /\ fs'[f].ver = fs[f].ver
          BY <1>1, <3>4, <4>2
        <5>2. Current(fs[f].ver)
          BY <3>5, <3>6, <5>1
        <5> QED  BY <3>1, <5>1, <5>2 DEF Current
      <4> QED  BY <4>1, <4>2
    <3>9. ASSUME NEW q \in Procs, proc'[q].job = "self"
          PROVE  proc'[q].read \in Versions /\ Current(proc[q].read)'
      <4>1. proc'[q] = proc[q]
        BY <1>1, <3>3, <3>9 DEF Apart
      <4>2. proc[q].read \in Versions /\ Current(proc[q].read)
        BY <3>9, <4>1 DEF UpToDate
      <4> QED  BY <3>1, <4>1, <4>2 DEF Current
    <3>10. ASSUME NEW q \in Procs, NEW f \in {"nob", "nob.old"}, fs'[f] # None, ~fs'[f].whole, fs'[f].by = q
           PROVE  \/ proc'[q].pc \in Ended \cup {"restore"}
                  \/ proc'[q].job = "self" /\ proc'[q].pc = "ld" /\ fs'[f].ver = proc'[q].read
      <4>1. fs'[f] = fs[f] /\ (Opened(f, p) => fs[f].whole)
        BY <1>1, <3>4, <3>10 DEF Done
      <4>2. q # p
        BY <3>10, <4>1 DEF Opened
      <4> QED  BY <3>3, <3>10, <4>1, <4>2 DEF UpToDate, Apart
    <3>11. (\A q \in Procs, f \in {"nob", "nob.old"} :
             fs[f] # None /\ ~fs[f].whole /\ fs[f].by = q =>
               \/ proc[q].pc \in Ended \cup {"restore"}
               \/ proc[q].job = "self" /\ proc[q].pc = "ld" /\ fs[f].ver = proc[q].read)'
      BY <3>10
    <3> QED  BY <3>7, <3>8, <3>9, <3>11 DEF UpToDate
  <2>11. CASE CompilerFails(p) \/ Killed(p)
    <3>1. nobsrc' = nobsrc /\ hidden' = hidden
      BY <2>11 DEF CompilerFails, Killed, world, history
    <3>2. proc'[p].pc \in {"restore", "failed"} /\ proc'[p].job = None /\ Apart(p)
      BY <2>11, Goes DEF CompilerFails, Killed, AfterFailure, Places, Ended, Typed
    <3>3. \A f \in Files : fs'[f] = fs[f] \/ fs'[f] = None
      BY <2>11, Abandons DEF CompilerFails, Killed, Typed, world
    <3> QED  BY <1>1, <3>1, <3>2, <3>3, KnownStep DEF Ended
  <2>12. CASE Clean(p)
    <3>1. nobsrc' = nobsrc /\ hidden' = hidden /\ proc[p].pc = "clean"
      BY <2>12 DEF Clean, world, At
    <3>2. Apart(p) /\ proc'[p].job = None
      BY <2>12, Goes DEF Clean, Places, Ended, Typed
    <3>3. \A f \in {"nob", "nob.old"} : fs'[f] = None
      BY <1>1, <2>12, Removes
    <3>4. \A f \in {"nob", "nob.old"} : ~(Opened(f, p) /\ ~fs[f].whole)
      BY <3>1, HalfWritten DEF Ended
    <3> QED  BY <1>1, <3>1, <3>2, <3>3, <3>4, KnownStep
  <2>13. CASE Start(p)
    <3>1. nobsrc' = nobsrc /\ hidden' = hidden
      BY <2>13 DEF Start, history
    <3>2. /\ proc'[p].job = None
          /\ \A q \in Procs : q # p => Same(q)
      BY <2>13, Begins DEF Typed
    <3>3. /\ \A f \in Files : fs'[f] = None <=> fs[f] = None
          /\ \A f \in Files : fs[f] # None =>
               /\ fs'[f].ver = fs[f].ver /\ fs'[f].time = fs[f].time /\ fs'[f].whole = fs[f].whole
               /\ fs'[f].by # p /\ fs'[f].by \in {None, fs[f].by}
      BY <2>13, Disowns DEF Typed
    <3>4. \A f \in {"nob", "nob.old"} : fs'[f] # None => fs'[f].ver \in Versions
      BY <1>1, <3>3 DEF UpToDate
    <3>5. ASSUME NEW f \in {"nob", "nob.old"}, Whole(f)', fs'[f].time >= nobsrc'.time
          PROVE  Current(fs[f].ver)'
      <4>1. Whole(f) /\ fs[f].time >= nobsrc.time /\ fs'[f].ver = fs[f].ver
        BY <1>1, <3>1, <3>3, <3>5 DEF Whole
      <4>2. Current(fs[f].ver)
        BY <4>1 DEF UpToDate
      <4> QED  BY <3>1, <4>1, <4>2 DEF Current
    <3>6. ASSUME NEW q \in Procs, proc'[q].job = "self"
          PROVE  proc'[q].read \in Versions /\ Current(proc[q].read)'
      <4>1. proc[q].job = "self" /\ proc'[q].read = proc[q].read
        BY <1>1, <3>2, <3>6 DEF Same
      <4>2. proc[q].read \in Versions /\ Current(proc[q].read)
        BY <4>1 DEF UpToDate
      <4> QED  BY <3>1, <4>1, <4>2 DEF Current
    <3>7. ASSUME NEW q \in Procs, NEW f \in {"nob", "nob.old"}, fs'[f] # None, ~fs'[f].whole, fs'[f].by = q
          PROVE  \/ proc'[q].pc \in Ended \cup {"restore"}
                 \/ proc'[q].job = "self" /\ proc'[q].pc = "ld" /\ fs'[f].ver = proc'[q].read
      <4>1. fs[f] # None /\ ~fs[f].whole /\ fs'[f].ver = fs[f].ver /\ q # p /\ fs'[f].by \in {None, fs[f].by}
        BY <1>1, <3>3, <3>7
      <4>2. fs[f].by = q
        BY <3>7, <4>1, NoneAssumption
      <4>3. \/ proc[q].pc \in Ended \cup {"restore"}
            \/ proc[q].job = "self" /\ proc[q].pc = "ld" /\ fs[f].ver = proc[q].read
        BY <4>1, <4>2 DEF UpToDate
      <4> QED  BY <3>2, <4>1, <4>3 DEF Same
    <3>8. (\A q \in Procs, f \in {"nob", "nob.old"} :
             fs[f] # None /\ ~fs[f].whole /\ fs[f].by = q =>
               \/ proc[q].pc \in Ended \cup {"restore"}
               \/ proc[q].job = "self" /\ proc[q].pc = "ld" /\ fs[f].ver = proc[q].read)'
      BY <3>7
    <3> QED  BY <3>4, <3>5, <3>6, <3>8 DEF UpToDate
  <2> QED  BY <2>1, <2>3, <2>4, <2>5, <2>6, <2>7, <2>8, <2>9, <2>10, <2>11, <2>12, <2>13 DEF NobStep
<1>3. CASE EditNob
  <2>1. /\ fs' = fs /\ proc' = proc /\ nobsrc'.ver = nobsrc.ver + 1 /\ nobsrc'.time = now
        /\ (\E p \in Procs : proc[p].job = "self") => nobsrc.ver + 1 \in hidden'
        /\ (\E f \in {"nob", "nob.old"} : fs[f] # None /\ fs[f].time = now) => nobsrc.ver + 1 \in hidden'
    BY <1>3 DEF EditNob
  <2>2. ASSUME NEW f \in {"nob", "nob.old"}, Whole(f), fs[f].time >= now
        PROVE  nobsrc'.ver \in hidden'
    <3>1. fs[f].time <= now /\ fs[f].time \in Nat /\ now \in Nat
      BY <1>1, <2>2 DEF Typed, Disk, Clock, Whole, File
    <3>2. fs[f].time = now
      BY <2>2, <3>1
    <3> QED  BY <2>1, <2>2, <3>2 DEF Whole
  <2>3. \A p \in Procs : proc[p].job = "self" => nobsrc'.ver \in hidden'
    BY <2>1
  <2>4. \A f \in {"nob", "nob.old"} : Whole(f)' /\ fs'[f].time >= nobsrc'.time => nobsrc'.ver \in hidden'
    BY <2>1, <2>2 DEF Whole
  <2> QED  BY <2>1, <2>3, <2>4 DEF UpToDate, Current
<1>4. CASE Bootstrap
  <2>1. nobsrc' = nobsrc /\ hidden' = hidden /\ nobsrc.ver \in Versions
    BY <1>4 DEF Bootstrap, world, Typed, Clock
  <2>2. \A q \in Procs : Same(q)
    BY <1>4, Greets DEF Typed
  <2>3. /\ fs'["nob"] # None /\ fs'["nob"].whole /\ fs'["nob"].ver = nobsrc.ver
        /\ fs'["nob.old"] = fs["nob.old"]
    BY <1>1, <1>4, MadeByHand DEF Typed
  <2>4. \A f \in {"nob", "nob.old"} : fs'[f] # None => fs'[f].ver \in Versions
    BY <2>1, <2>3 DEF UpToDate
  <2>5. ASSUME NEW f \in {"nob", "nob.old"}, Whole(f)', fs'[f].time >= nobsrc'.time
        PROVE  Current(fs[f].ver)'
    <3>1. CASE f = "nob"
      BY <2>1, <2>3, <3>1 DEF Current
    <3>2. CASE f = "nob.old"
      <4>1. Whole(f) /\ fs[f].time >= nobsrc.time /\ fs'[f] = fs[f]
        BY <2>1, <2>3, <2>5, <3>2 DEF Whole
      <4>2. Current(fs[f].ver)
        BY <4>1 DEF UpToDate
      <4> QED  BY <2>1, <4>1, <4>2 DEF Current
    <3> QED  BY <3>1, <3>2
  <2>6. ASSUME NEW q \in Procs, proc'[q].job = "self"
        PROVE  proc'[q].read \in Versions /\ Current(proc[q].read)'
    <3>1. proc[q].job = "self" /\ proc'[q].read = proc[q].read
      BY <2>2, <2>6 DEF Same
    <3>2. proc[q].read \in Versions /\ Current(proc[q].read)
      BY <3>1 DEF UpToDate
    <3> QED  BY <2>1, <3>1, <3>2 DEF Current
  <2>7. ASSUME NEW q \in Procs, NEW f \in {"nob", "nob.old"}, fs'[f] # None, ~fs'[f].whole, fs'[f].by = q
        PROVE  \/ proc'[q].pc \in Ended \cup {"restore"}
               \/ proc'[q].job = "self" /\ proc'[q].pc = "ld" /\ fs'[f].ver = proc'[q].read
    <3>1. fs'[f] = fs[f]
      BY <2>3, <2>7
    <3>2. \/ proc[q].pc \in Ended \cup {"restore"}
          \/ proc[q].job = "self" /\ proc[q].pc = "ld" /\ fs[f].ver = proc[q].read
      BY <2>7, <3>1 DEF UpToDate
    <3> QED  BY <2>2, <3>1, <3>2 DEF Same
  <2>8. (\A q \in Procs, f \in {"nob", "nob.old"} :
           fs[f] # None /\ ~fs[f].whole /\ fs[f].by = q =>
             \/ proc[q].pc \in Ended \cup {"restore"}
             \/ proc[q].job = "self" /\ proc[q].pc = "ld" /\ fs[f].ver = proc[q].read)'
    BY <2>7
  <2> QED  BY <2>4, <2>5, <2>6, <2>8 DEF UpToDate
<1>5. CASE Tick
  BY <1>5 DEF Tick, history, UpToDate, Current, Whole
<1> QED  BY <1>2, <1>3, <1>4, <1>5 DEF Next

-----------------------------------------------------------------------------
\* A nob that met no other works with new code, and on its own files.

\* Whoever moves is running, and forgets nothing.
LEMMA Runs ==
  ASSUME NEW p \in Procs, NobStep(p) \/ ServerExits(p) \/ Killed(p)
  PROVE  p \in Active /\ hidden' = hidden /\ nobsrc' = nobsrc
<1>1. NobStep(p) => proc[p].pc \notin Ended
  BY DEF NobStep, CheckOld, CheckNew, CheckFails, RenameAway, RenameAwayFails, Restore, Reexec,
         RebuildUrself, BuildServer, BuildMain, LinkerOpens, CompilerSucceeds, CompilerFails, RunMain,
         Clean, At, Ended
<1>2. ServerExits(p) \/ Killed(p) => proc[p].pc \notin Ended
  BY DEF ServerExits, Killed, At, Ended, Active
<1>3. NobStep(p) => hidden' = hidden /\ nobsrc' = nobsrc
  BY DEF NobStep, CheckOld, CheckNew, CheckFails, RenameAway, RenameAwayFails, Restore, Reexec,
         RebuildUrself, BuildServer, BuildMain, Spawn, LinkerOpens, CompilerSucceeds, CompilerFails, RunMain,
         Clean, world, history
<1>4. ServerExits(p) \/ Killed(p) => hidden' = hidden /\ nobsrc' = nobsrc
  BY DEF ServerExits, Killed, world, history
<1> QED  BY <1>1, <1>2, <1>3, <1>4 DEF Active

\* A step of one that is alone is for that one to answer for; no other is alone then.
LEMMA AloneStep ==
  ASSUME Alone, NEW p \in Active, Apart(p),
         proc'[p].pc \notin Ended /\ ~proc'[p].met =>
           /\ ~proc[p].met
           /\ proc'[p].pc = "check" => Whole("nob")' /\ fs'["nob"].ver = proc'[p].code
           /\ Working(p)' => proc'[p].code = proc'[p].checked \/ proc'[p].checked \in hidden'
  PROVE  Alone'
<1> SUFFICES ASSUME NEW q \in Procs, proc'[q].pc \notin Ended, ~proc'[q].met
             PROVE  /\ \A r \in Procs : proc'[r].pc \notin Ended => r = q
                    /\ proc'[q].pc = "check" => Whole("nob")' /\ fs'["nob"].ver = proc'[q].code
                    /\ Working(q)' => proc'[q].code = proc'[q].checked \/ proc'[q].checked \in hidden'
  <2>1. (\A q \in Active : ~proc[q].met =>
           /\ \A r \in Active : r = q
           /\ At(q, "check") => Whole("nob") /\ fs["nob"].ver = proc[q].code
           /\ Working(q) => proc[q].code = proc[q].checked \/ proc[q].checked \in hidden)'
    BY DEF Active, At
  <2> QED  BY <2>1 DEF Alone
<1>1. q = p
  <2>1. CASE q # p
    <3>1. q \in Active /\ ~proc[q].met
      BY <2>1 DEF Active, Apart
    <3> QED  BY <2>1, <3>1 DEF Alone
  <2> QED  BY <2>1
<1>2. \A r \in Procs : proc'[r].pc \notin Ended => r = q
  <2>1. \A r \in Active : r = p
    BY <1>1 DEF Alone
  <2> QED  BY <1>1, <2>1 DEF Apart, Active
<1> QED  BY <1>1, <1>2

\* The same for what it has built.
LEMMA BuiltStep ==
  ASSUME Nobs, Alone, Built, NEW p \in Active, Apart(p), HasBuilt(p)'
  PROVE  Built'
<1>1. ASSUME NEW q \in Procs, q # p
      PROVE  HasBuilt(q)'
  <2>1. proc'[q] = proc[q] /\ HasBuilt(q)
    BY <1>1 DEF Apart, Built
  <2>2. ~proc[q].met => q \notin Active
    BY <1>1 DEF Alone
  <2>3. ~proc[q].met => proc[q].pc \in Ended /\ proc[q].job \notin Jobs
    BY <2>2 DEF Active, Nobs, Ended
  <2> QED  BY <2>1, <2>3 DEF HasBuilt, Working, Ended, Jobs
<1> QED  BY <1>1 DEF Built

\* One nob moves, or another starts and is met, or the world moves: what is alone stays so until then.
LEMMA AloneKept ==
  ASSUME Typed, UpToDate, Alone, Next
  PROVE  Alone'
<1>1. None \notin Jobs
  BY NoneAssumption DEF Jobs, Files
<1>2. ASSUME NEW p \in Procs, NobStep(p) \/ ServerExits(p) \/ Killed(p)
      PROVE  Alone'
  <2>1. p \in Active /\ hidden' = hidden /\ nobsrc' = nobsrc
    BY <1>2, Runs
  <2>2. Working(p) /\ ~proc[p].met => proc[p].code = proc[p].checked \/ proc[p].checked \in hidden
    BY <2>1 DEF Alone
  <2>3. ASSUME NEW place \in Places \ {"cc", "ld", "check"}, Goto(p, place),
               place \in {"lib", "main", "run", "serving", "clean"} => Working(p)
        PROVE  Alone'
    <3>1. /\ Apart(p) /\ proc'[p].pc = place /\ proc'[p].job = None
          /\ place \notin Ended =>
              /\ proc'[p].code = proc[p].code /\ proc'[p].checked = proc[p].checked
              /\ proc'[p].met = proc[p].met
      BY <2>3, Goes DEF Typed
    <3>2. Working(p)' => Working(p)
      BY <1>1, <2>3, <3>1 DEF Working, Jobs
    <3> QED  BY <2>1, <2>2, <2>3, <3>1, <3>2, AloneStep
  <2>4. CASE CheckOld(p) \/ CheckFails(p) \/ RenameAway(p) \/ RenameAwayFails(p) \/ Restore(p)
    BY <2>3, <2>4 DEF CheckOld, CheckFails, RenameAway, RenameAwayFails, Restore, Places, Ended
  <2>5. CASE RunMain(p) \/ ServerExits(p) \/ Clean(p) \/ Killed(p)
    BY <2>3, <2>5 DEF RunMain, ServerExits, Clean, Killed, Places, Ended, Working, At
  <2>6. CASE CheckNew(p)
    <3>1. /\ Apart(p) /\ proc'[p].pc \in {"lib", "clean", "failed"} /\ proc'[p].job = None
          /\ proc'[p].pc # "failed" =>
              /\ proc'[p].checked = nobsrc.ver
              /\ proc'[p].code = proc[p].code /\ proc'[p].met = proc[p].met
      BY <2>6, Looks DEF Typed
    <3>2. At(p, "check") /\ fs["nob"] # None /\ ~(nobsrc.time > fs["nob"].time)
      BY <2>6 DEF CheckNew, NeedsRebuild
    <3>3. nobsrc.time \in Nat /\ fs["nob"].time \in Nat
      BY <3>2 DEF Typed, Disk, Clock, File, Files
    <3>4. fs["nob"].time >= nobsrc.time
      BY <3>2, <3>3
    <3>5. ~proc[p].met => Whole("nob") /\ fs["nob"].ver = proc[p].code
      BY <2>1, <3>2 DEF Alone
    <3>6. ~proc[p].met => proc[p].code = nobsrc.ver \/ nobsrc.ver \in hidden
      BY <3>4, <3>5 DEF UpToDate, Current
    <3>7. proc'[p].pc # "check" /\ (proc'[p].pc = "failed" => proc'[p].pc \in Ended)
      BY <3>1 DEF Ended
    <3> QED  BY <2>1, <3>1, <3>6, <3>7, AloneStep
  <2>7. CASE Reexec(p)
    <3>1. /\ Apart(p) /\ proc'[p].pc \in {"check", "failed"} /\ proc'[p].job = None
          /\ proc'[p].pc = "check" => Whole("nob") /\ proc'[p].code = fs["nob"].ver /\ proc'[p].met = proc[p].met
      BY <2>7, Returns DEF Typed
    <3>2. fs' = fs /\ ~Working(p)'
      BY <1>1, <2>7, <3>1 DEF Reexec, Working, Jobs
    <3> QED  BY <2>1, <3>1, <3>2, AloneStep DEF Ended, Whole
  <2>8. CASE RebuildUrself(p) \/ BuildServer(p) \/ BuildMain(p)
    <3>1. nobsrc.ver \in Versions \cup {0} /\ 0 \in Versions \cup {0}
      BY DEF Typed, Clock
    <3>2. /\ Apart(p) /\ proc'[p].pc = "cc" /\ (proc'[p].job = "self" \/ proc[p].pc \in {"lib", "main"})
          /\ proc'[p].code = proc[p].code /\ proc'[p].checked = proc[p].checked
          /\ proc'[p].met = proc[p].met
      BY <3>1, <2>8, Spawns DEF RebuildUrself, BuildServer, BuildMain, Jobs, Typed, At
    <3>3. Working(p)' => Working(p)
      BY <3>2 DEF Working
    <3> QED  BY <2>1, <2>2, <3>2, <3>3, AloneStep
  <2>9. CASE LinkerOpens(p)
    <3>1. /\ Apart(p) /\ proc'[p].pc = "ld" /\ proc'[p].job = proc[p].job
          /\ proc'[p].code = proc[p].code /\ proc'[p].checked = proc[p].checked
          /\ proc'[p].met = proc[p].met
      BY <2>9, Links DEF LinkerOpens, Typed
    <3>2. Working(p)' => Working(p)
      BY <3>1 DEF Working
    <3> QED  BY <2>1, <2>2, <3>1, <3>2, AloneStep
  <2>10. CASE CompilerSucceeds(p)
    <3>1. proc[p].job \in Jobs
      BY <2>10 DEF CompilerSucceeds, At, Typed, Nobs
    <3>2. /\ AfterSuccess(p) \in Places \ {"cc", "ld", "check"}
          /\ AfterSuccess(p) \in {"lib", "main", "run", "serving", "clean"} => Working(p)
      BY <3>1, Afters DEF Jobs, Places, Ended, Working
    <3> QED  BY <2>3, <2>10, <3>2 DEF CompilerSucceeds
  <2>11. CASE CompilerFails(p)
    BY <2>3, <2>11 DEF CompilerFails, AfterFailure, Places, Ended
  <2> QED  BY <1>2, <2>4, <2>5, <2>6, <2>7, <2>8, <2>9, <2>10, <2>11 DEF NobStep
<1>3. CASE \E p \in Procs : Start(p)
  <2>1. PICK p \in Procs : Start(p)
    BY <1>3
  <2>2. /\ p \notin Active /\ proc'[p].pc = "check" /\ proc'[p].job = None
        /\ proc'[p].code = fs["nob"].ver /\ (~proc'[p].met => Active = {})
        /\ \A q \in Procs : q # p => Same(q) /\ (~proc'[q].met => q \notin Active)
    BY <2>1, Begins DEF Typed
  <2>3. Whole("nob")' /\ fs'["nob"].ver = proc'[p].code
    BY <2>1, <2>2, Disowns DEF Start, Whole, Typed, Files
  <2>4. ASSUME NEW q \in Procs, proc'[q].pc \notin Ended, ~proc'[q].met
        PROVE  q = p
    BY <2>2, <2>4 DEF Same, Active
  <2>5. ~proc'[p].met => \A r \in Procs : proc'[r].pc \notin Ended => r = p
    BY <2>2 DEF Same, Active
  <2>6. ~Working(p)'
    BY <1>1, <2>2 DEF Working, Jobs
  <2>7. (\A q \in Active : ~proc[q].met =>
           /\ \A r \in Active : r = q
           /\ At(q, "check") => Whole("nob") /\ fs["nob"].ver = proc[q].code
           /\ Working(q) => proc[q].code = proc[q].checked \/ proc[q].checked \in hidden)'
    BY <2>3, <2>4, <2>5, <2>6 DEF Active
  <2> QED  BY <2>7 DEF Alone
<1>4. CASE EditNob \/ Tick
  <2>1. proc' = proc /\ fs' = fs /\ hidden \subseteq hidden'
    BY <1>4 DEF EditNob, Tick, history
  <2> QED  BY <2>1 DEF Alone, Active, Working, At, Whole
<1>5. CASE Bootstrap
  <2>1. \A q \in Procs : proc'[q].pc \notin Ended => proc'[q].met
    BY <1>5, Greets DEF Same, Active, Typed
  <2>2. (\A q \in Active : proc[q].met)'
    BY <2>1 DEF Active
  <2>3. (\A q \in Active : ~proc[q].met =>
           /\ \A r \in Active : r = q
           /\ At(q, "check") => Whole("nob") /\ fs["nob"].ver = proc[q].code
           /\ Working(q) => proc[q].code = proc[q].checked \/ proc[q].checked \in hidden)'
    BY <2>2
  <2> QED  BY <2>3 DEF Alone
<1> QED  BY <1>2, <1>3, <1>4, <1>5 DEF Next

\* A nob that is alone finds what it has compiled.
LEMMA BuiltKept ==
  ASSUME Typed, UpToDate, Alone, Built, Next
  PROVE  Built'
<1>1. None \notin Jobs /\ None \notin Files /\ "main" \in Files /\ "libserver.so" \in Files
  BY NoneAssumption DEF Jobs, Files
<1>2. ASSUME NEW p \in Procs, NobStep(p) \/ ServerExits(p) \/ Killed(p)
      PROVE  Built'
  <2>1. p \in Active /\ Nobs /\ HasBuilt(p) /\ proc[p] \in Nob
    BY <1>2, Runs DEF Typed, Nobs, Built
  <2>2. (proc[p].job \in Jobs <=> proc[p].pc \in {"cc", "ld"}) /\ proc[p].job \in Jobs \cup {None}
    BY <2>1 DEF Nobs, Nob
  <2>3. ASSUME Apart(p), HasBuilt(p)'
        PROVE  Built'
    BY <2>1, <2>3, BuiltStep
  <2>4. ASSUME NEW place \in Places \ {"cc", "ld", "main", "run"}, Goto(p, place),
               place \in Ended \/ ~Working(p) \/ place = "serving"
        PROVE  Built'
    <3>1. /\ Apart(p) /\ proc'[p].pc = place /\ proc'[p].job = None
          /\ place \in Ended => proc'[p].cmd = None
          /\ place \notin Ended => proc'[p].cmd = proc[p].cmd
      BY <2>4, Goes DEF Typed
    <3>2. proc'[p].cmd # None => Working(p)' /\ proc'[p].pc # "clean"
      BY <2>1, <2>4, <3>1 DEF HasBuilt, Working
    <3>3. HasBuilt(p)'
      BY <1>1, <2>4, <3>1, <3>2 DEF HasBuilt, Jobs
    <3> QED  BY <2>3, <3>1, <3>3
  <2>5. CASE CheckOld(p) \/ CheckFails(p) \/ RenameAway(p) \/ RenameAwayFails(p) \/ Restore(p)
    <3>1. ~Working(p)
      BY <2>2, <2>5 DEF CheckOld, CheckFails, RenameAway, RenameAwayFails, Restore, Working, At, Jobs
    <3> QED  BY <2>4, <2>5, <3>1 DEF CheckOld, CheckFails, RenameAway, RenameAwayFails, Restore, Places, Ended
  <2>6. CASE RunMain(p) \/ ServerExits(p) \/ Clean(p) \/ Killed(p)
    BY <2>4, <2>6 DEF RunMain, ServerExits, Clean, Killed, Places, Ended
  <2>7. CASE CheckNew(p)
    <3>1. /\ Apart(p) /\ proc'[p].pc \in {"lib", "clean", "failed"} /\ proc'[p].job = None
          /\ proc'[p].pc = "clean" => proc'[p].cmd = proc[p].cmd
          /\ proc'[p].pc = "failed" => proc'[p].cmd = None
      BY <2>7, Looks DEF Typed
    <3>2. proc[p].pc = "check"
      BY <2>7 DEF CheckNew, At
    <3>3. proc[p].cmd = None
      BY <2>1, <2>2, <3>2 DEF HasBuilt, Working, Jobs
    <3>4. HasBuilt(p)'
      BY <1>1, <3>1, <3>3 DEF HasBuilt, Working, Jobs
    <3> QED  BY <2>3, <3>1, <3>4
  <2>8. CASE Reexec(p)
    <3>1. /\ Apart(p) /\ proc'[p].pc \in {"check", "failed"} /\ proc'[p].job = None
          /\ proc'[p].pc = "failed" => proc'[p].cmd = None
          /\ proc'[p].pc = "check" => proc'[p].cmd = proc[p].cmd
      BY <2>8, Returns DEF Typed
    <3>2. proc[p].pc = "reexec"
      BY <2>8 DEF Reexec, At
    <3>3. proc[p].cmd = None
      BY <2>1, <2>2, <3>2 DEF HasBuilt, Working, Jobs
    <3>4. HasBuilt(p)'
      BY <1>1, <3>1, <3>3 DEF HasBuilt, Working, Jobs
    <3> QED  BY <2>3, <3>1, <3>4
  <2>9. CASE RebuildUrself(p) \/ BuildServer(p) \/ BuildMain(p)
    <3>1. nobsrc.ver \in Versions \cup {0} /\ 0 \in Versions \cup {0}
      BY DEF Typed, Clock
    <3>2. /\ Apart(p) /\ proc'[p].pc = "cc"
          /\ \/ proc'[p].job = "self" /\ proc[p].pc = "self"
             \/ proc'[p].job = "lib"
             \/ proc'[p].job = "main" /\ proc[p].pc = "main"
          /\ proc'[p].cmd = proc[p].cmd /\ proc'[p].met = proc[p].met /\ fs' = fs
      BY <3>1, <2>9, Spawns DEF RebuildUrself, BuildServer, BuildMain, Spawn, Jobs, Typed, At
    <3>3. proc'[p].job = "self" => proc[p].cmd = None
      BY <2>1, <2>2, <3>2 DEF HasBuilt, Working, Jobs
    <3>4. HasBuilt(p)'
      BY <2>1, <3>2, <3>3 DEF HasBuilt, Working, Done, Opened
    <3> QED  BY <2>3, <3>2, <3>4
  <2>10. CASE LinkerOpens(p)
    <3>1. /\ Apart(p) /\ proc'[p].pc = "ld" /\ proc'[p].job = proc[p].job /\ proc[p].pc = "cc"
          /\ proc'[p].cmd = proc[p].cmd /\ proc'[p].met = proc[p].met /\ proc'[p].outfile = proc[p].outfile
      BY <2>10, Links DEF LinkerOpens, Typed, At
    <3>2. /\ \A f \in Files : f # Output(p) => fs'[f] = fs[f]
          /\ Output(p) \in Files => fs'[Output(p)] # None /\ fs'[Output(p)].by = p
      BY <2>10, Opens DEF Typed
    <3>3. proc[p].job = "lib" => Opened("libserver.so", p)'
      BY <1>1, <3>2, Outputs DEF Opened
    <3>4. proc[p].job = "main" =>
            /\ ~proc[p].outfile => Opened("main", p)'
            /\ fs'["libserver.so"] = fs["libserver.so"]
      <4>1. CASE proc[p].job = "main" /\ proc[p].outfile
        <5>1. Output(p) = None
          BY <4>1, Outputs
        <5> QED  BY <1>1, <3>2, <4>1, <5>1
      <4>2. CASE proc[p].job = "main" /\ ~proc[p].outfile
        <5>1. Output(p) = "main"
          BY <4>2, Outputs
        <5> QED  BY <1>1, <3>2, <5>1 DEF Opened
      <4> QED  BY <4>1, <4>2
    <3>5. proc'[p].cmd # None => Working(p)' /\ proc'[p].pc # "clean"
      BY <2>1, <3>1 DEF HasBuilt, Working
    <3>6. HasBuilt(p)'
      BY <2>1, <3>1, <3>3, <3>4, <3>5 DEF HasBuilt, Done, Opened
    <3> QED  BY <2>3, <3>1, <3>6
  <2>11. CASE CompilerSucceeds(p)
    <3>1. proc[p].job \in Jobs /\ proc[p].pc = "ld"
      BY <2>11 DEF CompilerSucceeds, At, Typed, Nobs
    <3>2. /\ proc[p].job = "self" => AfterSuccess(p) = "reexec"
          /\ proc[p].job = "lib" => AfterSuccess(p) \in {"ok", "main"}
          /\ proc[p].job = "main" => AfterSuccess(p) \in {"ok", "run"}
      BY Afters
    <3>3. AfterSuccess(p) \in Places \ {"cc", "ld"} /\ Goto(p, AfterSuccess(p))
      BY <2>11, <3>1, <3>2 DEF CompilerSucceeds, Jobs, Places, Ended
    <3>4. /\ Apart(p) /\ proc'[p].pc = AfterSuccess(p) /\ proc'[p].job = None
          /\ AfterSuccess(p) \in Ended => proc'[p].cmd = None
          /\ AfterSuccess(p) \notin Ended =>
              proc'[p].cmd = proc[p].cmd /\ proc'[p].met = proc[p].met /\ proc'[p].outfile = proc[p].outfile
      BY <3>3, Goes DEF Typed
    <3>5. \A f \in Files : Opened(f, p) => Done(f, p)'
      BY <2>11, Finishes DEF CompilerSucceeds, Typed, world, Opened, Done
    <3>6. CASE proc[p].job = "self"
      BY <1>1, <2>1, <2>3, <3>1, <3>2, <3>4, <3>6 DEF HasBuilt, Working, Jobs, Ended
    <3>7. CASE proc[p].job = "lib"
      <4>1. proc'[p].pc \in {"ok", "main"}
        BY <3>2, <3>4, <3>7
      <4>2. proc'[p].pc = "main" /\ ~proc'[p].met => Done("libserver.so", p)'
        BY <1>1, <2>1, <3>1, <3>4, <3>5, <3>7 DEF HasBuilt, Ended
      <4> QED  BY <1>1, <2>3, <3>4, <4>1, <4>2 DEF HasBuilt, Working, Jobs, Ended
    <3>8. CASE proc[p].job = "main"
      <4>1. proc'[p].pc \in {"ok", "run"}
        BY <3>2, <3>4, <3>8
      <4>2. proc'[p].pc = "run" /\ ~proc'[p].met =>
              Done("libserver.so", p)' /\ (~proc'[p].outfile => Done("main", p)')
        BY <1>1, <2>1, <3>1, <3>4, <3>5, <3>8 DEF HasBuilt, Ended, Done
      <4> QED  BY <1>1, <2>3, <3>4, <4>1, <4>2 DEF HasBuilt, Working, Jobs, Ended
    <3> QED  BY <3>1, <3>6, <3>7, <3>8 DEF Jobs
  <2>12. CASE CompilerFails(p)
    <3>1. AfterFailure(p) \in Ended \/ (AfterFailure(p) = "restore" /\ proc[p].job = "self")
      BY DEF AfterFailure, Ended
    <3>2. proc[p].job = "self" => ~Working(p)
      BY <2>2 DEF Working, Jobs
    <3> QED  BY <2>4, <2>12, <3>1, <3>2 DEF CompilerFails, Places, Ended
  <2> QED  BY <1>2, <2>5, <2>6, <2>7, <2>8, <2>9, <2>10, <2>11, <2>12 DEF NobStep
<1>3. CASE \E p \in Procs : Start(p)
  <2>1. PICK p \in Procs : Start(p)
    BY <1>3
  <2>2. /\ proc'[p].pc = "check" /\ proc'[p].job = None /\ proc'[p].cmd = None
        /\ \A q \in Procs : q # p => Same(q) /\ (~proc'[q].met => q \notin Active)
    BY <2>1, Begins DEF Typed
  <2>3. ASSUME NEW q \in Procs, q # p
        PROVE  HasBuilt(q)'
    <3>1. ~proc'[q].met => proc[q].pc \in Ended /\ proc[q].job \notin Jobs
      BY <2>2, <2>3 DEF Active, Typed, Nobs, Ended
    <3> QED  BY <2>2, <2>3, <3>1 DEF Built, HasBuilt, Working, Same, Ended, Jobs
  <2>4. HasBuilt(p)'
    BY <1>1, <2>2 DEF HasBuilt, Jobs
  <2> QED  BY <2>3, <2>4 DEF Built
<1>4. CASE EditNob \/ Tick
  <2>1. proc' = proc /\ fs' = fs
    BY <1>4 DEF EditNob, Tick
  <2> QED  BY <2>1 DEF Built, HasBuilt, Working, Done, Opened
<1>5. CASE Bootstrap
  <2>1. \A q \in Procs : Same(q) /\ (~proc'[q].met => q \notin Active)
    BY <1>5, Greets DEF Typed
  <2>2. ASSUME NEW q \in Procs
        PROVE  HasBuilt(q)'
    <3>1. ~proc'[q].met => proc[q].pc \in Ended /\ proc[q].job \notin Jobs
      BY <2>1 DEF Active, Typed, Nobs, Ended
    <3> QED  BY <2>1, <3>1 DEF Built, HasBuilt, Working, Same, Ended, Jobs
  <2> QED  BY <2>2 DEF Built
<1> QED  BY <1>2, <1>3, <1>4, <1>5 DEF Next

-----------------------------------------------------------------------------

\* It begins with a nob made by hand, and nobody at work.
LEMMA InitStages == Init => Stages
<1> SUFFICES ASSUME Init PROVE Stages
  OBVIOUS
<1>1. \A f \in Files : fs[f] = IF f = "nob" THEN [ver |-> 1, time |-> 0, whole |-> TRUE, by |-> None] ELSE None
  BY DEF Init
<1>2. [ver |-> 1, time |-> 0, whole |-> TRUE, by |-> None] \in File /\ 1 \in Versions /\ 0 \in 0 .. MaxTime
      /\ 0 \in 0 .. MaxStarts
  BY BoundsAssumption DEF File, Versions
<1>3. \A p \in Procs : proc[p] = NoProc("ok")
  BY DEF Init
<1>4. NoProc("ok") \in Nob /\ NoProc("ok").pc = "ok" /\ NoProc("ok").job = None /\ NoProc("ok").cmd = None
  BY NoProcType DEF Places, Ended
<1>5. None \notin Jobs /\ "nob" \in Files /\ "nob.old" \in Files
  BY NoneAssumption DEF Jobs, Files
<1>6. Nobs
  BY <1>3, <1>4, <1>5 DEF Init, Nobs
<1>7. Disk
  <2>1. fs \in [Files -> File \cup {None}]
    BY <1>1, <1>2 DEF Init
  <2>2. \A f \in Files : fs[f] # None => fs[f].time <= now
    BY <1>1 DEF Init
  <2> QED  BY <2>1, <2>2 DEF Disk
<1>8. Clock
  <2>1. nobsrc = [ver |-> 1, time |-> 0]
    BY DEF Init
  <2>2. nobsrc.time = 0
    BY <2>1
  <2>3. 1 \in Versions /\ 0 \in 0 .. MaxTime /\ 0 \in 0 .. MaxStarts /\ 0 <= 0
    BY <1>2
  <2>4. nobsrc \in [ver : Versions, time : 0 .. MaxTime]
    BY <2>1, <2>3
  <2>5. now = 0 /\ starts = 0 /\ hidden = {} /\ overlapped = FALSE
    BY DEF Init
  <2> QED  BY <2>2, <2>3, <2>4, <2>5 DEF Clock
<1>9. /\ fs["nob"] = [ver |-> 1, time |-> 0, whole |-> TRUE, by |-> None] /\ fs["nob.old"] = None
      /\ fs["nob"] # None
  BY <1>1, <1>2, <1>5, FileNotNone
<1>10. Survival
  BY <1>3, <1>4, <1>5, <1>9 DEF Survival, Rebuilds, Whole, Jobs
<1>11. UpToDate
  BY <1>2, <1>3, <1>4, <1>5, <1>9 DEF Init, UpToDate, Whole, Current, Jobs
<1>12. Alone
  BY <1>3, <1>4 DEF Alone, Active, Ended
<1>13. Built
  BY <1>3, <1>4, <1>5 DEF Built, HasBuilt, Jobs
<1> QED  BY <1>6, <1>7, <1>8, <1>10, <1>11, <1>12, <1>13 DEF Stages, Typed

\* The stages of every nob, whatever the others do, and whenever it is interrupted.
THEOREM StagesHold == Spec => []Stages
<1>1. ASSUME Stages, [Next]_vars
      PROVE  Stages'
  <2>1. CASE Next
    BY <1>1, <2>1, NobsKept, DiskKept, ClockKept, SurvivalKept, UpToDateKept, AloneKept, BuiltKept
    DEF Stages, Typed
  <2>2. CASE UNCHANGED vars
    <3>1. Typed'
      BY <1>1, <2>2 DEF vars, world, history, Stages, Typed, Nobs, Disk, Clock
    <3>2. Survival'
      BY <1>1, <2>2 DEF vars, history, Stages, Survival, Rebuilds, Whole
    <3>3. UpToDate'
      BY <1>1, <2>2 DEF vars, world, history, Stages, UpToDate, Current, Whole
    <3>4. Alone'
      BY <1>1, <2>2 DEF vars, history, Stages, Alone, Active, Working, At, Whole
    <3>5. Built'
      BY <1>1, <2>2 DEF vars, Stages, Built, HasBuilt, Working, Done, Opened
    <3> QED  BY <3>1, <3>2, <3>3, <3>4, <3>5 DEF Stages
  <2> QED  BY <1>1, <2>1, <2>2
<1> QED  BY <1>1, InitStages, PTL DEF Spec

\* Every variable keeps its type.
THEOREM TypeCorrect == Spec => []TypeOK
<1>1. Stages => TypeOK
  <2> SUFFICES ASSUME Stages PROVE TypeOK
    OBVIOUS
  <2>1. Nobs /\ Disk /\ Clock
    BY DEF Stages, Typed
  <2>2. now \in 0 .. MaxTime /\ starts \in 0 .. MaxStarts /\ hidden \subseteq Versions /\ overlapped \in BOOLEAN
    BY <2>1 DEF Clock
  <2>3. nobsrc \in [ver : Versions, time : 0 .. now]
    <3>1. nobsrc = [ver |-> nobsrc.ver, time |-> nobsrc.time] /\ nobsrc.ver \in Versions
      BY <2>1 DEF Clock
    <3>2. nobsrc.time \in 0 .. now
      BY <2>1 DEF Clock
    <3> QED  BY <3>1, <3>2
  <2>4. \A f \in Files : fs[f] # None => fs[f] \in File /\ fs[f].time <= now
    BY <2>1 DEF Disk
  <2>5. \A p \in Procs :
          /\ proc[p].pc \in Places
          /\ proc[p].job \in Jobs <=> proc[p].pc \in {"cc", "ld"}
          /\ proc[p].code \in Versions /\ proc[p].read \in Versions \cup {0}
          /\ proc[p].checked \in Versions
    BY <2>1 DEF Nobs, Nob
  <2> QED  BY <2>2, <2>3, <2>4, <2>5 DEF TypeOK, Places, Jobs
<1> QED  BY <1>1, StagesHold, PTL

\* Whenever a self-rebuild is interrupted, a nob that runs is left, under its name or as
\* nob.old, unless two rebuilt at a time, one over what another had left, or a clean was run.
THEOREM NobSurvivesHolds == Spec => []NobSurvives
<1>1. Stages => NobSurvives
  BY DEF Stages, Survival, NobSurvives
<1> QED  BY <1>1, StagesHold, PTL

\* What gets past the check runs the code of nob.c as it was then, unless it met another nob or
\* nobody could tell the version by its time.
THEOREM WorksWithNewCodeHolds == Spec => []WorksWithNewCode
<1>1. Stages => WorksWithNewCode
  BY DEF Stages, Alone, Working, WorksWithNewCode
<1> QED  BY <1>1, StagesHold, PTL

\* A nob that says success, or runs the server, while no other ran, leaves or runs what it
\* compiled itself.
THEOREM BuiltWhatItSaysHolds == Spec => BuiltWhatItSays
<1> DEFINE Own(f, p) == fs'[f] # None /\ fs'[f].whole /\ fs'[f].by = p
           Says(p) == /\ proc[p].pc # proc'[p].pc /\ proc'[p].pc \in {"ok", "serving"}
                      /\ ~proc[p].met /\ proc[p].pc # "serving"
                      /\ proc[p].cmd \in {"build", "reload", "run"}
           Has(p) == /\ Own("libserver.so", p)
                     /\ proc[p].cmd # "reload" /\ ~proc[p].outfile => Own("main", p)
<1>1. ASSUME Stages, Next, NEW p \in Procs, Says(p)
      PROVE  Has(p)
  <2>1. /\ Typed /\ UpToDate /\ HasBuilt(p) /\ Working(p) /\ proc[p].pc # "clean"
        /\ "main" \in Files /\ "libserver.so" \in Files
    BY <1>1, NoneAssumption DEF Stages, Built, HasBuilt, Files
  <2>2. ASSUME NEW q \in Procs, NobStep(q) \/ ServerExits(q) \/ Killed(q)
        PROVE  Apart(q)
    <3>1. CASE \E place \in Places \ {"cc", "ld"} : Goto(q, place)
      BY <3>1, <2>1, Goes DEF Typed
    <3>2. CASE CheckNew(q) \/ Reexec(q)
      BY <3>2, <2>1, Looks, Returns DEF Typed
    <3>3. CASE RebuildUrself(q) \/ BuildServer(q) \/ BuildMain(q)
      <4>1. nobsrc.ver \in Versions \cup {0} /\ 0 \in Versions \cup {0}
        BY <2>1 DEF Typed, Clock
      <4> QED  BY <3>3, <4>1, <2>1, Spawns DEF RebuildUrself, BuildServer, BuildMain, Jobs, Typed
    <3>4. CASE LinkerOpens(q)
      BY <3>4, <2>1, Links DEF LinkerOpens, Typed
    <3>5. CASE CompilerSucceeds(q)
      <4>1. proc[q].job \in Jobs
        BY <3>5, <2>1 DEF CompilerSucceeds, At, Typed, Nobs
      <4>2. AfterSuccess(q) \in Places \ {"cc", "ld"}
        BY <4>1, Afters DEF Jobs, Places, Ended
      <4> QED  BY <3>1, <3>5, <4>2 DEF CompilerSucceeds
    <3>6. CASE CompilerFails(q) \/ Killed(q) \/ ServerExits(q) \/ RunMain(q) \/ Clean(q)
      BY <3>1, <3>6 DEF CompilerFails, AfterFailure, Killed, ServerExits, RunMain, Clean, Places, Ended
    <3>7. CASE CheckOld(q) \/ CheckFails(q) \/ RenameAway(q) \/ RenameAwayFails(q) \/ Restore(q)
      BY <3>1, <3>7 DEF CheckOld, CheckFails, RenameAway, RenameAwayFails, Restore, Places, Ended
    <3> QED  BY <2>2, <3>2, <3>3, <3>4, <3>5, <3>6, <3>7 DEF NobStep
  <2>3. NobStep(p) \/ ServerExits(p) \/ Killed(p)
    <3>1. ~(EditNob \/ Tick)
      BY <1>1 DEF EditNob, Tick
    <3>2. ~Bootstrap
      BY <1>1, <2>1, Greets DEF Same, Typed
    <3>3. ~\E q \in Procs : Start(q)
      <4>1. ASSUME NEW q \in Procs, Start(q)
            PROVE  proc'[p].pc \in {"check", proc[p].pc}
        BY <4>1, <2>1, Begins DEF Same, Typed
      <4> QED  BY <1>1, <4>1
    <3>4. \A q \in Procs : NobStep(q) \/ ServerExits(q) \/ Killed(q) => q = p
      BY <1>1, <2>2 DEF Apart
    <3> QED  BY <1>1, <3>1, <3>2, <3>3, <3>4 DEF Next
  <2>4. proc[p].pc \in {"lib", "main", "run"} \/ proc[p].job \in {"lib", "main"}
    BY <1>1, <2>1 DEF Working
  <2>5. proc[p].job \in Jobs <=> proc[p].pc \in {"cc", "ld"}
    BY <2>1 DEF Typed, Nobs
  <2>6. CASE RunMain(p)
    <3>1. Goto(p, IF Whole("main") THEN "serving" ELSE "failed") /\ proc[p].pc = "run" /\ fs' = fs
      BY <2>6 DEF RunMain, At
    <3> QED  BY <1>1, <2>1, <3>1 DEF HasBuilt, Done, Opened
  <2>7. CASE CompilerSucceeds(p)
    <3>1. Goto(p, AfterSuccess(p)) /\ proc[p].pc = "ld" /\ proc[p].job \in Jobs
      BY <2>5, <2>7 DEF CompilerSucceeds, At
    <3>2. AfterSuccess(p) \in Places \ {"cc", "ld"}
      BY <3>1, Afters DEF Jobs, Places, Ended
    <3>3. proc'[p].pc = AfterSuccess(p)
      BY <2>1, <3>1, <3>2, Goes DEF Typed
    <3>4. \A f \in Files : Opened(f, p) => Done(f, p)'
      BY <2>1, <2>7, Finishes DEF CompilerSucceeds, Typed, world, Opened, Done
    <3>5. CASE proc[p].job = "lib"
      <4>1. proc[p].cmd = "reload"
        BY <1>1, <3>3, <3>5, Afters
      <4>2. Opened("libserver.so", p)
        BY <1>1, <2>1, <3>1, <3>5 DEF HasBuilt
      <4> QED  BY <2>1, <3>4, <4>1, <4>2 DEF Done, Opened
    <3>6. CASE proc[p].job = "main"
      <4>1. Opened("libserver.so", p) /\ (~proc[p].outfile => Opened("main", p))
        BY <1>1, <2>1, <3>1, <3>6 DEF HasBuilt, Done
      <4> QED  BY <2>1, <3>4, <4>1 DEF Done, Opened
    <3>7. CASE proc[p].job = "self"
      BY <2>4, <3>1, <3>7
    <3> QED  BY <3>1, <3>5, <3>6, <3>7 DEF Jobs
  <2>8. CASE CompilerFails(p) \/ Killed(p)
    <3>1. \E place \in {"restore", "failed"} : Goto(p, place)
      BY <2>8 DEF CompilerFails, Killed, AfterFailure
    <3>2. proc'[p].pc \in {"restore", "failed"}
      BY <2>1, <3>1, Goes DEF Places, Ended, Typed
    <3> QED  BY <1>1, <3>2
  <2>9. CASE BuildServer(p) \/ BuildMain(p)
    <3>1. 0 \in Versions \cup {0}
      OBVIOUS
    <3>2. proc'[p].pc = "cc"
      BY <2>1, <2>9, <3>1, Spawns DEF BuildServer, BuildMain, Jobs, Typed
    <3> QED  BY <1>1, <3>2
  <2>10. CASE LinkerOpens(p)
    <3>1. proc'[p].pc = "ld"
      BY <2>1, <2>10, Links DEF LinkerOpens, Typed
    <3> QED  BY <1>1, <3>1
  <2> QED  BY <1>1, <2>3, <2>4, <2>5, <2>6, <2>7, <2>8, <2>9, <2>10
      DEF NobStep, CheckOld, CheckNew, CheckFails, RenameAway, RenameAwayFails, Restore, Reexec,
          RebuildUrself, ServerExits, Clean, At, Jobs
<1>2. Stages /\ [Next]_vars => [\A p \in Procs : Says(p) => Has(p)]_vars
  BY <1>1
<1>3. [\A p \in Procs : Says(p) => Has(p)]_vars =>
        [\A p \in Procs :
           /\ proc[p].pc # proc'[p].pc /\ proc'[p].pc \in {"ok", "serving"}
           /\ ~proc[p].met /\ proc[p].pc # "serving"
           /\ proc[p].cmd \in {"build", "reload", "run"}
           => LET O(f) == fs'[f] # None /\ fs'[f].whole /\ fs'[f].by = p
              IN /\ O("libserver.so")
                 /\ proc[p].cmd # "reload" /\ ~proc[p].outfile => O("main")]_vars
  OBVIOUS
<1> QED  BY <1>2, <1>3, StagesHold, PTL DEF Spec, BuiltWhatItSays
=============================================================================
