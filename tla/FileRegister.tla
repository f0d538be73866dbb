----------------------------- MODULE FileRegister -----------------------------
(***************************************************************************)
(* What the server promises of one file that several clients write and     *)
(* read: a safe register.  A write that no other write overlaps stores its *)
(* payload, if it is not cut short; a read that no write overlaps returns  *)
(* what is stored; a write is acknowledged after it, a read answered once. *)
(* Of whatever overlaps nothing is promised but that it ends.              *)
(***************************************************************************)
CONSTANTS
  Posts, Gets,  \* the writes and the reads
  Payload(_),   \* what each write has to store
  Contents,     \* what a file may hold
  Answers,      \* what a read may be answered
  Answer(_),    \* the answer for a content
  NoFile,       \* the file does not exist; it is also what a read of it finds
  Unknown       \* no content: the file is being written

VARIABLES
  content,  \* what is stored, or Unknown
  write,    \* each write: "idle", "busy", "done", "acked" or "gone"
  alone,    \* writes in progress that no other has overlapped
  failed,   \* writes that were cut short
  read,     \* each read: "idle", "busy", "done", "answered" or "gone"
  found,    \* what each read found: a content, or Unknown if a write overlapped it
  answer    \* its answer

vars == <<content, write, alone, failed, read, found, answer>>

Writing == {p \in Posts : write[p] = "busy"}

Init ==
  /\ content \in Contents \cup {NoFile}
  /\ write = [p \in Posts |-> "idle"]
  /\ alone = {} /\ failed = {}
  /\ read = [g \in Gets |-> "idle"]
  /\ found = [g \in Gets |-> Unknown]
  /\ answer = [g \in Gets |-> Answer(Unknown)]

BeginWrite(p) ==
  /\ write[p] = "idle"
  /\ write' = [write EXCEPT ![p] = "busy"]
  /\ alone' = IF Writing = {} THEN {p} ELSE {}
  /\ content' = Unknown
  /\ found' = [g \in Gets |-> IF read[g] = "busy" THEN Unknown ELSE found[g]]
  /\ UNCHANGED <<failed, read, answer>>

\* It stores all, or is cut short, and is done or given up.
EndWrite(p) ==
  /\ write[p] = "busy"
  /\ \/ write' = [write EXCEPT ![p] = "done"] /\ failed' = failed
     \/ write' \in {[write EXCEPT ![p] = end] : end \in {"done", "gone"}} /\ failed' = failed \cup {p}
  /\ alone' = alone \ {p}
  /\ IF Writing # {p} THEN content' = Unknown
     ELSE IF p \in alone \ failed' THEN content' = Payload(p)
     ELSE content' \in Contents
  /\ UNCHANGED <<read, found, answer>>

Acknowledge(p) ==
  /\ write[p] = "done"
  /\ write' = [write EXCEPT ![p] = "acked"]
  /\ UNCHANGED <<content, alone, failed, read, found, answer>>

\* A write that has not begun, or is not acknowledged, may be given up.
GiveUpWrite(p) ==
  /\ write[p] \in {"idle", "done"}
  /\ write' = [write EXCEPT ![p] = "gone"]
  /\ UNCHANGED <<content, alone, failed, read, found, answer>>

BeginRead(g) ==
  /\ read[g] = "idle" /\ content # NoFile
  /\ read' = [read EXCEPT ![g] = "busy"]
  /\ found' = [found EXCEPT ![g] = content]
  /\ UNCHANGED <<content, write, alone, failed, answer>>

\* There is nothing to read: the answer says so.
ReadNothing(g) ==
  /\ read[g] = "idle" /\ content = NoFile
  /\ read' = [read EXCEPT ![g] = "answered"]
  /\ answer' = [answer EXCEPT ![g] = Answer(NoFile)]
  /\ UNCHANGED <<content, write, alone, failed, found>>

EndRead(g) ==
  /\ read[g] = "busy"
  /\ read' = [read EXCEPT ![g] = "done"]
  /\ UNCHANGED <<content, write, alone, failed, found, answer>>

Reply(g) ==
  /\ read[g] = "done"
  /\ read' = [read EXCEPT ![g] = "answered"]
  /\ answer'[g] \in Answers
  /\ found[g] # Unknown => answer'[g] = Answer(found[g])
  /\ answer' = [answer EXCEPT ![g] = answer'[g]]
  /\ found' = [found EXCEPT ![g] = Unknown]
  /\ UNCHANGED <<content, write, alone, failed>>

GiveUpRead(g) ==
  /\ read[g] \in {"idle", "busy", "done"}
  /\ read' = [read EXCEPT ![g] = "gone"]
  /\ found' = [found EXCEPT ![g] = Unknown]
  /\ UNCHANGED <<content, write, alone, failed, answer>>

Next ==
  \/ \E p \in Posts : BeginWrite(p) \/ EndWrite(p) \/ Acknowledge(p) \/ GiveUpWrite(p)
  \/ \E g \in Gets : BeginRead(g) \/ ReadNothing(g) \/ EndRead(g) \/ Reply(g) \/ GiveUpRead(g)

Spec == Init /\ [][Next]_vars
=============================================================================
