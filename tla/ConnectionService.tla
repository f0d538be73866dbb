-------------------------- MODULE ConnectionService --------------------------
(***************************************************************************)
(* What a server that serves several clients promises to each connection,  *)
(* whatever its processes do: it waits its turn, it is open while someone  *)
(* serves it, it may get one reply while it is open, and once ended it     *)
(* stays ended.  ForkServer implements this.                               *)
(***************************************************************************)
EXTENDS Naturals, Sequences

CONSTANT Conns

VARIABLES
  waiting,  \* connections in the order they arrived, taken up by nobody
  open,     \* connections being served
  replied,  \* connections whose client has received a reply
  ended     \* connections whose client sees the end of the stream

vars == <<waiting, open, replied, ended>>

Waiting == {waiting[i] : i \in 1 .. Len(waiting)}

Init ==
  /\ waiting = <<>>
  /\ open = {} /\ replied = {} /\ ended = {}

Arrive(c) ==
  /\ c \notin Waiting \cup open \cup ended
  /\ waiting' = Append(waiting, c)
  /\ UNCHANGED <<open, replied, ended>>

Take ==
  /\ waiting # <<>>
  /\ waiting' = Tail(waiting)
  /\ open' = open \cup {Head(waiting)}
  /\ UNCHANGED <<replied, ended>>

Reply(c) ==
  /\ c \in open \ replied
  /\ replied' = replied \cup {c}
  /\ UNCHANGED <<waiting, open, ended>>

End(c) ==
  /\ c \in open
  /\ open' = open \ {c}
  /\ ended' = ended \cup {c}
  /\ UNCHANGED <<waiting, replied>>

\* Nobody listens any more: who still waits is turned away.
TurnAway ==
  /\ waiting # <<>>
  /\ waiting' = <<>>
  /\ ended' = ended \cup Waiting
  /\ UNCHANGED <<open, replied>>

Next ==
  \/ Take \/ TurnAway
  \/ \E c \in Conns : Arrive(c) \/ Reply(c) \/ End(c)

Spec == Init /\ [][Next]_vars
=============================================================================
