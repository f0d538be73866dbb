----------------------------- MODULE GzipProofs -----------------------------
(***************************************************************************)
(* Gzip.tla for every stream length and every bound.  The three invariants *)
(* that the run checks are not inductive: they speak of the end, or of a   *)
(* sum that only holds because the output is exactly full whenever the     *)
(* loop grows it.  Sync says that, and Places what is known where.         *)
(***************************************************************************)
EXTENDS Gzip, TLAPS

\* The fields of the z_stream agree with each other and with the buffer.
Sync ==
  /\ next_out = total_out
  /\ written = 0 .. total_out - 1
  /\ pc # "alloc" => avail_out + total_out = max_compressed_len
  /\ state = "init" => total_out = 0
  /\ state = "busy" => total_out \in 1 .. stream - 1
  /\ state = "finished" => total_out = stream

\* What holds at each place of gzip().
Places ==
  /\ pc = "alloc" => room = 0 /\ state = "init"
  /\ pc = "init" => state = "init"
  /\ pc = "deflate" => avail_out # 0 /\ state # "finished"
  /\ pc \in {"alloc", "init", "deflate", "loop", "end"} => output_len = 0
  /\ pc = "loop" =>
       \/ ret = "Z_OK" /\ state = "busy" /\ avail_out = 0
       \/ ret = "Z_STREAM_END" /\ state = "finished" /\ room # 0
       \/ ret = "Z_STREAM_ERROR" /\ state = "init" /\ room = 0
  /\ pc = "end" => \/ state = "finished" /\ room # 0
                   \/ state = "init" /\ room = 0
  /\ pc = "done" => \/ ret = "Z_MEM_ERROR"
                    \/ ret = "Z_OK" /\ Complete

IInv == TypeOK /\ Sync /\ Places

\* gzip() starts with nothing delivered and no buffer.
LEMMA InitHolds == Init => IInv
BY SizesAssumption, BoundsAssumption, SMT DEF Init, IInv, TypeOK, Sync, Places

\* Every step of gzip() and of zlib keeps the invariant.
LEMMA StepHolds == IInv /\ [Next]_vars => IInv'
<1> SUFFICES ASSUME IInv, [Next]_vars PROVE IInv'
  OBVIOUS
<1> USE SizesAssumption, BoundsAssumption DEF IInv, TypeOK, Sync, Places, Complete
<1>1. stream \in Nat \ {0}
  OBVIOUS
<1>2. CASE Calloc
  BY <1>1, <1>2 DEF Calloc
<1>3. CASE DeflateInit
  BY <1>1, <1>3 DEF DeflateInit
<1>4. CASE Deflate
  <2>1. CASE room = 0
    BY <1>1, <1>4, <2>1 DEF Deflate
  <2>2. CASE room # 0
    \* All that is left fits, or the output is full afterwards.
    <3>1. Delivered \in 1 .. stream - total_out /\ Delivered <= avail_out
      BY <1>1, <1>4, <2>2 DEF Deflate, Delivered
    <3>2. total_out + Delivered = stream \/ Delivered = avail_out
      BY <1>1, <1>4, <2>2 DEF Deflate, Delivered
    <3>3. /\ pc' = "loop" /\ pc = "deflate"
          /\ total_out' = total_out + Delivered /\ next_out' = next_out + Delivered
          /\ avail_out' = avail_out - Delivered
          /\ ret' = IF total_out' = stream THEN "Z_STREAM_END"
                    ELSE IF Delivered = 0 THEN "Z_BUF_ERROR" ELSE "Z_OK"
          /\ state' = IF total_out' = stream THEN "finished" ELSE "busy"
          /\ UNCHANGED <<stream, max_compressed_len, room, output_len>>
      BY <1>4, <2>2 DEF Deflate
    <3>4. written' = 0 .. total_out' - 1
      <4>1. written' = (0 .. total_out - 1) \cup (total_out .. total_out + Delivered - 1)
        BY <1>4, <2>2 DEF Deflate
      <4> QED
        BY <3>1, <3>3, <4>1
    <3>5. TypeOK'
      BY <1>1, <3>1, <3>3, <3>4
    <3>6. Sync'
      BY <1>1, <3>1, <3>3, <3>4
    <3>7. Places'
      BY <1>1, <2>2, <3>1, <3>2, <3>3
    <3> QED
      BY <3>5, <3>6, <3>7
  <2> QED
    BY <2>1, <2>2
<1>5. CASE Grow
  \* The output is full, so that the new half begins at total_out.
  <2>1. total_out = max_compressed_len /\ max_compressed_len * 2 = max_compressed_len + total_out
    BY <1>5 DEF Grow
  <2> QED
    BY <1>1, <1>5, <2>1 DEF Grow
<1>6. CASE LeaveLoop
  BY <1>1, <1>6 DEF LeaveLoop
<1>7. CASE DeflateEnd
  BY <1>1, <1>7 DEF DeflateEnd
<1>8. CASE UNCHANGED vars
  BY <1>8 DEF vars
<1> QED
  BY <1>2, <1>3, <1>4, <1>5, <1>6, <1>7, <1>8 DEF Next

\* The invariant holds of every run of gzip().
THEOREM Invariance == Spec => []IInv
BY InitHolds, StepHolds, PTL DEF Spec

\* The state keeps its types, and the buffer the size that max_compressed_len says.
THEOREM TypeCorrect == Spec => []TypeOK
<1>1. IInv => TypeOK
  BY DEF IInv
<1> QED
  BY <1>1, Invariance, PTL

\* deflate() is never told to write beyond the buffer (server.c:91-96), however long
\* the stream and however small the first guess.
THEOREM InBoundsHolds == Spec => []InBounds
<1>1. IInv => InBounds
  BY SMT DEF IInv, TypeOK, Sync, Places, InBounds
<1> QED
  BY <1>1, Invariance, PTL

\* Z_OK means that the buffer holds the whole stream (server.c:110), or that there
\* was no memory for a buffer and the length is 0.
THEOREM CompleteHolds == Spec => []Complete
<1>1. IInv => Complete
  BY DEF IInv, Places, Complete
<1> QED
  BY <1>1, Invariance, PTL

\* The loop is left only with the stream complete or never begun (server.c:89-107).
THEOREM NeverCutShortHolds == Spec => []NeverCutShort
<1>1. IInv => NeverCutShort
  BY DEF IInv, Places, NeverCutShort
<1> QED
  BY <1>1, Invariance, PTL
=============================================================================
