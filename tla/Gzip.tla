-------------------------------- MODULE Gzip --------------------------------
(***************************************************************************)
(* gzip() of app/server.c: the loop that grows the output buffer until     *)
(* deflate() has delivered the whole stream.  The buffer starts with       *)
(* compressBound() bytes, which is meant for zlib's own, shorter wrapper:  *)
(* a short input makes the loop grow it.  zlib is modelled from how the    *)
(* loop uses it; pointers are offsets from *output, room is 0 when that is *)
(* a null pointer.                                                         *)
(***************************************************************************)
EXTENDS Naturals

CONSTANTS
  Sizes,   \* lengths a complete gzip stream may have
  Bounds   \* values of compressBound(input_len)

ASSUME SizesAssumption == Sizes \subseteq Nat \ {0}
ASSUME BoundsAssumption == Bounds \subseteq Nat \ {0}

VARIABLES
  pc,                  \* where gzip() is; "done" when it has returned
  stream,              \* the length of the stream zlib will produce
  max_compressed_len,
  room,                \* bytes *output points to
  avail_out, next_out, total_out,   \* of the z_stream
  state,               \* zlib's: "init", "busy", "finished"
  ret,                 \* what zlib last returned; at "done", what gzip() returns
  output_len,
  written              \* offsets of *output that hold their byte of the stream

vars == <<pc, stream, max_compressed_len, room, avail_out, next_out, total_out,
          state, ret, output_len, written>>

Init ==
  /\ pc = "alloc"
  /\ stream \in Sizes
  /\ max_compressed_len \in Bounds
  /\ room = 0
  /\ avail_out = 0 /\ next_out = 0 /\ total_out = 0
  /\ state = "init"
  /\ ret = "Z_OK"
  /\ output_len = 0
  /\ written = {}

\* calloc() and the z_stream; if there is no memory, a null pointer goes into it.
Calloc ==
  /\ pc = "alloc"
  /\ room' \in {max_compressed_len, 0}
  /\ avail_out' = max_compressed_len
  /\ pc' = "init"
  /\ UNCHANGED <<stream, max_compressed_len, next_out, total_out, state, ret, output_len, written>>

\* deflateInit2() may fail, and gzip() returns what it returned.
DeflateInit ==
  /\ pc = "init"
  /\ \/ ret' = "Z_OK" /\ pc' = "deflate"
     \/ ret' = "Z_MEM_ERROR" /\ pc' = "done"
  /\ UNCHANGED <<stream, max_compressed_len, room, avail_out, next_out, total_out, state,
                 output_len, written>>

\* deflate(&zs, Z_FINISH) delivers what fits, and ends with the last byte.  It
\* refuses a null next_out and a call that cannot deliver anything; behind a null
\* *output it writes where nothing is mapped.
Delivered == IF avail_out < stream - total_out THEN avail_out ELSE stream - total_out

Deflate ==
  /\ pc = "deflate"
  /\ \/ /\ room = 0 /\ next_out = 0
        /\ ret' = "Z_STREAM_ERROR"
        /\ pc' = "loop"
        /\ UNCHANGED <<avail_out, next_out, total_out, state, written>>
     \/ /\ room = 0 /\ next_out # 0
        /\ pc' = "crashed"
        /\ UNCHANGED <<avail_out, next_out, total_out, state, ret, written>>
     \/ /\ room # 0
        /\ avail_out' = avail_out - Delivered
        /\ next_out' = next_out + Delivered
        /\ total_out' = total_out + Delivered
        /\ written' = IF next_out = total_out
                      THEN written \cup (next_out .. next_out + Delivered - 1) ELSE written
        /\ ret' = IF total_out' = stream THEN "Z_STREAM_END"
                  ELSE IF Delivered = 0 THEN "Z_BUF_ERROR" ELSE "Z_OK"
        /\ state' = IF total_out' = stream THEN "finished" ELSE "busy"
        /\ pc' = "loop"
  /\ UNCHANGED <<stream, max_compressed_len, room, output_len>>

\* Mutants: the pointer stays behind, the new size is taken for the new room, the
\* loop is a conditional.
GrowKeepsPointer ==
  /\ pc = "loop" /\ ret = "Z_OK" /\ avail_out = 0
  /\ room' = max_compressed_len * 2
  /\ avail_out' = max_compressed_len
  /\ next_out' = 0
  /\ max_compressed_len' = max_compressed_len * 2
  /\ pc' = "deflate"
  /\ UNCHANGED <<stream, total_out, state, ret, output_len, written>>
GrowDoubleRoom ==
  /\ pc = "loop" /\ ret = "Z_OK" /\ avail_out = 0
  /\ room' = max_compressed_len * 2
  /\ avail_out' = max_compressed_len * 2
  /\ next_out' = total_out
  /\ max_compressed_len' = max_compressed_len * 2
  /\ pc' = "deflate"
  /\ UNCHANGED <<stream, total_out, state, ret, output_len, written>>
GrowNever ==
  /\ pc = "loop" /\ ret = "Z_OK" /\ avail_out = 0
  /\ pc' = "deflate"
  /\ UNCHANGED <<stream, max_compressed_len, room, avail_out, next_out, total_out, state,
                 ret, output_len, written>>

\* The output is full: realloc() doubles it, or fails and leaves a null pointer,
\* and deflate() goes on behind what it has delivered.
Grow ==
  /\ pc = "loop" /\ ret = "Z_OK" /\ avail_out = 0
  /\ room' \in {max_compressed_len * 2, 0}
  /\ avail_out' = max_compressed_len
  /\ next_out' = total_out
  /\ max_compressed_len' = max_compressed_len * 2
  /\ pc' = "deflate"
  /\ UNCHANGED <<stream, total_out, state, ret, output_len, written>>

LeaveLoop ==
  /\ pc = "loop" /\ ret # "Z_OK"
  /\ pc' = "end"
  /\ UNCHANGED <<stream, max_compressed_len, room, avail_out, next_out, total_out, state,
                 ret, output_len, written>>

\* Mutant: what deflateEnd() returns is not looked at.
DeflateEndIgnored ==
  /\ pc = "end"
  /\ pc' = "done"
  /\ ret' = "Z_OK"
  /\ output_len' = max_compressed_len
  /\ UNCHANGED <<stream, max_compressed_len, room, avail_out, next_out, total_out, state, written>>

\* deflateEnd() complains only of a stream in the middle; *output_len is set if
\* it does not.
DeflateEnd ==
  /\ pc = "end"
  /\ pc' = "done"
  /\ ret' = IF state = "busy" THEN "Z_DATA_ERROR" ELSE "Z_OK"
  /\ output_len' = IF state = "busy" THEN output_len ELSE total_out
  /\ UNCHANGED <<stream, max_compressed_len, room, avail_out, next_out, total_out, state, written>>

Next == Calloc \/ DeflateInit \/ Deflate \/ Grow \/ LeaveLoop \/ DeflateEnd

Spec == Init /\ [][Next]_vars

-----------------------------------------------------------------------------

TypeOK ==
  /\ pc \in {"alloc", "init", "deflate", "loop", "end", "done", "crashed"}
  /\ stream \in Sizes
  /\ max_compressed_len \in Nat \ {0}
  /\ room \in {0, max_compressed_len}
  /\ avail_out \in Nat /\ next_out \in Nat
  /\ total_out \in 0 .. stream
  /\ state \in {"init", "busy", "finished"}
  /\ ret \in {"Z_OK", "Z_MEM_ERROR", "Z_STREAM_ERROR", "Z_STREAM_END", "Z_BUF_ERROR", "Z_DATA_ERROR"}
  /\ output_len \in 0 .. stream
  /\ written \subseteq 0 .. stream - 1

\* What deflate() is told it may write (server.c:93-94) is inside of what calloc()
\* or realloc() gave.
InBounds == room # 0 => next_out + avail_out <= room

\* When gzip() returns Z_OK (server.c:110-112), the buffer holds the whole stream in
\* its place and *output_len is its length; without a buffer the length is 0.
Complete ==
  pc = "done" /\ ret = "Z_OK" =>
    IF room = 0 THEN output_len = 0 ELSE output_len = stream /\ written = 0 .. stream - 1

\* The loop (server.c:89) never leaves a stream half delivered: deflateEnd() does not
\* complain, and gzip() fails only if deflateInit2() does.
NeverCutShort == pc = "done" => ret \in {"Z_OK", "Z_MEM_ERROR"}
=============================================================================
