------------------------------- MODULE MCGzip -------------------------------
(* A buffer that fits at once, and one that has to grow up to three times. *)
EXTENDS Gzip
MCSizes == 1 .. 9
MCBounds == 1 .. 4
=============================================================================
