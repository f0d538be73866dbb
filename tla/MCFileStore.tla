----------------------------- MODULE MCFileStore -----------------------------
(* Two POSTs of different lengths, so that the shorter one can leave a tail *)
(* of the longer one, a file that was there before or not, one GET, and a   *)
(* NUL at the end of the longer POST.                                       *)
EXTENDS FileStore, TLC
CONSTANTS p1, p2, g1
MCPosts == {p1, p2}
MCGets == {g1}
MCNuls == {<<p1, 3>>}
MCLength == (p1 :> 3) @@ (p2 :> 1) @@ (Old :> 2)
=============================================================================
