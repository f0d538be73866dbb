----------------------------- MODULE MCHotReload -----------------------------
(* Two load addresses and one child at a time.                             *)
EXTENDS HotReload
CONSTANTS b1, b2, k1
MCBases == {b1, b2}
MCKids == {k1}
=============================================================================
