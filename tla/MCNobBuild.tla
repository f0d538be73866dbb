------------------------------ MODULE MCNobBuild ------------------------------
(* Two shells.                                                             *)
EXTENDS NobBuild
CONSTANTS p1, p2
MCProcs == {p1, p2}
=============================================================================
