----------------------------- MODULE MCForkServer -----------------------------
(* Three clients and room for two children, so that the third fork fails;  *)
(* or two clients and room for one child.                                  *)
EXTENDS ForkServer
CONSTANTS c1, c2, c3
ThreeConns == {c1, c2, c3}
TwoConns == {c1, c2}
=============================================================================
