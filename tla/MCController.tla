---------------------------- MODULE MCController ----------------------------
(* A controller on two nodes over two resources, for TLC. *)
EXTENDS Controller

CONSTANTS n1, n2, k1, k2

TwoNodes == {n1, n2}
TwoKeys == {k1, k2}
=============================================================================
