---------------------------- MODULE MCHmsServer ----------------------------
(* Instances of HmsServer for TLC. *)
EXTENDS HmsServer

CONSTANTS w1, w2, k1, k2, k3, d1

MCWorkers == {w1, w2}
MCOneConn == {LISTEN, k1}
MCTwoConns == {LISTEN, k1, k2}
MCThreeConns == {LISTEN, k1, k2, k3}
MCDestroyers == {d1}
=============================================================================
