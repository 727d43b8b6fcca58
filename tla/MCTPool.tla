------------------------------ MODULE MCTPool ------------------------------
(* Instances of TPool for TLC. *)
EXTENDS TPool

CONSTANTS w1, w2, c1, c2, c3, d1, d2

MCWorkers == {w1, w2}
MCCalls == {c1, c2, c3}
MCDestroyers == {d1, d2}
MCOneDestroyer == {d1}
=============================================================================
