---------------------------- MODULE MCDoubleCache ----------------------------
(* DoubleCache with three workers.                                          *)
EXTENDS DoubleCache, TLC

CONSTANTS w1, w2, w3

MCWorkers == {w1, w2, w3}
=============================================================================
