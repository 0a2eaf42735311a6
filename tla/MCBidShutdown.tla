---------------------------- MODULE MCBidShutdown ----------------------------
(* BidShutdown with two workers.                                            *)
EXTENDS BidShutdown

CONSTANTS w1, w2

MCWorkers == {w1, w2}
=============================================================================
