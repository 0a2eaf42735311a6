------------------------------ MODULE MCTracker ------------------------------
(* Small instances of Tracker for TLC. *)
EXTENDS Tracker, TLC

CONSTANTS t1, t2, a1, a2, d1, imp1

OneImp == [a \in Ads |-> imp1]

FixImp == [m \in {"i", "c"} |-> IF m = "i" THEN 5 ELSE NoPrice]

Symmetry == Permutations(Threads)

==============================================================================
