-------------------------------- MODULE Fifo ---------------------------------
(***************************************************************************)
(* What a queue between the workers and a background thread promises:      *)
(* everything that is delivered was added, in the order in which it was    *)
(* added, once and without a hole.  It does not promise that everything is *)
(* delivered.                                                              *)
(***************************************************************************)
EXTENDS Naturals, Sequences

VARIABLES added, delivered

Init == added = << >> /\ delivered = << >>

Add ==
    /\ added' = Append(added, Len(added) + 1)
    /\ UNCHANGED delivered

\* Several items may go out at once.
Deliver ==
    \E n \in Len(delivered) + 1 .. Len(added) :
        /\ delivered' = SubSeq(added, 1, n)
        /\ UNCHANGED added

Spec == Init /\ [][Add \/ Deliver]_<<added, delivered>>

==============================================================================
