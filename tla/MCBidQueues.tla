----------------------------- MODULE MCBidQueues -----------------------------
(* Small instances of BidQueues for TLC. *)
EXTENDS BidQueues

CONSTANTS w1, w2

\* Three items tell first, middle and last; five lines of the log are more
\* than two batches; the two queues of ServerLog are looked at in turn.
FewItems == [k \in Queues |->
    CASE k = "detail" -> 2 [] k = "log" -> 5 [] OTHER -> 3]

\* The threads share nothing but run_flag and the workers.
OneThread == {{"bid", "detail"}, {"count"}, {"log"}}

==============================================================================
