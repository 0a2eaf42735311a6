------------------------------ MODULE BidQueues ------------------------------
(***************************************************************************)
(* The queues through which the workers of the bidder hand their results   *)
(* to background threads: the messages for Kafka (ServerLog, two queues    *)
(* and one thread), the bid counters (RecordCount) and the lines of the    *)
(* log files (LocalLog), all under BidCore/common.                         *)
(*                                                                         *)
(* A worker adds under the lock of the queue.  The threads run until       *)
(* run_flag falls, look once more at what is left and exit; at the same    *)
(* time BidContext::Uninit() cancels the workers wherever they are, inside *)
(* a locked section too (PTHREAD_CANCEL_ASYNCHRONOUS).  An item is its     *)
(* number in the order of the queue.                                       *)
(***************************************************************************)
EXTENDS Integers, Sequences

CONSTANTS
    Workers,    \* the BidWork threads
    Batch,      \* how many lines LocalLog takes at once, 16
    MaxAdds,    \* bound: items of each queue
    Uses        \* bound: which queues the requests of a run may fill

Queues == {"bid", "detail", "count", "log"}

ASSUME QueuesAssumption ==
    /\ "free" \notin Workers
    /\ Batch \in Nat \ {0}
    /\ MaxAdds \in [Queues -> Nat]
    /\ Uses \subseteq SUBSET Queues

Consumers == {"server", "count", "log"}
Served(c) == IF c = "server" THEN {"bid", "detail"} ELSE {c}

VARIABLES
    run_flag,
    uses,       \* the queues that the requests fill
    q,          \* _msg_bid, _msg_detail, RecordCount::_all, LocalLog::_log
    lock,       \* _lock_bid, _lock_detail, _lock, _mutex_log
    wpc,        \* where a worker is: its request, or the queue it locked
    cpc,        \* where a background thread is
    hand,       \* what it took from a queue, or looks at, outside the lock
    dosend,     \* ServerLog: do_send of the last loop
    fd,         \* LocalLog: a file is open
    added, out, \* history: what was added to a queue, and what came out of it
    before      \* history: how much had been added when run_flag fell

vars == <<run_flag, uses, q, lock, wpc, cpc, hand, dosend, fd, added, out,
          before>>

TypeOK ==
    /\ run_flag \in BOOLEAN
    /\ uses \in Uses
    /\ q \in [Queues -> Seq(Nat \ {0})]
    /\ lock \in [Queues -> Workers \cup {"free"}]
    /\ wpc \in [Workers -> Queues \cup {"request", "exited", "cancelled"}]
    /\ cpc \in [Consumers -> {"loop", "bid", "detail", "send_bid", "send_detail",
                              "take", "record", "write", "last", "last_detail",
                              "exited"}]
    /\ hand \in [Queues -> Seq(Nat \ {0})]
    /\ cpc["log"] = "write" => Len(hand["log"]) \in 1 .. Batch
    /\ dosend \in BOOLEAN /\ fd \in BOOLEAN
    /\ added \in [Queues -> Seq(Nat \ {0})]
    /\ out \in [Queues -> Seq(Nat \ {0})]
    /\ before \in [Queues -> Nat]

\* A thread whose queues stay empty would only loop, and is left out.
Init ==
    /\ run_flag = TRUE
    /\ uses \in Uses
    /\ q = [k \in Queues |-> << >>]
    /\ lock = [k \in Queues |-> "free"]
    /\ wpc = [w \in Workers |-> "request"]
    /\ cpc = [c \in Consumers |->
                IF Served(c) \cap uses # {} THEN "loop" ELSE "exited"]
    /\ hand = [k \in Queues |-> << >>]
    /\ dosend = FALSE /\ fd = FALSE
    /\ added = [k \in Queues |-> << >>]
    /\ out = [k \in Queues |-> << >>]
    /\ before = [k \in Queues |-> 0]

------------------------------------------------------------------------------
(* The workers.                                                             *)

\* A request leaves something behind in some of the queues.  The order of the
\* calls is that of BidWork::run(); no property depends on it.
Enter(w, k) ==
    /\ wpc[w] = "request" /\ k \in uses
    /\ lock[k] = "free"
    /\ Len(added[k]) < MaxAdds[k]
    /\ lock' = [lock EXCEPT ![k] = w]
    /\ wpc' = [wpc EXCEPT ![w] = k]
    /\ UNCHANGED <<run_flag, uses, q, cpc, hand, dosend, fd, added, out,
                   before>>

\* Mutant of Push: the newest item goes first.
PushFront(w, k) ==
    LET n == Len(added[k]) + 1 IN
    /\ wpc[w] = k
    /\ q' = [q EXCEPT ![k] = <<n>> \o @]
    /\ added' = [added EXCEPT ![k] = Append(@, n)]
    /\ lock' = [lock EXCEPT ![k] = "free"]
    /\ wpc' = [wpc EXCEPT ![w] = "request"]
    /\ UNCHANGED <<run_flag, uses, cpc, hand, dosend, fd, out, before>>

\* push() and Leave()
Push(w, k) ==
    LET n == Len(added[k]) + 1 IN
    /\ wpc[w] = k
    /\ q' = [q EXCEPT ![k] = Append(@, n)]
    /\ added' = [added EXCEPT ![k] = Append(@, n)]
    /\ lock' = [lock EXCEPT ![k] = "free"]
    /\ wpc' = [wpc EXCEPT ![w] = "request"]
    /\ UNCHANGED <<run_flag, uses, cpc, hand, dosend, fd, out, before>>

\* while (run_flag): the end of BidWork::run().
Exit(w) ==
    /\ wpc[w] = "request" /\ ~run_flag
    /\ wpc' = [wpc EXCEPT ![w] = "exited"]
    /\ UNCHANGED <<run_flag, uses, q, lock, cpc, hand, dosend, fd, added, out,
                   before>>

\* works[i]->term(): the worker ends where it is, and keeps what it locked.
Cancel(w) ==
    /\ ~run_flag
    /\ wpc[w] \notin {"exited", "cancelled"}
    /\ wpc' = [wpc EXCEPT ![w] = "cancelled"]
    /\ UNCHANGED <<run_flag, uses, q, lock, cpc, hand, dosend, fd, added, out,
                   before>>

\* StopBid()
StopBid ==
    /\ run_flag
    /\ run_flag' = FALSE
    /\ before' = [k \in Queues |-> Len(added[k])]
    /\ UNCHANGED <<uses, q, lock, wpc, cpc, hand, dosend, fd, added, out>>

------------------------------------------------------------------------------
(* The threads test run_flag before they ask for a lock: what they do then  *)
(* may come after the flag fell.                                            *)

\* while (*_run_flag) of the thread c
Test(c, body, last) ==
    /\ cpc[c] = "loop"
    /\ cpc' = [cpc EXCEPT ![c] = IF run_flag THEN body ELSE last]
    /\ UNCHANGED <<q, hand, out>>

------------------------------------------------------------------------------
(* ServerLog::run().  The lock is held while the queue is looked at, not    *)
(* while the first message is sent, which stays in the queue until then.    *)

\* One half of the loop: queue k is looked at; then comes the place nxt.
Look(k, send, nxt) ==
    /\ lock[k] = "free"
    /\ \/ /\ q[k] # << >>
          /\ hand' = [hand EXCEPT ![k] = <<Head(q[k])>>]
          /\ cpc' = [cpc EXCEPT !["server"] = send]
       \/ /\ q[k] = << >>
          /\ cpc' = [cpc EXCEPT !["server"] = nxt]
          /\ UNCHANGED hand
    /\ UNCHANGED <<q, out>>

\* Mutant of Sent: the message is removed before the lock is left, and again.
SentPopsTwice(k, nxt) ==
    /\ lock[k] = "free"
    /\ out' = [out EXCEPT ![k] = @ \o hand[k]]
    /\ q' = [q EXCEPT ![k] = SubSeq(@, 3, Len(@))]
    /\ hand' = [hand EXCEPT ![k] = << >>]
    /\ cpc' = [cpc EXCEPT !["server"] = nxt]

\* SendLog() succeeded (push_data_to_kafka() always does) and the first
\* message is removed.
Sent(k, nxt) ==
    /\ lock[k] = "free"
    /\ out' = [out EXCEPT ![k] = @ \o hand[k]]
    /\ q' = [q EXCEPT ![k] = Tail(@)]
    /\ hand' = [hand EXCEPT ![k] = << >>]
    /\ cpc' = [cpc EXCEPT !["server"] = nxt]

ServerLoop ==
    /\ \/ Test("server", "bid", "last")
       \/ cpc["server"] = "bid" /\ Look("bid", "send_bid", "detail")
       \/ cpc["server"] = "send_bid" /\ Sent("bid", "detail")
       \/ cpc["server"] = "detail" /\ Look("detail", "send_detail", "loop")
       \/ cpc["server"] = "send_detail" /\ Sent("detail", "loop")
    /\ UNCHANGED <<run_flag, uses, lock, wpc, dosend, fd, added, before>>

\* Sent and removed under the lock, whether it succeeds or not.
SendLast(k, nxt) ==
    /\ lock[k] = "free"
    /\ out' = IF q[k] = << >> THEN out
              ELSE [out EXCEPT ![k] = Append(@, Head(q[k]))]
    /\ q' = IF q[k] = << >> THEN q ELSE [q EXCEPT ![k] = Tail(@)]
    /\ cpc' = [cpc EXCEPT !["server"] = nxt]
    /\ UNCHANGED <<run_flag, uses, lock, wpc, hand, fd, added, before>>

\* Mutant of ServerLast: one round is enough.
ServerLastOneRound ==
    \/ /\ cpc["server"] = "last"
       /\ SendLast("bid", "last_detail")
       /\ UNCHANGED dosend
    \/ /\ cpc["server"] = "last_detail"
       /\ SendLast("detail", "exited")
       /\ UNCHANGED dosend

\* Mutant of ServerLast: do_send is set once for all rounds.
ServerLastForever ==
    \/ /\ cpc["server"] = "last"
       /\ dosend' = (dosend \/ q["bid"] # << >>)
       /\ SendLast("bid", "last_detail")
    \/ /\ cpc["server"] = "last_detail"
       /\ dosend' = (dosend \/ q["detail"] # << >>)
       /\ SendLast("detail", IF dosend' THEN "last" ELSE "exited")

\* The second loop: until a round finds both queues empty.
ServerLast ==
    \/ /\ cpc["server"] = "last"
       /\ dosend' = (q["bid"] # << >>)
       /\ SendLast("bid", "last_detail")
    \/ /\ cpc["server"] = "last_detail"
       /\ dosend' = FALSE
       /\ SendLast("detail", IF dosend \/ q["detail"] # << >>
                             THEN "last" ELSE "exited")

ServerThread == ServerLoop \/ ServerLast

------------------------------------------------------------------------------
(* RecordCount::run(): takes one record at a time, and all when it ends.    *)

CountLoop ==
    /\ \/ Test("count", "take", "last")
       \/ /\ cpc["count"] = "take"
          /\ lock["count"] = "free"
          /\ q["count"] = << >>
          /\ cpc' = [cpc EXCEPT !["count"] = "loop"]
          /\ UNCHANGED <<q, hand, out>>
       \/ /\ cpc["count"] = "take"
          /\ lock["count"] = "free"
          /\ q["count"] # << >>
          /\ hand' = [hand EXCEPT !["count"] = <<Head(q["count"])>>]
          /\ q' = [q EXCEPT !["count"] = Tail(@)]
          /\ cpc' = [cpc EXCEPT !["count"] = "record"]
          /\ UNCHANGED out
       \/ /\ cpc["count"] = "record"
          /\ out' = [out EXCEPT !["count"] = @ \o hand["count"]]
          /\ hand' = [hand EXCEPT !["count"] = << >>]
          /\ cpc' = [cpc EXCEPT !["count"] = "loop"]
          /\ UNCHANGED q
    /\ UNCHANGED <<run_flag, uses, lock, wpc, dosend, fd, added, before>>

CountLast ==
    /\ cpc["count"] = "last"
    /\ lock["count"] = "free"
    /\ out' = [out EXCEPT !["count"] = @ \o q["count"]]
    /\ q' = [q EXCEPT !["count"] = << >>]
    /\ cpc' = [cpc EXCEPT !["count"] = "exited"]
    /\ UNCHANGED <<run_flag, uses, lock, wpc, hand, dosend, fd, added, before>>

CountThread == CountLoop \/ CountLast

------------------------------------------------------------------------------
(* LocalLog::run().                                                         *)

\* A new hour: the file is closed, the next line opens another.
NewHour ==
    /\ cpc["log"] = "take" /\ fd
    /\ fd' = FALSE
    /\ UNCHANGED <<run_flag, uses, q, lock, wpc, cpc, hand, dosend, added, out,
                   before>>

\* Mutant of Taking: one line more than the batch.
TakingOneMore(n) == IF n < Batch + 1 THEN n ELSE Batch + 1

\* for (i = 0; i < 16; i++) { pop(); if (empty()) break; }
Taking(n) == IF n < Batch THEN n ELSE Batch

\* Up to Batch lines are taken under the lock and written after it.
LogLoop ==
    LET n == Taking(Len(q["log"])) IN
    /\ \/ Test("log", "take", "last") /\ UNCHANGED fd
       \/ /\ cpc["log"] = "take"
          /\ lock["log"] = "free"
          /\ n = 0
          /\ cpc' = [cpc EXCEPT !["log"] = "loop"]
          /\ UNCHANGED <<q, hand, out, fd>>
       \/ /\ cpc["log"] = "take"
          /\ lock["log"] = "free"
          /\ n > 0
          /\ hand' = [hand EXCEPT !["log"] = SubSeq(q["log"], 1, n)]
          /\ q' = [q EXCEPT !["log"] = SubSeq(@, n + 1, Len(@))]
          /\ cpc' = [cpc EXCEPT !["log"] = "write"]
          /\ UNCHANGED <<out, fd>>
       \/ /\ cpc["log"] = "write"
          /\ out' = [out EXCEPT !["log"] = @ \o hand["log"]]
          /\ hand' = [hand EXCEPT !["log"] = << >>]
          /\ fd' = TRUE
          /\ cpc' = [cpc EXCEPT !["log"] = "loop"]
          /\ UNCHANGED q
    /\ UNCHANGED <<run_flag, uses, lock, wpc, dosend, added, before>>

\* for (i = 0; i < _log.size(); ++i) pop(): the size falls as i rises.
Drained(n) == (n + 1) \div 2

\* What is taken at the end is written when a file is open, else lost.
LogLast ==
    LET n == Drained(Len(q["log"])) IN
    /\ cpc["log"] = "last"
    /\ lock["log"] = "free"
    /\ q' = [q EXCEPT !["log"] = SubSeq(@, n + 1, Len(@))]
    /\ out' = IF fd THEN [out EXCEPT !["log"] = @ \o SubSeq(q["log"], 1, n)]
              ELSE out
    /\ hand' = [hand EXCEPT !["log"] = IF fd THEN << >>
                                       ELSE SubSeq(q["log"], 1, n)]
    /\ cpc' = [cpc EXCEPT !["log"] = "exited"]
    /\ UNCHANGED <<run_flag, uses, lock, wpc, dosend, fd, added, before>>

LogThread == LogLoop \/ LogLast

------------------------------------------------------------------------------

WorkerStep(w) ==
    Exit(w) \/ \E k \in Queues : Enter(w, k) \/ Push(w, k)

Next ==
    \/ \E w \in Workers : WorkerStep(w) \/ Cancel(w)
    \/ StopBid
    \/ ServerThread \/ CountThread \/ NewHour \/ LogThread

\* A lock that others take again and again is got in the end.
Fairness ==
    /\ \A w \in Workers : SF_vars(WorkerStep(w))
    /\ SF_vars(ServerThread) /\ SF_vars(CountThread) /\ SF_vars(LogThread)

Spec == Init /\ [][Next]_vars
FairSpec == Spec /\ Fairness

------------------------------------------------------------------------------
(* Properties.                                                              *)

\* What a thread has popped, but not yet delivered or lost for good.
Taken(k) == IF k \in {"count", "log"} THEN hand[k] ELSE << >>

\* No item vanishes, is duplicated or overtakes another, although ServerLog
\* sends the first message of a queue without the lock and removes it later:
\* what came out, what a thread holds and what waits is what was added.
NothingVanishes ==
    \A k \in Queues : added[k] = out[k] \o Taken(k) \o q[k]

\* A thread that has exited delivered everything that had been added when
\* run_flag fell; LocalLog at least half of it, when it had a file open.
QueuedIsDelivered ==
    /\ cpc["server"] = "exited" =>
        \A k \in {"bid", "detail"} : Len(out[k]) >= before[k]
    /\ cpc["count"] = "exited" => Len(out["count"]) >= before["count"]
    /\ cpc["log"] = "exited" /\ fd => 2 * Len(out["log"]) >= before["log"]

Bid == INSTANCE Fifo WITH added <- added["bid"], delivered <- out["bid"]
Detail == INSTANCE Fifo WITH
    added <- added["detail"], delivered <- out["detail"]
Count == INSTANCE Fifo WITH added <- added["count"], delivered <- out["count"]
Log == INSTANCE Fifo WITH added <- added["log"], delivered <- out["log"]

\* Each queue implements Fifo: every step adds one item, delivers the next
\* ones in order, or changes neither.
ImplementsFifo == Bid!Spec /\ Detail!Spec /\ Count!Spec /\ Log!Spec

\* After StopBid() the background threads exit, unless a worker was cancelled
\* while it held the lock of a queue.
ThreadsExit ==
    ~run_flag ~> \/ \A c \in Consumers : cpc[c] = "exited"
                 \/ \E w \in Workers, k \in Queues :
                       wpc[w] = "cancelled" /\ lock[k] = w

==============================================================================
