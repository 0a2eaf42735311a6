--------------------------- MODULE BidQueuesProofs ---------------------------
(* The queues of the bidder, for every number of workers, every size of a   *)
(* batch and any number of items.                                           *)
EXTENDS BidQueues, SequenceTheorems, TLAPS

------------------------------------------------------------------------------
(* The inductive invariants.                                                *)

Items == Nat \ {0}

\* What a thread holds goes with where it is: ServerLog holds a copy of the
\* first message, which only ServerLog removes; RecordCount holds a record only
\* until it is counted; LocalLog holds lines while it writes, or has lost them.
HandInv ==
  /\ cpc["server"] = "send_bid" =>
       q["bid"] # << >> /\ hand["bid"] = <<Head(q["bid"])>>
  /\ cpc["server"] = "send_detail" =>
       q["detail"] # << >> /\ hand["detail"] = <<Head(q["detail"])>>
  /\ cpc["count"] # "record" => hand["count"] = << >>
  /\ cpc["log"] \notin {"write", "exited"} => hand["log"] = << >>

\* A queue that the requests do not fill stays empty, and a thread is in its
\* last loop only after run_flag fell, unless it has nothing to serve.
UsedInv ==
  /\ \A k \in Queues \ uses :
       added[k] = << >> /\ \A w \in Workers : wpc[w] # k
  /\ run_flag =>
       /\ \A k \in Queues : before[k] = 0
       /\ \A c \in Consumers :
            /\ cpc[c] \notin {"last", "last_detail"}
            /\ cpc[c] = "exited" => Served(c) \cap uses = {}
  /\ \A k \in Queues : before[k] <= Len(added[k])

\* A round of the last loop of ServerLog that found no message for a bid had
\* delivered all of them; nothing more than that is known of them at the exit.
LastInv ==
  cpc["server"] = "last_detail" /\ ~dosend => Len(out["bid"]) >= before["bid"]

------------------------------------------------------------------------------
(* Sequences.                                                               *)

\* A sequence is its head and its tail.
LEMMA HeadAndTail ==
  ASSUME NEW S, NEW s \in Seq(S), s # << >>
  PROVE  /\ <<Head(s)>> \in Seq(S) /\ Tail(s) \in Seq(S)
         /\ <<Head(s)>> \o Tail(s) = s
<1>1. /\ Len(s) \in Nat \ {0}
      /\ Head(s) = s[1] /\ Head(s) \in S
      /\ Tail(s) = SubSeq(s, 2, Len(s)) /\ Tail(s) \in Seq(S)
      /\ SubSeq(s, 1, Len(s)) = s
  BY EmptySeq, HeadTailProperties, TailIsSubSeq, SubSeqFull
<1>2. 1 \in 1 .. Len(s) /\ Len(s) \in 1 .. Len(s)
  BY <1>1
<1>3. SubSeq(s, 1, Len(s)) = <<s[1]>> \o SubSeq(s, 2, Len(s))
  BY <1>2, SubSeqRecursiveFirst
<1> QED BY <1>1, <1>3

\* What is appended does not become the head.
LEMMA AppendKeepsHead ==
  ASSUME NEW S, NEW s \in Seq(S), NEW e \in S
  PROVE  /\ Append(s, e) # << >>
         /\ s # << >> => Head(Append(s, e)) = Head(s)
<1>1. Append(s, e) # << >>
  BY AppendProperties, Zenon
<1>2. Head(Append(s, e)) = IF s = << >> THEN e ELSE Head(s)
  BY HeadTailAppend, Zenon
<1> QED BY <1>1, <1>2

\* A sequence is its first n elements and the others.
LEMMA SplitSequence ==
  ASSUME NEW S, NEW s \in Seq(S), NEW n \in 0 .. Len(s)
  PROVE  /\ SubSeq(s, 1, n) \in Seq(S) /\ Len(SubSeq(s, 1, n)) = n
         /\ SubSeq(s, n + 1, Len(s)) \in Seq(S)
         /\ SubSeq(s, 1, n) \o SubSeq(s, n + 1, Len(s)) = s
<1>1. Len(s) \in Nat /\ \A i \in 1 .. Len(s) : s[i] \in S
  BY LenProperties, ElementOfSeq
<1>2. SubSeq(s, 1, n) \in Seq(S) /\ Len(SubSeq(s, 1, n)) = n
  BY <1>1, SubSeqProperties
<1>3. SubSeq(s, n + 1, Len(s)) \in Seq(S)
  BY <1>1, SubSeqProperties
<1>4. SubSeq(s, 1, n) \o SubSeq(s, n + 1, Len(s)) = SubSeq(s, 1, Len(s))
  <2>1. 1 \in 1 .. Len(s) + 1 /\ n \in 1 - 1 .. Len(s) /\ Len(s) \in n .. Len(s)
    BY <1>1
  <2> QED BY <2>1, ConcatAdjacentSubSeq, Zenon
<1> QED BY <1>2, <1>3, <1>4, SubSeqFull

\* What the provers need to know of sequences of items.
LEMMA SequenceTypes ==
  ASSUME NEW s \in Seq(Items), NEW t \in Seq(Items)
  PROVE  /\ << >> \in Seq(Items)
         /\ s \o t \in Seq(Items)
         /\ Append(s, Len(t) + 1) \in Seq(Items)
         /\ s # << >> =>
              /\ <<Head(s)>> \in Seq(Items) /\ Tail(s) \in Seq(Items)
              /\ Append(t, Head(s)) \in Seq(Items)
<1>1. Len(t) \in Nat /\ Len(t) + 1 \in Items
  BY LenProperties DEF Items
<1>2. s # << >> => Head(s) \in Items
  BY HeadTailProperties
<1> QED BY <1>1, <1>2, EmptySeq, ConcatProperties, AppendProperties, HeadAndTail

\* The lines that LocalLog takes in one go, and those it takes when it ends.
LEMMA BatchTypes ==
  ASSUME NEW s \in Seq(Items)
  PROVE  /\ Taking(Len(s)) \in 0 .. Len(s) /\ Taking(Len(s)) <= Batch
         /\ Drained(Len(s)) \in 0 .. Len(s)
         /\ 2 * Drained(Len(s)) >= Len(s)
<1>1. Len(s) \in Nat /\ Batch \in Nat
  BY LenProperties, QueuesAssumption
<1> QED BY <1>1 DEF Drained, Taking

------------------------------------------------------------------------------
(* Types, and what the threads hold.                                        *)

\* The two halves of the type invariant: what is queued, and who is where.
SeqTypes ==
  /\ q \in [Queues -> Seq(Items)] /\ hand \in [Queues -> Seq(Items)]
  /\ added \in [Queues -> Seq(Items)] /\ out \in [Queues -> Seq(Items)]

Places == {"loop", "bid", "detail", "send_bid", "send_detail", "take", "record",
           "write", "last", "last_detail", "exited"}

PlaceTypes ==
  /\ run_flag \in BOOLEAN /\ dosend \in BOOLEAN /\ fd \in BOOLEAN
  /\ uses \in Uses
  /\ lock \in [Queues -> Workers \cup {"free"}]
  /\ wpc \in [Workers -> Queues \cup {"request", "exited", "cancelled"}]
  /\ cpc \in [Consumers -> Places]
  /\ before \in [Queues -> Nat]

BatchOK == cpc["log"] = "write" => Len(hand["log"]) \in 1 .. Batch

LEMMA TypeParts ==
  /\ TypeOK <=> SeqTypes /\ PlaceTypes /\ BatchOK
  /\ TypeOK' <=> SeqTypes' /\ PlaceTypes' /\ BatchOK'
BY DEF TypeOK, SeqTypes, PlaceTypes, BatchOK, Items, Places

\* What a queue, a hand and a history hold is a sequence of items.
LEMMA ItemSequences ==
  ASSUME SeqTypes, NEW k \in Queues
  PROVE  /\ q[k] \in Seq(Items) /\ hand[k] \in Seq(Items)
         /\ added[k] \in Seq(Items) /\ out[k] \in Seq(Items)
         /\ Len(added[k]) \in Nat /\ Len(q[k]) \in Nat /\ Len(out[k]) \in Nat
         /\ Len(hand[k]) \in Nat
BY LenProperties DEF SeqTypes

LEMMA QueueNames ==
  /\ "bid" \in Queues /\ "detail" \in Queues /\ "count" \in Queues /\ "log" \in Queues
  /\ "server" \in Consumers /\ "count" \in Consumers /\ "log" \in Consumers
BY DEF Queues, Consumers

\* The threads stay at places of the code.
LEMMA PlaceStep ==
  ASSUME SeqTypes, PlaceTypes, [Next]_vars
  PROVE  PlaceTypes'
<1> USE QueueNames DEF PlaceTypes
<1>1. ASSUME NEW w \in Workers, NEW k \in Queues, Enter(w, k)
      PROVE  PlaceTypes'
  BY <1>1 DEF Enter
<1>2. ASSUME NEW w \in Workers, NEW k \in Queues, Push(w, k)
      PROVE  PlaceTypes'
  BY <1>2 DEF Push
<1>3. ASSUME NEW w \in Workers, Exit(w) \/ Cancel(w)
      PROVE  PlaceTypes'
  BY <1>3 DEF Exit, Cancel
<1>4. CASE StopBid
  <2>1. run_flag' \in BOOLEAN
    BY <1>4 DEF StopBid
  <2> QED BY <1>4, <2>1, ItemSequences DEF StopBid
<1>5. CASE ServerLoop
  <2>1. cpc' \in [Consumers -> Places]
    BY <1>5 DEF ServerLoop, Test, Look, Sent, Places
  <2> QED BY <1>5, <2>1 DEF ServerLoop
<1>6. CASE ServerLast
  <2>1. dosend' \in BOOLEAN
    BY <1>6 DEF ServerLast
  <2>2. cpc' \in [Consumers -> Places]
    BY <1>6 DEF ServerLast, SendLast, Places
  <2> QED BY <1>6, <2>1, <2>2 DEF ServerLast, SendLast
<1>7. CASE CountThread
  <2>1. cpc' \in [Consumers -> Places]
    BY <1>7 DEF CountThread, CountLoop, CountLast, Test, Places
  <2> QED BY <1>7, <2>1 DEF CountThread, CountLoop, CountLast
<1>8. CASE NewHour
  <2>1. fd' \in BOOLEAN
    BY <1>8 DEF NewHour
  <2> QED BY <1>8, <2>1 DEF NewHour
<1>9. CASE LogThread
  <2>1. cpc' \in [Consumers -> Places]
    BY <1>9 DEF LogThread, LogLoop, LogLast, Test, Places
  <2>2. fd' \in BOOLEAN
    BY <1>9 DEF LogThread, LogLoop, LogLast
  <2> QED BY <1>9, <2>1, <2>2 DEF LogThread, LogLoop, LogLast
<1>10. CASE UNCHANGED vars
  BY <1>10 DEF vars
<1> QED BY <1>1, <1>2, <1>3, <1>4, <1>5, <1>6, <1>7, <1>8, <1>9, <1>10
        DEF Next, WorkerStep, ServerThread

\* The queues and the histories stay sequences of items.
LEMMA SeqStep ==
  ASSUME SeqTypes, HandInv, [Next]_vars
  PROVE  SeqTypes'
<1>1. ASSUME NEW w \in Workers, NEW k \in Queues, Push(w, k)
      PROVE  SeqTypes'
  <2>1. /\ Append(q[k], Len(added[k]) + 1) \in Seq(Items)
        /\ Append(added[k], Len(added[k]) + 1) \in Seq(Items)
    BY ItemSequences, SequenceTypes
  <2> QED BY <1>1, <2>1 DEF Push, SeqTypes
<1>2. CASE ServerThread
  <2>1. \A k \in {"bid", "detail"} : q[k] # << >> =>
          /\ <<Head(q[k])>> \in Seq(Items) /\ Tail(q[k]) \in Seq(Items)
          /\ Append(out[k], Head(q[k])) \in Seq(Items)
    BY QueueNames, ItemSequences, SequenceTypes
  <2>2. \A k \in {"bid", "detail"} : out[k] \o hand[k] \in Seq(Items)
    BY QueueNames, ItemSequences, SequenceTypes
  <2>3. << >> \in Seq(Items)
    BY EmptySeq
  <2>4. CASE ServerLoop
    <3>1. ASSUME NEW k \in {"bid", "detail"}, NEW send, NEW nxt, Look(k, send, nxt),
                 UNCHANGED added
          PROVE  SeqTypes'
      BY <2>1, <3>1 DEF Look, SeqTypes
    <3>2. ASSUME NEW k \in {"bid", "detail"}, NEW nxt, Sent(k, nxt), q[k] # << >>,
                 UNCHANGED added
          PROVE  SeqTypes'
      BY <2>1, <2>2, <2>3, <3>2 DEF Sent, SeqTypes
    <3>3. ASSUME Test("server", "bid", "last"), UNCHANGED added
          PROVE  SeqTypes'
      BY <3>3 DEF Test, SeqTypes
    <3> QED BY <2>4, <3>1, <3>2, <3>3 DEF ServerLoop, HandInv
  <2>5. CASE ServerLast
    BY <2>1, <2>5 DEF ServerLast, SendLast, SeqTypes
  <2> QED BY <1>2, <2>4, <2>5 DEF ServerThread
<1>3. CASE CountThread
  <2>1. q["count"] # << >> =>
          <<Head(q["count"])>> \in Seq(Items) /\ Tail(q["count"]) \in Seq(Items)
    BY QueueNames, ItemSequences, SequenceTypes
  <2>2. /\ out["count"] \o hand["count"] \in Seq(Items)
        /\ out["count"] \o q["count"] \in Seq(Items)
        /\ << >> \in Seq(Items)
    BY QueueNames, ItemSequences, SequenceTypes
  <2> QED BY <1>3, <2>1, <2>2
          DEF CountThread, CountLoop, CountLast, Test, SeqTypes
<1>4. CASE LogThread
  <2> DEFINE s == q["log"]
  <2>1. \A n \in 0 .. Len(s) :
          /\ SubSeq(s, 1, n) \in Seq(Items) /\ SubSeq(s, n + 1, Len(s)) \in Seq(Items)
          /\ out["log"] \o SubSeq(s, 1, n) \in Seq(Items)
    BY QueueNames, ItemSequences, SplitSequence, SequenceTypes
  <2>2. out["log"] \o hand["log"] \in Seq(Items) /\ << >> \in Seq(Items)
    BY QueueNames, ItemSequences, SequenceTypes
  <2>3. CASE LogLoop
    <3> DEFINE n == Taking(Len(s))
    <3>1. n \in 0 .. Len(s)
      BY QueueNames, ItemSequences, BatchTypes
    <3> HIDE DEF n
    <3>2. /\ SubSeq(s, 1, n) \in Seq(Items) /\ SubSeq(s, n + 1, Len(s)) \in Seq(Items)
      BY <3>1, <2>1
    <3>3. /\ \/ UNCHANGED <<q, hand, out>>
             \/ /\ hand' = [hand EXCEPT !["log"] = SubSeq(s, 1, n)]
                /\ q' = [q EXCEPT !["log"] = SubSeq(s, n + 1, Len(s))]
                /\ UNCHANGED out
             \/ /\ out' = [out EXCEPT !["log"] = @ \o hand["log"]]
                /\ hand' = [hand EXCEPT !["log"] = << >>]
                /\ UNCHANGED q
          /\ UNCHANGED added
      BY <2>3 DEF LogLoop, Test, n
    <3> QED BY <3>2, <3>3, <2>2 DEF SeqTypes
  <2>4. CASE LogLast
    <3>1. Drained(Len(s)) \in 0 .. Len(s)
      BY QueueNames, ItemSequences, BatchTypes
    <3> QED BY <2>4, <2>1, <2>2, <3>1 DEF LogLast, SeqTypes
  <2> QED BY <1>4, <2>3, <2>4 DEF LogThread
<1>5. CASE UNCHANGED <<q, hand, added, out>>
  BY <1>5 DEF SeqTypes
<1> QED BY <1>1, <1>2, <1>3, <1>4, <1>5
        DEF Next, WorkerStep, Enter, Exit, Cancel, StopBid, NewHour, vars

\* The places and the hands stay in step.
LEMMA HandStep ==
  ASSUME SeqTypes, PlaceTypes, HandInv, [Next]_vars
  PROVE  HandInv'
<1>1. \A k \in Queues : q[k] \in Seq(Items) /\ Len(added[k]) + 1 \in Items
  BY ItemSequences DEF Items
<1> USE QueueNames DEF HandInv, SeqTypes, PlaceTypes
<1>2. ASSUME NEW w \in Workers, NEW k \in Queues, Push(w, k)
      PROVE  HandInv'
  <2> DEFINE n == Len(added[k]) + 1
  <2>1. /\ Append(q[k], n) # << >>
        /\ q[k] # << >> => Head(Append(q[k], n)) = Head(q[k])
    <3>1. q[k] \in Seq(Items) /\ n \in Items
      BY <1>1
    <3> QED BY <3>1, AppendKeepsHead
  <2> HIDE DEF n
  <2>2. q' = [q EXCEPT ![k] = Append(q[k], n)] /\ UNCHANGED <<cpc, hand>>
    BY <1>2 DEF Push, n
  <2> QED BY <2>1, <2>2
<1>3. CASE ServerLoop
  <2>1. CASE Test("server", "bid", "last")
    BY <2>1 DEF Test
  <2>2. CASE cpc["server"] = "bid" /\ Look("bid", "send_bid", "detail")
    BY <2>2 DEF Look
  <2>3. CASE cpc["server"] = "send_bid" /\ Sent("bid", "detail")
    BY <2>3 DEF Sent
  <2>4. CASE cpc["server"] = "detail" /\ Look("detail", "send_detail", "loop")
    BY <2>4 DEF Look
  <2>5. CASE cpc["server"] = "send_detail" /\ Sent("detail", "loop")
    BY <2>5 DEF Sent
  <2> QED BY <1>3, <2>1, <2>2, <2>3, <2>4, <2>5 DEF ServerLoop
<1>4. CASE ServerLast
  BY <1>4 DEF ServerLast, SendLast
<1>5. CASE CountThread
  BY <1>5 DEF CountThread, CountLoop, CountLast, Test
<1>6. CASE LogThread
  <2>1. CASE LogLoop
    BY <2>1 DEF LogLoop, Test
  <2>2. CASE LogLast
    BY <2>2 DEF LogLast
  <2> QED BY <1>6, <2>1, <2>2 DEF LogThread
<1>7. CASE UNCHANGED <<q, cpc, hand>>
  BY <1>7
<1> QED BY <1>2, <1>3, <1>4, <1>5, <1>6, <1>7
        DEF Next, WorkerStep, Enter, Exit, Cancel, StopBid, NewHour, ServerThread, vars

\* LocalLog writes at least one line and at most a batch.
LEMMA BatchStep ==
  ASSUME SeqTypes, PlaceTypes, BatchOK, [Next]_vars
  PROVE  BatchOK'
<1> USE QueueNames DEF BatchOK, PlaceTypes, SeqTypes
<1>1. CASE LogLoop
  <2> DEFINE s == q["log"]
             n == Taking(Len(s))
  <2>1. s \in Seq(Items) /\ Batch \in Nat /\ n \in 0 .. Len(s) /\ n <= Batch
    BY ItemSequences, BatchTypes, QueuesAssumption
  <2>2. Len(SubSeq(s, 1, n)) = n
    BY <2>1, SplitSequence
  <2> HIDE DEF n
  <2>3. \/ cpc'["log"] # "write"
        \/ n > 0 /\ hand'["log"] = SubSeq(s, 1, n)
    BY <1>1 DEF LogLoop, Test, n
  <2>4. CASE n > 0 /\ hand'["log"] = SubSeq(s, 1, n)
    <3>1. Len(s) \in Nat
      BY <2>1, LenProperties
    <3>2. n \in 1 .. Batch
      BY <2>1, <2>4, <3>1
    <3>3. Len(hand'["log"]) = n
      BY <2>2, <2>4
    <3> QED BY <3>2, <3>3
  <2> QED BY <2>3, <2>4
<1>2. CASE LogLast
  BY <1>2 DEF LogLast
<1>3. CASE ServerLoop
  BY <1>3 DEF ServerLoop, Test, Look, Sent
<1>4. CASE ServerLast
  BY <1>4 DEF ServerLast, SendLast
<1>5. CASE CountThread
  BY <1>5 DEF CountThread, CountLoop, CountLast, Test
<1>6. CASE UNCHANGED <<cpc, hand>>
  BY <1>6
<1> QED BY <1>1, <1>2, <1>3, <1>4, <1>5, <1>6
        DEF Next, WorkerStep, Enter, Push, Exit, Cancel, StopBid, NewHour,
            ServerThread, LogThread, vars

\* The queues start empty.
LEMMA TypeInit == Init => SeqTypes /\ PlaceTypes /\ BatchOK /\ HandInv
<1> SUFFICES ASSUME Init PROVE SeqTypes /\ PlaceTypes /\ BatchOK /\ HandInv
  OBVIOUS
<1>1. SeqTypes
  BY EmptySeq DEF Init, SeqTypes
<1>2. run_flag \in BOOLEAN /\ dosend \in BOOLEAN /\ fd \in BOOLEAN
  BY DEF Init
<1>3. PlaceTypes
  BY <1>2 DEF Init, PlaceTypes, Places
<1>4. HandInv /\ BatchOK
  BY QueueNames DEF Init, HandInv, BatchOK
<1> QED BY <1>1, <1>3, <1>4

\* Every variable of the queues has its type, and what a thread holds goes with
\* where it is, in every reachable state.
THEOREM TypeCorrect == Spec => [](TypeOK /\ HandInv)
<1>1. TypeOK /\ HandInv /\ [Next]_vars => (TypeOK /\ HandInv)'
  BY TypeParts, PlaceStep, SeqStep, HandStep, BatchStep
<1>2. Init => TypeOK /\ HandInv
  BY TypeParts, TypeInit
<1> QED BY <1>1, <1>2, PTL DEF Spec

------------------------------------------------------------------------------
(* What a step does to a queue: it adds one item at the end, or it moves    *)
(* the first x of what waits, and of what a thread holds, to what came out. *)

Added(k) ==
  LET n == Len(added[k]) + 1 IN
  /\ added'[k] = Append(added[k], n)
  /\ q'[k] = Append(q[k], n)
  /\ out'[k] = out[k] /\ Taken(k)' = Taken(k)

Moved(k) ==
  /\ added'[k] = added[k]
  /\ \E x \in Seq(Items) : /\ out'[k] = out[k] \o x
                           /\ (x \o Taken(k)') \o q'[k] = Taken(k) \o q[k]

\* Laws of concatenation in the form the moves need them.
LEMMA ConcatLaws ==
  ASSUME NEW s \in Seq(Items), NEW t \in Seq(Items)
  PROVE  /\ << >> \in Seq(Items)
         /\ (<< >> \o s) \o t = s \o t
         /\ (s \o << >>) \o t = s \o t
         /\ << >> \o s = s /\ s \o << >> = s
         /\ s \o t \in Seq(Items)
BY EmptySeq, ConcatEmptySeq, ConcatProperties

\* A queue that a step does not touch.
LEMMA Untouched ==
  ASSUME SeqTypes, NEW k \in Queues,
         added'[k] = added[k], q'[k] = q[k], out'[k] = out[k], Taken(k)' = Taken(k)
  PROVE  Moved(k)
<1>1. Taken(k) \in Seq(Items) /\ q[k] \in Seq(Items) /\ out[k] \in Seq(Items)
  BY ItemSequences, EmptySeq DEF Taken
<1>2. /\ << >> \in Seq(Items)
      /\ out'[k] = out[k] \o << >>
      /\ (<< >> \o Taken(k)') \o q'[k] = Taken(k) \o q[k]
  BY <1>1, ConcatLaws
<1> QED BY <1>2 DEF Moved

\* A thread takes the first x of a queue, or what it held, all the way out.
LEMMA MoveOut ==
  ASSUME SeqTypes, NEW k \in Queues, NEW x \in Seq(Items), NEW rest \in Seq(Items),
         added'[k] = added[k], out'[k] = out[k] \o x, q'[k] = rest,
         Taken(k)' = << >>, x \o rest = Taken(k) \o q[k]
  PROVE  Moved(k)
<1>1. (x \o << >>) \o rest = x \o rest
  BY ConcatLaws
<1> QED BY <1>1 DEF Moved

\* A thread takes the first x of a queue and holds it.
LEMMA MoveToHand ==
  ASSUME SeqTypes, NEW k \in Queues, NEW x \in Seq(Items), NEW rest \in Seq(Items),
         added'[k] = added[k], out'[k] = out[k], q'[k] = rest,
         Taken(k)' = x, Taken(k) = << >>, x \o rest = q[k]
  PROVE  Moved(k)
<1>1. q[k] \in Seq(Items) /\ out[k] \in Seq(Items)
  BY ItemSequences
<1>2. /\ << >> \in Seq(Items) /\ out[k] \o << >> = out[k]
      /\ (<< >> \o x) \o rest = x \o rest
      /\ << >> \o q[k] = q[k]
  BY <1>1, ConcatLaws
<1> QED BY <1>2 DEF Moved

\* ServerLog, its last loop included: what is sent without the lock is what is
\* removed afterwards.
LEMMA ServerMoves ==
  ASSUME SeqTypes, HandInv, ServerThread, NEW k \in Queues
  PROVE  Moved(k)
<1> DEFINE Same == q'[k] = q[k] /\ out'[k] = out[k]
           Send == /\ k \in {"bid", "detail"} /\ q[k] # << >>
                   /\ q'[k] = Tail(q[k]) /\ out'[k] = out[k] \o <<Head(q[k])>>
<1>1. added' = added /\ (k \in {"count", "log"} => Taken(k)' = Taken(k))
  BY DEF ServerThread, ServerLoop, ServerLast, SendLast, Test, Look, Sent, Taken,
         SeqTypes
<1>2. CASE Same
  <2>1. Taken(k)' = Taken(k)
    BY <1>1 DEF Taken
  <2> QED BY <1>1, <1>2, <2>1, Untouched
<1>3. CASE Send
  <2>1. q[k] \in Seq(Items)
    BY ItemSequences
  <2>2. /\ <<Head(q[k])>> \in Seq(Items) /\ Tail(q[k]) \in Seq(Items)
        /\ <<Head(q[k])>> \o Tail(q[k]) = q[k]
    BY <1>3, <2>1, HeadAndTail
  <2>3. Taken(k)' = << >> /\ << >> \o q[k] = q[k] /\ Taken(k) = << >>
    BY <1>3, <2>1, ConcatLaws DEF Taken
  <2> QED BY <1>1, <1>3, <2>2, <2>3, MoveOut
<1>4. Same \/ Send
  <2>1. CASE ServerLoop
    <3>1. CASE cpc["server"] = "send_bid" /\ Sent("bid", "detail")
      BY <3>1 DEF Sent, HandInv, SeqTypes
    <3>2. CASE cpc["server"] = "send_detail" /\ Sent("detail", "loop")
      BY <3>2 DEF Sent, HandInv, SeqTypes
    <3> QED BY <2>1, <3>1, <3>2 DEF ServerLoop, Test, Look
  <2>2. CASE ServerLast
    <3>1. \A j \in {"bid", "detail"} : q[j] # << >> =>
            Append(out[j], Head(q[j])) = out[j] \o <<Head(q[j])>>
      <4>1. \A j \in {"bid", "detail"} :
              /\ out[j] \in Seq(Items)
              /\ q[j] # << >> => Head(q[j]) \in Items
        BY QueueNames, ItemSequences, HeadTailProperties
      <4> QED BY <4>1, AppendIsConcat
    <3>2. PICK j \in {"bid", "detail"} :
            /\ out' = IF q[j] = << >> THEN out
                      ELSE [out EXCEPT ![j] = Append(@, Head(q[j]))]
            /\ q' = IF q[j] = << >> THEN q ELSE [q EXCEPT ![j] = Tail(@)]
      BY <2>2 DEF ServerLast, SendLast
    <3>3. CASE q[j] = << >> \/ k # j
      BY <3>2, <3>3 DEF SeqTypes
    <3>4. CASE q[j] # << >> /\ k = j
      BY <3>1, <3>2, <3>4 DEF SeqTypes
    <3> QED BY <3>3, <3>4
  <2> QED BY <2>1, <2>2 DEF ServerThread
<1> QED BY <1>2, <1>3, <1>4

\* RecordCount: a record is taken from the queue and counted after the unlock;
\* at the end all of them are counted under the lock.
LEMMA CountMoves ==
  ASSUME SeqTypes, HandInv, CountThread, NEW k \in Queues
  PROVE  Moved(k)
<1>1. /\ added' = added
      /\ k # "count" => q'[k] = q[k] /\ out'[k] = out[k] /\ hand'[k] = hand[k]
  BY DEF CountThread, CountLoop, CountLast, Test, SeqTypes
<1>2. CASE k # "count" \/ UNCHANGED <<q, hand, out>>
  BY <1>1, <1>2, Untouched DEF Taken
<1>3. CASE k = "count" /\ ~UNCHANGED <<q, hand, out>>
  <2> DEFINE s == q["count"]
             h == hand["count"]
  <2>1. /\ s \in Seq(Items) /\ h \in Seq(Items) /\ out["count"] \in Seq(Items)
        /\ Taken("count") = h /\ Taken("count")' = hand'["count"]
    BY QueueNames, ItemSequences DEF Taken
  <2>2. /\ << >> \in Seq(Items) /\ s \o << >> = s /\ << >> \o s = s
        /\ h \o s \in Seq(Items)
    BY <2>1, ConcatLaws
  <2>3. CASE cpc["count"] = "take" /\ CountLoop
    <3>1. /\ h = << >> /\ s # << >>
          /\ q'["count"] = Tail(s) /\ out'["count"] = out["count"]
          /\ hand'["count"] = <<Head(s)>>
      BY <1>3, <2>3, QueueNames DEF CountLoop, Test, HandInv, SeqTypes
    <3>2. /\ <<Head(s)>> \in Seq(Items) /\ Tail(s) \in Seq(Items)
          /\ <<Head(s)>> \o Tail(s) = s
      BY <2>1, <3>1, HeadAndTail
    <3> QED BY <1>1, <1>3, <2>1, <3>1, <3>2, MoveToHand
  <2>4. CASE cpc["count"] = "record" /\ CountLoop
    <3>1. /\ q'["count"] = s /\ out'["count"] = out["count"] \o h
          /\ hand'["count"] = << >>
      BY <2>4, QueueNames DEF CountLoop, Test, SeqTypes
    <3> QED BY <1>1, <1>3, <2>1, <3>1, MoveOut
  <2>5. CASE CountLast
    <3>1. /\ h = << >> /\ q'["count"] = << >> /\ hand'["count"] = << >>
          /\ out'["count"] = out["count"] \o s
      BY <2>5, QueueNames DEF CountLast, HandInv, SeqTypes
    <3> QED BY <1>1, <1>3, <2>1, <2>2, <3>1, MoveOut
  <2> QED BY <1>3, <2>3, <2>4, <2>5 DEF CountThread, CountLoop, Test
<1> QED BY <1>2, <1>3

\* LocalLog: a batch of lines is taken from the queue and written after the
\* unlock; at the end some are written, or lost.
LEMMA LogMoves ==
  ASSUME SeqTypes, HandInv, LogThread, NEW k \in Queues
  PROVE  Moved(k)
<1>1. /\ added' = added
      /\ k # "log" => q'[k] = q[k] /\ out'[k] = out[k] /\ hand'[k] = hand[k]
  BY DEF LogThread, LogLoop, LogLast, Test, SeqTypes
<1>2. CASE k # "log" \/ UNCHANGED <<q, hand, out>>
  BY <1>1, <1>2, Untouched DEF Taken
<1>3. CASE k = "log" /\ ~UNCHANGED <<q, hand, out>>
  <2> DEFINE s == q["log"]
             h == hand["log"]
  <2>1. /\ s \in Seq(Items) /\ h \in Seq(Items) /\ out["log"] \in Seq(Items)
        /\ Taken("log") = h /\ Taken("log")' = hand'["log"]
    BY QueueNames, ItemSequences DEF Taken
  <2>2. /\ << >> \o s = s /\ h \o s \in Seq(Items)
    BY <2>1, ConcatLaws
  <2>3. CASE cpc["log"] = "take" /\ LogLoop
    <3> DEFINE n == Taking(Len(s))
    <3>1. n \in 0 .. Len(s)
      BY <2>1, BatchTypes
    <3>2. /\ h = << >> /\ out'["log"] = out["log"]
          /\ q'["log"] = SubSeq(s, n + 1, Len(s)) /\ hand'["log"] = SubSeq(s, 1, n)
      BY <1>3, <2>3, QueueNames DEF LogLoop, Test, HandInv, SeqTypes
    <3> HIDE DEF n
    <3>3. /\ SubSeq(s, 1, n) \in Seq(Items) /\ SubSeq(s, n + 1, Len(s)) \in Seq(Items)
          /\ SubSeq(s, 1, n) \o SubSeq(s, n + 1, Len(s)) = s
      BY <2>1, <3>1, SplitSequence
    <3> QED BY <1>1, <1>3, <2>1, <3>2, <3>3, MoveToHand
  <2>4. CASE cpc["log"] = "write" /\ LogLoop
    <3>1. /\ q'["log"] = s /\ out'["log"] = out["log"] \o h
          /\ hand'["log"] = << >>
      BY <2>4, QueueNames DEF LogLoop, Test, SeqTypes
    <3> QED BY <1>1, <1>3, <2>1, <3>1, MoveOut
  <2>5. CASE LogLast
    <3> DEFINE n == Drained(Len(s))
    <3>1. n \in 0 .. Len(s)
      BY <2>1, BatchTypes
    <3>2. /\ h = << >> /\ q'["log"] = SubSeq(s, n + 1, Len(s))
          /\ \/ /\ out'["log"] = out["log"] \o SubSeq(s, 1, n)
                /\ hand'["log"] = << >>
             \/ /\ out'["log"] = out["log"]
                /\ hand'["log"] = SubSeq(s, 1, n)
      BY <2>5, QueueNames DEF LogLast, HandInv, SeqTypes
    <3> HIDE DEF n
    <3>3. /\ SubSeq(s, 1, n) \in Seq(Items) /\ SubSeq(s, n + 1, Len(s)) \in Seq(Items)
          /\ SubSeq(s, 1, n) \o SubSeq(s, n + 1, Len(s)) = s
      BY <2>1, <3>1, SplitSequence
    <3> QED BY <1>1, <1>3, <2>1, <2>2, <3>2, <3>3, MoveToHand, MoveOut
  <2> QED BY <1>3, <2>3, <2>4, <2>5 DEF LogThread, LogLoop, Test
<1> QED BY <1>2, <1>3

\* Every step adds one item to a queue or moves its first ones on.
LEMMA QueueStep ==
  ASSUME SeqTypes, HandInv, [Next]_vars, NEW k \in Queues
  PROVE  Added(k) \/ Moved(k)
<1>1. ASSUME NEW w \in Workers, NEW j \in Queues, Push(w, j)
      PROVE  Added(k) \/ Moved(k)
  <2>1. CASE k = j
    BY <1>1, <2>1 DEF Push, Added, Taken, SeqTypes
  <2>2. CASE k # j
    BY <1>1, <2>2, Untouched DEF Push, Taken, SeqTypes
  <2> QED BY <2>1, <2>2
<1>2. CASE UNCHANGED <<q, hand, added, out>>
  BY <1>2, Untouched DEF Taken
<1> QED BY <1>1, <1>2, ServerMoves, CountMoves, LogMoves
        DEF Next, WorkerStep, Enter, Exit, Cancel, StopBid, NewHour, vars

------------------------------------------------------------------------------
(* Nothing vanishes.                                                        *)

\* What an item is, wherever it is.
LEMMA TakenTypes ==
  ASSUME SeqTypes, NEW k \in Queues
  PROVE  Taken(k) \in Seq(Items)
BY ItemSequences, EmptySeq DEF Taken

\* Concatenation is associative, also over four sequences.
LEMMA Associative ==
  ASSUME NEW s \in Seq(Items), NEW t \in Seq(Items), NEW u \in Seq(Items)
  PROVE  (s \o t) \o u = s \o (t \o u)
BY ConcatAssociative

LEMMA Regroup ==
  ASSUME NEW o \in Seq(Items), NEW x \in Seq(Items), NEW u \in Seq(Items),
         NEW r \in Seq(Items)
  PROVE  ((o \o x) \o u) \o r = o \o ((x \o u) \o r)
<1> DEFINE y == x \o u
<1>1. y \in Seq(Items)
  BY ConcatProperties
<1>2. (o \o x) \o u = o \o y
  BY Associative, SMTT(60)
<1> HIDE DEF y
<1>3. (o \o y) \o r = o \o (y \o r)
  BY <1>1, Associative, SMTT(60)
<1> QED BY <1>2, <1>3 DEF y

\* A step keeps what was added equal to what came out, is held and waits.
LEMMA VanishStep ==
  ASSUME SeqTypes, SeqTypes', HandInv, NothingVanishes, [Next]_vars
  PROVE  NothingVanishes'
<1> SUFFICES ASSUME NEW k \in Queues
             PROVE  added'[k] = (out'[k] \o Taken(k)') \o q'[k]
  BY DEF NothingVanishes
<1> DEFINE a == added[k]
           o == out[k]
           t == Taken(k)
           s == q[k]
<1>1. /\ a = (o \o t) \o s
      /\ a \in Seq(Items) /\ o \in Seq(Items) /\ t \in Seq(Items) /\ s \in Seq(Items)
      /\ Len(a) + 1 \in Items
  <2>1. a = (o \o t) \o s
    BY DEF NothingVanishes
  <2>2. Len(a) + 1 \in Items
    BY ItemSequences DEF Items
  <2> QED BY <2>1, <2>2, ItemSequences, TakenTypes
<1>2. Taken(k)' \in Seq(Items) /\ q'[k] \in Seq(Items)
  BY EmptySeq DEF SeqTypes, Taken
<1>3. CASE Added(k)
  <2>1. /\ added'[k] = a \o <<Len(a) + 1>> /\ q'[k] = s \o <<Len(a) + 1>>
        /\ out'[k] = o /\ Taken(k)' = t
    BY <1>1, <1>3, AppendIsConcat DEF Added
  <2> HIDE DEF a, o, t, s
  <2>2. <<Len(a) + 1>> \in Seq(Items) /\ o \o t \in Seq(Items)
    BY <1>1, ConcatProperties
  <2>3. ((o \o t) \o s) \o <<Len(a) + 1>> = (o \o t) \o (s \o <<Len(a) + 1>>)
    BY <1>1, <2>2, ConcatAssociative, SMTT(60)
  <2> QED BY <1>1, <2>1, <2>3 DEF a, o, t, s
<1>4. CASE Moved(k)
  <2>1. PICK x \in Seq(Items) : /\ out'[k] = o \o x
                               /\ (x \o Taken(k)') \o q'[k] = t \o s
    BY <1>4 DEF Moved
  <2>2. ((o \o x) \o Taken(k)') \o q'[k] = (o \o t) \o s
    <3> DEFINE u == Taken(k)'
               r == q'[k]
    <3>1. /\ o \in Seq(Items) /\ t \in Seq(Items) /\ s \in Seq(Items)
          /\ u \in Seq(Items) /\ r \in Seq(Items)
      BY <1>1, <1>2
    <3>2. ((o \o x) \o u) \o r = o \o ((x \o u) \o r)
      <4>1. o \in Seq(Items) /\ u \in Seq(Items) /\ r \in Seq(Items)
        BY <3>1
      <4> HIDE DEF o, u, r
      <4> QED BY <4>1, Regroup, SMTT(90)
    <3>3. (o \o t) \o s = o \o (t \o s)
      <4> HIDE DEF o, t, s
      <4> QED BY <3>1, Associative, SMTT(60)
    <3> QED BY <2>1, <3>2, <3>3
  <2>3. added'[k] = a
    BY <1>4 DEF Moved
  <2> QED BY <1>1, <2>1, <2>2, <2>3
<1> QED BY <1>3, <1>4, QueueStep

\* No item of any queue vanishes, is duplicated or overtakes another, for any
\* number of workers and of items.
THEOREM ItemsAreConserved == Spec => []NothingVanishes
<1>1. Init => NothingVanishes
  <2>1. << >> = (<< >> \o << >>) \o << >>
    BY EmptySeq, ConcatEmptySeq
  <2> QED BY <2>1 DEF Init, NothingVanishes, Taken
<1>2. TypeOK /\ TypeOK' /\ HandInv /\ NothingVanishes /\ [Next]_vars
        => NothingVanishes'
  BY VanishStep, TypeParts
<1> QED BY <1>1, <1>2, TypeCorrect, PTL DEF Spec

------------------------------------------------------------------------------
(* Each queue implements Fifo.                                              *)

\* The front of a concatenation.
LEMMA FrontOfConcat ==
  ASSUME NEW s \in Seq(Items), NEW t \in Seq(Items), s # << >>
  PROVE  SubSeq(s \o t, 1, Len(s)) = s
<1>1. Len(s) \in Nat \ {0}
  BY EmptySeq
<1>2. 1 \in 1 .. Len(s) /\ Len(s) \in 1 .. Len(s)
  BY <1>1
<1>3. SubSeq(s \o t, 1, Len(s)) = SubSeq(s, 1, Len(s))
  BY <1>2, SubSeqOfConcat1
<1> QED BY <1>3, SubSeqFull

\* The step of Fifo that a step of the queues is, for the queue k.
FifoStep(k) ==
  \/ added'[k] = Append(added[k], Len(added[k]) + 1) /\ out'[k] = out[k]
  \/ \E n \in Len(out[k]) + 1 .. Len(added[k]) :
        out'[k] = SubSeq(added[k], 1, n) /\ added'[k] = added[k]
  \/ added'[k] = added[k] /\ out'[k] = out[k]

LEMMA QueueStepIsFifoStep ==
  ASSUME SeqTypes, SeqTypes', HandInv, NothingVanishes', [Next]_vars,
         NEW k \in Queues
  PROVE  FifoStep(k)
<1>1. CASE Added(k)
  BY <1>1 DEF Added, FifoStep
<1>2. CASE Moved(k)
  <2>1. PICK x \in Seq(Items) : out'[k] = out[k] \o x
    BY <1>2 DEF Moved
  <2>2. added'[k] = added[k] /\ out[k] \in Seq(Items)
    BY <1>2, ItemSequences DEF Moved
  <2>3. CASE x = << >>
    <3>1. out'[k] = out[k]
      BY <2>1, <2>2, <2>3, ConcatEmptySeq
    <3> QED BY <2>2, <3>1 DEF FifoStep
  <2>4. CASE x # << >>
    <3> DEFINE o == out'[k]
               r == Taken(k)' \o q'[k]
               n == Len(o)
    <3>1. /\ o \in Seq(Items) /\ Taken(k)' \in Seq(Items) /\ q'[k] \in Seq(Items)
          /\ r \in Seq(Items)
      BY EmptySeq, ConcatProperties DEF SeqTypes, Taken
    <3>2. added[k] = o \o r
      <4>1. added[k] = (o \o Taken(k)') \o q'[k]
        BY <2>2 DEF NothingVanishes
      <4>2. (o \o Taken(k)') \o q'[k] = o \o r
        BY <3>1, Associative
      <4> QED BY <4>1, <4>2
    <3>3. Len(x) \in Nat \ {0} /\ Len(out[k]) \in Nat /\ n = Len(out[k]) + Len(x)
      BY <2>1, <2>2, <2>4, EmptySeq, LenProperties, ConcatProperties
    <3>4. o # << >> /\ n \in Nat
      BY <3>3, EmptySeq
    <3> HIDE DEF r, o
    <3>5. o = SubSeq(added[k], 1, n)
      BY <3>1, <3>2, <3>4, FrontOfConcat
    <3>6. Len(added[k]) = n + Len(r) /\ Len(r) \in Nat
      BY <3>1, <3>2, ConcatProperties, LenProperties
    <3>7. n \in Len(out[k]) + 1 .. Len(added[k])
      BY <3>3, <3>4, <3>6
    <3> QED BY <2>2, <3>5, <3>7 DEF FifoStep, o
  <2> QED BY <2>3, <2>4
<1> QED BY <1>1, <1>2, QueueStep

\* Each of the four queues implements the abstract queue: whatever the workers,
\* the threads and the cancellations do, what comes out is a front of what was
\* added.
THEOREM QueuesImplementFifo == Spec => ImplementsFifo
<1>1. Init => Bid!Init /\ Detail!Init /\ Count!Init /\ Log!Init
  BY QueueNames DEF Init, Bid!Init, Detail!Init, Count!Init, Log!Init
<1>2. TypeOK /\ TypeOK' /\ HandInv /\ NothingVanishes' /\ [Next]_vars
        => /\ [Bid!Add \/ Bid!Deliver]_<<added["bid"], out["bid"]>>
           /\ [Detail!Add \/ Detail!Deliver]_<<added["detail"], out["detail"]>>
           /\ [Count!Add \/ Count!Deliver]_<<added["count"], out["count"]>>
           /\ [Log!Add \/ Log!Deliver]_<<added["log"], out["log"]>>
  <2> SUFFICES ASSUME TypeOK, TypeOK', HandInv, NothingVanishes', [Next]_vars
               PROVE  /\ [Bid!Add \/ Bid!Deliver]_<<added["bid"], out["bid"]>>
                      /\ [Detail!Add \/ Detail!Deliver]_<<added["detail"], out["detail"]>>
                      /\ [Count!Add \/ Count!Deliver]_<<added["count"], out["count"]>>
                      /\ [Log!Add \/ Log!Deliver]_<<added["log"], out["log"]>>
    OBVIOUS
  <2>1. \A k \in Queues : FifoStep(k)
    BY QueueStepIsFifoStep, TypeParts
  <2>2. FifoStep("bid") => [Bid!Add \/ Bid!Deliver]_<<added["bid"], out["bid"]>>
    BY DEF FifoStep, Bid!Add, Bid!Deliver
  <2>3. FifoStep("detail") =>
          [Detail!Add \/ Detail!Deliver]_<<added["detail"], out["detail"]>>
    BY DEF FifoStep, Detail!Add, Detail!Deliver
  <2>4. FifoStep("count") =>
          [Count!Add \/ Count!Deliver]_<<added["count"], out["count"]>>
    BY DEF FifoStep, Count!Add, Count!Deliver
  <2>5. FifoStep("log") => [Log!Add \/ Log!Deliver]_<<added["log"], out["log"]>>
    BY DEF FifoStep, Log!Add, Log!Deliver
  <2> QED BY <2>1, <2>2, <2>3, <2>4, <2>5, QueueNames
<1> QED BY <1>1, <1>2, TypeCorrect, ItemsAreConserved, PTL
        DEF Spec, ImplementsFifo, Bid!Spec, Detail!Spec, Count!Spec, Log!Spec

------------------------------------------------------------------------------
(* What had been added when run_flag fell is delivered.                     *)

\* A step takes nothing back from what was added or came out.
LEMMA HistoriesGrow ==
  ASSUME SeqTypes, SeqTypes', HandInv, [Next]_vars, NEW k \in Queues
  PROVE  Len(added'[k]) >= Len(added[k]) /\ Len(out'[k]) >= Len(out[k])
<1>1. /\ added[k] \in Seq(Items) /\ out[k] \in Seq(Items)
      /\ Len(added[k]) \in Nat /\ Len(out[k]) \in Nat /\ Len(added[k]) + 1 \in Items
  <2>1. Len(added[k]) \in Nat
    BY ItemSequences
  <2> QED BY <2>1, ItemSequences DEF Items
<1>2. CASE Added(k)
  <2>1. added'[k] = Append(added[k], Len(added[k]) + 1) /\ out'[k] = out[k]
    BY <1>2 DEF Added
  <2>2. Len(added'[k]) = Len(added[k]) + 1
    BY <1>1, <2>1, AppendProperties
  <2> QED BY <1>1, <2>1, <2>2
<1>3. CASE Moved(k)
  <2>1. PICK x \in Seq(Items) : out'[k] = out[k] \o x
    BY <1>3 DEF Moved
  <2>2. Len(out'[k]) = Len(out[k]) + Len(x) /\ Len(x) \in Nat
    BY <1>1, <2>1, ConcatProperties, LenProperties
  <2>3. added'[k] = added[k]
    BY <1>3 DEF Moved
  <2> QED BY <1>1, <2>2, <2>3
<1> QED BY <1>2, <1>3, QueueStep

\* Unused queues stay empty, and the last loops come after run_flag fell.
LEMMA UsedStep ==
  ASSUME SeqTypes, SeqTypes', PlaceTypes, HandInv, UsedInv, [Next]_vars
  PROVE  UsedInv'
<1> USE QueueNames
<1>1. uses' = uses
  BY DEF Next, WorkerStep, Enter, Push, Exit, Cancel, StopBid, ServerThread,
         ServerLoop, ServerLast, SendLast, CountThread, CountLoop, CountLast,
         NewHour, LogThread, LogLoop, LogLast, vars
<1>2. \A k \in Queues \ uses' :
        added'[k] = << >> /\ \A w \in Workers : wpc'[w] # k
  <2> SUFFICES ASSUME NEW k \in Queues \ uses
               PROVE  added'[k] = << >> /\ \A w \in Workers : wpc'[w] # k
    BY <1>1
  <2>1. added[k] = << >> /\ \A w \in Workers : wpc[w] # k
    BY DEF UsedInv
  <2>2. k \notin {"request", "exited", "cancelled"}
    BY DEF Queues
  <2>3. ASSUME NEW w \in Workers, NEW j \in Queues, Push(w, j)
        PROVE  added'[k] = << >> /\ \A v \in Workers : wpc'[v] # k
    BY <2>1, <2>2, <2>3 DEF Push, PlaceTypes, SeqTypes
  <2>4. ASSUME NEW w \in Workers, NEW j \in Queues, Enter(w, j)
        PROVE  added'[k] = << >> /\ \A v \in Workers : wpc'[v] # k
    BY <2>1, <2>4 DEF Enter, PlaceTypes
  <2>5. ASSUME NEW w \in Workers, Exit(w) \/ Cancel(w)
        PROVE  added'[k] = << >> /\ \A v \in Workers : wpc'[v] # k
    BY <2>1, <2>2, <2>5 DEF Exit, Cancel, PlaceTypes
  <2>6. CASE UNCHANGED <<added, wpc>>
    BY <2>1, <2>6
  <2> QED BY <2>3, <2>4, <2>5, <2>6
          DEF Next, WorkerStep, StopBid, ServerThread, ServerLoop, ServerLast, SendLast,
              CountThread, CountLoop, CountLast, NewHour, LogThread, LogLoop,
              LogLast, vars
<1>3. CASE StopBid
  <2>1. ~run_flag' /\ added' = added /\ before' = [k \in Queues |-> Len(added[k])]
    BY <1>3 DEF StopBid
  <2>2. \A k \in Queues : before'[k] <= Len(added'[k])
    BY <2>1, ItemSequences
  <2> QED BY <1>2, <2>1, <2>2 DEF UsedInv
<1>4. CASE UNCHANGED <<run_flag, before>>
  <2>1. \A k \in Queues : before'[k] <= Len(added'[k])
    <3>1. \A k \in Queues : /\ before[k] \in Nat /\ before[k] <= Len(added[k])
                            /\ Len(added[k]) \in Nat /\ Len(added'[k]) \in Nat
      BY ItemSequences, LenProperties DEF UsedInv, PlaceTypes, SeqTypes
    <3> QED BY <1>4, <3>1, HistoriesGrow
  <2>2. ASSUME run_flag, NEW c \in Consumers
        PROVE  /\ cpc'[c] \notin {"last", "last_detail"}
               /\ cpc'[c] = "exited" => Served(c) \cap uses = {}
    <3>1. /\ \A d \in Consumers : cpc[d] \notin {"last", "last_detail"}
          /\ cpc[c] = "exited" => Served(c) \cap uses = {}
      BY <2>2 DEF UsedInv
    <3>2. CASE ServerThread
      BY <2>2, <3>1, <3>2 DEF ServerThread, ServerLoop, ServerLast, Test, Look, Sent,
                              PlaceTypes
    <3>3. CASE CountThread
      BY <2>2, <3>1, <3>3 DEF CountThread, CountLoop, CountLast, Test, PlaceTypes
    <3>4. CASE LogThread
      BY <2>2, <3>1, <3>4 DEF LogThread, LogLoop, LogLast, Test, PlaceTypes
    <3>5. CASE UNCHANGED cpc
      BY <3>1, <3>5
    <3> QED BY <3>2, <3>3, <3>4, <3>5
            DEF Next, WorkerStep, Enter, Push, Exit, Cancel, StopBid, NewHour, vars
  <2> QED BY <1>1, <1>2, <1>4, <2>1, <2>2 DEF UsedInv
<1> QED BY <1>3, <1>4
        DEF Next, WorkerStep, Enter, Push, Exit, Cancel, ServerThread, ServerLoop,
            ServerLast, SendLast, CountThread, CountLoop, CountLast, NewHour,
            LogThread, LogLoop, LogLast, vars

\* How much was added, came out, is held and waits.
LEMMA Lengths ==
  ASSUME SeqTypes, NothingVanishes, NEW k \in Queues
  PROVE  /\ Len(added[k]) = Len(out[k]) + Len(Taken(k)) + Len(q[k])
         /\ Len(Taken(k)) \in Nat
<1>1. /\ out[k] \in Seq(Items) /\ q[k] \in Seq(Items) /\ Taken(k) \in Seq(Items)
      /\ added[k] = (out[k] \o Taken(k)) \o q[k]
  BY ItemSequences, TakenTypes DEF NothingVanishes
<1>2. /\ out[k] \o Taken(k) \in Seq(Items)
      /\ Len(out[k] \o Taken(k)) = Len(out[k]) + Len(Taken(k))
  BY <1>1, ConcatProperties
<1>3. Len(added[k]) = Len(out[k] \o Taken(k)) + Len(q[k])
  BY <1>1, <1>2, ConcatProperties
<1> QED BY <1>1, <1>2, <1>3, LenProperties

\* The count that the exit of a thread promises, for one queue.
Enough(k) == Len(out[k]) >= before[k]

\* A queue from which nothing waits and nothing is held has delivered all.
EmptyEnough == \A k \in Queues : q[k] = << >> /\ Taken(k) = << >> => Enough(k)

LEMMA EmptyIsEnough ==
  SeqTypes /\ PlaceTypes /\ NothingVanishes /\ UsedInv => EmptyEnough
<1> SUFFICES ASSUME SeqTypes, PlaceTypes, NothingVanishes, UsedInv,
                    NEW k \in Queues, q[k] = << >>, Taken(k) = << >>
             PROVE  Enough(k)
  BY DEF EmptyEnough
<1>1. /\ Len(added[k]) = Len(out[k]) + Len(Taken(k)) + Len(q[k])
      /\ before[k] <= Len(added[k]) /\ before[k] \in Nat
      /\ Len(out[k]) \in Nat
  BY Lengths, ItemSequences DEF UsedInv, PlaceTypes
<1>2. Len(Taken(k)) = 0 /\ Len(q[k]) = 0
  BY EmptySeq
<1> QED BY <1>1, <1>2 DEF Enough

\* The exits of the threads keep their promise.
LEMMA DeliveredStep ==
  ASSUME SeqTypes, PlaceTypes, HandInv, UsedInv, NothingVanishes,
         SeqTypes', PlaceTypes', HandInv', UsedInv', NothingVanishes',
         LastInv, QueuedIsDelivered, [Next]_vars
  PROVE  (LastInv /\ QueuedIsDelivered)'
<1> USE QueueNames
<1>1. /\ cpc["server"] = "last_detail" /\ ~dosend => Enough("bid")
      /\ cpc["server"] = "exited" => Enough("bid") /\ Enough("detail")
      /\ cpc["count"] = "exited" => Enough("count")
      /\ cpc["log"] = "exited" /\ fd => 2 * Len(out["log"]) >= before["log"]
  BY DEF LastInv, QueuedIsDelivered, Enough
<1>2. SUFFICES /\ cpc'["server"] = "last_detail" /\ ~dosend' => Enough("bid")'
               /\ cpc'["server"] = "exited" => Enough("bid")' /\ Enough("detail")'
               /\ cpc'["count"] = "exited" => Enough("count")'
               /\ cpc'["log"] = "exited" /\ fd' => 2 * Len(out'["log"]) >= before'["log"]
  BY DEF LastInv, QueuedIsDelivered, Enough
<1>3. \A k \in Queues : /\ Len(out[k]) \in Nat /\ before[k] \in Nat
                        /\ Len(out'[k]) \in Nat /\ before'[k] \in Nat
                        /\ Len(out'[k]) >= Len(out[k])
  BY ItemSequences, HistoriesGrow, LenProperties DEF PlaceTypes, SeqTypes
<1>4. UNCHANGED before => \A k \in Queues : Enough(k) => Enough(k)'
  BY <1>3 DEF Enough
<1>5. UNCHANGED before /\ 2 * Len(out["log"]) >= before["log"]
        => 2 * Len(out'["log"]) >= before'["log"]
  BY <1>3
<1>a. \A k \in Queues : q'[k] = << >> /\ Taken(k)' = << >> => Enough(k)'
  <2>1. (SeqTypes /\ PlaceTypes /\ NothingVanishes /\ UsedInv)' => EmptyEnough'
    BY EmptyIsEnough, PTL
  <2> QED BY <2>1 DEF EmptyEnough
<1>6. CASE StopBid
  <2>1. /\ run_flag /\ UNCHANGED <<cpc, out, added, fd>>
        /\ before' = [k \in Queues |-> Len(added[k])]
    BY <1>6 DEF StopBid
  <2>2. \A k \in Queues \ uses : before'[k] = 0
    BY <2>1, EmptySeq DEF UsedInv
  <2>3. \A c \in Consumers : /\ cpc[c] \notin {"last", "last_detail"}
                             /\ cpc[c] = "exited" => Served(c) \cap uses = {}
    BY <2>1 DEF UsedInv
  <2>4. /\ cpc["server"] = "exited" => before'["bid"] = 0 /\ before'["detail"] = 0
        /\ cpc["count"] = "exited" => before'["count"] = 0
        /\ cpc["log"] = "exited" => before'["log"] = 0
    BY <2>2, <2>3 DEF Served
  <2> QED BY <1>3, <2>1, <2>3, <2>4 DEF Enough
<1>7. CASE ServerLoop
  <2>1. /\ UNCHANGED <<before, fd>>
        /\ cpc'["server"] \notin {"last_detail", "exited"}
        /\ cpc'["count"] = cpc["count"] /\ cpc'["log"] = cpc["log"]
    <3>1. UNCHANGED <<before, fd>>
      BY <1>7 DEF ServerLoop
    <3>2. \E p \in {"loop", "bid", "detail", "send_bid", "send_detail", "last"} :
            cpc' = [cpc EXCEPT !["server"] = p]
      BY <1>7 DEF ServerLoop, Test, Look, Sent
    <3> QED BY <3>1, <3>2 DEF PlaceTypes
  <2> QED BY <1>1, <1>4, <1>5, <2>1
<1>8. CASE ServerLast
  <2>1. /\ UNCHANGED <<before, fd>>
        /\ cpc'["count"] = cpc["count"] /\ cpc'["log"] = cpc["log"]
    BY <1>8 DEF ServerLast, SendLast, PlaceTypes
  <2>2. ASSUME cpc'["server"] = "last_detail", ~dosend'
        PROVE  Enough("bid")'
    <3>1. q'["bid"] = << >>
      BY <1>8, <2>2 DEF ServerLast, SendLast, PlaceTypes, SeqTypes
    <3>2. Taken("bid")' = << >>
      BY DEF Taken
    <3> QED BY <3>1, <3>2, <1>a
  <2>3. ASSUME cpc'["server"] = "exited"
        PROVE  Enough("bid")' /\ Enough("detail")'
    <3>1. cpc["server"] = "last_detail" /\ ~dosend /\ q'["detail"] = << >>
      BY <1>8, <2>3 DEF ServerLast, SendLast, PlaceTypes, SeqTypes
    <3>2. Taken("detail")' = << >>
      BY DEF Taken
    <3>3. Enough("detail")'
      BY <3>1, <3>2, <1>a
    <3>4. Enough("bid")'
      BY <1>1, <1>4, <2>1, <3>1
    <3> QED BY <3>3, <3>4
  <2> QED BY <1>1, <1>4, <1>5, <2>1, <2>2, <2>3
<1>9. CASE CountThread
  <2>1. /\ UNCHANGED <<before, fd, dosend>>
        /\ cpc'["server"] = cpc["server"] /\ cpc'["log"] = cpc["log"]
    BY <1>9 DEF CountThread, CountLoop, CountLast, Test, PlaceTypes
  <2>2. ASSUME cpc'["count"] = "exited"
        PROVE  Enough("count")'
    <3>1. CountLast
      BY <1>9, <2>2 DEF CountThread, CountLoop, Test, PlaceTypes
    <3>2. q'["count"] = << >> /\ hand'["count"] = << >>
      BY <3>1 DEF CountLast, HandInv, SeqTypes
    <3>3. Taken("count")' = << >>
      BY <3>2 DEF Taken
    <3> QED BY <3>2, <3>3, <1>a
  <2> QED BY <1>1, <1>4, <1>5, <2>1, <2>2
<1>10. CASE LogThread
  <2>1. /\ UNCHANGED <<before, dosend>>
        /\ cpc'["server"] = cpc["server"] /\ cpc'["count"] = cpc["count"]
    BY <1>10 DEF LogThread, LogLoop, LogLast, Test, PlaceTypes
  <2>2. ASSUME cpc'["log"] = "exited", fd'
        PROVE  2 * Len(out'["log"]) >= before'["log"]
    <3> DEFINE s == q["log"]
               n == Drained(Len(s))
    <3>1. LogLast
      BY <1>10, <2>2 DEF LogThread, LogLoop, Test, PlaceTypes
    <3>2. /\ hand["log"] = << >> /\ out'["log"] = out["log"] \o SubSeq(s, 1, n)
          /\ added' = added
      BY <2>2, <3>1 DEF LogLast, HandInv, SeqTypes
    <3>3. /\ s \in Seq(Items) /\ out["log"] \in Seq(Items)
          /\ n \in 0 .. Len(s) /\ n \in Nat /\ 2 * n >= Len(s)
          /\ Len(s) \in Nat /\ Len(out["log"]) \in Nat
      BY ItemSequences, BatchTypes
    <3> HIDE DEF n
    <3>4. SubSeq(s, 1, n) \in Seq(Items) /\ Len(SubSeq(s, 1, n)) = n
      BY <3>3, SplitSequence
    <3>5. Len(out'["log"]) = Len(out["log"]) + n
      <4>1. Len(out["log"] \o SubSeq(s, 1, n)) = Len(out["log"]) + Len(SubSeq(s, 1, n))
        BY <3>3, <3>4, ConcatProperties
      <4> QED BY <3>2, <3>4, <4>1
    <3>6. Len(added["log"]) = Len(out["log"]) + Len(Taken("log")) + Len(s)
      BY Lengths
    <3>7. Len(Taken("log")) = 0
      BY <3>2, EmptySeq DEF Taken
    <3>8. before'["log"] <= Len(added["log"]) /\ before'["log"] \in Nat
      BY <3>2 DEF UsedInv, PlaceTypes
    <3> DEFINE len == Len(s)
               done == Len(out["log"])
               sum == Len(added["log"])
               bound == before'["log"]
    <3>9. /\ len \in Nat /\ done \in Nat /\ n \in Nat /\ bound \in Nat
          /\ 2 * n >= len /\ sum = done + 0 + len /\ bound <= sum
      BY <3>3, <3>6, <3>7, <3>8
    <3> HIDE DEF len, done, sum, bound, s
    <3>10. 2 * (done + n) >= bound
      BY <3>9
    <3> QED BY <3>5, <3>10 DEF done, bound
  <2> QED BY <1>1, <1>4, <2>1, <2>2
<1>11. CASE UNCHANGED <<cpc, before, dosend>> /\ (fd' => fd)
  BY <1>1, <1>4, <1>5, <1>11
<1> QED BY <1>6, <1>7, <1>8, <1>9, <1>10, <1>11
        DEF Next, WorkerStep, Enter, Push, Exit, Cancel, NewHour, ServerThread, vars

\* A thread that has exited has delivered everything that had been added when
\* run_flag fell; LocalLog at least half of it, when it had a file open.  This
\* holds wherever the workers are cancelled and however long they go on adding.
THEOREM ExitsDeliver == Spec => []QueuedIsDelivered
<1>1. Init => UsedInv /\ LastInv /\ QueuedIsDelivered
  <2> SUFFICES ASSUME Init PROVE UsedInv /\ LastInv /\ QueuedIsDelivered
    OBVIOUS
  <2>1. \A k \in Queues : /\ before[k] = 0 /\ added[k] = << >>
                          /\ Len(out[k]) = 0 /\ Len(added[k]) = 0
    BY EmptySeq DEF Init
  <2>2. \A w \in Workers, k \in Queues : wpc[w] # k
    BY DEF Init, Queues
  <2>3. \A c \in Consumers : /\ cpc[c] \notin {"last", "last_detail"}
                             /\ cpc[c] = "exited" => Served(c) \cap uses = {}
    BY DEF Init
  <2> QED BY <2>1, <2>2, <2>3, QueueNames DEF UsedInv, LastInv, QueuedIsDelivered
<1> DEFINE Inv == TypeOK /\ HandInv /\ NothingVanishes
<1>2. Inv /\ Inv' /\ UsedInv /\ [Next]_vars => UsedInv'
  BY UsedStep, TypeParts
<1>3. Inv /\ Inv' /\ UsedInv /\ UsedInv' /\ LastInv /\ QueuedIsDelivered /\ [Next]_vars
        => (LastInv /\ QueuedIsDelivered)'
  BY DeliveredStep, TypeParts
<1>4. Spec => []Inv
  BY TypeCorrect, ItemsAreConserved, PTL
<1> HIDE DEF Inv
<1> QED BY <1>1, <1>2, <1>3, <1>4, PTL DEF Spec

==============================================================================
