--------------------------- MODULE KpiCountProofs ----------------------------
(* Delivery control: what the counters hold in all, and what uniform        *)
(* delivery lets through in ten minutes.                                    *)
EXTENDS KpiControlProofs

------------------------------------------------------------------------------
(* What the invariants speak of.                                            *)

\* The threads that found control data and have yet to count their event at a
\* level, and those that have been there.
ToCount(l, m) ==
  {t \in Threads : step[t] \in 2 .. CountAt(l, Counted(m)) /\ ev[t].m = m}
HasCounted(l, m) ==
  {t \in Threads : step[t] > CountAt(l, Counted(m)) /\ ev[t].m = m}

\* Every event that was begun is still to be counted, or was counted or lost;
\* every one that is past its count was counted or cost a failure.
TallyInv ==
  \A l \in Levels, m \in {"i", "c"} :
    /\ IsFiniteSet(Tally(l, Counted(m)))
    /\ Cardinality(Tally(l, Counted(m))) + Cardinality(ToCount(l, m)) <= begun[m]
    /\ finished[m] + Cardinality(HasCounted(l, m))
         <= Cardinality(Tally(l, Counted(m))) + fails

\* The policy's impressions today, and those since the segment began.
Imps == cnt[Day][<<"p", "imp">>]
Burst == Imps - base

\* The policy is delivered uniformly towards a target of impressions alone.
UniformPolicy ==
  setting["p"].uniform /\ setting["p"].imp > 0 /\ Limit(setting["p"].clk) = -1

\* The share of the segment, from what was missing when it began, and what it
\* may count before the share is reached.
SegShare == CeilDiv(setting["p"].imp - base, Share(setting["p"]))
Quota == IF SegShare > 1 THEN SegShare - 1 ELSE 0

\* The policy is paused for the rest of this segment.
Held == Paused("p") /\ pause["p"].until > seg

\* The threads that have an event and have yet to count it for the day, those
\* that counted an impression of this segment for the day and not yet in the
\* hash of the segment, and those that will find the share reached.
OnTheWay == {t \in Threads : step[t] \in 1 .. 3}
OfSegment(t) == ev[t].m = "i" /\ got[t][<<"p", "imp">>] > base
Counting == {t \in Threads : step[t] \in 4 .. 6 /\ OfSegment(t)}
Stopping ==
  {t \in Threads : /\ step[t] \in 4 .. 12 /\ OfSegment(t)
                   /\ step[t] >= 7 => got[t][<<"m", "imp">>] >= SegShare}

\* Every impression of the segment is in its hash or will be, and every one
\* beyond the quota is one that a thread will pause the policy for or, once it
\* is paused, one that was on its way or late.
Rate ==
  /\ base <= Imps
  /\ Burst <= ten[Split]["imp"] + Cardinality(Counting)
  /\ Held => Burst + Cardinality(OnTheWay) <= Quota + Cardinality(Threads) + late
  /\ ~Held => Burst <= Quota + Cardinality(Stopping)

RateInv == Calm /\ UniformPolicy => Rate

------------------------------------------------------------------------------
(* How many events the days have counted.                                   *)

LEMMA TallyKept ==
  ASSUME NEW l \in Levels, NEW k \in TenKeys,
         \A d \in Days : cnt'[d][<<l, k>>] = cnt[d][<<l, k>>]
  PROVE  Tally(l, k)' = Tally(l, k)
BY DEF Tally, Days

\* One more event on one day is one more event in all.
LEMMA TallyGrows ==
  ASSUME TypeOK, NEW l \in Levels, NEW k \in TenKeys, IsFiniteSet(Tally(l, k)),
         \A d \in Days : d # Day => cnt'[d][<<l, k>>] = cnt[d][<<l, k>>],
         cnt'[Day][<<l, k>>] = cnt[Day][<<l, k>>] + 1
  PROVE  /\ IsFiniteSet(Tally(l, k)')
         /\ Cardinality(Tally(l, k)') = Cardinality(Tally(l, k)) + 1
<1> DEFINE T == Tally(l, k)
           U == Tally(l, k)'
           n == cnt[Day][<<l, k>>]
           x == <<Day, n + 1>>
<1>1. Day \in Days /\ n \in Nat
  BY OverrunTypes
<1>2. \A p : p \in T <=> \E d \in Days : p \in {d} \X (1 .. cnt[d][<<l, k>>])
  BY DEF Tally
<1>3. \A p : p \in U <=> \E d \in Days : p \in {d} \X (1 .. cnt'[d][<<l, k>>])
  BY DEF Tally, Days
<1>4. 1 .. n + 1 = (1 .. n) \cup {n + 1} /\ n + 1 \notin 1 .. n
  BY <1>1
<1> HIDE DEF T, U, n
<1>5. {Day} \X (1 .. n + 1) = ({Day} \X (1 .. n)) \cup {x}
  BY <1>4
<1>6. \A d \in Days : {d} \X (1 .. cnt'[d][<<l, k>>])
                        = IF d = Day THEN ({Day} \X (1 .. n)) \cup {x}
                          ELSE {d} \X (1 .. cnt[d][<<l, k>>])
  BY <1>5 DEF n
<1>7. U = T \cup {x}
  BY <1>1, <1>2, <1>3, <1>6 DEF n
<1>8. x \notin T
  BY <1>2, <1>4 DEF n
<1>9. IsFiniteSet(T)
  BY DEF T
<1>10. IsFiniteSet(U) /\ Cardinality(U) = Cardinality(T) + 1
  BY <1>7, <1>8, <1>9, FS_AddElement
<1> QED BY <1>10 DEF T, U

\* What a command does to the counters of a level, when it fails too.
LEMMA CountOrFail ==
  ASSUME TypeOK, NEW t \in Threads, Count(t), NEW l \in Levels, NEW k \in TenKeys
  PROVE  /\ step[t] \in 2 .. 9 /\ step' = [step EXCEPT ![t] = step[t] + 1]
         /\ ev' = ev /\ begun' = begun /\ finished' = finished
         /\ fails' \in {fails, fails + 1}
         /\ \A d \in Days : d # Day => cnt'[d][<<l, k>>] = cnt[d][<<l, k>>]
         /\ step[t] # CountAt(l, k) => cnt'[Day][<<l, k>>] = cnt[Day][<<l, k>>]
         /\ step[t] = CountAt(l, k) =>
              \/ cnt'[Day][<<l, k>>] = cnt[Day][<<l, k>>] + Delta(ev[t], <<l, k>>)
              \/ cnt'[Day][<<l, k>>] = cnt[Day][<<l, k>>] /\ fails' = fails + 1
<1> DEFINE c == CountCommands[step[t] - 1]
           v == Value(c) + Delta(ev[t], c)
           e == <<l, k>>
<1>1. step[t] \in 2 .. 9 /\ step' = [step EXCEPT ![t] = step[t] + 1]
  BY DEF Count
<1>2. ev' = ev /\ begun' = begun /\ finished' = finished
  BY DEF Count
<1>3. /\ (Store(c, v) /\ fails' = fails)
           \/ (fails' = fails + 1 /\ (Store(c, v) \/ cnt' = cnt))
  BY DEF Count
<1>4. Day \in Days /\ cnt \in [Days -> [DayKeys -> Nat]] /\ e \in DayKeys
  BY ClockFacts DEF TypeOK, DayKeys, TenKeys
<1>5. /\ c[1] # "m" => c \in DayKeys
      /\ c = e <=> step[t] = CountAt(l, k)
  BY <1>1, KeyFacts
<1>6. e[1] # "m"
  BY DEF Levels
<1>7. c = e => v = cnt[Day][e] + Delta(ev[t], e)
  BY <1>6 DEF Value
<1>8. \A d \in Days : d # Day => cnt'[d][e] = cnt[d][e]
  BY <1>4, CountToday
<1>9. Store(c, v) => cnt'[Day][e] = IF c = e THEN v ELSE cnt[Day][e]
  <2> SUFFICES ASSUME Store(c, v)
               PROVE  cnt'[Day][e] = IF c = e THEN v ELSE cnt[Day][e]
    OBVIOUS
  <2>1. CASE c[1] = "m"
    BY <1>6, <2>1 DEF Store
  <2>2. CASE c[1] # "m"
    <3>1. cnt' = [cnt EXCEPT ![Day][c] = v]
      BY <2>2 DEF Store
    <3> HIDE DEF c, v, e
    <3> QED BY <1>4, <1>5, <2>2, <3>1
  <2> QED BY <2>1, <2>2
<1> HIDE DEF c, v
<1>10. c # e => cnt'[Day][e] = cnt[Day][e]
  BY <1>3, <1>9
<1>11. c = e => \/ cnt'[Day][e] = cnt[Day][e] + Delta(ev[t], e)
                \/ cnt'[Day][e] = cnt[Day][e] /\ fails' = fails + 1
  BY <1>3, <1>7, <1>9
<1> QED BY <1>1, <1>2, <1>3, <1>5, <1>8, <1>10, <1>11

\* A step that counts nothing keeps the two inequalities when no thread comes
\* to the ones they speak of.
LEMMA TallyIdle ==
  ASSUME TypeOK, TypeOK', TallyInv, NEW l \in Levels, NEW m \in {"i", "c"},
         cnt' = cnt, fails' \in {fails, fails + 1},
         begun'[m] = begun[m], finished'[m] = finished[m],
         ToCount(l, m)' \subseteq ToCount(l, m),
         HasCounted(l, m)' \subseteq HasCounted(l, m)
  PROVE  /\ IsFiniteSet(Tally(l, Counted(m))')
         /\ Cardinality(Tally(l, Counted(m))') + Cardinality(ToCount(l, m)') <= begun'[m]
         /\ finished'[m] + Cardinality(HasCounted(l, m)')
              <= Cardinality(Tally(l, Counted(m))') + fails'
<1> DEFINE k == Counted(m)
           T == Tally(l, k)
           A == ToCount(l, m)
           B == HasCounted(l, m)
<1>1. k \in TenKeys
  BY DEF Counted, TenKeys
<1>2. Tally(l, k)' = T
  BY <1>1, TallyKept
<1>3. /\ IsFiniteSet(T) /\ Cardinality(T) + Cardinality(A) <= begun[m]
      /\ finished[m] + Cardinality(B) <= Cardinality(T) + fails
  BY DEF TallyInv
<1>4. /\ A \in SUBSET Threads /\ B \in SUBSET Threads
      /\ A' \in SUBSET Threads /\ B' \in SUBSET Threads
  BY DEF ToCount, HasCounted
<1>5. Cardinality(A') <= Cardinality(A) /\ Cardinality(B') <= Cardinality(B)
  BY <1>4, ThreadCounts
<1>6. /\ Cardinality(A') \in Nat /\ Cardinality(B') \in Nat
      /\ Cardinality(A) \in Nat /\ Cardinality(B) \in Nat
  BY <1>4, ThreadCounts
<1>7. Cardinality(T) \in Nat
  BY <1>3, FS_CardinalityType
<1>8. begun[m] \in Nat /\ finished[m] \in Nat /\ fails \in Nat
  BY DEF TypeOK
<1> HIDE DEF T, A, B
<1>9. Cardinality(T) + Cardinality(A') <= begun[m]
  BY <1>3, <1>5, <1>6, <1>7, <1>8
<1>10. finished[m] + Cardinality(B') <= Cardinality(T) + fails'
  BY <1>3, <1>5, <1>6, <1>7, <1>8
<1> QED BY <1>2, <1>3, <1>9, <1>10 DEF T, A, B

\* A thread that is at its count leaves those that have yet to count and joins
\* those that have been there; the counter grows or a command failed.
LEMMA TallyCount ==
  ASSUME TypeOK, TypeOK', TallyInv, NEW l \in Levels, NEW m \in {"i", "c"},
         NEW t \in Threads, Count(t)
  PROVE  /\ IsFiniteSet(Tally(l, Counted(m))')
         /\ Cardinality(Tally(l, Counted(m))') + Cardinality(ToCount(l, m)') <= begun'[m]
         /\ finished'[m] + Cardinality(HasCounted(l, m)')
              <= Cardinality(Tally(l, Counted(m))') + fails'
<1> DEFINE k == Counted(m)
           T == Tally(l, k)
           U == T'
           A == ToCount(l, m)
           B == HasCounted(l, m)
           C == A'
           D == B'
<1>1. k \in TenKeys /\ CountAt(l, k) \in 2 .. 5
  BY OverrunTypes DEF Counted, TenKeys
<1>2. /\ step[t] \in 2 .. 9 /\ step' = [step EXCEPT ![t] = step[t] + 1]
      /\ ev' = ev /\ begun' = begun /\ finished' = finished
      /\ fails' \in {fails, fails + 1}
      /\ \A d \in Days : d # Day => cnt'[d][<<l, k>>] = cnt[d][<<l, k>>]
      /\ step[t] # CountAt(l, k) => cnt'[Day][<<l, k>>] = cnt[Day][<<l, k>>]
      /\ step[t] = CountAt(l, k) =>
           \/ cnt'[Day][<<l, k>>] = cnt[Day][<<l, k>>] + Delta(ev[t], <<l, k>>)
           \/ cnt'[Day][<<l, k>>] = cnt[Day][<<l, k>>] /\ fails' = fails + 1
  BY <1>1, CountOrFail
<1>3. /\ step'[t] = step[t] + 1 /\ \A s \in Threads : s # t => step'[s] = step[s]
      /\ \A s \in Threads : step[s] \in 0 .. 13
  BY <1>2 DEF TypeOK
<1>4. /\ A \in SUBSET Threads /\ B \in SUBSET Threads
      /\ C \in SUBSET Threads /\ D \in SUBSET Threads
  BY DEF ToCount, HasCounted
<1>5. /\ IsFiniteSet(T) /\ Cardinality(T) + Cardinality(A) <= begun[m]
      /\ finished[m] + Cardinality(B) <= Cardinality(T) + fails
  BY DEF TallyInv
<1>6. /\ Cardinality(A) \in Nat /\ Cardinality(B) \in Nat
      /\ Cardinality(C) \in Nat /\ Cardinality(D) \in Nat
  BY <1>4, ThreadCounts
<1>7. Cardinality(T) \in Nat
  BY <1>5, FS_CardinalityType
<1>8. begun[m] \in Nat /\ finished[m] \in Nat /\ fails \in Nat
  BY DEF TypeOK
<1>9. cnt[Day][<<l, k>>] \in Nat /\ Day \in Days
  BY <1>1, OverrunTypes
<1>10. CASE step[t] = CountAt(l, k) /\ ev[t].m = m
  <2>1. Delta(ev[t], <<l, k>>) = 1
    <3>1. ev[t] \in Events \cup {NoEvent}
      BY DEF TypeOK
    <3>2. Delta(ev[t], <<l, k>>) = IF Counted(ev[t].m) = k /\ ev[t].m \in {"i", "c"} THEN 1 ELSE 0
      BY <1>1, <3>1, DeltaFacts DEF TenKeys
    <3> QED BY <1>10, <3>2
  <2>2. t \in A /\ t \notin C /\ C \subseteq A
    BY <1>1, <1>2, <1>3, <1>10 DEF ToCount
  <2>3. D \subseteq B \cup {t}
    BY <1>1, <1>2, <1>3, <1>10 DEF HasCounted
  <2>4. Cardinality(C) + 1 <= Cardinality(A)
    BY <1>4, <2>2, ThreadCounts
  <2>5. Cardinality(D) <= Cardinality(B) + 1
    BY <1>4, <2>3, ThreadCounts
  <2>6. CASE cnt'[Day][<<l, k>>] = cnt[Day][<<l, k>>] + 1
    <3>1. IsFiniteSet(U) /\ Cardinality(U) = Cardinality(T) + 1
      BY <1>1, <1>2, <1>5, <2>6, TallyGrows
    <3> HIDE DEF A, B, C, D, T, U
    <3>2. Cardinality(U) + Cardinality(C) <= begun[m]
      BY <1>5, <1>6, <1>7, <1>8, <2>4, <3>1
    <3>3. finished[m] + Cardinality(D) <= Cardinality(U) + fails'
      BY <1>2, <1>5, <1>6, <1>7, <1>8, <2>5, <3>1
    <3> QED BY <1>2, <3>1, <3>2, <3>3 DEF A, B, C, D, T, U
  <2>7. CASE cnt'[Day][<<l, k>>] = cnt[Day][<<l, k>>] /\ fails' = fails + 1
    <3>1. \A d \in Days : cnt'[d][<<l, k>>] = cnt[d][<<l, k>>]
      BY <1>2, <2>7
    <3>2. U = T
      BY <1>1, <3>1, TallyKept
    <3> HIDE DEF A, B, C, D, T, U
    <3>3. Cardinality(U) + Cardinality(C) <= begun[m]
      BY <1>5, <1>6, <1>7, <1>8, <2>4, <3>2
    <3>4. finished[m] + Cardinality(D) <= Cardinality(U) + fails'
      BY <1>5, <1>6, <1>7, <1>8, <2>5, <2>7, <3>2
    <3> QED BY <1>2, <1>5, <3>2, <3>3, <3>4 DEF A, B, C, D, T, U
  <2> QED BY <1>2, <1>10, <2>1, <2>6, <2>7
<1>11. CASE ~(step[t] = CountAt(l, k) /\ ev[t].m = m)
  <2>1. cnt'[Day][<<l, k>>] = cnt[Day][<<l, k>>]
    <3>1. CASE step[t] = CountAt(l, k)
      <4>1. ev[t] \in Events \cup {NoEvent}
        BY DEF TypeOK
      <4>2. Delta(ev[t], <<l, k>>) = IF Counted(ev[t].m) = k /\ ev[t].m \in {"i", "c"} THEN 1 ELSE 0
        BY <1>1, <4>1, DeltaFacts DEF TenKeys
      <4>3. Delta(ev[t], <<l, k>>) = 0
        BY <1>11, <3>1, <4>2 DEF Counted
      <4> QED BY <1>2, <1>9, <3>1, <4>3
    <3>2. CASE step[t] # CountAt(l, k)
      BY <1>2, <3>2
    <3> QED BY <3>1, <3>2
  <2>2. \A d \in Days : cnt'[d][<<l, k>>] = cnt[d][<<l, k>>]
    BY <1>2, <2>1
  <2>3. U = T
    BY <1>1, <2>2, TallyKept
  <2>4. C \subseteq A /\ D \subseteq B
    BY <1>1, <1>2, <1>3, <1>11 DEF ToCount, HasCounted
  <2>5. Cardinality(C) <= Cardinality(A) /\ Cardinality(D) <= Cardinality(B)
    BY <1>4, <2>4, ThreadCounts
  <2> HIDE DEF A, B, C, D, T, U
  <2>6. Cardinality(U) + Cardinality(C) <= begun[m]
    BY <1>5, <1>6, <1>7, <1>8, <2>3, <2>5
  <2>7. finished[m] + Cardinality(D) <= Cardinality(U) + fails'
    BY <1>2, <1>5, <1>6, <1>7, <1>8, <2>3, <2>5
  <2> QED BY <1>2, <1>5, <2>3, <2>6, <2>7 DEF A, B, C, D, T, U
<1> QED BY <1>10, <1>11

\* An event that found control data is one more to be counted.
LEMMA TallyFound ==
  ASSUME TypeOK, TypeOK', TallyInv, NEW l \in Levels, NEW m \in {"i", "c"},
         NEW t \in Threads, step[t] = 1, step' = [step EXCEPT ![t] = 2],
         begun' = [begun EXCEPT ![ev[t].m] = @ + 1],
         UNCHANGED <<cnt, ev, fails, finished>>
  PROVE  /\ IsFiniteSet(Tally(l, Counted(m))')
         /\ Cardinality(Tally(l, Counted(m))') + Cardinality(ToCount(l, m)') <= begun'[m]
         /\ finished'[m] + Cardinality(HasCounted(l, m)')
              <= Cardinality(Tally(l, Counted(m))') + fails'
<1>1. CountAt(l, Counted(m)) \in 2 .. 5 /\ Counted(m) \in TenKeys
  BY OverrunTypes DEF Counted, TenKeys
<1>2. step'[t] = 2 /\ \A s \in Threads : s # t => step'[s] = step[s]
  BY DEF TypeOK
<1>3. HasCounted(l, m)' = HasCounted(l, m)
  BY <1>1, <1>2 DEF HasCounted
<1>4. CASE ev[t].m # m
  <2>1. ToCount(l, m)' = ToCount(l, m)
    BY <1>1, <1>2, <1>4 DEF ToCount
  <2>2. begun'[m] = begun[m]
    BY <1>4 DEF TypeOK
  <2>3. fails' \in {fails, fails + 1}
    OBVIOUS
  <2> QED BY <1>3, <2>1, <2>2, <2>3, TallyIdle
<1>5. CASE ev[t].m = m
  <2> DEFINE T == Tally(l, Counted(m))
             A == ToCount(l, m)
             C == A'
  <2>1. C \subseteq A \cup {t}
    BY <1>1, <1>2, <1>5 DEF ToCount
  <2>2. A \in SUBSET Threads /\ C \in SUBSET Threads
    BY DEF ToCount
  <2>3. /\ Cardinality(A) \in Nat /\ Cardinality(C) \in Nat
        /\ Cardinality(C) <= Cardinality(A) + 1
    BY <2>1, <2>2, ThreadCounts
  <2>4. /\ IsFiniteSet(T) /\ Cardinality(T) + Cardinality(A) <= begun[m]
        /\ finished[m] + Cardinality(HasCounted(l, m)) <= Cardinality(T) + fails
    BY DEF TallyInv
  <2>5. Cardinality(T) \in Nat /\ begun[m] \in Nat
    BY <2>4, FS_CardinalityType DEF TypeOK
  <2>6. begun'[m] = begun[m] + 1
    BY <1>5 DEF TypeOK
  <2>7. T' = T
    BY <1>1, TallyKept
  <2> HIDE DEF T, A, C
  <2>8. Cardinality(T) + Cardinality(C) <= begun'[m]
    BY <2>3, <2>4, <2>5, <2>6
  <2> QED BY <1>3, <2>4, <2>7, <2>8 DEF T, A, C
<1> QED BY <1>4, <1>5

\* An event that is finished was past its count.
LEMMA TallyDone ==
  ASSUME TypeOK, TypeOK', TallyInv, NEW l \in Levels, NEW m \in {"i", "c"},
         NEW t \in Threads, step[t] \in 12 .. 13, Finish(t),
         fails' \in {fails, fails + 1}, UNCHANGED <<cnt, begun>>
  PROVE  /\ IsFiniteSet(Tally(l, Counted(m))')
         /\ Cardinality(Tally(l, Counted(m))') + Cardinality(ToCount(l, m)') <= begun'[m]
         /\ finished'[m] + Cardinality(HasCounted(l, m)')
              <= Cardinality(Tally(l, Counted(m))') + fails'
<1>1. CountAt(l, Counted(m)) \in 2 .. 5 /\ Counted(m) \in TenKeys
  BY OverrunTypes DEF Counted, TenKeys
<1>2. step'[t] = 0 /\ \A s \in Threads : s # t => step'[s] = step[s] /\ ev'[s] = ev[s]
  BY DEF TypeOK, Finish, Return, Idle
<1>3. ToCount(l, m)' \subseteq ToCount(l, m) /\ HasCounted(l, m)' \subseteq HasCounted(l, m)
  BY <1>1, <1>2 DEF ToCount, HasCounted
<1>4. CASE ev[t].m # m
  <2>1. finished'[m] = finished[m]
    BY <1>4 DEF TypeOK, Finish
  <2> QED BY <1>3, <2>1, TallyIdle
<1>5. CASE ev[t].m = m
  <2> DEFINE T == Tally(l, Counted(m))
             A == ToCount(l, m)
             B == HasCounted(l, m)
             C == A'
             D == B'
  <2>1. t \in B /\ t \notin D
    BY <1>1, <1>2, <1>5 DEF HasCounted
  <2>2. /\ A \in SUBSET Threads /\ B \in SUBSET Threads
        /\ C \in SUBSET Threads /\ D \in SUBSET Threads
    BY DEF ToCount, HasCounted
  <2>3. /\ Cardinality(A) \in Nat /\ Cardinality(B) \in Nat
        /\ Cardinality(C) \in Nat /\ Cardinality(D) \in Nat
    BY <2>2, ThreadCounts
  <2>4. Cardinality(C) <= Cardinality(A)
    BY <1>3, <2>2, ThreadCounts
  <2>5. Cardinality(D) + 1 <= Cardinality(B)
    BY <1>3, <2>1, <2>2, ThreadCounts
  <2>6. /\ IsFiniteSet(T) /\ Cardinality(T) + Cardinality(A) <= begun[m]
        /\ finished[m] + Cardinality(B) <= Cardinality(T) + fails
    BY DEF TallyInv
  <2>7. Cardinality(T) \in Nat /\ begun[m] \in Nat /\ finished[m] \in Nat /\ fails \in Nat
    BY <2>6, FS_CardinalityType DEF TypeOK
  <2>8. finished'[m] = finished[m] + 1
    BY <1>5 DEF TypeOK, Finish
  <2>9. T' = T
    BY <1>1, TallyKept
  <2> HIDE DEF T, A, B, C, D
  <2>10. Cardinality(T) + Cardinality(C) <= begun[m]
    BY <2>3, <2>4, <2>6, <2>7
  <2>11. finished'[m] + Cardinality(D) <= Cardinality(T) + fails'
    BY <2>3, <2>5, <2>6, <2>7, <2>8
  <2> QED BY <2>6, <2>9, <2>10, <2>11 DEF T, A, B, C, D
<1> QED BY <1>4, <1>5

LEMMA FailsStep ==
  ASSUME [Next]_vars
  PROVE  fails' \in {fails, fails + 1}
BY DEF Next, vars, Tick, ExpirePause, EditSetting, ListPolicy, Crash, ThreadStep,
       Begin, GetPolicyControl, Count, ExpireTen, KpiCampaign, KpiPolicy,
       RemovePolicyId, ReloadStep,
       LoadCampaignControl, LoadPolicyControl, LoadFail, CheckGuard, CheckGet,
       CheckAct, Publish, SetPause, LoadControl

LEMMA TallyStep == TypeOK /\ TallyInv /\ [Next]_vars => TallyInv'
<1> SUFFICES ASSUME TypeOK, TallyInv, [Next]_vars, NEW l \in Levels, NEW m \in {"i", "c"}
             PROVE  /\ IsFiniteSet(Tally(l, Counted(m))')
                    /\ Cardinality(Tally(l, Counted(m))') + Cardinality(ToCount(l, m)')
                         <= begun'[m]
                    /\ finished'[m] + Cardinality(HasCounted(l, m)')
                         <= Cardinality(Tally(l, Counted(m))') + fails'
  BY DEF TallyInv
<1> USE DEF clock, platform, counters, thread, reload, bounds, history
<1>1. TypeOK' /\ fails' \in {fails, fails + 1}
  BY TypeStep, FailsStep
<1>2. step \in [Threads -> 0 .. 13] /\ CountAt(l, Counted(m)) \in 2 .. 5
  BY OverrunTypes DEF TypeOK, Counted, TenKeys
<1>3. ASSUME UNCHANGED <<cnt, begun, finished>>,
             \A s \in Threads : step'[s] = 0 \/ (step'[s] = 1 /\ step[s] = 0)
                                  \/ (step'[s] = step[s] /\ ev'[s] = ev[s])
                                  \/ (step[s] \in 10 .. 12 /\ step'[s] > 10 /\ ev'[s] = ev[s])
      PROVE  /\ IsFiniteSet(Tally(l, Counted(m))')
             /\ Cardinality(Tally(l, Counted(m))') + Cardinality(ToCount(l, m)') <= begun'[m]
             /\ finished'[m] + Cardinality(HasCounted(l, m)')
                  <= Cardinality(Tally(l, Counted(m))') + fails'
  <2>1. ToCount(l, m)' \subseteq ToCount(l, m)
    BY <1>2, <1>3 DEF ToCount
  <2>2. HasCounted(l, m)' \subseteq HasCounted(l, m)
    BY <1>2, <1>3 DEF HasCounted
  <2> QED BY <1>1, <1>3, <2>1, <2>2, TallyIdle
<1>4. CASE Crash
  <2>1. UNCHANGED <<cnt, begun, finished>> /\ \A s \in Threads : step'[s] = 0
    BY <1>4 DEF Crash, Idle
  <2> QED BY <1>3, <2>1
<1>5. ASSUME NEW t \in Threads, ThreadStep(t)
      PROVE  /\ IsFiniteSet(Tally(l, Counted(m))')
             /\ Cardinality(Tally(l, Counted(m))') + Cardinality(ToCount(l, m)') <= begun'[m]
             /\ finished'[m] + Cardinality(HasCounted(l, m)')
                  <= Cardinality(Tally(l, Counted(m))') + fails'
  <2>1. CASE \E e \in Events : Begin(t, e)
    <3>1. PICK e \in Events : Begin(t, e)
      BY <2>1
    <3>2. /\ UNCHANGED <<cnt, begun, finished>> /\ step[t] = 0
          /\ step' = [step EXCEPT ![t] = 1] /\ ev' = [ev EXCEPT ![t] = e]
      BY <3>1 DEF Begin, Idle
    <3>3. \A s \in Threads : (step'[s] = 1 /\ step[s] = 0) \/ (step'[s] = step[s] /\ ev'[s] = ev[s])
      BY <1>2, <3>2 DEF TypeOK
    <3> QED BY <1>3, <3>2, <3>3
  <2>2. CASE GetPolicyControl(t)
    <3>1. /\ UNCHANGED <<cnt, fails, finished>> /\ step[t] = 1
          /\ \/ /\ step' = [step EXCEPT ![t] = 2] /\ ev' = ev
                /\ begun' = [begun EXCEPT ![ev[t].m] = @ + 1]
             \/ Return(t) /\ begun' = begun
      BY <2>2 DEF GetPolicyControl
    <3>2. CASE Return(t) /\ begun' = begun
      <4>1. \A s \in Threads : step'[s] = 0 \/ (step'[s] = step[s] /\ ev'[s] = ev[s])
        BY <1>2, <3>2 DEF Return, Idle, TypeOK
      <4> QED BY <1>3, <3>1, <3>2, <4>1
    <3> QED BY <1>1, <3>1, <3>2, TallyFound
  <2>3. CASE Count(t)
    BY <1>1, <2>3, TallyCount
  <2>4. CASE ExpireTen(t) \/ KpiCampaign(t)
    <3>1. /\ UNCHANGED <<cnt, begun, finished, ev>> /\ step[t] \in 10 .. 11
          /\ step' = [step EXCEPT ![t] = step[t] + 1]
      BY <2>4 DEF ExpireTen, KpiCampaign
    <3>2. \A s \in Threads : (step'[s] = step[s] /\ ev'[s] = ev[s])
                               \/ (step[s] \in 10 .. 12 /\ step'[s] > 10 /\ ev'[s] = ev[s])
      BY <1>2, <3>1
    <3> QED BY <1>3, <3>1, <3>2
  <2>5. CASE KpiPolicy(t)
    <3>1. /\ UNCHANGED <<cnt, begun>> /\ step[t] = 12
          /\ \/ Finish(t)
             \/ step' = [step EXCEPT ![t] = 13] /\ UNCHANGED <<ev, finished>>
      BY <2>5 DEF KpiPolicy
    <3>2. CASE Finish(t)
      <4>1. step[t] \in 12 .. 13
        BY <3>1
      <4> QED BY <1>1, <3>1, <3>2, <4>1, TallyDone
    <3>3. CASE step' = [step EXCEPT ![t] = 13] /\ UNCHANGED <<ev, finished>>
      <4>1. \A s \in Threads : (step'[s] = step[s] /\ ev'[s] = ev[s])
                                 \/ (step[s] \in 10 .. 12 /\ step'[s] > 10 /\ ev'[s] = ev[s])
        BY <1>2, <3>1, <3>3
      <4> QED BY <1>3, <3>1, <3>3, <4>1
    <3> QED BY <3>1, <3>2, <3>3
  <2>6. CASE RemovePolicyId(t)
    <3>1. UNCHANGED <<cnt, begun>> /\ step[t] \in 12 .. 13 /\ Finish(t)
      BY <2>6 DEF RemovePolicyId
    <3> QED BY <1>1, <3>1, TallyDone
  <2> QED BY <1>5, <2>1, <2>2, <2>3, <2>4, <2>5, <2>6 DEF ThreadStep
<1>6. CASE Tick \/ (\E j \in Levels : ExpirePause(j)) \/ EditSetting \/ ListPolicy
             \/ ReloadStep \/ UNCHANGED vars
  <2>1. UNCHANGED <<cnt, begun, finished, step, ev>>
    BY <1>6 DEF vars, Tick, ExpirePause, EditSetting, ListPolicy, ReloadStep,
       LoadCampaignControl, LoadPolicyControl, LoadFail, CheckGuard, CheckGet,
       CheckAct, Publish
  <2> QED BY <1>3, <2>1
<1> QED BY <1>4, <1>5, <1>6 DEF Next

LEMMA TallyInit == Init => TallyInv
<1> SUFFICES ASSUME Init, NEW l \in Levels, NEW m \in {"i", "c"}
             PROVE  /\ IsFiniteSet(Tally(l, Counted(m)))
                    /\ Cardinality(Tally(l, Counted(m))) + Cardinality(ToCount(l, m)) <= begun[m]
                    /\ finished[m] + Cardinality(HasCounted(l, m))
                         <= Cardinality(Tally(l, Counted(m))) + fails
  BY DEF TallyInv
<1>1. Tally(l, Counted(m)) = {}
  <2>1. <<l, Counted(m)>> \in DayKeys
    BY DEF DayKeys, Counted
  <2>2. \A d \in Days : cnt[d][<<l, Counted(m)>>] = 0
    BY <2>1 DEF Init
  <2> QED BY <2>2 DEF Tally
<1>2. ToCount(l, m) = {} /\ HasCounted(l, m) = {}
  <2>1. CountAt(l, Counted(m)) \in 2 .. 5
    BY DEF CountAt
  <2> QED BY <2>1 DEF Init, ToCount, HasCounted, Idle
<1>3. begun[m] = 0 /\ finished[m] = 0 /\ fails = 0
  BY DEF Init
<1> QED BY <1>1, <1>2, <1>3, FS_EmptySet

\* HINCRBY is sent once per event and never repeated: for every number of
\* threads, events, days and failures the counters of all days together lie
\* between the finished events less the failures and the events begun.
THEOREM CountsAreWithinFailures == Spec => []CountsWithinFailures
<1>1. TypeOK /\ TallyInv => CountsWithinFailures
  <2> SUFFICES ASSUME TypeOK, TallyInv, NEW l \in Levels, NEW m \in {"i", "c"}
               PROVE  /\ finished[m] - fails <= Cardinality(Tally(l, Counted(m)))
                      /\ Cardinality(Tally(l, Counted(m))) <= begun[m]
    BY DEF CountsWithinFailures
  <2> DEFINE n == Cardinality(Tally(l, Counted(m)))
             a == Cardinality(ToCount(l, m))
             b == Cardinality(HasCounted(l, m))
  <2>1. n + a <= begun[m] /\ finished[m] + b <= n + fails
    BY DEF TallyInv
  <2>2. n \in Nat
    BY FS_CardinalityType DEF TallyInv
  <2>3. a \in Nat /\ b \in Nat
    BY ThreadCounts DEF ToCount, HasCounted
  <2>4. begun[m] \in Nat /\ finished[m] \in Nat /\ fails \in Nat
    BY DEF TypeOK
  <2> HIDE DEF n, a, b
  <2>5. finished[m] - fails <= n /\ n <= begun[m]
    BY <2>1, <2>2, <2>3, <2>4
  <2> QED BY <2>5 DEF n
<1> QED BY <1>1, InitType, TypeStep, TallyInit, TallyStep, PTL DEF Spec

------------------------------------------------------------------------------
(* The segments that are left.                                              *)

LEMMA IntDivision ==
  ASSUME NEW u \in Int, NEW p \in Nat, p # 0
  PROVE  u \div p \in Int /\ (u \div p) * p <= u /\ u < (u \div p + 1) * p
<1>1. u \div p \in Int
  OBVIOUS
<1>2. (u \div p) * p <= u
  OBVIOUS
<1>3. u < (u \div p + 1) * p
  OBVIOUS
<1> QED BY <1>1, <1>2, <1>3

\* What is below the rounded up quotient is below the quotient.
LEMMA CeilDivFacts ==
  ASSUME NEW a \in Int, NEW b \in Nat, b # 0, NEW n \in Int
  PROVE  CeilDiv(a, b) \in Int /\ (n < CeilDiv(a, b) => n * b < a)
<1> DEFINE q == (-a) \div b
<1>1. q \in Int /\ q * b <= -a /\ -a < (q + 1) * b
  BY IntDivision
<1>2. CeilDiv(a, b) = -q
  BY DEF CeilDiv
<1> HIDE DEF q
<1>3. ASSUME n < -q PROVE n * b < a
  <2>1. n + 1 <= -q
    BY <1>1, <1>3
  <2>2. n <= -(q + 1)
    BY <1>1, <2>1
  <2>3. n * b <= (-(q + 1)) * b
    BY <1>1, <2>2
  <2>4. (-(q + 1)) * b = -((q + 1) * b)
    BY <1>1
  <2> QED BY <1>1, <2>3, <2>4
<1> QED BY <1>1, <1>2, <1>3

\* Less is missing, less is asked of a segment.
LEMMA CeilDivGrows ==
  ASSUME NEW a \in Int, NEW d \in Int, a <= d, NEW b \in Nat, b # 0
  PROVE  CeilDiv(a, b) <= CeilDiv(d, b)
<1> DEFINE q == (-a) \div b
           r == (-d) \div b
<1>1. q \in Int /\ q * b <= -a /\ -a < (q + 1) * b
  BY IntDivision
<1>2. r \in Int /\ r * b <= -d /\ -d < (r + 1) * b
  BY IntDivision
<1>3. CeilDiv(a, b) = -q /\ CeilDiv(d, b) = -r
  BY DEF CeilDiv
<1> HIDE DEF q, r
<1>4. r <= q
  <2>1. r * b < (q + 1) * b
    BY <1>1, <1>2
  <2> QED BY <1>1, <1>2, <2>1
<1> QED BY <1>1, <1>2, <1>3, <1>4

LEMMA DivisionUnique ==
  ASSUME NEW u \in Nat, NEW p \in Nat, p # 0, NEW q \in Nat,
         q * p <= u, u < q * p + p
  PROVE  u \div p = q /\ u % p = u - q * p
<1> DEFINE r == u \div p
<1>1. r \in Nat /\ r * p <= u /\ u < (r + 1) * p
  BY Division
<1>2. u % p = u - r * p
  OBVIOUS
<1> HIDE DEF r
<1>3. r = q
  BY <1>1
<1> QED BY <1>2, <1>3 DEF r

\* The clock in hours since the model's first day began.
LEMMA Calendar ==
  ASSUME seg \in Nat
  PROVE  LET q == seg \div 6 IN
         /\ q \in Nat /\ Day \in Nat /\ Day * HoursPerDay \in Nat
         /\ Day * HoursPerDay <= q /\ q < Day * HoursPerDay + HoursPerDay
         /\ Hour = q - Day * HoursPerDay
         /\ seg = 6 * q + Split /\ Split \in 0 .. 5
         /\ HourEnd = 6 * q + 6
         /\ DayEnd = 6 * (Day * HoursPerDay + HoursPerDay)
<1> DEFINE q == seg \div 6
           h == HoursPerDay
           d == q \div h
<1>1. h \in Nat /\ h # 0
  BY KpiAssumption
<1>2. q \in Nat /\ seg = 6 * q + Split /\ Split \in 0 .. 5
  BY DEF Split
<1>3. HourEnd = 6 * q + 6
  BY <1>2 DEF HourEnd
<1>4. d \in Nat /\ d * h <= q /\ q < (d + 1) * h
  <2> HIDE DEF q, h
  <2> QED BY <1>1, <1>2, Division
<1>5. d * h \in Nat /\ (d + 1) * h = d * h + h
  <2> HIDE DEF q, h, d
  <2> QED BY <1>1, <1>4
<1>6. Hour = q - d * h
  <2>1. q % h = q - d * h
    <3>1. q \in Nat /\ h \in Nat /\ h # 0 /\ d \in Nat /\ d * h <= q /\ q < d * h + h
      BY <1>1, <1>2, <1>4, <1>5
    <3> HIDE DEF q, h, d
    <3> QED BY <3>1, DivisionUnique
  <2> QED BY <2>1 DEF Hour
<1>7. Day = d
  <2> DEFINE w == 6 * h
  <2>1. w \in Nat /\ w # 0 /\ Day = seg \div w
    BY <1>1 DEF Day
  <2>2. d * w <= seg /\ seg < d * w + w
    <3>1. d * w = 6 * (d * h)
      <4> HIDE DEF d, h
      <4> QED BY <1>1, <1>4
    <3> HIDE DEF d, h, q
    <3> QED BY <1>1, <1>2, <1>4, <1>5, <3>1
  <2> HIDE DEF w, d, h, q
  <2> QED BY <1>4, <2>1, <2>2, DivisionUnique
<1>8. DayEnd = 6 * (d * h + h)
  <2>1. DayEnd = (d + 1) * 6 * h
    BY <1>7 DEF DayEnd
  <2> HIDE DEF d, h, q
  <2> QED BY <1>1, <1>4, <2>1
<1> QED BY <1>2, <1>3, <1>4, <1>5, <1>6, <1>7, <1>8

\* Each later hour that is allowed has six segments today, and these are the
\* segments of today that the later allowed hours have.
LEMMA LaterSegments ==
  ASSUME seg \in Nat, NEW c \in Controls
  PROVE  LET A == {h \in c.allow : h > Hour}
             B == {s \in HourEnd .. DayEnd - 1 : (s \div 6) % HoursPerDay \in c.allow} IN
         /\ IsFiniteSet(A) /\ IsFiniteSet(B)
         /\ Cardinality(A) \in Nat /\ Cardinality(B) = 6 * Cardinality(A)
<1> DEFINE A == {h \in c.allow : h > Hour}
           B == {s \in HourEnd .. DayEnd - 1 : (s \div 6) % HoursPerDay \in c.allow}
           H == HoursPerDay
           q == seg \div 6
           z == Day * H
           P == A \X (0 .. 5)
           f == [x \in P |-> 6 * (z + x[1]) + x[2]]
<1>1. /\ q \in Nat /\ z \in Nat /\ z <= q /\ q < z + H /\ Hour = q - z
      /\ HourEnd = 6 * q + 6 /\ DayEnd = 6 * (z + H) /\ H \in Nat /\ H # 0
      /\ Day \in Nat
  BY Calendar, KpiAssumption
<1>2. c.allow \subseteq 0 .. H - 1
  BY DEF Controls
<1>3. IsFiniteSet(A) /\ Cardinality(A) \in Nat
  <2>1. IsFiniteSet(0 .. H - 1)
    BY <1>1, FS_Interval
  <2>2. A \in SUBSET (0 .. H - 1)
    BY <1>2
  <2> QED BY <2>1, <2>2, FS_Subset, FS_CardinalityType
<1>4. IsFiniteSet(P) /\ Cardinality(P) = Cardinality(A) * 6
  <2>1. IsFiniteSet(0 .. 5) /\ Cardinality(0 .. 5) = 6
    <3>1. 0 \in Int /\ 5 \in Int /\ ~(0 > 5) /\ 5 - 0 + 1 = 6
      OBVIOUS
    <3>2. IsFiniteSet(0 .. 5) /\ Cardinality(0 .. 5) = IF 0 > 5 THEN 0 ELSE 5 - 0 + 1
      BY <3>1, FS_Interval, Zenon
    <3> QED BY <3>1, <3>2
  <2> HIDE DEF A
  <2> QED BY <1>3, <2>1, FS_Product
<1>5. \A r \in Nat : z <= r /\ r < z + H => r % H = r - z
  <2> SUFFICES ASSUME NEW r \in Nat, z <= r, r < z + H PROVE r % H = r - z
    OBVIOUS
  <2>1. Day * H <= r /\ r < Day * H + H
    OBVIOUS
  <2> HIDE DEF H
  <2> QED BY <1>1, <2>1, DivisionUnique
<1> HIDE DEF H, z, q
<1>6. ASSUME NEW h \in A, NEW i \in 0 .. 5
      PROVE  6 * (z + h) + i \in B
  <2> DEFINE s == 6 * (z + h) + i
  <2>1. h \in Nat /\ h < H /\ h > q - z /\ h \in c.allow
    BY <1>1, <1>2, <1>6
  <2>2. s \in Nat /\ s >= 6 * q + 6 /\ s < 6 * (z + H)
    BY <1>1, <2>1
  <2>3. s \div 6 = z + h
    BY <1>1, <2>1
  <2>4. (s \div 6) % H = h
    <3>1. z + h \in Nat /\ z <= z + h /\ z + h < z + H /\ (z + h) - z = h
      BY <1>1, <2>1
    <3>2. (z + h) % H = h
      BY <1>5, <3>1
    <3> QED BY <2>3, <3>2
  <2> QED BY <1>1, <2>1, <2>2, <2>4 DEF H
<1>7. f \in [P -> B]
  BY <1>6
<1>8. \A x, y \in P : f[x] = f[y] => x = y
  <2> SUFFICES ASSUME NEW x \in P, NEW y \in P, f[x] = f[y] PROVE x = y
    OBVIOUS
  <2>1. /\ x[1] \in Nat /\ y[1] \in Nat /\ x[2] \in 0 .. 5 /\ y[2] \in 0 .. 5
        /\ x = <<x[1], x[2]>> /\ y = <<y[1], y[2]>>
    BY <1>1, <1>2
  <2>2. 6 * (z + x[1]) + x[2] = 6 * (z + y[1]) + y[2]
    OBVIOUS
  <2>3. x[1] = y[1] /\ x[2] = y[2]
    BY <1>1, <2>1, <2>2
  <2> QED BY <2>1, <2>3
<1>9. ASSUME NEW s \in B PROVE \E x \in P : f[x] = s
  <2> DEFINE r == s \div 6
             i == s % 6
  <2>1. s \in Nat /\ s >= 6 * q + 6 /\ s < 6 * (z + H) /\ r % H \in c.allow
    BY <1>1, <1>9 DEF H
  <2>2. r \in Nat /\ i \in 0 .. 5 /\ s = 6 * r + i
    BY <2>1
  <2> HIDE DEF r, i
  <2>3. r > q /\ r < z + H
    BY <1>1, <2>1, <2>2
  <2>4. r % H = r - z
    BY <1>1, <1>5, <2>2, <2>3
  <2>5. r - z \in A
    BY <1>1, <2>1, <2>2, <2>3, <2>4
  <2>6. <<r - z, i>> \in P
    BY <2>2, <2>5
  <2>7. f[<<r - z, i>>] = s
    BY <1>1, <2>2, <2>6
  <2> QED BY <2>6, <2>7
<1>10. ExistsBijection(P, B)
  <2> HIDE DEF f, P, B
  <2>1. f \in Bijection(P, B)
    BY <1>7, <1>8, <1>9 DEF Bijection, Injection, Surjection, IsInjective
  <2> QED BY <2>1 DEF ExistsBijection
<1>11. IsFiniteSet(B) /\ Cardinality(B) = Cardinality(P)
  <2> HIDE DEF P, B
  <2> QED BY <1>4, <1>10, FS_Bijection
<1>12. Cardinality(B) = 6 * Cardinality(A)
  <2> HIDE DEF A, B, P
  <2> QED BY <1>3, <1>4, <1>11
<1> QED BY <1>3, <1>11, <1>12

\* Surplus10m, which the code computes from the allowed hours, is the number of
\* segments that are left, less the buffer of two.
THEOREM SurplusIsShare ==
  ASSUME seg \in Nat, NEW c \in Controls
  PROVE  Surplus10m(c) = Share(c) /\ Share(c) \in Nat /\ Share(c) # 0
<1> DEFINE A == {h \in c.allow : h > Hour}
           B == {s \in HourEnd .. DayEnd - 1 : (s \div 6) % HoursPerDay \in c.allow}
           C == seg .. HourEnd - 1
           L == {s \in seg .. DayEnd - 1 :
                   s < HourEnd \/ (s \div 6) % HoursPerDay \in c.allow}
           q == seg \div 6
           z == Day * HoursPerDay + HoursPerDay
<1>1. /\ q \in Nat /\ z \in Nat /\ q < z /\ seg = 6 * q + Split /\ Split \in 0 .. 5
      /\ HourEnd = 6 * q + 6 /\ DayEnd = 6 * z
  BY Calendar, KpiAssumption
<1>2. /\ IsFiniteSet(B) /\ Cardinality(A) \in Nat /\ Cardinality(B) = 6 * Cardinality(A)
  BY LaterSegments
<1>3. HourEnd \in Nat /\ DayEnd \in Nat /\ HourEnd <= DayEnd /\ seg < HourEnd
  <2> HIDE DEF q, z
  <2> QED BY <1>1
<1>4. L = C \cup B
  BY <1>3
<1>5. C \cap B = {}
  BY <1>3
<1>6. IsFiniteSet(C) /\ Cardinality(C) = 6 - Split
  <2>1. IsFiniteSet(C) /\ Cardinality(C) = HourEnd - seg
    BY <1>3, FS_Interval
  <2> HIDE DEF q, z, C
  <2> QED BY <1>1, <2>1
<1>7. Cardinality(L) = 6 * Cardinality(A) + (6 - Split)
  <2> HIDE DEF A, B, C, L, q, z
  <2>1. Cardinality(C \cup B) = Cardinality(C) + Cardinality(B) - Cardinality(C \cap B)
    BY <1>2, <1>6, FS_Union
  <2>2. Cardinality(C \cap B) = 0
    BY <1>5, FS_EmptySet
  <2> QED BY <1>1, <1>2, <1>4, <1>6, <2>1, <2>2
<1>8. Share(c) = IF Cardinality(L) <= 2 THEN 1 ELSE Cardinality(L) - 2
  BY DEF Share
<1>9. Surplus10m(c) = LET n == 6 * Cardinality(A) + (6 - Split) IN IF n > 2 THEN n - 2 ELSE 1
  BY DEF Surplus10m
<1> HIDE DEF A, L, q, z
<1> QED BY <1>1, <1>2, <1>7, <1>8, <1>9

------------------------------------------------------------------------------
(* Uniform delivery.                                                        *)

LEMMA RateTypes ==
  ASSUME TypeOK
  PROVE  /\ Imps \in Nat /\ base \in Nat /\ Burst \in Int
         /\ setting["p"] \in Controls /\ setting["p"].imp \in Int
         /\ Share(setting["p"]) \in Nat /\ Share(setting["p"]) # 0
         /\ Surplus10m(setting["p"]) = Share(setting["p"])
         /\ ten[Split]["imp"] \in Nat /\ seg \in Nat /\ DayEnd \in Nat /\ seg < DayEnd
<1>1. seg \in Nat /\ Day \in Days /\ Split \in Splits /\ DayEnd \in Nat /\ seg < DayEnd
  BY ClockFacts DEF TypeOK
<1>2. <<"p", "imp">> \in DayKeys /\ "p" \in Levels /\ "imp" \in TenKeys
  BY DEF DayKeys, Levels, TenKeys
<1>3. Imps \in Nat /\ base \in Nat /\ ten[Split]["imp"] \in Nat
  BY <1>1, <1>2 DEF Imps, TypeOK
<1>4. setting["p"] \in Controls
  BY <1>2, SettingFacts
<1>5. setting["p"].imp \in Int
  BY <1>4 DEF Controls
<1>6. /\ Share(setting["p"]) \in Nat /\ Share(setting["p"]) # 0
      /\ Surplus10m(setting["p"]) = Share(setting["p"])
  BY <1>1, <1>4, SurplusIsShare
<1> QED BY <1>1, <1>3, <1>4, <1>5, <1>6 DEF Burst

LEMMA RateTypesNext ==
  TypeOK' => (/\ Imps \in Nat /\ base \in Nat /\ Share(setting["p"]) \in Nat
              /\ ten[Split]["imp"] \in Nat /\ seg \in Nat
              /\ DayEnd \in Nat /\ seg < DayEnd)'
<1>1. TypeOK => /\ Imps \in Nat /\ base \in Nat /\ Share(setting["p"]) \in Nat
                /\ ten[Split]["imp"] \in Nat /\ seg \in Nat
                /\ DayEnd \in Nat /\ seg < DayEnd
  BY RateTypes
<1> QED BY <1>1, PTL

LEMMA RateSame ==
  ASSUME seg' = seg, setting' = setting
  PROVE  /\ Share(setting["p"])' = Share(setting["p"])
         /\ Day' = Day /\ DayEnd' = DayEnd /\ Split' = Split
         /\ UniformPolicy' <=> UniformPolicy
<1>1. Day' = Day /\ DayEnd' = DayEnd /\ Split' = Split /\ HourEnd' = HourEnd
  BY DEF Day, DayEnd, Split, HourEnd
<1>2. UniformPolicy' <=> UniformPolicy
  BY DEF UniformPolicy
<1> QED BY <1>1, <1>2 DEF Share

\* The hash of the segment counts the impression with its own command.
LEMMA TenFacts ==
  ASSUME TypeOK, NEW t \in Threads, Count(t), fails' = 0
  PROVE  IF step[t] = 6
         THEN /\ ten'[Split]["imp"] = ten[Split]["imp"] + Delta(ev[t], <<"m", "imp">>)
              /\ got'[t][<<"m", "imp">>] = ten'[Split]["imp"]
         ELSE /\ ten'[Split]["imp"] = ten[Split]["imp"]
              /\ got'[t][<<"m", "imp">>] = got[t][<<"m", "imp">>]
<1> DEFINE c == CountCommands[step[t] - 1]
           v == Value(c) + Delta(ev[t], c)
           e == <<"m", "imp">>
<1>1. step[t] \in 2 .. 9
  BY DEF Count
<1>2. Store(c, v) /\ got' = [got EXCEPT ![t][c] = v]
  BY DEF Count, TypeOK
<1>3. /\ Split \in Splits /\ ten \in [Splits -> [TenKeys -> Nat]]
      /\ got \in [Threads -> [Keys -> Nat]] /\ e \in Keys
  BY ClockFacts DEF TypeOK, Zero, Keys, TenKeys
<1>4. c = e <=> step[t] = 6
  <2>1. step[t] \in {2, 3, 4, 5, 6, 7, 8, 9}
    BY <1>1
  <2> QED BY <2>1, CommandFacts
<1>5. c[1] = "m" => c \in {e, <<"m", "clk">>}
  <2>1. CASE step[t] \in {6, 7}
    <3>1. step[t] - 1 = 5 \/ step[t] - 1 = 6
      BY <2>1
    <3> QED BY <3>1, CommandFacts
  <2>2. CASE step[t] \in {2, 3, 4, 5, 8, 9}
    <3>1. step[t] - 1 \in {1, 2, 3, 4, 7, 8}
      BY <2>2
    <3>2. c[1] \in {"c", "p"}
      BY <3>1, CommandFacts
    <3> HIDE DEF c
    <3> QED BY <3>2
  <2> QED BY <1>1, <2>1, <2>2
<1>6. c \in Keys
  BY <1>1, KeyFacts
<1>7. got'[t][e] = IF c = e THEN v ELSE got[t][e]
  <2> HIDE DEF c, v
  <2> QED BY <1>2, <1>3, <1>6
<1>8. ten'[Split]["imp"] = IF c = e THEN v ELSE ten[Split]["imp"]
  <2>1. CASE c[1] # "m"
    BY <1>2, <2>1 DEF Store
  <2>2. CASE c[1] = "m"
    <3>1. ten' = [ten EXCEPT ![Split][c[2]] = v] /\ (c = e \/ c[2] = "clk")
      BY <1>2, <1>5, <2>2 DEF Store
    <3>2. c = e => c[2] = "imp"
      OBVIOUS
    <3>3. c[2] = "clk" => c # e
      OBVIOUS
    <3> HIDE DEF c, v
    <3> QED BY <1>3, <3>1, <3>2, <3>3 DEF TenKeys
  <2> QED BY <2>1, <2>2
<1>9. c = e => v = ten[Split]["imp"] + Delta(ev[t], e)
  BY DEF Value
<1> HIDE DEF c, v
<1> QED BY <1>4, <1>7, <1>8, <1>9

\* The sizes that the invariant compares.
LEMMA RateSizes ==
  ASSUME TypeOK
  PROVE  /\ SegShare \in Int /\ Quota \in Nat /\ late \in Nat
         /\ Cardinality(Threads) \in Nat
         /\ OnTheWay \in SUBSET Threads /\ Cardinality(OnTheWay) \in Nat
         /\ Counting \in SUBSET Threads /\ Cardinality(Counting) \in Nat
         /\ Stopping \in SUBSET Threads /\ Cardinality(Stopping) \in Nat
         /\ Cardinality(OnTheWay) <= Cardinality(Threads)
         /\ Cardinality(Stopping) <= Cardinality(Threads)
         /\ Cardinality(Stopping) + Cardinality(OnTheWay) <= Cardinality(Threads)
<1>1. SegShare \in Int
  <2>1. setting["p"].imp - base \in Int /\ Share(setting["p"]) \in Nat /\ Share(setting["p"]) # 0
    BY RateTypes
  <2> QED BY <2>1, CeilDivFacts DEF SegShare
<1>2. Quota \in Nat
  BY <1>1 DEF Quota
<1>3. /\ OnTheWay \in SUBSET Threads /\ Counting \in SUBSET Threads
      /\ Stopping \in SUBSET Threads
  BY DEF OnTheWay, Counting, Stopping
<1>4. Stopping \cap OnTheWay = {}
  BY DEF OnTheWay, Stopping
<1> QED BY <1>1, <1>2, <1>3, <1>4, ThreadCounts DEF TypeOK

LEMMA RateSizesNext ==
  TypeOK' => (/\ SegShare \in Int /\ Quota \in Nat /\ late \in Nat
              /\ Cardinality(Threads) \in Nat
              /\ OnTheWay \in SUBSET Threads /\ Cardinality(OnTheWay) \in Nat
              /\ Counting \in SUBSET Threads /\ Cardinality(Counting) \in Nat
              /\ Stopping \in SUBSET Threads /\ Cardinality(Stopping) \in Nat
              /\ Cardinality(OnTheWay) <= Cardinality(Threads))'
<1>1. TypeOK => /\ SegShare \in Int /\ Quota \in Nat /\ late \in Nat
                /\ Cardinality(Threads) \in Nat
                /\ OnTheWay \in SUBSET Threads /\ Cardinality(OnTheWay) \in Nat
                /\ Counting \in SUBSET Threads /\ Cardinality(Counting) \in Nat
                /\ Stopping \in SUBSET Threads /\ Cardinality(Stopping) \in Nat
                /\ Cardinality(OnTheWay) <= Cardinality(Threads)
  BY RateSizes
<1> QED BY <1>1, PTL

LEMMA ShareSame ==
  ASSUME seg' = seg, setting' = setting, base' = base
  PROVE  SegShare' = SegShare /\ Quota' = Quota /\ Day' = Day /\ Split' = Split
<1>1. Share(setting["p"])' = Share(setting["p"]) /\ Day' = Day /\ Split' = Split
  BY RateSame
<1>2. SegShare' = SegShare
  BY <1>1 DEF SegShare
<1> QED BY <1>1, <1>2 DEF Quota

\* A thread that counted an impression of this segment and read its share from
\* the hash finds a reason to pause, and every pause lasts for the segment:
\* what is missing now is not more than what was missing when it began.
LEMMA UniformVerdict ==
  ASSUME TypeOK, SameInv, Calm, UniformPolicy, NEW t \in Threads, step[t] = 12
  PROVE  LET v == Verdict(t, "p") IN
         /\ v # NoPause => v.reason # 0 /\ v.until > seg
         /\ t \in Stopping => v # NoPause
<1> DEFINE c == setting["p"]
           g == got[t]
           v == PolicyPause(c, g)
           T == c.imp
           S == Share(c)
           a == g[<<"p", "imp">>]
           b == g[<<"m", "imp">>]
           k == g[<<"p", "clk">>]
           d == DayEnd
           h == HourEnd
<1>1. conf[t]["p"] = c
  BY DEF SameInv, Levels
<1>2. Verdict(t, "p") = v
  BY <1>1 DEF Verdict
<1>3. /\ base \in Nat /\ T \in Int /\ S \in Nat /\ S # 0
      /\ Surplus10m(c) = S /\ seg \in Nat /\ d \in Nat /\ seg < d
  BY RateTypes
<1>4. a \in Nat /\ b \in Nat
  BY DEF TypeOK, Zero, DayKeys, Levels, TenKeys
<1>5. h > seg /\ h \in Nat
  <2>1. seg \div 6 \in Nat /\ h = 6 * (seg \div 6) + 6 /\ seg = 6 * (seg \div 6) + Split
        /\ Split \in 0 .. 5
    BY <1>3, Calendar
  <2> HIDE DEF h
  <2> QED BY <2>1
<1>6. ~NoKpi(c) /\ Limit(c.clk) = -1 /\ c.uniform /\ T > 0
  BY <1>3 DEF UniformPolicy, NoKpi, Limit
<1>7. KpiReached(c, a, k) <=> a >= T
  BY <1>3, <1>6 DEF KpiReached, Limit
<1>8. TenReached(c, a, k, b, g[<<"m", "clk">>]) <=> b >= CeilDiv(T - a, S)
  BY <1>3, <1>6 DEF TenReached, Limit
<1>9. v = IF a >= T THEN [reason |-> 21, until |-> d]
          ELSE IF BudgetReached(c, g[<<"p", "cost">>]) THEN [reason |-> 22, until |-> d]
          ELSE IF Hour \notin c.allow THEN [reason |-> 24, until |-> h]
          ELSE IF b >= CeilDiv(T - a, S) THEN [reason |-> 23, until |-> seg + 1]
          ELSE NoPause
  <2>1. 20 + 1 = 21 /\ 20 + 2 = 22 /\ 20 + 3 = 23 /\ 20 + 4 = 24
    OBVIOUS
  <2> HIDE DEF c, g, d, h
  <2> QED BY <1>6, <1>7, <1>8, <2>1 DEF PolicyPause, ReasonBase, SegEnd, d, h
<1>10. t \in Stopping => a > base /\ b >= CeilDiv(T - base, S)
  BY DEF Stopping, OfSegment, SegShare
<1> HIDE DEF c, g, v, T, S, a, b, k, d, h
<1>11. NoPause.reason = 0
  BY DEF NoPause
<1>12. ASSUME v # NoPause PROVE v.reason # 0 /\ v.until > seg
  <2>1. v \in {[reason |-> 21, until |-> d], [reason |-> 22, until |-> d],
               [reason |-> 24, until |-> h], [reason |-> 23, until |-> seg + 1]}
    BY <1>9, <1>12
  <2> QED BY <1>3, <1>5, <2>1
<1>13. ASSUME t \in Stopping PROVE v # NoPause
  <2>1. CeilDiv(T - a, S) <= CeilDiv(T - base, S)
    <3>1. T - a \in Int /\ T - base \in Int /\ T - a <= T - base
      BY <1>3, <1>4, <1>10, <1>13
    <3> QED BY <1>3, <3>1, CeilDivGrows
  <2>2. CeilDiv(T - a, S) \in Int /\ CeilDiv(T - base, S) \in Int
    <3>1. T - a \in Int /\ T - base \in Int
      BY <1>3, <1>4
    <3> QED BY <1>3, <3>1, CeilDivFacts
  <2>3. b >= CeilDiv(T - a, S)
    BY <1>4, <1>10, <1>13, <2>1, <2>2
  <2>4. \A r \in {21, 22, 23, 24} : \A u : [reason |-> r, until |-> u] # NoPause
    BY <1>11
  <2> QED BY <1>9, <2>3, <2>4
<1> QED BY <1>2, <1>12, <1>13

\* A step that counts no impression keeps the bound when no pause goes and no
\* thread forgets to write one; whoever begins in spite of a pause is late.
LEMMA RateIdle ==
  ASSUME TypeOK, TypeOK', Rate, seg' = seg, setting' = setting, base' = base,
         Imps' = Imps, ten'[Split]["imp"] = ten[Split]["imp"],
         Held => Held', Counting \subseteq Counting',
         ~Held' => Stopping \subseteq Stopping',
         Held' => \/ late' = late /\ OnTheWay' \subseteq OnTheWay
                  \/ Held /\ late' = late + 1 /\ \E t : OnTheWay' \subseteq OnTheWay \cup {t}
  PROVE  Rate'
<1> DEFINE x == Burst
           n == Cardinality(Threads)
           a == Cardinality(Stopping)
           b == a'
           m == Cardinality(Counting)
           k == m'
           o == Cardinality(OnTheWay)
           p == o'
           u == ten[Split]["imp"]
<1>1. SegShare' = SegShare /\ Quota' = Quota /\ Split' = Split
  BY ShareSame
<1>2. Burst' = x /\ x \in Int /\ u \in Nat
  BY RateTypes DEF Burst
<1>3. /\ Quota \in Nat /\ late \in Nat /\ n \in Nat /\ a \in Nat /\ m \in Nat /\ o \in Nat
      /\ a + o <= n
      /\ OnTheWay \in SUBSET Threads /\ Counting \in SUBSET Threads
      /\ Stopping \in SUBSET Threads
  BY RateSizes
<1>4. /\ late' \in Nat /\ b \in Nat /\ k \in Nat /\ p \in Nat
      /\ OnTheWay' \in SUBSET Threads /\ Counting' \in SUBSET Threads
      /\ Stopping' \in SUBSET Threads
  BY RateSizesNext
<1>5. m <= k
  BY <1>3, <1>4, ThreadCounts
<1>6. ~Held' => a <= b
  BY <1>3, <1>4, ThreadCounts
<1>7. OnTheWay' \subseteq OnTheWay => p <= o
  BY <1>3, <1>4, ThreadCounts
<1>8. \A t : OnTheWay' \subseteq OnTheWay \cup {t} => p <= o + 1
  BY <1>3, <1>4, ThreadCounts
<1>9. /\ base <= Imps /\ x <= u + m
      /\ Held => x + o <= Quota + n + late
      /\ ~Held => x <= Quota + a
  BY DEF Rate
<1> HIDE DEF x, n, a, b, m, k, o, p, u
<1>10. x <= u + k
  BY <1>2, <1>3, <1>4, <1>5, <1>9
<1>11. ASSUME Held' PROVE x + p <= Quota + n + late'
  <2>1. CASE Held /\ late' = late + 1 /\ \E t : OnTheWay' \subseteq OnTheWay \cup {t}
    <3>1. p <= o + 1
      BY <1>8, <2>1
    <3> QED BY <1>2, <1>3, <1>4, <1>9, <2>1, <3>1
  <2>2. CASE late' = late /\ OnTheWay' \subseteq OnTheWay
    <3>1. p <= o
      BY <1>7, <2>2
    <3> QED BY <1>2, <1>3, <1>4, <1>9, <2>2, <3>1
  <2> QED BY <1>11, <2>1, <2>2
<1>12. ASSUME ~Held' PROVE x <= Quota + b
  <2>1. ~Held /\ a <= b
    BY <1>6, <1>12
  <2> QED BY <1>2, <1>3, <1>4, <1>9, <2>1
<1>13. ten'[Split']["imp"] = u
  BY <1>1 DEF u
<1> QED BY <1>1, <1>2, <1>9, <1>10, <1>11, <1>12, <1>13 DEF Rate, n, a, b, m, k, o, p

\* An impression that is counted for the day is one of its thread's, which
\* finds the share reached unless the hash says otherwise.
LEMMA RateCount ==
  ASSUME TypeOK, TypeOK', Rate, NEW t \in Threads, Count(t), fails' = 0
  PROVE  Rate'
<1> DEFINE x == Burst
           n == Cardinality(Threads)
           a == Cardinality(Stopping)
           b == a'
           m == Cardinality(Counting)
           k == m'
           o == Cardinality(OnTheWay)
           p == o'
           u == ten[Split]["imp"]
           w == ten'[Split]["imp"]
           i == IF ev[t].m = "i" THEN 1 ELSE 0
           r == step[t]
<1>1. UNCHANGED <<seg, setting, base, pause, ev, late>>
  BY DEF Count, clock, platform, bounds
<1>2. SegShare' = SegShare /\ Quota' = Quota /\ Split' = Split /\ Day' = Day
  BY <1>1, ShareSame
<1>3. /\ r \in 2 .. 9 /\ step'[t] = r + 1
      /\ \A s \in Threads : s # t => step'[s] = step[s] /\ got'[s] = got[s]
      /\ r = 3 => Imps' = Imps + Delta(ev[t], <<"p", "imp">>) /\ got'[t][<<"p", "imp">>] = Imps'
      /\ r # 3 => Imps' = Imps /\ got'[t][<<"p", "imp">>] = got[t][<<"p", "imp">>]
  <2>1. "p" \in Levels /\ "imp" \in TenKeys /\ CountAt("p", "imp") = 3
    BY DEF Levels, TenKeys, CountAt
  <2>2. /\ r \in 2 .. 9 /\ step' = [step EXCEPT ![t] = step[t] + 1]
        /\ \A s \in Threads : s # t => got'[s] = got[s]
    BY CountFacts
  <2>3. IF step[t] = 3
        THEN /\ cnt'[Day][<<"p", "imp">>] = cnt[Day][<<"p", "imp">>] + Delta(ev[t], <<"p", "imp">>)
             /\ got'[t][<<"p", "imp">>] = cnt'[Day][<<"p", "imp">>]
        ELSE /\ cnt'[Day][<<"p", "imp">>] = cnt[Day][<<"p", "imp">>]
             /\ got'[t][<<"p", "imp">>] = got[t][<<"p", "imp">>]
    BY <2>1, CountFacts
  <2> QED BY <1>2, <2>2, <2>3 DEF Imps, TypeOK
<1>4. /\ r = 6 => w = u + Delta(ev[t], <<"m", "imp">>) /\ got'[t][<<"m", "imp">>] = w
      /\ r # 6 => w = u /\ got'[t][<<"m", "imp">>] = got[t][<<"m", "imp">>]
  BY TenFacts
<1>5. Delta(ev[t], <<"p", "imp">>) = i /\ Delta(ev[t], <<"m", "imp">>) = i /\ i \in {0, 1}
  BY DEF Delta
<1>6. /\ Imps \in Nat /\ base \in Nat /\ x = Imps - base /\ u \in Nat
  BY RateTypes DEF Burst
<1>7. /\ SegShare \in Int /\ Quota \in Nat /\ late \in Nat /\ n \in Nat /\ a \in Nat
      /\ m \in Nat /\ o \in Nat
      /\ OnTheWay \in SUBSET Threads /\ Counting \in SUBSET Threads
      /\ Stopping \in SUBSET Threads
  BY RateSizes
<1>8. /\ b \in Nat /\ k \in Nat /\ p \in Nat
      /\ OnTheWay' \in SUBSET Threads /\ Counting' \in SUBSET Threads
      /\ Stopping' \in SUBSET Threads
  BY RateSizesNext
<1>9. /\ base <= Imps /\ x <= u + m
      /\ Held => x + o <= Quota + n + late
      /\ ~Held => x <= Quota + a
  BY DEF Rate
<1>10. Held' <=> Held
  BY <1>1 DEF Held, Paused
<1>11. \A s \in Threads : s # t => /\ s \in OnTheWay' <=> s \in OnTheWay
                                   /\ s \in Counting' <=> s \in Counting
                                   /\ s \in Stopping' <=> s \in Stopping
  BY <1>1, <1>2, <1>3 DEF OnTheWay, Counting, Stopping, OfSegment
<1>12. CASE r = 3 /\ i = 1
  <2>1. Imps' = Imps + 1 /\ Burst' = x + 1 /\ w = u
    BY <1>1, <1>3, <1>4, <1>5, <1>6, <1>12 DEF Burst
  <2>2. step'[t] = 4 /\ ev'[t].m = "i" /\ got'[t][<<"p", "imp">>] > base'
    BY <1>1, <1>3, <1>5, <1>6, <1>9, <1>12
  <2>3. t \in Counting' /\ t \notin Counting /\ Counting \subseteq Counting'
    BY <1>7, <1>11, <1>12, <2>2 DEF Counting, OfSegment
  <2>4. t \in Stopping' /\ t \notin Stopping /\ Stopping \subseteq Stopping'
    BY <1>7, <1>11, <1>12, <2>2 DEF Stopping, OfSegment
  <2>5. t \in OnTheWay /\ t \notin OnTheWay' /\ OnTheWay' \subseteq OnTheWay
    BY <1>8, <1>11, <1>12, <2>2 DEF OnTheWay
  <2>6. m + 1 <= k
    BY <1>7, <1>8, <2>3, ThreadCounts
  <2>7. a + 1 <= b
    BY <1>7, <1>8, <2>4, ThreadCounts
  <2>8. p + 1 <= o
    BY <1>7, <1>8, <2>5, ThreadCounts
  <2> HIDE DEF x, n, a, b, m, k, o, p, u, w, i, r
  <2>9. base <= Imps' /\ x + 1 <= w + k
    BY <1>6, <1>7, <1>8, <1>9, <2>1, <2>6
  <2>10. /\ Held => x + 1 + p <= Quota + n + late
         /\ ~Held => x + 1 <= Quota + b
    BY <1>6, <1>7, <1>8, <1>9, <2>7, <2>8
  <2> QED BY <1>1, <1>2, <1>10, <2>1, <2>9, <2>10 DEF Rate, n, a, b, m, k, o, p, w
<1>13. CASE r = 6
  <2>1. Imps' = Imps /\ Burst' = x /\ w = u + i /\ got'[t][<<"m", "imp">>] = w /\ step'[t] = 7
    BY <1>1, <1>3, <1>4, <1>5, <1>6, <1>13 DEF Burst
  <2>2. x <= w + k
    <3>1. CASE t \in Counting
      <4>1. i = 1 /\ Counting \subseteq Counting' \cup {t}
        BY <1>7, <1>11, <3>1 DEF Counting, OfSegment
      <4>2. m <= k + 1
        BY <1>7, <1>8, <4>1, ThreadCounts
      <4> HIDE DEF x, m, k, u, w, i
      <4> QED BY <1>6, <1>7, <1>8, <1>9, <2>1, <4>1, <4>2
    <3>2. CASE t \notin Counting
      <4>1. Counting \subseteq Counting'
        BY <1>7, <1>11, <3>2
      <4>2. m <= k
        BY <1>7, <1>8, <4>1, ThreadCounts
      <4> HIDE DEF x, m, k, u, w, i
      <4> QED BY <1>5, <1>6, <1>7, <1>8, <1>9, <2>1, <4>2
    <3> QED BY <3>1, <3>2
  <2>3. OnTheWay' \subseteq OnTheWay
    BY <1>8, <1>11, <2>1 DEF OnTheWay
  <2>4. p <= o
    BY <1>7, <1>8, <2>3, ThreadCounts
  <2>5. ~Held => x <= Quota + b
    <3>1. CASE w >= SegShare
      <4>1. t \in Stopping => t \in Stopping'
        <5>1. ASSUME t \in Stopping PROVE t \in Stopping'
          <6>1. OfSegment(t)'
            BY <1>1, <1>3, <1>13, <5>1 DEF Stopping, OfSegment
          <6> QED BY <1>2, <2>1, <3>1, <6>1 DEF Stopping
        <5> QED BY <5>1
      <4>2. Stopping \subseteq Stopping'
        BY <1>7, <1>11, <4>1
      <4>3. a <= b
        BY <1>7, <1>8, <4>2, ThreadCounts
      <4> HIDE DEF x, a, b
      <4> QED BY <1>6, <1>7, <1>8, <1>9, <4>3
    <3>2. CASE ~(w >= SegShare)
      <4>1. Counting' \subseteq Stopping'
        BY DEF Counting, Stopping
      <4>2. k <= b
        BY <1>8, <4>1, ThreadCounts
      <4>3. w \in Nat
        BY <1>5, <1>6, <2>1
      <4>4. w <= Quota
        BY <1>7, <3>2, <4>3 DEF Quota
      <4> HIDE DEF x, k, b, w
      <4> QED BY <1>6, <1>7, <1>8, <2>2, <4>2, <4>3, <4>4
    <3> QED BY <3>1, <3>2
  <2> HIDE DEF x, n, a, b, m, k, o, p, u, w, i, r
  <2>6. Held => x + p <= Quota + n + late
    BY <1>6, <1>7, <1>8, <1>9, <2>4
  <2> QED BY <1>1, <1>2, <1>9, <1>10, <2>1, <2>2, <2>5, <2>6 DEF Rate, n, a, b, m, k, o, p, w
<1>14. CASE r # 6 /\ ~(r = 3 /\ i = 1)
  <2>1. Imps' = Imps /\ w = u
    BY <1>3, <1>4, <1>5, <1>6, <1>14
  <2>2. t \in Counting => t \in Counting'
    <3> SUFFICES ASSUME t \in Counting PROVE t \in Counting'
      OBVIOUS
    <3>1. r \in {4, 5} /\ OfSegment(t)
      BY <1>3, <1>14 DEF Counting
    <3>2. step'[t] \in 4 .. 6 /\ OfSegment(t)'
      BY <1>1, <1>3, <3>1 DEF OfSegment
    <3> QED BY <3>2 DEF Counting
  <2>3. t \in Stopping => t \in Stopping'
    <3> SUFFICES ASSUME t \in Stopping PROVE t \in Stopping'
      OBVIOUS
    <3>1. r \in {4, 5, 7, 8, 9} /\ OfSegment(t)
          /\ (r >= 7 => got[t][<<"m", "imp">>] >= SegShare)
      BY <1>3, <1>14 DEF Stopping
    <3>2. /\ step'[t] \in 4 .. 12 /\ OfSegment(t)'
          /\ step'[t] >= 7 => r >= 7 /\ got'[t][<<"m", "imp">>] = got[t][<<"m", "imp">>]
      BY <1>1, <1>3, <1>4, <1>14, <3>1 DEF OfSegment
    <3> QED BY <1>2, <3>1, <3>2 DEF Stopping
  <2>4. t \in OnTheWay' => t \in OnTheWay
    BY <1>3 DEF OnTheWay
  <2>5. /\ Counting \subseteq Counting' /\ Stopping \subseteq Stopping'
        /\ OnTheWay' \subseteq OnTheWay
    BY <1>7, <1>8, <1>11, <2>2, <2>3, <2>4
  <2> QED BY <1>1, <1>10, <2>1, <2>5, RateIdle
<1> QED BY <1>5, <1>12, <1>13, <1>14

\* A new segment has seen no impression.
LEMMA RateTick ==
  ASSUME TypeOK, TypeOK', Tick
  PROVE  Rate'
<1>1. base' = Imps' /\ Imps' \in Nat
  <2>1. UNCHANGED cnt /\ base' = cnt[Day'][<<"p", "imp">>]
    BY DEF Tick
  <2>2. Imps' \in Nat
    BY RateTypesNext
  <2> QED BY <2>1, <2>2 DEF Imps
<1>2. Burst' = 0
  <2> DEFINE o == Imps'
  <2>1. Burst' = o - base' /\ base' = o /\ o \in Nat
    BY <1>1 DEF Burst
  <2> HIDE DEF o
  <2> QED BY <2>1
<1>3. /\ Quota' \in Nat /\ late' \in Nat /\ Cardinality(Threads) \in Nat
      /\ Cardinality(OnTheWay)' \in Nat /\ Cardinality(Counting)' \in Nat
      /\ Cardinality(Stopping)' \in Nat /\ ten'[Split']["imp"] \in Nat
      /\ Cardinality(OnTheWay)' <= Cardinality(Threads)
  BY RateSizesNext, RateTypesNext
<1> QED BY <1>1, <1>2, <1>3 DEF Rate

LEMMA RateStep == TypeOK /\ SameInv /\ RateInv /\ [Next]_vars => RateInv'
<1> SUFFICES ASSUME TypeOK, SameInv, RateInv, [Next]_vars, Calm', UniformPolicy'
             PROVE  Rate'
  BY DEF RateInv
<1> USE DEF clock, platform, counters, thread, reload, bounds, history
<1>1. /\ TypeOK' /\ Calm /\ setting' = setting /\ fails = 0 /\ fails' = 0
      /\ ~Crash /\ ~EditSetting /\ ~ListPolicy
  BY TypeStep, NoFailure, NoEdit DEF Calm
<1>2. UniformPolicy /\ Rate
  BY <1>1 DEF UniformPolicy, RateInv
<1>3. /\ step \in [Threads -> 0 .. 13] /\ got \in [Threads -> [DOMAIN Zero -> Nat]]
      /\ DOMAIN pause = Levels /\ "p" \in Levels /\ "c" \in Levels
  BY DEF TypeOK, Levels
<1>4. ASSUME UNCHANGED <<seg, cnt, base, ten, late>>, Held => Held',
             \A t \in Threads :
               \/ step'[t] = step[t] /\ ev'[t] = ev[t] /\ got'[t] = got[t]
               \/ step[t] \in 1 .. 2 /\ step'[t] \in {0, 2}
               \/ step[t] \in 10 .. 11 /\ step'[t] \in 11 .. 12
                    /\ ev'[t] = ev[t] /\ got'[t] = got[t]
               \/ step[t] \in 12 .. 13 /\ step'[t] \in {0, 13}
                    /\ (step[t] = 12 /\ t \in Stopping => Held')
      PROVE  Rate'
  <2>1. SegShare' = SegShare /\ Split' = Split /\ Day' = Day /\ Imps' = Imps
    BY <1>1, <1>4, ShareSame DEF Imps
  <2>2. OnTheWay' \subseteq OnTheWay
    BY <1>4 DEF OnTheWay
  <2>3. Counting \subseteq Counting'
    BY <1>4 DEF Counting, OfSegment
  <2>4. ~Held' => Stopping \subseteq Stopping'
    <3> SUFFICES ASSUME ~Held', NEW t \in Stopping PROVE t \in Stopping'
      OBVIOUS
    <3>1. /\ t \in Threads /\ step[t] \in 4 .. 12 /\ OfSegment(t)
          /\ step[t] >= 7 => got[t][<<"m", "imp">>] >= SegShare
      BY DEF Stopping
    <3>2. \/ step'[t] = step[t] /\ ev'[t] = ev[t] /\ got'[t] = got[t]
          \/ step[t] \in 10 .. 11 /\ step'[t] \in 11 .. 12
               /\ ev'[t] = ev[t] /\ got'[t] = got[t]
      BY <1>4, <3>1
    <3>3. OfSegment(t)' /\ got'[t] = got[t]
      BY <1>4, <3>1, <3>2 DEF OfSegment
    <3> QED BY <2>1, <3>1, <3>2, <3>3 DEF Stopping
  <2> QED BY <1>1, <1>2, <1>4, <2>1, <2>2, <2>3, <2>4, RateIdle
<1>5. CASE Tick
  BY <1>1, <1>5, RateTick
<1>6. ASSUME NEW m \in Levels, ExpirePause(m) PROVE Rate'
  <2>1. /\ UNCHANGED <<seg, cnt, base, ten, late, step, ev, got>>
        /\ pause' = [pause EXCEPT ![m] = NoPause] /\ pause[m].until <= seg
    BY <1>6 DEF ExpirePause
  <2>2. seg \in Nat /\ pause["p"].until \in Nat
    BY <1>3, RateTypes DEF TypeOK
  <2>3. Held => m # "p"
    BY <2>1, <2>2 DEF Held
  <2>4. Held => Held'
    BY <1>3, <2>1, <2>3 DEF Held, Paused
  <2> QED BY <1>4, <2>1, <2>4
<1>7. ASSUME NEW t \in Threads, ThreadStep(t) PROVE Rate'
  <2>1. CASE \E e \in Events : Begin(t, e)
    <3>1. PICK e \in Events : Begin(t, e)
      BY <2>1
    <3>2. /\ UNCHANGED <<seg, cnt, base, ten, pause, got>> /\ step[t] = 0
          /\ step' = [step EXCEPT ![t] = 1] /\ ev' = [ev EXCEPT ![t] = e]
          /\ (\A l \in Levels : ~Paused(l)) \/ late' = late + 1
      BY <3>1 DEF Begin, Idle
    <3>3. SegShare' = SegShare /\ Split' = Split /\ Imps' = Imps
      BY <1>1, <3>2, ShareSame DEF Imps
    <3>4. (Held' <=> Held) /\ (Held => late' = late + 1)
      BY <1>3, <3>2 DEF Held, Paused
    <3>5. \A s \in Threads : s # t => step'[s] = step[s] /\ ev'[s] = ev[s]
      BY <3>2 DEF TypeOK
    <3>6. OnTheWay' \subseteq OnTheWay \cup {t}
      BY <3>5 DEF OnTheWay
    <3>7. Counting \subseteq Counting' /\ Stopping \subseteq Stopping'
      BY <3>2, <3>3, <3>5 DEF Counting, Stopping, OfSegment
    <3> QED BY <1>1, <1>2, <3>2, <3>3, <3>4, <3>6, <3>7, RateIdle
  <2>2. CASE GetPolicyControl(t)
    <3>1. /\ UNCHANGED <<seg, cnt, base, ten, late, pause>> /\ step[t] = 1
          /\ (step' = [step EXCEPT ![t] = 2] /\ UNCHANGED <<ev, got>>) \/ Return(t)
      BY <2>2 DEF GetPolicyControl
    <3>2. step'[t] \in {0, 2} /\ \A s \in Threads : s # t =>
            step'[s] = step[s] /\ ev'[s] = ev[s] /\ got'[s] = got[s]
      BY <1>3, <3>1 DEF Return, Idle, TypeOK
    <3>3. Held => Held'
      BY <3>1 DEF Held, Paused
    <3>4. step[t] \in 1 .. 2
      BY <3>1
    <3> QED BY <1>4, <3>1, <3>2, <3>3, <3>4
  <2>3. CASE Count(t)
    BY <1>1, <1>2, <2>3, RateCount
  <2>4. CASE ExpireTen(t)
    <3>1. /\ UNCHANGED <<seg, cnt, base, ten, late, pause, ev, got>> /\ step[t] = 10
          /\ step' = [step EXCEPT ![t] = 11]
      BY <2>4 DEF ExpireTen
    <3>2. step'[t] = 11 /\ \A s \in Threads : s # t => step'[s] = step[s]
      BY <1>3, <3>1
    <3>3. Held => Held'
      BY <3>1 DEF Held, Paused
    <3>4. step[t] \in 10 .. 11 /\ step'[t] \in 11 .. 12
      BY <3>1, <3>2
    <3> QED BY <1>4, <3>1, <3>2, <3>3, <3>4
  <2>5. CASE KpiCampaign(t)
    <3>1. /\ UNCHANGED <<seg, cnt, base, ten, late, ev, got>> /\ step[t] = 11
          /\ step' = [step EXCEPT ![t] = 12]
      BY <2>5 DEF KpiCampaign
    <3>2. pause'["p"] = pause["p"]
      BY <1>1, <1>3, <2>5, WriteFacts
    <3>3. step'[t] = 12 /\ \A s \in Threads : s # t => step'[s] = step[s]
      BY <1>3, <3>1
    <3>4. Held => Held'
      BY <3>1, <3>2 DEF Held, Paused
    <3>5. step[t] \in 10 .. 11 /\ step'[t] \in 11 .. 12
      BY <3>1, <3>3
    <3> QED BY <1>4, <3>1, <3>3, <3>4, <3>5
  <2>6. CASE KpiPolicy(t)
    <3>1. UNCHANGED <<seg, cnt, base, ten, late>> /\ step[t] = 12
      BY <2>6 DEF KpiPolicy
    <3>2. /\ step'[t] \in {0, 13}
          /\ pause'["p"] = IF Verdict(t, "p") = NoPause THEN pause["p"] ELSE Verdict(t, "p")
          /\ \A s \in Threads : s # t =>
               step'[s] = step[s] /\ ev'[s] = ev[s] /\ got'[s] = got[s]
      BY <1>1, <1>3, <2>6, WriteFacts
    <3>3. LET v == Verdict(t, "p") IN
          /\ v # NoPause => v.reason # 0 /\ v.until > seg
          /\ t \in Stopping => v # NoPause
      BY <1>1, <1>2, <3>1, UniformVerdict
    <3>4. (Held => Held') /\ (t \in Stopping => Held')
      BY <3>1, <3>2, <3>3 DEF Held, Paused
    <3>5. step[t] \in 12 .. 13
      BY <3>1
    <3> QED BY <1>4, <3>1, <3>2, <3>4, <3>5
  <2>7. CASE RemovePolicyId(t)
    <3>1. UNCHANGED <<seg, cnt, base, ten, late, pause>> /\ step[t] = 13 /\ Return(t)
      BY <2>7 DEF RemovePolicyId, Finish
    <3>2. step'[t] = 0 /\ \A s \in Threads : s # t =>
            step'[s] = step[s] /\ ev'[s] = ev[s] /\ got'[s] = got[s]
      BY <1>3, <3>1 DEF Return, Idle, TypeOK
    <3>3. Held => Held'
      BY <3>1 DEF Held, Paused
    <3>4. step[t] \in 12 .. 13 /\ step[t] # 12
      BY <3>1
    <3> QED BY <1>4, <3>1, <3>2, <3>3, <3>4
  <2> QED BY <1>7, <2>1, <2>2, <2>3, <2>4, <2>5, <2>6, <2>7 DEF ThreadStep
<1>8. CASE ReloadStep \/ UNCHANGED vars
  <2>1. ~CheckAct
    BY <1>1 DEF SameInv, CheckAct
  <2>2. UNCHANGED <<seg, cnt, base, ten, late, pause, step, ev, got>>
    BY <1>8, <2>1 DEF ReloadStep, vars, LoadCampaignControl, LoadPolicyControl,
       LoadFail, CheckGuard, CheckGet, Publish
  <2>3. Held => Held'
    BY <2>2 DEF Held, Paused
  <2> QED BY <1>4, <2>2, <2>3
<1> QED BY <1>1, <1>5, <1>6, <1>7, <1>8 DEF Next

UniformInv == TypeOK /\ SameInv /\ RateInv

LEMMA UniformInit == Init => UniformInv
<1> SUFFICES ASSUME Init PROVE UniformInv
  OBVIOUS
<1>1. TypeOK /\ SameInv
  BY KpiInit DEF KpiInv
<1>2. Imps = 0 /\ base = 0 /\ Burst = 0
  <2>1. Day \in Days /\ <<"p", "imp">> \in DayKeys
    BY <1>1, ClockFacts DEF TypeOK, DayKeys, Levels
  <2>2. Imps = 0 /\ base = 0
    BY <2>1 DEF Init, Imps
  <2> QED BY <2>2 DEF Burst
<1>3. /\ Quota \in Nat /\ late \in Nat /\ Cardinality(Threads) \in Nat
      /\ Cardinality(OnTheWay) \in Nat /\ Cardinality(Counting) \in Nat
      /\ Cardinality(Stopping) \in Nat /\ ten[Split]["imp"] \in Nat
      /\ Cardinality(OnTheWay) <= Cardinality(Threads)
  BY <1>1, RateSizes, RateTypes
<1>4. Rate
  BY <1>2, <1>3 DEF Rate
<1> QED BY <1>1, <1>4 DEF UniformInv, RateInv

LEMMA UniformStep == UniformInv /\ [Next]_vars => UniformInv'
BY TypeStep, SameStep, RateStep DEF UniformInv

\* As long as nobody changes the targets, ten minutes count no more impressions
\* than the segment's share of what was missing when it began, one for every
\* thread and the late ones: for every number of threads, whatever the allowed
\* hours, the target and the length of the day, for events that straddle two
\* segments or midnight, and although the hash of a segment may live too long.
THEOREM UniformDeliveryHolds == Spec => [](edits = 0 => NoBurst)
<1>1. UniformInv /\ edits = 0 => NoBurst
  <2> DEFINE c == cache["p"]
             S == Share(c)
             k == Cardinality(Threads) + late
             n == cnt[Day][<<"p", "imp">>] - base
  <2> SUFFICES ASSUME UniformInv, edits = 0, fails = 0, c.uniform, c.imp > 0,
                      Limit(c.clk) = -1, ~(n <= k)
               PROVE  (n - k) * S < c.imp - base
    BY DEF NoBurst
  <2>1. Calm /\ "p" \in Levels /\ SameInv /\ TypeOK /\ RateInv
    BY DEF Calm, Levels, UniformInv
  <2>2. c = setting["p"]
    <3>1. c # Missing
      BY DEF Missing
    <3> QED BY <2>1, <3>1, LoadedIsSetting
  <2>3. Rate
    BY <2>1, <2>2 DEF RateInv, UniformPolicy
  <2>4. n = Burst /\ n \in Int /\ S \in Nat /\ S # 0 /\ c.imp - base \in Int
    BY <2>1, <2>2, RateTypes DEF Burst, Imps
  <2>5. /\ Quota \in Nat /\ k \in Nat /\ late \in Nat /\ Cardinality(Threads) \in Nat
        /\ Cardinality(OnTheWay) \in Nat /\ Cardinality(Stopping) \in Nat
        /\ Cardinality(Stopping) <= Cardinality(Threads) /\ SegShare \in Int
    BY <2>1, RateSizes
  <2>6. n <= Quota + k
    BY <2>3, <2>4, <2>5 DEF Rate
  <2>7. SegShare = CeilDiv(c.imp - base, S)
    BY <2>2 DEF SegShare
  <2> HIDE DEF c, S, k, n
  <2>8. n - k \in Int /\ n - k <= Quota /\ n - k > 0
    BY <2>4, <2>5, <2>6
  <2>9. n - k < SegShare
    BY <2>5, <2>8 DEF Quota
  <2> QED BY <2>4, <2>7, <2>8, <2>9, CeilDivFacts
<1> QED BY <1>1, UniformInit, UniformStep, PTL DEF Spec

==============================================================================
