---------------------------- MODULE TrackerProofs ----------------------------
(***************************************************************************)
(* Proofs about module Tracker, for any number of threads, ads and copies. *)
(***************************************************************************)
EXTENDS Tracker, FiniteSetTheorems, TLAPS

\* A thread that is not idle works on a notice of a bid that was sent; only a
\* thread that has passed the SETEX has iv = 1, and it has no price before.
LocalInv ==
    \A t \in Threads :
        /\ pc[t] = "idle" => req[t] = NoReq
        /\ pc[t] # "idle" => req[t] \in Requests /\ issued[req[t].ad]
        /\ iv[t] => pc[t] \in {"price", "kafka", "count"}
        /\ pc[t] \in {"price", "count"} => iv[t]
        /\ pc[t] \in {"idle", "get", "set", "price"} => price[t] = NoPrice
        /\ pc[t] = "set" => seen[t] # {} /\ Fresh(req[t].mtype, seen[t])

\* A show bit, in a key or in a thread's copy of it, was stored once.
ShowInv ==
    /\ \A a \in Ads : "show" \in flag[a] => shown[a]
    /\ \A t \in Threads :
           (pc[t] = "set" /\ "show" \in seen[t]) => shown[req[t].ad]
    /\ ClickNeedsShow

\* What holds of an ad as long as no two threads overlapped on its key: at
\* most one thread is about to write it, that thread's copy is up to date (or
\* the key expired meanwhile) and has the bit of every valid notice.
SerialInv ==
    \A a \in Ads :
        /\ \A m \in MTypes : accepted[a][m] > 0 => issued[a]
        /\ ~overlap[a] =>
              /\ \A t, u \in Threads :
                     (t # u /\ pc[t] = "set" /\ pc[u] = "set"
                            /\ req[t].ad = a) => req[u].ad # a
              /\ \A t \in Threads :
                     (pc[t] = "set" /\ req[t].ad = a) =>
                         /\ flag[a] = seen[t] \/ flag[a] = {}
                         /\ \A m \in MTypes :
                                accepted[a][m] > 0 => Bit(m) \in seen[t]
              /\ \A m \in MTypes :
                     /\ accepted[a][m] <= 1
                     /\ accepted[a][m] > 0
                            => flag[a] = {} \/ Bit(m) \in flag[a]

\* Only win notices put prices into the price keys.
PriceInv ==
    /\ \A i \in Imps : priceKey[i] # NoPrice => priceKey[i] \in won[i]
    /\ ChargedPriceWasWon

IInv == TypeOK /\ LocalInv /\ ShowInv /\ SerialInv /\ PriceInv

\* The invariant holds initially.
LEMMA InitIInv == Init => IInv
<1> SUFFICES ASSUME Init PROVE IInv
  OBVIOUS
<1> USE DEF Init
<1>1. TypeOK
  BY TrackerAssumption DEF TypeOK, MTypes, Codes, NoPrice, NoReq
<1>2. LocalInv
  BY DEF LocalInv
<1>3. ShowInv
  BY DEF ShowInv, ClickNeedsShow, MTypes
<1>4. SerialInv
  BY DEF SerialInv, MTypes
<1>5. PriceInv
  BY DEF PriceInv, ChargedPriceWasWon
<1> QED BY <1>1, <1>2, <1>3, <1>4, <1>5 DEF IInv

\* Every step keeps the types.
LEMMA TypeStep == TypeOK /\ LocalInv /\ [Next]_vars => TypeOK'
<1> SUFFICES ASSUME TypeOK, LocalInv, [Next]_vars PROVE TypeOK'
  OBVIOUS
<1> USE TrackerAssumption DEF TypeOK, redis, local, history
<1>1. ASSUME NEW a \in Ads, SetBidRedisFlag(a) \/ ExpireFlag(a) PROVE TypeOK'
  <2>1. CASE SetBidRedisFlag(a)
    BY <2>1 DEF SetBidRedisFlag, Bits
  <2>2. CASE ExpireFlag(a)
    BY <2>2 DEF ExpireFlag
  <2> QED BY <1>1, <2>1, <2>2
<1>2. ASSUME NEW i \in Imps, ExpirePrice(i) PROVE TypeOK'
  BY <1>2 DEF ExpirePrice
<1>3. CASE Crash
  <2>1. lost' \in [Ads -> [MTypes -> Nat]]
    <3>1. ASSUME NEW a \in Ads, NEW m \in MTypes
          PROVE  Cardinality(InFlight(a, m)) \in Nat
      BY FS_Subset, FS_CardinalityType DEF InFlight
    <3> QED BY <1>3, <3>1 DEF Crash
  <2> QED BY <1>3, <2>1 DEF Crash, Codes
<1>4. ASSUME NEW t \in Threads, Step(t) PROVE TypeOK'
  <2> USE DEF LocalInv
  <2>1. ASSUME NEW a \in Ads, NEW m \in MTypes,
               NEW p \in Prices \cup {NoPrice}, Accept(t, a, m, p)
        PROVE  TypeOK'
    BY <2>1 DEF Accept, Requests
  <2>2. ASSUME NEW a \in Ads, NEW m \in MTypes, Malformed(t, a, m)
        PROVE  TypeOK'
    BY <2>2 DEF Malformed
  <2>3. CASE GetFlagFresh(t)
    BY <2>3 DEF GetFlagFresh, Requests
  <2>4. CASE GetFlagRefuse(t)
    BY <2>4 DEF GetFlagRefuse, Codes, RepeatedCode
  <2>5. CASE SetFlag(t)
    BY <2>5 DEF SetFlag, Requests, Bit, Bits, MTypes
  <2>6. CASE SetFlagFail(t)
    <3>1. req[t].ad \in Ads /\ Bit(req[t].mtype) \in Bits
      BY <2>6 DEF SetFlagFail, Requests, Bit, Bits, MTypes
    <3>2. flag' \in [Ads -> SUBSET Bits] /\ shown' \in [Ads -> BOOLEAN]
      <4>1. CASE UNCHANGED <<flag, shown>>
        BY <4>1
      <4>2. CASE /\ flag' = [flag EXCEPT ![req[t].ad] =
                                 seen[t] \cup {Bit(req[t].mtype)}]
                 /\ shown' = [shown EXCEPT ![req[t].ad] =
                                 @ \/ req[t].mtype = "i"]
        BY <3>1, <4>2
      <4> QED BY <2>6, <4>1, <4>2 DEF SetFlagFail
    <3> QED BY <2>6, <3>2 DEF SetFlagFail, Codes
  <2>7. CASE DealPrice(t) \/ WinPrice(t) \/ ImpPrice(t) \/ OtherPrice(t)
    <3>1. CASE DealPrice(t)
      <4>1. price' \in [Threads -> Prices \cup {NoPrice}]
        <5>1. CASE UNCHANGED price
          BY <5>1
        <5>2. CASE /\ req[t].mtype \in {"i", "c"}
                   /\ price' = [price EXCEPT ![t] = FixPrice[req[t].mtype]]
          <6>1. FixPrice[req[t].mtype] \in Prices \cup {NoPrice}
            BY <5>2
          <6> QED BY <5>2, <6>1
        <5> QED BY <3>1, <5>1, <5>2 DEF DealPrice
      <4> QED BY <3>1, <4>1 DEF DealPrice
    <3>2. CASE WinPrice(t)
      <4>1. ImpOf[req[t].ad] \in Imps /\ req[t].price \in Prices
        BY <3>2 DEF WinPrice, Requests
      <4>2. price' \in [Threads -> Prices \cup {NoPrice}]
        BY <3>2, <4>1 DEF WinPrice
      <4>3. priceKey' \in [Imps -> Prices \cup {NoPrice}]
        BY <3>2, <4>1 DEF WinPrice
      <4>4. won' \in [Imps -> SUBSET Prices]
        BY <3>2, <4>1 DEF WinPrice
      <4>5. pc' \in [Threads -> {"idle", "get", "set", "price", "kafka", "count"}]
        BY <3>2 DEF WinPrice
      <4>6. UNCHANGED <<flag, req, seen, iv, ic, issued, delivered, accepted,
                        handled, lost, shown, overlap>>
        BY <3>2 DEF WinPrice
      <4> QED BY <4>2, <4>3, <4>4, <4>5, <4>6
    <3>3. CASE ImpPrice(t)
      <4>1. ImpOf[req[t].ad] \in Imps /\ req[t].price \in Prices \cup {NoPrice}
        BY <3>3 DEF ImpPrice, Requests
      <4>2. price' \in [Threads -> Prices \cup {NoPrice}]
        BY <3>3, <4>1 DEF ImpPrice
      <4> QED BY <3>3, <4>2 DEF ImpPrice
    <3>4. CASE OtherPrice(t)
      BY <3>4 DEF OtherPrice
    <3> QED BY <2>7, <3>1, <3>2, <3>3, <3>4
  <2>8. CASE KafkaSend(t)
    BY <2>8 DEF KafkaSend
  <2>9. CASE KafkaSendLast(t) \/ DspControl(t)
    <3>1. handled' \in [Ads -> [MTypes -> Nat]]
      <4>1. CASE handled' = handled
        BY <4>1
      <4>2. CASE handled' = [handled EXCEPT ![req[t].ad][req[t].mtype] = @ + 1]
        <5>1. req[t].ad \in Ads /\ req[t].mtype \in MTypes
          BY <2>9 DEF KafkaSendLast, DspControl, Requests
        <5> QED BY <4>2, <5>1
      <4> QED BY <2>9, <4>1, <4>2 DEF KafkaSendLast, DspControl
    <3>2. Finish(t) /\ UNCHANGED <<redis, issued, delivered, accepted, lost,
                                  shown, won, overlap>>
      BY <2>9 DEF KafkaSendLast, DspControl
    <3> QED BY <3>1, <3>2 DEF Finish, Codes
  <2> QED BY <1>4, <2>1, <2>2, <2>3, <2>4, <2>5, <2>6, <2>7, <2>8, <2>9
          DEF Step
<1>5. CASE UNCHANGED vars
  BY <1>5 DEF vars
<1> QED BY <1>1, <1>2, <1>3, <1>4, <1>5 DEF Next

\* Every step keeps what is known of the threads.
LEMMA LocalStep == TypeOK /\ LocalInv /\ [Next]_vars => LocalInv'
<1> SUFFICES ASSUME TypeOK, LocalInv, [Next]_vars PROVE LocalInv'
  OBVIOUS
<1> USE DEF TypeOK, LocalInv, local, history, redis
<1>1. ASSUME NEW a \in Ads, SetBidRedisFlag(a) \/ ExpireFlag(a) PROVE LocalInv'
  <2>1. UNCHANGED local /\ \A b \in Ads : issued[b] => issued'[b]
    BY <1>1 DEF SetBidRedisFlag, ExpireFlag
  <2> QED BY <2>1 DEF Requests
<1>2. ASSUME NEW i \in Imps, ExpirePrice(i) PROVE LocalInv'
  BY <1>2 DEF ExpirePrice
<1>3. CASE Crash
  BY <1>3 DEF Crash
<1>4. ASSUME NEW t \in Threads, Step(t) PROVE LocalInv'
  <2>1. ASSUME NEW a \in Ads, NEW m \in MTypes,
               NEW p \in Prices \cup {NoPrice}, Accept(t, a, m, p)
        PROVE  LocalInv'
    BY <2>1 DEF Accept, Requests
  <2>2. ASSUME NEW a \in Ads, NEW m \in MTypes, Malformed(t, a, m)
        PROVE  LocalInv'
    BY <2>2 DEF Malformed
  <2>3. CASE GetFlagFresh(t)
    BY <2>3 DEF GetFlagFresh, Requests
  <2>4. CASE GetFlagRefuse(t)
    BY <2>4 DEF GetFlagRefuse
  <2>5. CASE SetFlag(t) \/ SetFlagFail(t)
    BY <2>5 DEF SetFlag, SetFlagFail
  <2>6. CASE DealPrice(t) \/ WinPrice(t) \/ ImpPrice(t) \/ OtherPrice(t)
    BY <2>6 DEF DealPrice, WinPrice, ImpPrice, OtherPrice
  <2>7. CASE KafkaSend(t)
    BY <2>7 DEF KafkaSend
  <2>8. CASE KafkaSendLast(t) \/ DspControl(t)
    <3>1. Finish(t) /\ UNCHANGED issued
      BY <2>8 DEF KafkaSendLast, DspControl
    <3> QED BY <3>1 DEF Finish
  <2> QED BY <1>4, <2>1, <2>2, <2>3, <2>4, <2>5, <2>6, <2>7, <2>8 DEF Step
<1>5. CASE UNCHANGED vars
  BY <1>5 DEF vars
<1> QED BY <1>1, <1>2, <1>3, <1>4, <1>5 DEF Next

\* The threads that are about to write a key stay as they are.
SameWriters ==
    \A u \in Threads : pc'[u] = "set" => /\ pc[u] = "set"
                                         /\ req'[u] = req[u]
                                         /\ seen'[u] = seen[u]

\* Apart from the GET and the SETEX of a key, a step of a thread touches
\* neither a flag key nor what is recorded about valid notices.
LEMMA QuietStep ==
  ASSUME TypeOK, NEW t \in Threads, Step(t),
         ~GetFlagFresh(t), ~SetFlag(t), ~SetFlagFail(t)
  PROVE  UNCHANGED <<flag, accepted, shown, overlap, issued>> /\ SameWriters
<1> USE DEF TypeOK, SameWriters, local, history, redis
<1> DEFINE Quiet == UNCHANGED <<flag, accepted, shown, overlap, issued>>
                    /\ SameWriters
<1>1. ASSUME NEW a \in Ads, NEW m \in MTypes,
             NEW p \in Prices \cup {NoPrice}, Accept(t, a, m, p)
      PROVE  Quiet
  BY <1>1 DEF Accept
<1>2. ASSUME NEW a \in Ads, NEW m \in MTypes, Malformed(t, a, m)
      PROVE  Quiet
  BY <1>2 DEF Malformed
<1>3. CASE GetFlagRefuse(t)
  BY <1>3 DEF GetFlagRefuse
<1>4. CASE DealPrice(t) \/ WinPrice(t) \/ ImpPrice(t) \/ OtherPrice(t)
  BY <1>4 DEF DealPrice, WinPrice, ImpPrice, OtherPrice
<1>5. CASE KafkaSend(t)
  BY <1>5 DEF KafkaSend
<1>6. CASE KafkaSendLast(t) \/ DspControl(t)
  BY <1>6 DEF KafkaSendLast, DspControl, Finish
<1> QED BY <1>1, <1>2, <1>3, <1>4, <1>5, <1>6 DEF Step

\* What a GET that finds a new notice does.
LEMMA GetStep ==
  ASSUME TypeOK, LocalInv, NEW t \in Threads, GetFlagFresh(t)
  PROVE  /\ req[t].ad \in Ads /\ req[t].mtype \in MTypes
         /\ pc[t] = "get" /\ flag[req[t].ad] # {}
         /\ pc' = [pc EXCEPT ![t] = "set"]
         /\ seen' = [seen EXCEPT ![t] = flag[req[t].ad]]
         /\ overlap' = [overlap EXCEPT ![req[t].ad] =
                            @ \/ Others(t, req[t].ad) # {}]
         /\ UNCHANGED <<flag, req, accepted, shown, issued>>
  BY DEF GetFlagFresh, TypeOK, LocalInv, Requests, redis

\* What a SETEX does, acknowledged or not.
LEMMA SetStep ==
  ASSUME TypeOK, LocalInv, NEW t \in Threads, SetFlag(t) \/ SetFlagFail(t)
  PROVE  LET a == req[t].ad
             m == req[t].mtype
         IN  /\ a \in Ads /\ m \in MTypes
             /\ pc[t] = "set" /\ Fresh(m, seen[t])
             /\ \/ pc' = [pc EXCEPT ![t] = "price"]
                \/ pc' = [pc EXCEPT ![t] = "kafka"]
             /\ UNCHANGED <<req, seen, overlap, issued>>
             /\ \/ /\ UNCHANGED <<flag, shown, accepted>>
                \/ /\ flag' = [flag EXCEPT ![a] = seen[t] \cup {Bit(m)}]
                   /\ shown' = [shown EXCEPT ![a] = @ \/ m = "i"]
                   /\ \/ UNCHANGED accepted
                      \/ accepted' = [accepted EXCEPT ![a][m] = @ + 1]
<1>1. CASE SetFlag(t)
  BY <1>1 DEF SetFlag, TypeOK, LocalInv, Requests
<1>2. CASE SetFlagFail(t)
  BY <1>2 DEF SetFlagFail, TypeOK, LocalInv, Requests
<1> QED BY <1>1, <1>2

\* A show bit always goes back to an impression that was stored.
LEMMA ShowStep == TypeOK /\ LocalInv /\ ShowInv /\ [Next]_vars => ShowInv'
<1> SUFFICES ASSUME TypeOK, LocalInv, ShowInv, [Next]_vars PROVE ShowInv'
  OBVIOUS
<1> USE DEF TypeOK, ShowInv, ClickNeedsShow, local, history, redis
<1>1. ASSUME NEW a \in Ads, SetBidRedisFlag(a) \/ ExpireFlag(a) PROVE ShowInv'
  <2>1. UNCHANGED <<pc, req, seen, shown, accepted>>
    BY <1>1 DEF SetBidRedisFlag, ExpireFlag
  <2>2. flag' = [flag EXCEPT ![a] = {"bid"}] \/ flag' = [flag EXCEPT ![a] = {}]
    BY <1>1 DEF SetBidRedisFlag, ExpireFlag
  <2>3. \A b \in Ads : "show" \in flag'[b] => "show" \in flag[b]
    <3>1. CASE flag' = [flag EXCEPT ![a] = {"bid"}]
      BY <3>1
    <3>2. CASE flag' = [flag EXCEPT ![a] = {}]
      BY <3>2
    <3> QED BY <2>2, <3>1, <3>2
  <2> QED BY <2>1, <2>3
<1>2. ASSUME NEW i \in Imps, ExpirePrice(i) PROVE ShowInv'
  BY <1>2 DEF ExpirePrice
<1>3. CASE Crash
  BY <1>3 DEF Crash
<1>4. ASSUME NEW t \in Threads, Step(t) PROVE ShowInv'
  <2> HIDE DEF TypeOK
  <2>1. CASE GetFlagFresh(t)
    <3>1. /\ req[t].ad \in Ads
          /\ pc' = [pc EXCEPT ![t] = "set"]
          /\ seen' = [seen EXCEPT ![t] = flag[req[t].ad]]
          /\ UNCHANGED <<flag, req, accepted, shown>>
      BY <2>1, GetStep
    <3> QED BY <3>1 DEF TypeOK
  <2>2. CASE SetFlag(t) \/ SetFlagFail(t)
    <3> DEFINE a == req[t].ad
               m == req[t].mtype
    <3>1. /\ pc[t] = "set" /\ a \in Ads /\ m \in MTypes
          /\ Fresh(m, seen[t]) /\ UNCHANGED <<req, seen>>
          /\ pc' = [pc EXCEPT ![t] = "price"] \/ pc' = [pc EXCEPT ![t] = "kafka"]
      BY <2>2, SetStep
    <3>2. \A b \in Ads : shown[b] => shown'[b]
      <4>1. UNCHANGED shown \/ shown' = [shown EXCEPT ![a] = @ \/ m = "i"]
        BY <2>2, SetStep
      <4>2. shown \in [Ads -> BOOLEAN]
        BY DEF TypeOK
      <4> HIDE DEF ShowInv, ClickNeedsShow, a, m
      <4>3. CASE UNCHANGED shown
        BY <4>3
      <4>4. CASE shown' = [shown EXCEPT ![a] = @ \/ m = "i"]
        <5> SUFFICES ASSUME NEW b \in Ads, shown[b] PROVE shown'[b]
          OBVIOUS
        <5>1. CASE b = a
          BY <4>2, <4>4, <5>1, Zenon
        <5>2. CASE b # a
          BY <4>2, <4>4, <5>2, Zenon
        <5> QED BY <5>1, <5>2
      <4> QED BY <4>1, <4>3, <4>4
    <3>3. \A b \in Ads : "show" \in flag'[b] => shown'[b]
      <4>1. CASE UNCHANGED <<flag, shown>>
        BY <4>1
      <4>2. CASE /\ flag' = [flag EXCEPT ![a] = seen[t] \cup {Bit(m)}]
                 /\ shown' = [shown EXCEPT ![a] = @ \/ m = "i"]
        <5>1. m # "i" => Bit(m) # "show"
          BY <3>1 DEF Bit, MTypes
        <5> QED BY <3>1, <4>2, <5>1 DEF TypeOK
      <4> QED BY <2>2, <4>1, <4>2, SetStep
    <3>4. \A b \in Ads : accepted'[b]["c"] > 0 => shown'[b]
      <4>1. CASE UNCHANGED accepted
        BY <3>2, <4>1
      <4>2. CASE accepted' = [accepted EXCEPT ![a][m] = @ + 1]
        <5>1. m = "c" => shown[a]
          BY <3>1 DEF Fresh
        <5> QED BY <3>1, <3>2, <4>2, <5>1 DEF TypeOK, MTypes
      <4> QED BY <2>2, <4>1, <4>2, SetStep
    <3>5. \A u \in Threads :
              (pc'[u] = "set" /\ "show" \in seen'[u]) => shown'[req'[u].ad]
      BY <3>1, <3>2 DEF TypeOK, LocalInv, Requests
    <3> QED BY <3>3, <3>4, <3>5
  <2>3. CASE ~GetFlagFresh(t) /\ ~SetFlag(t) /\ ~SetFlagFail(t)
    BY <1>4, <2>3, QuietStep DEF SameWriters
  <2> QED BY <2>1, <2>2, <2>3
<1>5. CASE UNCHANGED vars
  BY <1>5 DEF vars
<1> QED BY <1>1, <1>2, <1>3, <1>4, <1>5 DEF Next

\* The facts about an ad without overlap survive every step.
LEMMA SerialStep == TypeOK /\ LocalInv /\ SerialInv /\ [Next]_vars => SerialInv'
<1> SUFFICES ASSUME TypeOK, LocalInv, SerialInv, [Next]_vars PROVE SerialInv'
  OBVIOUS
<1> USE DEF local, history, redis
<1>1. ASSUME NEW a \in Ads, SetBidRedisFlag(a) PROVE SerialInv'
  <2>1. /\ ~issued[a]
        /\ flag' = [flag EXCEPT ![a] = {"bid"}]
        /\ \A b \in Ads : issued[b] => issued'[b]
        /\ UNCHANGED <<pc, req, seen, accepted, overlap>>
    BY <1>1 DEF SetBidRedisFlag, TypeOK
  <2>2. \A t \in Threads : pc[t] = "set" => req[t].ad # a
    BY <2>1 DEF LocalInv
  <2>3. \A m \in MTypes : ~(accepted[a][m] > 0) /\ accepted[a][m] <= 1
    BY <2>1 DEF SerialInv, TypeOK
  <2> QED BY <2>1, <2>2, <2>3 DEF SerialInv, TypeOK
<1>2. ASSUME NEW a \in Ads, ExpireFlag(a) PROVE SerialInv'
  BY <1>2 DEF ExpireFlag, SerialInv, TypeOK
<1>3. ASSUME NEW i \in Imps, ExpirePrice(i) PROVE SerialInv'
  BY <1>3 DEF ExpirePrice, SerialInv
<1>4. CASE Crash
  BY <1>4 DEF Crash, SerialInv
<1>5. ASSUME NEW t \in Threads, Step(t) PROVE SerialInv'
  <2>1. CASE GetFlagFresh(t)
    <3> DEFINE a == req[t].ad
    <3>1. /\ a \in Ads /\ pc[t] = "get" /\ flag[a] # {}
          /\ pc' = [pc EXCEPT ![t] = "set"]
          /\ seen' = [seen EXCEPT ![t] = flag[a]]
          /\ overlap' = [overlap EXCEPT ![a] = @ \/ Others(t, a) # {}]
          /\ UNCHANGED <<flag, req, accepted, issued>>
      BY <2>1, GetStep
    <3>2. ASSUME NEW b \in Ads, ~overlap'[b] PROVE ~overlap[b]
      BY <3>1, <3>2 DEF TypeOK
    <3>3. ASSUME ~overlap'[a], NEW u \in Threads, u # t, pc[u] = "set"
          PROVE  req[u].ad # a
      BY <3>1, <3>3 DEF TypeOK, Others
    <3>4. ASSUME NEW b \in Ads, ~overlap'[b], NEW u \in Threads,
                 NEW v \in Threads, u # v, pc'[u] = "set", pc'[v] = "set",
                 req'[u].ad = b
          PROVE  req'[v].ad # b
      <4>1. CASE u = t
        BY <3>1, <3>3, <3>4, <4>1 DEF TypeOK
      <4>2. CASE v = t
        BY <3>1, <3>3, <3>4, <4>2 DEF TypeOK
      <4>3. CASE u # t /\ v # t
        BY <3>1, <3>2, <3>4, <4>3 DEF TypeOK, SerialInv
      <4> QED BY <4>1, <4>2, <4>3
    <3>5. ASSUME NEW b \in Ads, ~overlap'[b], NEW u \in Threads,
                 pc'[u] = "set", req'[u].ad = b
          PROVE  /\ flag'[b] = seen'[u] \/ flag'[b] = {}
                 /\ \A m \in MTypes :
                        accepted'[b][m] > 0 => Bit(m) \in seen'[u]
      <4>1. CASE u = t
        BY <3>1, <3>2, <3>5, <4>1 DEF TypeOK, SerialInv
      <4>2. CASE u # t
        BY <3>1, <3>2, <3>5, <4>2 DEF TypeOK, SerialInv
      <4> QED BY <4>1, <4>2
    <3>6. ASSUME NEW b \in Ads, ~overlap'[b], NEW m \in MTypes
          PROVE  /\ accepted'[b][m] <= 1
                 /\ accepted'[b][m] > 0 => flag'[b] = {} \/ Bit(m) \in flag'[b]
      BY <3>1, <3>2, <3>6 DEF SerialInv
    <3>7. \A b \in Ads, m \in MTypes : accepted'[b][m] > 0 => issued'[b]
      BY <3>1 DEF SerialInv
    <3> QED BY <3>4, <3>5, <3>6, <3>7 DEF SerialInv
  <2>2. CASE SetFlag(t) \/ SetFlagFail(t)
    <3> DEFINE a == req[t].ad
               n == req[t].mtype
    <3>1. /\ a \in Ads /\ n \in MTypes
          /\ pc[t] = "set" /\ Fresh(n, seen[t])
          /\ pc' = [pc EXCEPT ![t] = "price"] \/ pc' = [pc EXCEPT ![t] = "kafka"]
          /\ UNCHANGED <<req, seen, overlap, issued>>
      BY <2>2, SetStep
    <3>2. \/ UNCHANGED <<flag, accepted>>
          \/ /\ flag' = [flag EXCEPT ![a] = seen[t] \cup {Bit(n)}]
             /\ \/ UNCHANGED accepted
                \/ accepted' = [accepted EXCEPT ![a][n] = @ + 1]
      BY <2>2, SetStep
    <3>3. issued[a]
      BY <3>1 DEF LocalInv
    <3>4. \A u \in Threads : pc'[u] = "set" => u # t /\ pc[u] = "set"
      BY <3>1 DEF TypeOK
    <3>5. \A b \in Ads, m \in MTypes : accepted'[b][m] > 0 => issued'[b]
      <4>1. CASE UNCHANGED accepted
        BY <3>1, <4>1 DEF SerialInv
      <4>2. CASE accepted' = [accepted EXCEPT ![a][n] = @ + 1]
        BY <3>1, <3>3, <4>2 DEF SerialInv, TypeOK
      <4> QED BY <3>2, <4>1, <4>2
    <3>6. ASSUME NEW b \in Ads, ~overlap'[b], NEW m \in MTypes
          PROVE  /\ accepted'[b][m] <= 1
                 /\ accepted'[b][m] > 0 => flag'[b] = {} \/ Bit(m) \in flag'[b]
      <4>1. CASE UNCHANGED <<flag, accepted>>
        BY <3>1, <3>6, <4>1 DEF SerialInv
      <4>2. CASE /\ b = a
                 /\ flag' = [flag EXCEPT ![a] = seen[t] \cup {Bit(n)}]
        <5>1. accepted[a][m] <= 1 /\ (accepted[a][m] > 0 => Bit(m) \in seen[t])
          BY <3>1, <3>6, <4>2 DEF SerialInv
        <5>2. accepted[a][n] = 0
          <6>1. ~(accepted[a][n] > 0)
            BY <3>1, <3>6, <4>2 DEF SerialInv, Fresh
          <6> QED BY <6>1, <3>1 DEF TypeOK
        <5>3. CASE UNCHANGED accepted
          BY <3>1, <4>2, <5>1, <5>3 DEF TypeOK
        <5>4. CASE accepted' = [accepted EXCEPT ![a][n] = @ + 1]
          BY <3>1, <4>2, <5>1, <5>2, <5>4 DEF TypeOK
        <5> QED BY <3>2, <5>3, <5>4
      <4>3. CASE b # a
        BY <3>1, <3>2, <3>6, <4>3 DEF SerialInv, TypeOK
      <4> QED BY <3>2, <4>1, <4>2, <4>3
    <3>7. ASSUME NEW b \in Ads, ~overlap'[b], NEW u \in Threads,
                 pc'[u] = "set", req'[u].ad = b
          PROVE  /\ flag'[b] = seen'[u] \/ flag'[b] = {}
                 /\ \A m \in MTypes :
                        accepted'[b][m] > 0 => Bit(m) \in seen'[u]
      <4>1. b # a
        BY <3>1, <3>4, <3>7 DEF SerialInv
      <4> QED BY <3>1, <3>2, <3>4, <3>7, <4>1 DEF SerialInv, TypeOK
    <3>8. ASSUME NEW b \in Ads, ~overlap'[b], NEW u \in Threads,
                 NEW v \in Threads, u # v, pc'[u] = "set", pc'[v] = "set",
                 req'[u].ad = b
          PROVE  req'[v].ad # b
      BY <3>1, <3>4, <3>8 DEF SerialInv
    <3> QED BY <3>5, <3>6, <3>7, <3>8 DEF SerialInv
  <2>3. CASE ~GetFlagFresh(t) /\ ~SetFlag(t) /\ ~SetFlagFail(t)
    BY <1>5, <2>3, QuietStep DEF SameWriters, SerialInv
  <2> QED BY <2>1, <2>2, <2>3
<1>6. CASE UNCHANGED vars
  BY <1>6 DEF vars, SerialInv
<1> QED BY <1>1, <1>2, <1>3, <1>4, <1>5, <1>6 DEF Next

\* Prices come from win notices only.
LEMMA PriceStep == TypeOK /\ LocalInv /\ PriceInv /\ [Next]_vars => PriceInv'
<1> SUFFICES ASSUME TypeOK, LocalInv, PriceInv, [Next]_vars PROVE PriceInv'
  OBVIOUS
<1> USE DEF TypeOK, PriceInv, ChargedPriceWasWon, local, history, redis
<1>1. ASSUME NEW a \in Ads, SetBidRedisFlag(a) \/ ExpireFlag(a) PROVE PriceInv'
  BY <1>1 DEF SetBidRedisFlag, ExpireFlag
<1>2. ASSUME NEW i \in Imps, ExpirePrice(i) PROVE PriceInv'
  BY <1>2 DEF ExpirePrice
<1>3. CASE Crash
  BY <1>3 DEF Crash
<1>4. ASSUME NEW t \in Threads, Step(t) PROVE PriceInv'
  <2>1. ASSUME NEW a \in Ads, NEW m \in MTypes,
               NEW p \in Prices \cup {NoPrice}, Accept(t, a, m, p)
        PROVE  PriceInv'
    BY <2>1 DEF Accept, LocalInv
  <2>2. ASSUME NEW a \in Ads, NEW m \in MTypes, Malformed(t, a, m)
        PROVE  PriceInv'
    BY <2>2 DEF Malformed
  <2>3. CASE GetFlagFresh(t) \/ GetFlagRefuse(t) \/ SetFlag(t) \/ SetFlagFail(t)
    BY <2>3 DEF GetFlagFresh, GetFlagRefuse, SetFlag, SetFlagFail
  <2>4. CASE DealPrice(t)
    BY <2>4 DEF DealPrice
  <2>5. CASE WinPrice(t)
    <3> DEFINE i == ImpOf[req[t].ad]
    <3>1. /\ i \in Imps /\ req[t].price \in Prices /\ req[t].mtype = "w"
          /\ price' = [price EXCEPT ![t] = req[t].price]
          /\ \/ priceKey' = [priceKey EXCEPT ![i] = req[t].price]
             \/ UNCHANGED priceKey
          /\ won' = [won EXCEPT ![i] = @ \cup {req[t].price}]
          /\ UNCHANGED req
      BY <2>5, TrackerAssumption DEF WinPrice, LocalInv, Requests
    <3>2. \A j \in Imps : won[j] \subseteq won'[j]
      BY <3>1
    <3>3. \A j \in Imps : priceKey'[j] # NoPrice => priceKey'[j] \in won'[j]
      BY <3>1, <3>2
    <3>4. ChargedPriceWasWon'
      <4>1. ASSUME NEW u \in Threads, price'[u] # NoPrice,
                   req'[u].mtype = "i", req'[u].ad \notin Deals
            PROVE  price'[u] \in won'[ImpOf[req'[u].ad]] \cup {req'[u].price}
        <5>1. u # t /\ price'[u] = price[u] /\ req'[u] = req[u]
          BY <3>1, <4>1
        <5>2. ImpOf[req[u].ad] \in Imps
          BY <4>1, <5>1, TrackerAssumption DEF LocalInv, Requests, NoReq
        <5> QED BY <3>2, <4>1, <5>1, <5>2
      <4> QED BY <4>1
    <3> QED BY <3>3, <3>4
  <2>6. CASE ImpPrice(t)
    <3>1. ImpOf[req[t].ad] \in Imps
      BY <2>6, TrackerAssumption DEF ImpPrice, LocalInv, Requests
    <3> QED BY <2>6, <3>1 DEF ImpPrice
  <2>7. CASE OtherPrice(t) \/ KafkaSend(t)
    BY <2>7 DEF OtherPrice, KafkaSend
  <2>8. CASE KafkaSendLast(t) \/ DspControl(t)
    <3>1. Finish(t) /\ UNCHANGED <<priceKey, won>>
      BY <2>8 DEF KafkaSendLast, DspControl
    <3> QED BY <3>1 DEF Finish
  <2> QED BY <1>4, <2>1, <2>2, <2>3, <2>4, <2>5, <2>6, <2>7, <2>8 DEF Step
<1>5. CASE UNCHANGED vars
  BY <1>5 DEF vars
<1> QED BY <1>1, <1>2, <1>3, <1>4, <1>5 DEF Next

\* The invariant is inductive.
THEOREM Invariant == Spec => []IInv
<1>1. IInv /\ [Next]_vars => IInv'
  BY TypeStep, LocalStep, ShowStep, SerialStep, PriceStep DEF IInv
<1> QED BY <1>1, InitIInv, PTL DEF Spec

\* Every variable of the pipeline keeps its type.
THEOREM TypeCorrect == Spec => []TypeOK
<1>1. IInv => TypeOK
  BY DEF IInv
<1> QED BY <1>1, Invariant, PTL

\* A notice is valid at most once unless two threads overlapped on its key
\* (the GET / SETEX pair of adx_tracker), for any number of threads, copies,
\* failures, expiries and crashes.
THEOREM SerialDedup == Spec => []ValidOnceIfSerial
<1>1. IInv => ValidOnceIfSerial
  BY DEF IInv, SerialInv, ValidOnceIfSerial
<1> QED BY <1>1, Invariant, PTL

\* No interleaving makes a click valid before its impression was stored.
THEOREM ClickAfterShow == Spec => []ClickNeedsShow
<1>1. IInv => ClickNeedsShow
  BY DEF IInv, ShowInv
<1> QED BY <1>1, Invariant, PTL

\* The price an RTB impression is charged was in it or in a win notice.
THEOREM PriceHasSource == Spec => []ChargedPriceWasWon
<1>1. IInv => ChargedPriceWasWon
  BY DEF IInv, PriceInv
<1> QED BY <1>1, Invariant, PTL

\* Without an overlap no recorded bit of a sent bid's key is taken away.
THEOREM BitsStay == Spec => BitsStayIfSerial
<1> DEFINE Keeps == \A a \in Ads : (~overlap'[a] /\ issued[a] /\ flag'[a] # {})
                                      => flag[a] \subseteq flag'[a]
<1>1. IInv /\ [Next]_vars => [Keeps]_vars
  <2> SUFFICES ASSUME IInv, Next PROVE Keeps
    BY DEF vars
  <2> USE DEF local, history, redis
  <2>0. TypeOK /\ LocalInv /\ SerialInv
    BY DEF IInv
  <2>1. ASSUME NEW a \in Ads, SetBidRedisFlag(a) \/ ExpireFlag(a) PROVE Keeps
    <3>1. CASE SetBidRedisFlag(a)
      BY <2>0, <3>1 DEF SetBidRedisFlag, TypeOK
    <3>2. CASE ExpireFlag(a)
      BY <2>0, <3>2 DEF ExpireFlag, TypeOK
    <3> QED BY <2>1, <3>1, <3>2
  <2>2. ASSUME NEW i \in Imps, ExpirePrice(i) PROVE Keeps
    BY <2>2 DEF ExpirePrice
  <2>3. CASE Crash
    BY <2>3 DEF Crash
  <2>4. ASSUME NEW t \in Threads, Step(t) PROVE Keeps
    <3>1. CASE GetFlagFresh(t)
      BY <2>0, <3>1, GetStep
    <3>2. CASE SetFlag(t) \/ SetFlagFail(t)
      <4> DEFINE a == req[t].ad
      <4>1. /\ a \in Ads /\ pc[t] = "set" /\ UNCHANGED overlap
            /\ \/ UNCHANGED flag
               \/ flag' = [flag EXCEPT ![a] = seen[t] \cup {Bit(req[t].mtype)}]
        BY <2>0, <3>2, SetStep
      <4>2. ~overlap[a] => flag[a] = seen[t] \/ flag[a] = {}
        BY <2>0, <4>1 DEF SerialInv
      <4>3. CASE UNCHANGED flag
        BY <4>3
      <4>4. CASE flag' = [flag EXCEPT ![a] = seen[t] \cup {Bit(req[t].mtype)}]
        BY <2>0, <4>1, <4>2, <4>4 DEF TypeOK
      <4> QED BY <4>1, <4>3, <4>4
    <3>3. CASE ~GetFlagFresh(t) /\ ~SetFlag(t) /\ ~SetFlagFail(t)
      BY <2>0, <2>4, <3>3, QuietStep
    <3> QED BY <3>1, <3>2, <3>3
  <2> QED BY <2>1, <2>2, <2>3, <2>4 DEF Next
<1> QED BY <1>1, Invariant, PTL DEF Spec, BitsStayIfSerial

-----------------------------------------------------------------------------
(* Every valid notice is accounted for.                                     *)

\* The valid notices in the hands of threads are finitely many.
LEMMA InFlightFinite ==
  ASSUME NEW a \in Ads, NEW m \in MTypes
  PROVE  IsFiniteSet(InFlight(a, m)) /\ Cardinality(InFlight(a, m)) \in Nat
  BY TrackerAssumption, FS_Subset, FS_CardinalityType DEF InFlight

\* A step after which every thread has the same valid notice as before.
LEMMA SameInFlight ==
  ASSUME ValidIsHandledOnce, UNCHANGED <<accepted, handled, lost>>,
         \A u \in Threads : iv'[u] = iv[u] /\ (iv[u] => req'[u] = req[u])
  PROVE  ValidIsHandledOnce'
<1>1. \A a \in Ads, m \in MTypes : InFlight(a, m)' = InFlight(a, m)
  BY DEF InFlight
<1> QED BY <1>1 DEF ValidIsHandledOnce

\* The account balances after every step.
LEMMA HandledStep ==
  IInv /\ ValidIsHandledOnce /\ [Next]_vars => ValidIsHandledOnce'
<1> SUFFICES ASSUME IInv, ValidIsHandledOnce, [Next]_vars
             PROVE  ValidIsHandledOnce'
  OBVIOUS
<1> USE DEF local, history, redis
<1>0. TypeOK /\ LocalInv
  BY DEF IInv
<1>1. ASSUME NEW a \in Ads, SetBidRedisFlag(a) \/ ExpireFlag(a)
      PROVE  ValidIsHandledOnce'
  BY <1>1, SameInFlight DEF SetBidRedisFlag, ExpireFlag
<1>2. ASSUME NEW i \in Imps, ExpirePrice(i) PROVE ValidIsHandledOnce'
  BY <1>2, SameInFlight DEF ExpirePrice
<1>3. CASE Crash
  <2>1. ASSUME NEW a \in Ads, NEW m \in MTypes
        PROVE  /\ Cardinality(InFlight(a, m)') = 0
               /\ lost'[a][m] = lost[a][m] + Cardinality(InFlight(a, m))
    <3>1. InFlight(a, m)' = {}
      BY <1>3 DEF Crash, InFlight
    <3>2. lost'[a][m] = lost[a][m] + Cardinality(InFlight(a, m))
      BY <1>3 DEF Crash
    <3> QED BY <3>1, <3>2, FS_EmptySet
  <2>2. ASSUME NEW a \in Ads, NEW m \in MTypes
        PROVE  accepted'[a][m] = handled'[a][m] + lost'[a][m]
                                 + Cardinality(InFlight(a, m)')
    <3>1. /\ accepted[a][m] \in Nat /\ handled[a][m] \in Nat
          /\ lost[a][m] \in Nat
      BY <1>0 DEF TypeOK
    <3>2. /\ accepted[a][m] = handled[a][m] + lost[a][m]
                                + Cardinality(InFlight(a, m))
          /\ accepted' = accepted /\ handled' = handled
      BY <1>3 DEF ValidIsHandledOnce, Crash
    <3> QED BY <2>1, <3>1, <3>2, InFlightFinite
  <2> QED BY <2>2 DEF ValidIsHandledOnce
<1>4. ASSUME NEW t \in Threads, Step(t) PROVE ValidIsHandledOnce'
  <2>1. ASSUME NEW a \in Ads, NEW m \in MTypes,
               NEW p \in Prices \cup {NoPrice}, Accept(t, a, m, p)
        PROVE  ValidIsHandledOnce'
    <3>1. ~iv[t]
      BY <1>0, <2>1 DEF Accept, LocalInv
    <3> QED BY <1>0, <2>1, <3>1, SameInFlight DEF Accept, TypeOK
  <2>2. ASSUME NEW a \in Ads, NEW m \in MTypes, Malformed(t, a, m)
        PROVE  ValidIsHandledOnce'
    BY <2>2, SameInFlight DEF Malformed
  <2>3. CASE GetFlagFresh(t) \/ GetFlagRefuse(t) \/ SetFlagFail(t)
    BY <2>3, SameInFlight DEF GetFlagFresh, GetFlagRefuse, SetFlagFail
  <2>4. CASE DealPrice(t) \/ WinPrice(t) \/ ImpPrice(t) \/ OtherPrice(t)
             \/ KafkaSend(t)
    BY <2>4, SameInFlight
       DEF DealPrice, WinPrice, ImpPrice, OtherPrice, KafkaSend
  <2>5. CASE SetFlag(t)
    <3> DEFINE a == req[t].ad
               n == req[t].mtype
    <3>1. /\ a \in Ads /\ n \in MTypes /\ req[t] \in Requests /\ ~iv[t]
          /\ iv' = [iv EXCEPT ![t] = TRUE]
          /\ accepted' = [accepted EXCEPT ![a][n] = @ + 1]
          /\ UNCHANGED <<req, handled, lost>>
      BY <1>0, <2>5 DEF SetFlag, TypeOK, LocalInv, Requests
    <3>2. ASSUME NEW b \in Ads, NEW m \in MTypes
          PROVE  accepted'[b][m] = handled'[b][m] + lost'[b][m]
                                   + Cardinality(InFlight(b, m)')
      <4>1. /\ accepted[b][m] \in Nat /\ handled[b][m] \in Nat
            /\ lost[b][m] \in Nat
        BY <1>0 DEF TypeOK
      <4>2. accepted[b][m] = handled[b][m] + lost[b][m]
                               + Cardinality(InFlight(b, m))
        BY DEF ValidIsHandledOnce
      <4>3. CASE b = a /\ m = n
        <5>1. /\ InFlight(b, m)' = InFlight(b, m) \cup {t}
              /\ t \notin InFlight(b, m)
          BY <1>0, <3>1, <4>3 DEF InFlight, TypeOK
        <5>2. Cardinality(InFlight(b, m)') = Cardinality(InFlight(b, m)) + 1
          BY <5>1, InFlightFinite, FS_AddElement
        <5>3. accepted'[b][m] = accepted[b][m] + 1
          BY <1>0, <3>1, <4>3 DEF TypeOK
        <5> QED BY <3>1, <4>1, <4>2, <5>2, <5>3, InFlightFinite
      <4>4. CASE ~(b = a /\ m = n)
        <5>1. InFlight(b, m)' = InFlight(b, m)
          BY <1>0, <3>1, <4>4 DEF InFlight, TypeOK
        <5>2. accepted'[b][m] = accepted[b][m]
          BY <1>0, <3>1, <4>4 DEF TypeOK
        <5> QED BY <3>1, <4>2, <5>1, <5>2
      <4> QED BY <4>3, <4>4
    <3> QED BY <3>2 DEF ValidIsHandledOnce
  <2>6. CASE (KafkaSendLast(t) /\ iv[t]) \/ DspControl(t)
    <3> DEFINE a == req[t].ad
               n == req[t].mtype
    <3>1. /\ a \in Ads /\ n \in MTypes /\ req[t] \in Requests /\ iv[t]
          /\ handled' = [handled EXCEPT ![a][n] = @ + 1]
          /\ Finish(t)
          /\ UNCHANGED <<accepted, lost>>
      BY <1>0, <2>6 DEF KafkaSendLast, DspControl, TypeOK, LocalInv, Requests
    <3>2. ASSUME NEW b \in Ads, NEW m \in MTypes
          PROVE  accepted'[b][m] = handled'[b][m] + lost'[b][m]
                                   + Cardinality(InFlight(b, m)')
      <4>1. /\ accepted[b][m] \in Nat /\ handled[b][m] \in Nat
            /\ lost[b][m] \in Nat
        BY <1>0 DEF TypeOK
      <4>2. accepted[b][m] = handled[b][m] + lost[b][m]
                               + Cardinality(InFlight(b, m))
        BY DEF ValidIsHandledOnce
      <4>3. CASE b = a /\ m = n
        <5>1. /\ InFlight(b, m)' = InFlight(b, m) \ {t}
              /\ t \in InFlight(b, m)
          BY <1>0, <3>1, <4>3 DEF InFlight, TypeOK, Finish
        <5>2. Cardinality(InFlight(b, m)') = Cardinality(InFlight(b, m)) - 1
          BY <5>1, InFlightFinite, FS_RemoveElement
        <5>3. handled'[b][m] = handled[b][m] + 1
          BY <1>0, <3>1, <4>3 DEF TypeOK
        <5> QED BY <3>1, <4>1, <4>2, <5>2, <5>3, InFlightFinite
      <4>4. CASE ~(b = a /\ m = n)
        <5>1. InFlight(b, m)' = InFlight(b, m)
          BY <1>0, <3>1, <4>4 DEF InFlight, TypeOK, Finish
        <5>2. handled'[b][m] = handled[b][m]
          BY <1>0, <3>1, <4>4 DEF TypeOK
        <5> QED BY <3>1, <4>2, <5>1, <5>2
      <4> QED BY <4>3, <4>4
    <3> QED BY <3>2 DEF ValidIsHandledOnce
  <2>7. CASE KafkaSendLast(t) /\ ~iv[t]
    BY <1>0, <2>7, SameInFlight DEF KafkaSendLast, Finish, TypeOK
  <2> QED BY <1>4, <2>1, <2>2, <2>3, <2>4, <2>5, <2>6, <2>7 DEF Step
<1>5. CASE UNCHANGED vars
  BY <1>5, SameInFlight DEF vars
<1> QED BY <1>1, <1>2, <1>3, <1>4, <1>5 DEF Next

\* Every valid notice is handled once, in a thread's hands, or lost in a crash.
THEOREM ValidNoticesBalance == Spec => []ValidIsHandledOnce
<1>1. Init => ValidIsHandledOnce
  <2> SUFFICES ASSUME Init, NEW a \in Ads, NEW m \in MTypes
               PROVE  0 = 0 + 0 + Cardinality(InFlight(a, m))
    BY DEF Init, ValidIsHandledOnce
  <2>1. InFlight(a, m) = {}
    BY DEF Init, InFlight
  <2> QED BY <2>1, FS_EmptySet
<1> QED BY <1>1, HandledStep, Invariant, PTL DEF Spec

==============================================================================
