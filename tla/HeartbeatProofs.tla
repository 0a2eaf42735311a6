--------------------------- MODULE HeartbeatProofs ---------------------------
(* The heartbeat, for every length of the sleeps, every lateness, every     *)
(* difference of the clocks and any number of failures, stops and restarts. *)
EXTENDS Heartbeat, TLAPS

------------------------------------------------------------------------------
(* The inductive invariants.                                                *)

\* What is remembered lies in the past, and nobody who is due is late.
ClockInv ==
  /\ beat <= now /\ started <= now /\ boot <= now /\ bat <= now
  /\ owed <= now /\ handled <= now
  /\ now <= bat + Gap
  /\ \A s \in Slots : tupd[s] <= now
  /\ up => now <= uat + Jitter /\ now <= pat + Jitter
  /\ upc = "set" => uat <= now
  /\ upc = "test" => uat <= now + Period
  /\ IF ppc = "sleep" THEN pat <= now + Period ELSE pat <= now

\* While a heartbeat is owed the flag stays set, and the loop, which cannot be
\* at its clearing, comes back to the test within a round.
OwedInv ==
  owed # Never =>
    /\ up /\ liveflag /\ upc # "clear"
    /\ upc = "test" => uat <= owed + Period
    /\ upc = "set" => uat <= owed + Period + Jitter

\* A flag that the next test will find was set in this round.
ServedInv ==
  up =>
    /\ upc = "test" /\ liveflag => handled # Never /\ uat <= handled + Period
    /\ upc = "set" => handled # Never /\ uat <= handled + Period + Jitter

\* The stamp is the tracker's time of the last heartbeat, and a checker never
\* noticed a stamp before it was written.
StampInv ==
  /\ stamp # NoStamp => stamp = beat + Skew
  /\ \A s \in Slots : stab[s] # NoStamp => stab[s] <= tupd[s] + Skew

\* By how much the GETs that failed since the last heartbeat delay a slot.
Slack == 2 * unread * Gap

\* A slot has seen the stamp soon after it was written: the idle one can have
\* missed it at one reload, the one in use at none that succeeded.
TrustInv ==
  LET since == Latest(beat, boot) + Slack IN
  /\ stamp # NoStamp =>
       /\ \A s \in Slots : stab[s] = stamp => tupd[s] <= since + 2 * Gap
       /\ stab[OtherSlot] # stamp => bat <= since + Gap
       /\ stab[cur] # stamp => bat <= since
  /\ verdict = "fresh" => stamp # NoStamp /\ bat <= since + Second + 2 * Gap

\* Whoever wrote the stamp had seen a notice of the round before.
TrafficInv ==
  /\ stamp # NoStamp => handled # Never /\ beat <= handled + Period + 2 * Jitter

------------------------------------------------------------------------------
(* The constants and the operators.                                         *)

\* The constants one by one.
LEMMA ConstantTypes ==
  /\ Period \in Nat /\ Period > 0
  /\ Jitter \in Nat /\ Jitter > 0
  /\ Second \in Nat /\ Gap \in Nat /\ Gap > 0
  /\ Skew \in Nat /\ Skew > 0
  /\ Retry \in Nat /\ MaxTime \in Nat /\ MaxFails \in Nat
  /\ 2 * Jitter <= Period
BY HeartbeatAssumption

\* What a check answers: a record of a stamp, a time and a verdict.
LEMMA CheckResult ==
  ASSUME NEW val, NEW tab, NEW t, NEW c, c = Check(val, tab, t)
  PROVE  /\ c.stab = val
         /\ c.tupd = IF tab # val THEN now ELSE t
         /\ c.verdict = IF tab # val THEN "fresh"
                        ELSE IF now - t > Second THEN "overtime" ELSE "fresh"
BY DEF Check

\* The slot that is loaded next is a slot, and not the one in use.
LEMMA SlotTypes ==
  ASSUME cur \in Slots
  PROVE  OtherSlot \in Slots /\ OtherSlot # cur
BY DEF Slots, OtherSlot

------------------------------------------------------------------------------
(* Types and times.                                                         *)

\* What a reload does to the slot it loads, with the answer of the check
\* written out: the stamp is read, or it is not.
LEMMA ReloadEffect ==
  ASSUME TypeOK, Reload
  PROVE  /\ cur' = OtherSlot /\ OtherSlot' = cur /\ bat' = now
         /\ UNCHANGED <<clock, tracker, stamp, beat, boot>>
         /\ \/ /\ stamp # NoStamp
               /\ UNCHANGED <<fails, unread>>
               /\ stab' = [stab EXCEPT ![OtherSlot] = stamp]
               /\ \/ /\ stab[OtherSlot] # stamp
                     /\ tupd' = [tupd EXCEPT ![OtherSlot] = now]
                     /\ verdict' = "fresh" /\ silence' = 0
                  \/ /\ stab[OtherSlot] = stamp
                     /\ now - tupd[OtherSlot] > Second
                     /\ tupd' = tupd
                     /\ verdict' = "overtime" /\ silence' = now - beat
                  \/ /\ stab[OtherSlot] = stamp
                     /\ now - tupd[OtherSlot] <= Second
                     /\ tupd' = tupd
                     /\ verdict' = "fresh" /\ silence' = 0
            \/ /\ fails' = IF stamp = NoStamp THEN fails ELSE fails + 1
               /\ unread' = IF stamp = NoStamp THEN unread ELSE unread + 1
               /\ verdict' = "unreadable" /\ silence' = 0
               /\ UNCHANGED <<stab, tupd>>
<1> DEFINE s == OtherSlot
           c == Check(stamp, stab[s], tupd[s])
<1>1. s \in Slots /\ cur \in Slots
  BY SlotTypes DEF TypeOK
<1>2. /\ c.stab = stamp
      /\ c.tupd = IF stab[s] # stamp THEN now ELSE tupd[s]
      /\ c.verdict = IF stab[s] # stamp THEN "fresh"
                     ELSE IF now - tupd[s] > Second THEN "overtime" ELSE "fresh"
  BY CheckResult
<1>3. tupd = [tupd EXCEPT ![s] = tupd[s]]
  BY <1>1 DEF TypeOK
<1>4. ~(now - tupd[s] > Second) => now - tupd[s] <= Second
  BY <1>1, ConstantTypes DEF TypeOK
<1>5. OtherSlot' = cur
  BY <1>1 DEF Reload, OtherSlot, Slots
<1> HIDE DEF c
<1>6. /\ cur' = s /\ bat' = now
      /\ UNCHANGED <<clock, tracker, stamp, beat, boot>>
      /\ \/ /\ stamp # NoStamp
            /\ stab' = [stab EXCEPT ![s] = c.stab]
            /\ tupd' = [tupd EXCEPT ![s] = c.tupd]
            /\ verdict' = c.verdict
            /\ silence' = IF c.verdict = "overtime" THEN now - beat ELSE 0
            /\ UNCHANGED <<fails, unread>>
         \/ /\ fails' = IF stamp = NoStamp THEN fails ELSE fails + 1
            /\ unread' = IF stamp = NoStamp THEN unread ELSE unread + 1
            /\ verdict' = "unreadable" /\ silence' = 0
            /\ UNCHANGED <<stab, tupd>>
  BY DEF Reload, c
<1> HIDE DEF s
<1> QED BY <1>2, <1>3, <1>4, <1>5, <1>6 DEF s

\* What a restart of the bidder leaves behind.
LEMMA RestartEffect ==
  ASSUME TypeOK, Restart
  PROVE  /\ cur' = 0 /\ OtherSlot' = 1 /\ bat' = now /\ boot' = now
         /\ silence' = 0 /\ fails' = fails + 1
         /\ UNCHANGED <<clock, tracker, redis>>
         /\ stab' = [s \in Slots |-> IF s = 0 THEN stamp ELSE NoStamp]
         /\ tupd' = [s \in Slots |-> IF s = 0 /\ stamp # NoStamp THEN now ELSE 0]
         /\ verdict' = IF stamp # NoStamp THEN "fresh" ELSE "unreadable"
<1> DEFINE c == Check(stamp, NoStamp, 0)
<1>1. stamp # NoStamp => c.stab = stamp /\ c.tupd = now /\ c.verdict = "fresh"
  BY CheckResult
<1> HIDE DEF c
<1>2. /\ stab' = [s \in Slots |-> IF s = 0 /\ stamp # NoStamp THEN c.stab ELSE NoStamp]
      /\ tupd' = [s \in Slots |-> IF s = 0 /\ stamp # NoStamp THEN c.tupd ELSE 0]
      /\ verdict' = IF stamp # NoStamp THEN c.verdict ELSE "unreadable"
  BY DEF Restart, c
<1>3. /\ cur' = 0 /\ OtherSlot' = 1 /\ bat' = now /\ boot' = now
      /\ silence' = 0 /\ fails' = fails + 1
      /\ UNCHANGED <<clock, tracker, redis>>
  BY DEF Restart, Fault, OtherSlot
<1> QED BY <1>1, <1>2, <1>3

\* The variables keep their types, because no time that is remembered lies in
\* the future.
LEMMA ClockStep ==
  ASSUME TypeOK, ClockInv, [Next]_vars
  PROVE  TypeOK' /\ ClockInv'
<1> USE ConstantTypes DEF TypeOK, ClockInv, clock, tracker, redis, bidder, Never,
                          NoStamp
<1>1. CASE Tick
  BY <1>1 DEF Tick
<1>2. CASE Notice
  BY <1>2 DEF Notice, SetLiveflag
<1>3. CASE Test
  BY <1>3 DEF Test
<1>4. CASE UpdateWorking
  BY <1>4 DEF UpdateWorking, Beat, Fault
<1>5. CASE Clear
  <2>1. liveflag' \in BOOLEAN
    BY <1>5 DEF Clear
  <2> QED BY <1>5, <2>1 DEF Clear
<1>6. CASE Ping
  BY <1>6 DEF Ping
<1>7. CASE Pong
  BY <1>7 DEF Pong
<1>9. CASE Stop \/ Start
  <2>1. up' \in BOOLEAN /\ liveflag' \in BOOLEAN
    BY <1>9 DEF Stop, Start
  <2> QED BY <1>9, <2>1 DEF Stop, Start, Fault
<1>10. CASE Reload
  <2>1. OtherSlot \in Slots
    BY SlotTypes
  <2> QED BY <1>10, <2>1, ReloadEffect
<1>11. CASE Restart
  BY <1>11, RestartEffect DEF Slots
<1>12. CASE UNCHANGED vars
  BY <1>12 DEF vars
<1> QED BY <1>1, <1>2, <1>3, <1>4, <1>5, <1>6, <1>7, <1>9, <1>10, <1>11,
           <1>12 DEF Next, UpdateLoop, PingLoop

\* Both programs start with clocks at zero.
LEMMA ClockInit == Init => TypeOK /\ ClockInv
<1> SUFFICES ASSUME Init PROVE TypeOK /\ ClockInv
  OBVIOUS
<1>1. up \in BOOLEAN /\ liveflag \in BOOLEAN
  BY DEF Init
<1>2. TypeOK
  BY <1>1 DEF Init, TypeOK, Slots, Never, NoStamp
<1>3. ClockInv
  BY ConstantTypes DEF Init, ClockInv, Slots, Never, NoStamp
<1> QED BY <1>2, <1>3

\* Every variable of the heartbeat has its type, and what the programs and the
\* histories remember lies in the past, in every reachable state.
THEOREM TypeCorrect == Spec => [](TypeOK /\ ClockInv)
<1>1. TypeOK /\ ClockInv /\ [Next]_vars => (TypeOK /\ ClockInv)'
  BY ClockStep
<1> QED BY <1>1, ClockInit, PTL DEF Spec

------------------------------------------------------------------------------
(* The loop and the flag.                                                   *)

\* A step of the bidder, or one that changes nothing, leaves the tracker alone.
LEMMA BidderStep ==
  ASSUME TypeOK, Reload \/ Restart \/ UNCHANGED vars
  PROVE  UNCHANGED <<now, up, liveflag, upc, uat, ppc, pat, stamp, beat, started,
                     owed, handled>>
BY ReloadEffect, RestartEffect DEF clock, tracker, redis, vars

\* A heartbeat that is owed stays on its way.
LEMMA OwedStep ==
  ASSUME TypeOK, ClockInv, OwedInv, [Next]_vars
  PROVE  OwedInv'
<1> USE ConstantTypes DEF TypeOK, ClockInv, OwedInv, clock, tracker, Never
<1>1. CASE Tick
  BY <1>1 DEF Tick
<1>2. CASE Notice
  BY <1>2 DEF Notice, SetLiveflag
<1>3. CASE UpdateLoop
  BY <1>3 DEF UpdateLoop, Test, UpdateWorking, Clear
<1>4. CASE PingLoop
  BY <1>4 DEF PingLoop, Ping, Pong
<1>5. CASE Stop \/ Start
  BY <1>5 DEF Stop, Start
<1>6. CASE Reload \/ Restart \/ UNCHANGED vars
  BY <1>6, BidderStep
<1> QED BY <1>1, <1>2, <1>3, <1>4, <1>5, <1>6 DEF Next

\* No notice that ends while the loop sleeps waits for its heartbeat longer than
\* a round, for any length of the sleep and any lateness of the threads.
THEOREM NoticesBeat == Spec => []NoticeBeatsInTime
<1>1. Init => OwedInv
  BY DEF Init, OwedInv
<1>2. TypeOK /\ ClockInv /\ OwedInv /\ [Next]_vars => OwedInv'
  BY OwedStep
<1>3. TypeOK /\ ClockInv /\ OwedInv => NoticeBeatsInTime
  BY ConstantTypes DEF TypeOK, ClockInv, OwedInv, NoticeBeatsInTime, Never
<1> QED BY <1>1, <1>2, <1>3, TypeCorrect, PTL DEF Spec

\* A set flag is of this round.
LEMMA ServedStep ==
  ASSUME TypeOK, ClockInv, ServedInv, [Next]_vars
  PROVE  ServedInv'
<1> USE ConstantTypes DEF TypeOK, ClockInv, ServedInv, clock, tracker, Never
<1>1. CASE Tick
  BY <1>1 DEF Tick
<1>2. CASE Notice
  BY <1>2 DEF Notice, SetLiveflag
<1>3. CASE Test
  BY <1>3 DEF Test
<1>4. CASE UpdateWorking
  BY <1>4 DEF UpdateWorking
<1>5. CASE Clear
  BY <1>5 DEF Clear
<1>6. CASE PingLoop
  BY <1>6 DEF PingLoop, Ping, Pong
<1>8. CASE Stop \/ Start
  BY <1>8 DEF Stop, Start
<1>9. CASE Reload \/ Restart \/ UNCHANGED vars
  BY <1>9, BidderStep
<1> QED BY <1>1, <1>2, <1>3, <1>4, <1>5, <1>6, <1>8, <1>9
        DEF Next, UpdateLoop

\* The stamp is renewed only for a notice of the last round: a tracker that
\* serves nobody falls silent.
THEOREM BeatsAreServed == Spec => []BeatMeansServed
<1>1. Init => ServedInv
  BY DEF Init, ServedInv
<1>2. TypeOK /\ ClockInv /\ ServedInv /\ [Next]_vars => ServedInv'
  BY ServedStep
<1>3. TypeOK /\ ClockInv /\ ServedInv => BeatMeansServed
  BY ConstantTypes DEF TypeOK, ClockInv, ServedInv, BeatMeansServed, Never
<1> QED BY <1>1, <1>2, <1>3, TypeCorrect, PTL DEF Spec

------------------------------------------------------------------------------
(* The bidder's checkers.                                                   *)

\* A step of the tracker that does not write the stamp leaves Redis and the
\* bidder alone, but for the time.
LEMMA TrackerStep ==
  ASSUME Notice \/ Test \/ Clear \/ PingLoop \/ Stop \/ Start \/ UNCHANGED vars
  PROVE  UNCHANGED <<now, redis, bidder>>
BY DEF Notice, Test, Clear, PingLoop, Ping, Pong, Stop, Start, clock,
       redis, bidder, vars

\* The checkers stay behind the stamp, and give up only after a silence.
LEMMA StampStep ==
  ASSUME TypeOK, ClockInv, StampInv, DroppedMeansSilent, [Next]_vars
  PROVE  (StampInv /\ DroppedMeansSilent)'
<1> USE ConstantTypes DEF TypeOK, ClockInv, StampInv, DroppedMeansSilent, NoStamp
<1>1. CASE Tick
  BY <1>1 DEF Tick, redis, bidder
<1>2. CASE UpdateWorking
  BY <1>2 DEF UpdateWorking, Beat, clock, redis, bidder
<1>3. CASE Reload
  <2>1. OtherSlot \in Slots
    BY SlotTypes
  <2> QED BY <1>3, <2>1, ReloadEffect DEF clock
<1>4. CASE Restart
  BY <1>4, RestartEffect DEF Slots, clock, redis
<1>5. CASE Notice \/ Test \/ Clear \/ PingLoop \/ Stop \/ Start \/ UNCHANGED vars
  BY <1>5, TrackerStep DEF redis, bidder
<1> QED BY <1>1, <1>2, <1>3, <1>4, <1>5 DEF Next, UpdateLoop

\* The bidder forgets its pauses for lack of a heartbeat only after a silence
\* of more than _second, for every difference of the clocks.
THEOREM DropsAreSilent == Spec => []DroppedMeansSilent
<1>1. Init => StampInv /\ DroppedMeansSilent
  BY DEF Init, StampInv, DroppedMeansSilent, NoStamp
<1>2. TypeOK /\ ClockInv /\ StampInv /\ DroppedMeansSilent /\ [Next]_vars
        => (StampInv /\ DroppedMeansSilent)'
  BY StampStep
<1> QED BY <1>1, <1>2, TypeCorrect, PTL DEF Spec

\* The arithmetic of the two bounds that grow with the failures.
LEMMA Distribute ==
  ASSUME NEW a \in Nat, NEW b \in Nat
  PROVE  /\ a * b \in Nat
         /\ (a + 1) * b = a * b + b
         /\ (2 * a) * b \in Nat
         /\ (2 * (a + 1)) * b = (2 * a) * b + 2 * b
         /\ (3 + 2 * a) * b = 3 * b + (2 * a) * b
         /\ (2 * 0) * b = 0
OBVIOUS

\* The slack is a time; it grows by two reloads with every GET that fails.
LEMMA SlackStep ==
  ASSUME TypeOK
  PROVE  /\ Slack \in Nat
         /\ unread' = unread => Slack' = Slack
         /\ unread' = unread + 1 => Slack' = Slack + 2 * Gap
         /\ unread' = 0 => Slack' = 0
         /\ (3 + 2 * unread) * Gap = 3 * Gap + Slack
<1>1. unread \in Nat /\ Gap \in Nat
  BY ConstantTypes DEF TypeOK
<1> QED BY <1>1, Distribute DEF Slack

\* A time that is not after b is not after b and what is added to it.
LEMMA NotAfter ==
  ASSUME NEW a \in Nat, NEW b \in Nat, NEW s \in Nat, a <= b
  PROVE  /\ a <= b + s /\ a <= b + s + Gap /\ a <= b + s + 2 * Gap
         /\ a <= b + s + Second + 2 * Gap
BY ConstantTypes

\* Of two times the later one.
LEMMA LatestFact ==
  ASSUME NEW a \in Nat, NEW b \in Nat
  PROVE  /\ Latest(a, b) \in Nat
         /\ Latest(a, b) >= a /\ Latest(a, b) >= b
         /\ Latest(a, b) = a \/ Latest(a, b) = b
BY DEF Latest

\* A slot that trusts the stamp has seen it in time.
LEMMA TrustStep ==
  ASSUME TypeOK, ClockInv, TrustInv, [Next]_vars, TypeOK', ClockInv'
  PROVE  TrustInv'
<1> DEFINE B == Latest(beat, boot)
<1>1. /\ B \in Nat /\ B' \in Nat
      /\ beat' = beat /\ boot' = boot => B' = B
      /\ B' >= beat' /\ B' >= boot'
  BY LatestFact DEF TypeOK, Latest
<1>2. Slack \in Nat /\ Slack' \in Nat
  BY SlackStep, Distribute, ConstantTypes DEF TypeOK, Slack
<1> HIDE DEF B
<1>a. /\ stamp # NoStamp =>
           /\ \A s \in Slots : stab[s] = stamp => tupd[s] <= B + Slack + 2 * Gap
           /\ stab[OtherSlot] # stamp => bat <= B + Slack + Gap
           /\ stab[cur] # stamp => bat <= B + Slack
      /\ verdict = "fresh" => stamp # NoStamp /\ bat <= B + Slack + Second + 2 * Gap
  BY DEF TrustInv, B
<1>b. SUFFICES
        /\ stamp' # NoStamp =>
             /\ \A s \in Slots : stab'[s] = stamp' => tupd'[s] <= B' + Slack' + 2 * Gap
             /\ stab'[OtherSlot'] # stamp' => bat' <= B' + Slack' + Gap
             /\ stab'[cur'] # stamp' => bat' <= B' + Slack'
        /\ verdict' = "fresh" =>
             stamp' # NoStamp /\ bat' <= B' + Slack' + Second + 2 * Gap
  BY DEF TrustInv, B
<1> USE ConstantTypes DEF TypeOK, ClockInv
<1>3. CASE Tick \/ Notice \/ Test \/ Clear \/ PingLoop \/ Stop \/ Start
             \/ UNCHANGED vars
  <2>1. UNCHANGED <<redis, bidder>>
    BY <1>3, TrackerStep DEF Tick
  <2>2. Slack' = Slack /\ B' = B /\ OtherSlot' = OtherSlot
    BY <2>1, <1>1, SlackStep DEF redis, bidder, OtherSlot
  <2> QED BY <2>1, <2>2, <1>a DEF redis, bidder
<1>4. CASE UpdateWorking
  <2>1. CASE Beat
    <3>1. /\ B' >= now /\ stamp' # NoStamp
          /\ UNCHANGED <<now, bidder>>
      BY <1>4, <2>1, <1>1 DEF UpdateWorking, Beat, clock, NoStamp
    <3>2. \A s \in Slots : tupd'[s] \in Nat /\ tupd'[s] <= B'
      BY <3>1, <1>1 DEF bidder
    <3>3. bat' \in Nat /\ bat' <= B'
      BY <3>1, <1>1 DEF bidder
    <3> QED BY <3>1, <3>2, <3>3, <1>1, <1>2, NotAfter
  <2>2. CASE UNCHANGED redis
    <3>1. UNCHANGED bidder /\ Slack' = Slack /\ B' = B /\ OtherSlot' = OtherSlot
      BY <1>4, <2>2, <1>1, SlackStep DEF UpdateWorking, redis, bidder, OtherSlot
    <3> QED BY <2>2, <3>1, <1>a DEF redis, bidder
  <2> QED BY <1>4, <2>1, <2>2 DEF UpdateWorking
<1>5. CASE Reload
  <2>1. OtherSlot \in Slots /\ OtherSlot # cur /\ cur \in Slots
    BY SlotTypes
  <2>2. /\ cur' = OtherSlot /\ OtherSlot' = cur /\ bat' = now
        /\ UNCHANGED <<now, stamp, beat, boot>>
    BY <1>5, ReloadEffect DEF clock
  <2>3. B' = B
    BY <1>1, <2>2
  <2>4. CASE stab'[OtherSlot] = stamp /\ UNCHANGED unread /\ stamp # NoStamp
    <3>1. Slack' = Slack
      BY <2>4, SlackStep
    <3>2. /\ stab' = [stab EXCEPT ![OtherSlot] = stamp]
          /\ \/ /\ stab[OtherSlot] # stamp
                /\ tupd' = [tupd EXCEPT ![OtherSlot] = now]
             \/ /\ stab[OtherSlot] = stamp
                /\ tupd' = tupd
                /\ verdict' = "fresh" => now - tupd[OtherSlot] <= Second
      BY <1>5, <2>4, <2>1, ReloadEffect
    <3>3. \A s \in Slots : stab'[s] = stamp => tupd'[s] <= B + Slack + 2 * Gap
      BY <3>2, <2>1, <2>4, <1>a, <1>1, <1>2
    <3>4. verdict' = "fresh" => now <= B + Slack + Second + 2 * Gap
      BY <3>2, <2>1, <2>4, <1>a, <1>1, <1>2
    <3>5. stab'[cur] # stamp => now <= B + Slack + Gap
      BY <3>2, <2>1, <2>4, <1>a, <1>1, <1>2
    <3> QED BY <3>1, <3>3, <3>4, <3>5, <2>2, <2>3, <2>4
  <2>5. CASE verdict' = "unreadable" /\ UNCHANGED <<stab, tupd>>
    <3>1. CASE stamp = NoStamp
      BY <2>2, <2>5, <3>1
    <3>2. CASE stamp # NoStamp /\ unread' = unread + 1
      <4>1. Slack' = Slack + 2 * Gap
        BY <3>2, SlackStep
      <4> QED BY <4>1, <2>1, <2>2, <2>3, <2>5, <3>2, <1>1, <1>2, <1>a
    <3>3. CASE stamp # NoStamp /\ unread' = unread
      BY <1>5, <2>5, <3>3, ReloadEffect
    <3> QED BY <1>5, <3>1, <3>2, <3>3, ReloadEffect
  <2> QED BY <1>5, <2>1, <2>4, <2>5, ReloadEffect
<1>6. CASE Restart
  <2>1. B' >= now
    BY <1>6, <1>1, RestartEffect
  <2>2. \A s \in Slots : tupd'[s] \in Nat /\ tupd'[s] <= B'
    BY <1>6, <2>1, <1>1, RestartEffect
  <2>3. bat' \in Nat /\ bat' <= B'
    BY <1>6, <2>1, <1>1, RestartEffect
  <2>4. UNCHANGED stamp /\ (verdict' = "fresh" => stamp # NoStamp)
    BY <1>6, RestartEffect DEF redis
  <2>5. /\ bat' <= B' + Slack' /\ bat' <= B' + Slack' + Gap
        /\ bat' <= B' + Slack' + Second + 2 * Gap
    BY <2>3, <1>1, <1>2, NotAfter
  <2>6. \A s \in Slots : tupd'[s] <= B' + Slack' + 2 * Gap
    BY <2>2, <1>1, <1>2, NotAfter
  <2> QED BY <2>4, <2>5, <2>6
<1> QED BY <1>3, <1>4, <1>5, <1>6 DEF Next, UpdateLoop

\* The bidder trusts the pauses of a tracker that has stopped no longer than
\* _second and three reloads, and two reloads more for every GET that failed.
THEOREM TrustIsRecent == Spec => []TrustedMeansRecent
<1>1. Init => TrustInv
  BY DEF Init, TrustInv, NoStamp
<1>2. TypeOK /\ ClockInv /\ TrustInv /\ [Next]_vars => TrustInv'
  BY ClockStep, TrustStep
<1>3. TypeOK /\ ClockInv /\ TrustInv => TrustedMeansRecent
  <2> SUFFICES ASSUME TypeOK, ClockInv, TrustInv, verdict = "fresh"
               PROVE  now - Latest(beat, boot) <= Second + (3 + 2 * unread) * Gap
    BY DEF TrustedMeansRecent
  <2>1. Latest(beat, boot) \in Nat /\ Slack \in Nat
    BY LatestFact, SlackStep DEF TypeOK
  <2>2. now <= Latest(beat, boot) + Slack + Second + 3 * Gap
    BY <2>1, ConstantTypes DEF TypeOK, ClockInv, TrustInv
  <2> QED BY <2>1, <2>2, SlackStep, ConstantTypes DEF TypeOK
<1> QED BY <1>1, <1>2, <1>3, TypeCorrect, PTL DEF Spec

------------------------------------------------------------------------------
(* From the bidder's trust back to the exchange's traffic.                  *)

\* A heartbeat follows a notice, and notices are only forgotten for later ones.
LEMMA TrafficStep ==
  ASSUME TypeOK, ClockInv, ServedInv, TrafficInv, [Next]_vars
  PROVE  TrafficInv'
<1> USE ConstantTypes DEF TypeOK, ClockInv, TrafficInv, clock, tracker, redis, Never
<1>1. CASE Tick
  BY <1>1 DEF Tick
<1>2. CASE Notice
  BY <1>2 DEF Notice, SetLiveflag
<1>3. CASE UpdateWorking
  <2>1. now <= uat + Jitter /\ handled # Never /\ uat <= handled + Period + Jitter
    BY <1>3 DEF UpdateWorking, ServedInv
  <2> QED BY <1>3, <2>1 DEF UpdateWorking, Beat
<1>4. CASE Test \/ Clear \/ PingLoop \/ Stop \/ Start
  BY <1>4 DEF Test, Clear, PingLoop, Ping, Pong, Stop, Start
<1>5. CASE Reload \/ Restart \/ UNCHANGED vars
  BY <1>5, BidderStep
<1> QED BY <1>1, <1>2, <1>3, <1>4, <1>5 DEF Next, UpdateLoop

\* Without traffic the bidder gives up its pauses, for every length of the
\* sleeps and whatever the tracker requests of itself.
THEOREM IdleIsSilence == Spec => []TrustNeedsTraffic
<1>1. Init => ServedInv /\ TrafficInv /\ TrustInv
  BY DEF Init, ServedInv, TrafficInv, TrustInv, NoStamp
<1>2. TypeOK /\ ClockInv /\ ServedInv /\ TrafficInv /\ TrustInv /\ [Next]_vars
        => (ServedInv /\ TrafficInv /\ TrustInv)'
  BY ClockStep, ServedStep, TrafficStep, TrustStep
<1>3. TypeOK /\ TrafficInv /\ TrustInv /\ TrustedMeansRecent => TrustNeedsTraffic
  <2> SUFFICES ASSUME TypeOK, TrafficInv, TrustInv, TrustedMeansRecent,
                      verdict = "fresh"
               PROVE  /\ handled # Never
                      /\ now - Latest(handled, boot)
                           <= Second + (3 + 2 * unread) * Gap + Period + 2 * Jitter
    BY DEF TrustNeedsTraffic
  <2>1. handled # Never /\ handled \in Nat /\ beat <= handled + Period + 2 * Jitter
    BY DEF TrustInv, TrafficInv, TypeOK
  <2>2. Latest(beat, boot) \in Nat /\ Latest(handled, boot) \in Nat
    BY <2>1 DEF Latest, TypeOK
  <2>3. Latest(beat, boot) <= Latest(handled, boot) + Period + 2 * Jitter
    BY <2>1, ConstantTypes DEF Latest, TypeOK
  <2> DEFINE E == (3 + 2 * unread) * Gap
  <2>4. E \in Nat /\ now - Latest(beat, boot) <= Second + E
    BY ConstantTypes, Distribute DEF TypeOK, TrustedMeansRecent
  <2> HIDE DEF E
  <2>5. now - Latest(handled, boot) <= Second + E + Period + 2 * Jitter
    BY <2>2, <2>3, <2>4, ConstantTypes DEF TypeOK
  <2> QED BY <2>1, <2>5 DEF E
<1> QED BY <1>1, <1>2, <1>3, TrustIsRecent, TypeCorrect, PTL DEF Spec

==============================================================================
