-------------------------- MODULE KpiControlProofs ---------------------------
(* Delivery control, for every number of threads, every length of the day,  *)
(* all targets and any number of events.                                    *)
EXTENDS KpiControl, FiniteSetTheorems, TLAPS

------------------------------------------------------------------------------
(* What the invariants speak of.                                            *)

\* The step at which a thread counts at a level, and the one at which it
\* writes the pause of the level.
CountAt(l, k) == (IF k = "imp" THEN 2 ELSE 4) + (IF l = "c" THEN 0 ELSE 1)
WriteAt(l) == IF l = "c" THEN 11 ELSE 12

\* The pause that a thread has found for a level.
Verdict(t, l) ==
  IF l = "c" THEN CampaignPause(conf[t]["c"], got[t])
  ELSE PolicyPause(conf[t]["p"], got[t])

\* No command failed and nobody changed the targets.
Calm == fails = 0 /\ edits = 0

\* The level is paused until midnight.
PausedToday(l) == Paused(l) /\ pause[l].until = DayEnd

\* The counters of the days to come are empty.
FutureInv == \A d \in Days, k \in DayKeys : d > Day => cnt[d][k] = 0

\* A thread between two events has read no counter.
LocalInv ==
  \A t \in Threads : step[t] = Idle => \A k \in DOMAIN Zero : got[t][k] = 0

\* As long as the targets stay the same, all copies of them agree, and the
\* reload thread has no reason to look at a pause.
SameInv ==
  Calm =>
    /\ \A l \in Levels : cache[l] \in {Missing, setting[l]}
                         /\ new[l] \in {Missing, setting[l]}
    /\ \A t \in Threads, l \in Levels :
         /\ conf[t][l] \in {Missing, setting[l]}
         /\ step[t] >= 2 => conf[t][l] = setting[l]
    /\ rpc \notin {"imp", "clk", "cost", "act"}

\* The threads that have an event and have yet to count it, and those that
\* counted up to the target and will write the pause.
Pending(l, k) ==
  {t \in Threads : step[t] \in 1 .. CountAt(l, k) /\ Counted(ev[t].m) = k}
Pausing(l, k) ==
  {t \in Threads : /\ step[t] \in CountAt(l, k) + 1 .. WriteAt(l)
                   /\ got[t][<<l, k>>] >= setting[l][k]}

\* Every event that goes beyond the target is one that a thread has reached the
\* target with or, once the level is paused, one that was on its way or late.
Overrun(l, k) ==
  /\ \A d \in Days \ {Day} :
       cnt[d][<<l, k>>] <= setting[l][k] - 1 + Cardinality(Threads) + late
  /\ PausedToday(l) =>
       cnt[Day][<<l, k>>] + Cardinality(Pending(l, k))
         <= setting[l][k] - 1 + Cardinality(Threads) + late
  /\ ~PausedToday(l) =>
       cnt[Day][<<l, k>>] <= setting[l][k] - 1 + Cardinality(Pausing(l, k))

\* The level is limited in impressions or in clicks and not in both, -1 is the
\* only negative target, and a limited policy is delivered all day and not
\* uniformly.
PlainControl(c, l) ==
  /\ c.imp >= -1 /\ c.clk >= -1 /\ (c.imp <= 0 \/ c.clk <= 0)
  /\ l = "p" => NoKpi(c) \/ (~c.uniform /\ c.allow = 0 .. HoursPerDay - 1)

Plain(l) == PlainControl(setting[l], l)

\* The platform gives every level such targets.
PlainTargets == \A s \in Settings, l \in Levels : PlainControl(s[l], l)

OverrunInv ==
  Calm => \A l \in Levels, k \in TenKeys :
            Plain(l) /\ setting[l][k] > 0 => Overrun(l, k)

\* The platform may change how much the level is limited to, and in what, but a
\* limited level stays limited in something; -1 is the only negative target.
LimitStays(l) ==
  \A s \in Settings, z \in Settings :
    /\ \A k \in TenKeys : s[l][k] >= -1
    /\ NoKpi(s[l]) => NoKpi(z[l])

\* What the platform may store for a level.
SettingsAt(l) == {s[l] : s \in Settings}

\* The reload thread is done with the level.
Checked(l) ==
  rpc = "publish"
    \/ (l = "c" /\ rlev = "p" /\ rpc \in {"guard", "imp", "clk", "cost", "act"})

ReachedBy(c, l) == KpiReached(c, cnt[Day][<<l, "imp">>], cnt[Day][<<l, "clk">>])

\* No command failed, and no event overlapped a reload or midnight.
Serial == fails = 0 /\ ~raced

\* The reload thread works when no other thread does.
AloneInv == Serial => (Working => rpc = "idle")

\* All targets come from the platform.
SourceInv ==
  Serial =>
    /\ \A l \in Levels : cache[l] \in SettingsAt(l) \cup {Missing}
    /\ rpc # "idle" => new["c"] \in SettingsAt("c")
    /\ rpc \notin {"idle", "policy"} => new["p"] \in SettingsAt("p") \cup {Missing}

\* A thread works with the targets of cache_root, or finds none.
ConfInv ==
  Serial => \A t \in Threads :
    /\ step[t] = 1 => conf[t]["c"] \in {Missing, cache["c"]}
    /\ step[t] >= 2 => \A l \in Levels : conf[t][l] = cache[l]

\* What a thread has read of a counter is not more than it is today.
ReadInv ==
  Serial => \A t \in Threads, k \in DayKeys : got[t][k] <= cnt[Day][k]

\* The reload thread has read the counters of today as they are.
RgotInv ==
  Serial =>
    /\ rpc \notin {"idle", "policy"} => rday = Day
    /\ rpc \in {"clk", "cost", "act"} => rgot["imp"] = cnt[Day][<<rlev, "imp">>]
    /\ rpc \in {"cost", "act"} => rgot["clk"] = cnt[Day][<<rlev, "clk">>]

\* The targets that a pause is about: those of cache_root, or the new ones where
\* the reload thread has been and found some.
Target(l) == IF Checked(l) /\ new[l] # Missing THEN new[l] ELSE cache[l]

\* No reload has dropped the level from cache_root today.
Kept(l) == l = "p" => ~dropped

\* A pause 11 or 21 lasts until midnight, and the targets ask for it as long as
\* the level has not been dropped.
TrueInv ==
  Serial => \A l \in Levels : LimitStays(l) /\ KpiPaused(l) =>
    /\ pause[l].until = DayEnd
    /\ Kept(l) => ReachedBy(Target(l), l)

SerialInv ==
  TypeOK /\ LocalInv /\ AloneInv /\ SourceInv /\ ConfInv /\ ReadInv /\ RgotInv /\ TrueInv

------------------------------------------------------------------------------
(* The clock.                                                               *)

LEMMA Division ==
  ASSUME NEW u \in Nat, NEW p \in Nat, p # 0
  PROVE  /\ u \div p \in Nat
         /\ (u \div p) * p <= u
         /\ u < (u \div p + 1) * p
<1>1. u \div p >= 0
  OBVIOUS
<1>2. (u \div p) * p <= u
  OBVIOUS
<1>3. u < (u \div p + 1) * p
  OBVIOUS
<1> QED BY <1>1, <1>2, <1>3

\* The day of a later segment is not an earlier one, and the day changes only
\* with the segment that ends it.
LEMMA DivisionGrows ==
  ASSUME NEW p \in Nat, p # 0, NEW u \in Nat, NEW v \in Nat, u <= v
  PROVE  /\ u \div p <= v \div p
         /\ v = u + 1 =>
              \/ v \div p = u \div p
              \/ v \div p = u \div p + 1 /\ v = (u \div p + 1) * p
<1> DEFINE q == u \div p
           r == v \div p
<1>1. q \in Nat /\ q * p <= u /\ u < (q + 1) * p
  BY Division
<1>2. r \in Nat /\ r * p <= v /\ v < (r + 1) * p
  BY Division
<1> HIDE DEF q, r
<1>3. q <= r
  BY <1>1, <1>2
<1>4. v = u + 1 => r = q \/ (r = q + 1 /\ v = (q + 1) * p)
  BY <1>1, <1>2
<1> QED BY <1>3, <1>4 DEF q, r

LEMMA ClockFacts ==
  ASSUME seg \in StartSeg .. MaxSeg
  PROVE  /\ seg \in Nat /\ Day \in Days /\ Day \in Nat
         /\ DayEnd \in Nat /\ seg < DayEnd
         /\ HourEnd \in Nat /\ SegEnd \in Nat /\ Split \in Splits
<1> DEFINE w == 6 * HoursPerDay
<1>1. w \in Nat /\ w # 0 /\ seg \in Nat /\ MaxSeg \in Nat /\ seg <= MaxSeg
  BY KpiAssumption
<1>2. seg \div w \in Nat /\ seg < (seg \div w + 1) * w
  BY <1>1, Division
<1>3. seg \div w <= MaxSeg \div w /\ MaxSeg \div w \in Nat
  BY <1>1, Division, DivisionGrows
<1>4. Day = seg \div w /\ DayEnd = (seg \div w + 1) * w /\ Days = 0 .. (MaxSeg \div w)
  BY KpiAssumption, <1>2 DEF Day, DayEnd, Days
<1>5. HourEnd \in Nat
  <2>1. seg \div 6 \in Nat
    BY <1>1, Division
  <2> QED BY <2>1 DEF HourEnd
<1>6. SegEnd \in Nat /\ Split \in Splits
  BY <1>1 DEF SegEnd, Split, Splits
<1>7. (seg \div w + 1) * w \in Nat
  BY <1>1, <1>2
<1> QED BY <1>1, <1>2, <1>3, <1>4, <1>5, <1>6, <1>7

LEMMA HourFacts ==
  ASSUME seg \in Nat
  PROVE  Hour \in 0 .. HoursPerDay - 1
<1>1. seg \div 6 \in Nat /\ HoursPerDay \in Nat /\ HoursPerDay > 0
  BY Division, KpiAssumption
<1> QED BY <1>1 DEF Hour

\* Ten minutes later it is the same day or the first segment of the next.
LEMMA TickFacts ==
  ASSUME TypeOK, Tick
  PROVE  /\ seg' = seg + 1 /\ seg' \in StartSeg .. MaxSeg
         /\ Day' \in Days
         /\ (Day' = Day /\ DayEnd' = DayEnd) \/ (Day' = Day + 1 /\ seg' = DayEnd)
<1> DEFINE w == 6 * HoursPerDay
<1>1. /\ w \in Nat /\ w # 0 /\ seg \in Nat /\ seg' \in Nat
      /\ seg' = seg + 1 /\ seg' \in StartSeg .. MaxSeg
  BY KpiAssumption DEF Tick, TypeOK
<1> DEFINE v == seg'
<1>2. v \div w \in Days
  <2>1. v \in Nat /\ MaxSeg \in Nat /\ v <= MaxSeg
    BY <1>1, KpiAssumption
  <2>2. v \div w <= MaxSeg \div w /\ v \div w \in Nat /\ MaxSeg \div w \in Nat
    BY <1>1, <2>1, DivisionGrows, Division
  <2> QED BY <2>2 DEF Days
<1>3. v \div w = seg \div w \/ (v \div w = seg \div w + 1 /\ v = (seg \div w + 1) * w)
  <2>1. v \in Nat /\ seg <= v /\ v = seg + 1
    BY <1>1
  <2> HIDE DEF v, w
  <2> QED BY <1>1, <2>1, DivisionGrows
<1>4. Day = seg \div w /\ Day' = seg' \div w /\ seg \div w \in Nat /\ seg' \div w \in Nat
  BY <1>1, Division DEF Day
<1>5. DayEnd = (seg \div w + 1) * w /\ DayEnd' = (seg' \div w + 1) * w
  BY <1>4, KpiAssumption DEF DayEnd
<1> QED BY <1>1, <1>2, <1>3, <1>4, <1>5

------------------------------------------------------------------------------
(* The commands.                                                            *)

LEMMA CommandFacts ==
  /\ CountCommands[1] = <<"c", "imp">> /\ CountCommands[2] = <<"p", "imp">>
  /\ CountCommands[3] = <<"c", "clk">> /\ CountCommands[4] = <<"p", "clk">>
  /\ CountCommands[5] = <<"m", "imp">> /\ CountCommands[6] = <<"m", "clk">>
  /\ CountCommands[7] = <<"c", "cost">> /\ CountCommands[8] = <<"p", "cost">>
BY DEF CountCommands

Keys == DayKeys \cup ({"m"} \X TenKeys)

LEMMA KeyFacts ==
  ASSUME NEW i \in 2 .. 9
  PROVE  /\ CountCommands[i - 1] \in Keys
         /\ CountCommands[i - 1][1] # "m" => CountCommands[i - 1] \in DayKeys
         /\ CountCommands[i - 1][1] = "m" => CountCommands[i - 1][2] \in TenKeys
         /\ CountCommands[i - 1][2] \in {"imp", "clk", "cost"}
         /\ \A l \in Levels, k \in TenKeys :
              CountCommands[i - 1] = <<l, k>> <=> i = CountAt(l, k)
<1>1. i \in {2, 3, 4, 5, 6, 7, 8, 9}
  OBVIOUS
<1>2. Keys = {<<"c", "imp">>, <<"c", "clk">>, <<"c", "cost">>, <<"p", "imp">>,
              <<"p", "clk">>, <<"p", "cost">>, <<"m", "imp">>, <<"m", "clk">>}
  BY DEF Keys, DayKeys, TenKeys, Levels
<1>3. DayKeys = {<<"c", "imp">>, <<"c", "clk">>, <<"c", "cost">>, <<"p", "imp">>,
                 <<"p", "clk">>, <<"p", "cost">>}
  BY DEF DayKeys, Levels
<1>4. CountCommands[i - 1] \in Keys
  BY <1>1, <1>2, CommandFacts
<1>5. /\ CountCommands[i - 1][1] # "m" => CountCommands[i - 1] \in DayKeys
      /\ CountCommands[i - 1][1] = "m" => CountCommands[i - 1][2] \in TenKeys
      /\ CountCommands[i - 1][2] \in {"imp", "clk", "cost"}
  BY <1>1, <1>3, CommandFacts DEF TenKeys
<1>6. \A l \in Levels, k \in TenKeys :
        CountCommands[i - 1] = <<l, k>> <=> i = CountAt(l, k)
  BY <1>1, CommandFacts DEF Levels, TenKeys, CountAt
<1> QED BY <1>4, <1>5, <1>6

LEMMA DeltaFacts ==
  ASSUME NEW e \in Events \cup {NoEvent}, NEW k, k[2] \in {"imp", "clk", "cost"}
  PROVE  /\ Delta(e, k) \in Nat
         /\ k[2] \in TenKeys => Delta(e, k) = IF Counted(e.m) = k[2] /\ e.m \in {"i", "c"}
                                              THEN 1 ELSE 0
<1>1. e.price \in Nat /\ e.m \in {"i", "c", "none"}
  <2>1. CASE e \in Events
    <3>1. e.m \in EventTypes /\ e.price \in EventPrices
      BY <2>1 DEF Events
    <3> QED BY <3>1, KpiAssumption
  <2>2. CASE e = NoEvent
    BY <2>2 DEF NoEvent
  <2> QED BY <2>1, <2>2
<1> QED BY <1>1 DEF Delta, Counted, TenKeys

------------------------------------------------------------------------------
(* Types.                                                                   *)

\* A pause that a thread or the reload thread writes.
LEMMA VerdictFacts ==
  ASSUME TypeOK, NEW c, NEW g
  PROVE  /\ CampaignPause(c, g) \in [reason : {0, 11, 12}, until : Nat]
         /\ PolicyPause(c, g) \in [reason : {0, 21, 22, 23, 24}, until : Nat]
         /\ \A l \in Levels : CheckPause(l, c, g) \in [reason : Reasons(l), until : Nat]
<1> DEFINE d == DayEnd
           h == HourEnd
           e == SegEnd
<1>1. d \in Nat /\ h \in Nat /\ e \in Nat
  BY ClockFacts DEF TypeOK
<1> HIDE DEF d, h, e
<1>2. /\ [reason |-> 11, until |-> d] \in [reason : {0, 11, 12}, until : Nat]
      /\ [reason |-> 12, until |-> d] \in [reason : {0, 11, 12}, until : Nat]
      /\ [reason |-> 0, until |-> 0] \in [reason : {0, 11, 12}, until : Nat]
  BY <1>1
<1>3. /\ [reason |-> 21, until |-> d] \in [reason : {0, 21, 22, 23, 24}, until : Nat]
      /\ [reason |-> 22, until |-> d] \in [reason : {0, 21, 22, 23, 24}, until : Nat]
      /\ [reason |-> 23, until |-> e] \in [reason : {0, 21, 22, 23, 24}, until : Nat]
      /\ [reason |-> 24, until |-> h] \in [reason : {0, 21, 22, 23, 24}, until : Nat]
      /\ [reason |-> 0, until |-> 0] \in [reason : {0, 21, 22, 23, 24}, until : Nat]
  BY <1>1
<1>4. 10 + 1 = 11 /\ 10 + 2 = 12 /\ 20 + 1 = 21 /\ 20 + 2 = 22 /\ 20 + 3 = 23 /\ 20 + 4 = 24
  OBVIOUS
<1>5. CampaignPause(c, g) \in {[reason |-> 11, until |-> d], [reason |-> 12, until |-> d],
                              [reason |-> 0, until |-> 0]}
  BY <1>4 DEF CampaignPause, ReasonBase, NoPause, d
<1>6. PolicyPause(c, g) \in {[reason |-> 21, until |-> d], [reason |-> 22, until |-> d],
                             [reason |-> 23, until |-> e], [reason |-> 24, until |-> h],
                             [reason |-> 0, until |-> 0]}
  BY <1>4 DEF PolicyPause, ReasonBase, NoPause, d, e, h
<1>7. CheckPause("c", c, g) \in {[reason |-> 11, until |-> d], [reason |-> 12, until |-> d],
                                 [reason |-> 0, until |-> 0]}
  BY <1>4 DEF CheckPause, ReasonBase, NoPause, d
<1>8. CheckPause("p", c, g) \in {[reason |-> 21, until |-> d], [reason |-> 22, until |-> d],
                                 [reason |-> 0, until |-> 0]}
  BY <1>4 DEF CheckPause, ReasonBase, NoPause, d
<1> QED BY <1>2, <1>3, <1>5, <1>6, <1>7, <1>8 DEF Levels, Reasons

LEMMA PauseType ==
  ASSUME TypeOK, NEW l \in Levels, NEW p \in [reason : Reasons(l), until : Nat],
         SetPause(l, p)
  PROVE  /\ DOMAIN pause' = Levels
         /\ \A m \in Levels : pause'[m] \in [reason : Reasons(m), until : Nat]
         /\ fails' \in Nat
<1>1. CASE pause' = [pause EXCEPT ![l] = p] /\ UNCHANGED fails
  <2>1. DOMAIN pause' = Levels /\ pause'[l] = p
        /\ \A m \in Levels : m # l => pause'[m] = pause[m]
    BY <1>1 DEF TypeOK
  <2> QED BY <1>1, <2>1 DEF TypeOK
<1>2. CASE fails' = fails + 1 /\ UNCHANGED pause
  BY <1>2 DEF TypeOK
<1> QED BY <1>1, <1>2 DEF SetPause

LEMMA ReturnType ==
  ASSUME TypeOK, NEW t \in Threads, Return(t)
  PROVE  /\ step' \in [Threads -> 0 .. 13]
         /\ ev' \in [Threads -> Events \cup {NoEvent}]
         /\ conf' \in [Threads -> [Levels -> Controls]]
         /\ got' \in [Threads -> [DOMAIN Zero -> Nat]]
<1>1. step' \in [Threads -> 0 .. 13] /\ ev' \in [Threads -> Events \cup {NoEvent}]
  BY DEF TypeOK, Return, Idle
<1>2. NoConf \in [Levels -> Controls]
  BY DEF NoConf, Missing, Controls
<1>3. Zero \in [DOMAIN Zero -> Nat]
  BY DEF Zero
<1>4. conf' \in [Threads -> [Levels -> Controls]]
  BY <1>2 DEF TypeOK, Return
<1>5. got' \in [Threads -> [DOMAIN Zero -> Nat]]
  BY <1>3 DEF TypeOK, Return
<1> QED BY <1>1, <1>4, <1>5

LEMMA InitType == Init => TypeOK
<1> SUFFICES ASSUME Init PROVE TypeOK
  OBVIOUS
<1> USE DEF Init
<1>1. seg \in StartSeg .. MaxSeg /\ rday \in Days
  <2>1. 6 * HoursPerDay \in Nat /\ 6 * HoursPerDay # 0 /\ MaxSeg \in Nat
    BY KpiAssumption
  <2>2. MaxSeg \div (6 * HoursPerDay) \in Nat
    BY <2>1, Division
  <2> QED BY <2>2, KpiAssumption DEF Days
<1>2. NoConf \in [Levels -> Controls]
  BY DEF NoConf, Missing, Controls
<1>3. cnt \in [Days -> [DayKeys -> Nat]]
  OBVIOUS
<1>4. ten \in [Splits -> [TenKeys -> Nat]] /\ dies \in [Splits -> Nat]
  BY DEF ZeroTen
<1>5. DOMAIN pause = Levels /\ \A l \in Levels : pause[l] \in [reason : Reasons(l), until : Nat]
  BY DEF NoPause, Reasons
<1>6. step \in [Threads -> 0 .. 13] /\ ev \in [Threads -> Events \cup {NoEvent}]
  BY DEF Idle
<1>7. conf \in [Threads -> [Levels -> Controls]]
  BY <1>2
<1>8. got \in [Threads -> [DOMAIN Zero -> Nat]]
  BY DEF Zero
<1>9. rgot \in [{"imp", "clk", "cost"} -> Nat] /\ rpc = "idle" /\ rlev \in Levels
  BY DEF Levels
<1>10. begun \in [{"i", "c"} -> Nat] /\ finished \in [{"i", "c"} -> Nat]
  OBVIOUS
<1>11. {events, late, edits, fails, base, inSeg} \subseteq Nat
  OBVIOUS
<1>12. /\ raced \in BOOLEAN /\ dropped \in BOOLEAN /\ listed \in BOOLEAN
       /\ setting \in Settings /\ cache = NoConf /\ new = NoConf
  OBVIOUS
<1> HIDE DEF Init
<1> QED BY <1>1, <1>2, <1>3, <1>4, <1>5, <1>6, <1>7, <1>8, <1>9, <1>10, <1>11, <1>12 DEF TypeOK

LEMMA SettingFacts ==
  ASSUME TypeOK
  PROVE  setting \in [Levels -> Controls]
BY KpiAssumption DEF TypeOK

LEMMA StoreType ==
  ASSUME TypeOK, NEW i \in 2 .. 9, NEW v \in Nat, Store(CountCommands[i - 1], v)
  PROVE  cnt' \in [Days -> [DayKeys -> Nat]] /\ ten' \in [Splits -> [TenKeys -> Nat]]
<1> DEFINE k == CountCommands[i - 1]
<1>1. /\ k[1] # "m" => k \in DayKeys
      /\ k[1] = "m" => k[2] \in TenKeys
  BY KeyFacts
<1>2. Store(k, v)
  OBVIOUS
<1> HIDE DEF k
<1>3. Day \in Days /\ Split \in Splits
  BY ClockFacts DEF TypeOK
<1>4. CASE k[1] = "m"
  <2>1. ten' = [ten EXCEPT ![Split][k[2]] = v] /\ cnt' = cnt
    BY <1>2, <1>4 DEF Store
  <2> QED BY <1>3, <2>1 DEF TypeOK
<1>5. CASE k[1] # "m"
  <2>1. cnt' = [cnt EXCEPT ![Day][k] = v] /\ ten' = ten
    BY <1>2, <1>5 DEF Store
  <2> QED BY <1>3, <2>1 DEF TypeOK
<1> QED BY <1>4, <1>5

LEMMA ValueType ==
  ASSUME TypeOK, NEW t \in Threads, step[t] \in 2 .. 9
  PROVE  /\ Value(CountCommands[step[t] - 1]) \in Nat
         /\ Delta(ev[t], CountCommands[step[t] - 1]) \in Nat
<1> DEFINE k == CountCommands[step[t] - 1]
<1>1. /\ k[1] # "m" => k \in DayKeys
      /\ k[1] = "m" => k[2] \in TenKeys
      /\ k[2] \in {"imp", "clk", "cost"}
  BY KeyFacts
<1> HIDE DEF k
<1>2. Day \in Days /\ Split \in Splits
  BY ClockFacts DEF TypeOK
<1>3. Value(k) \in Nat
  BY <1>1, <1>2 DEF Value, TypeOK
<1>4. ev[t] \in Events \cup {NoEvent}
  BY DEF TypeOK
<1>5. Delta(ev[t], k) \in Nat
  BY <1>1, <1>4, DeltaFacts
<1> QED BY <1>3, <1>5 DEF k

LEMMA TallyType ==
  ASSUME NEW f \in [{"i", "c"} -> Nat], NEW m
  PROVE  [f EXCEPT ![m] = @ + 1] \in [{"i", "c"} -> Nat]
<1>1. CASE m \in {"i", "c"}
  BY <1>1
<1>2. CASE m \notin {"i", "c"}
  BY <1>2
<1> QED BY <1>1, <1>2

LEMMA FinishType ==
  ASSUME TypeOK, NEW t \in Threads, Finish(t)
  PROVE  /\ step' \in [Threads -> 0 .. 13] /\ ev' \in [Threads -> Events \cup {NoEvent}]
         /\ conf' \in [Threads -> [Levels -> Controls]]
         /\ got' \in [Threads -> [DOMAIN Zero -> Nat]]
         /\ finished' \in [{"i", "c"} -> Nat]
<1>1. Return(t) /\ finished' = [finished EXCEPT ![ev[t].m] = @ + 1]
  BY DEF Finish
<1>2. finished' \in [{"i", "c"} -> Nat]
  BY <1>1, TallyType DEF TypeOK
<1> QED BY <1>1, <1>2, ReturnType

LEMMA ThreadType ==
  ASSUME TypeOK, NEW t \in Threads, ThreadStep(t)
  PROVE  TypeOK'
<1> USE DEF clock, platform, counters, thread, reload, bounds, history
<1>1. ASSUME NEW e \in Events, Begin(t, e) PROVE TypeOK'
  <2>1. step' \in [Threads -> 0 .. 13] /\ ev' \in [Threads -> Events \cup {NoEvent}]
    BY <1>1 DEF Begin, TypeOK
  <2>2. conf' \in [Threads -> [Levels -> Controls]]
    <3>1. Missing \in Controls
      BY DEF Missing, Controls
    <3>2. PICK c \in Controls : conf' = [conf EXCEPT ![t]["c"] = c]
      BY <1>1, <3>1 DEF Begin, TypeOK, Levels
    <3> QED BY <3>2 DEF TypeOK, Levels
  <2>3. events' \in Nat /\ late' \in Nat
    BY <1>1 DEF Begin, TypeOK
  <2>4. raced' \in BOOLEAN
    BY <1>1 DEF Begin
  <2> QED BY <1>1, <2>1, <2>2, <2>3, <2>4 DEF Begin, TypeOK, Day
<1>2. CASE GetPolicyControl(t)
  <2>1. /\ step' \in [Threads -> 0 .. 13] /\ ev' \in [Threads -> Events \cup {NoEvent}]
        /\ conf' \in [Threads -> [Levels -> Controls]]
        /\ got' \in [Threads -> [DOMAIN Zero -> Nat]]
        /\ begun' \in [{"i", "c"} -> Nat]
    <3>1. CASE Return(t) /\ UNCHANGED begun
      BY <3>1, ReturnType DEF TypeOK
    <3>2. CASE /\ step' = [step EXCEPT ![t] = 2]
               /\ conf' = [conf EXCEPT ![t]["p"] = cache["p"]]
               /\ begun' = [begun EXCEPT ![ev[t].m] = @ + 1]
               /\ UNCHANGED <<ev, got>>
      <4>1. conf' \in [Threads -> [Levels -> Controls]]
        BY <3>2 DEF TypeOK, Levels
      <4>2. begun' \in [{"i", "c"} -> Nat]
        BY <3>2, TallyType DEF TypeOK
      <4> QED BY <3>2, <4>1, <4>2 DEF TypeOK
    <3> QED BY <1>2, <3>1, <3>2 DEF GetPolicyControl
  <2> QED BY <1>2, <2>1 DEF GetPolicyControl, TypeOK
<1>3. CASE Count(t)
  <2> DEFINE k == CountCommands[step[t] - 1]
             v == Value(k) + Delta(ev[t], k)
  <2>1. step[t] \in 2 .. 9 /\ step' \in [Threads -> 0 .. 13]
    BY <1>3 DEF Count, TypeOK
  <2>2. v \in Nat /\ Delta(ev[t], k) \in Nat /\ k \in Keys
    BY <2>1, ValueType, KeyFacts
  <2>3. cnt' \in [Days -> [DayKeys -> Nat]] /\ ten' \in [Splits -> [TenKeys -> Nat]]
    <3>1. Store(k, v) \/ UNCHANGED <<cnt, ten>>
      BY <1>3 DEF Count
    <3> HIDE DEF v
    <3> QED BY <2>1, <2>2, <3>1, StoreType DEF TypeOK
  <2>4. got' \in [Threads -> [DOMAIN Zero -> Nat]]
    <3>1. got' = [got EXCEPT ![t][k] = v] \/ got' = got
      BY <1>3 DEF Count
    <3>2. DOMAIN Zero = Keys
      BY DEF Zero, Keys
    <3>3. got \in [Threads -> [Keys -> Nat]]
      BY <3>2 DEF TypeOK
    <3> HIDE DEF k, v
    <3> QED BY <2>2, <3>1, <3>2, <3>3
  <2>5. inSeg' \in Nat
    <3>1. inSeg' = inSeg + IF k = <<"m", "imp">> THEN Delta(ev[t], k) ELSE 0
      BY <1>3 DEF Count
    <3> HIDE DEF k
    <3> QED BY <2>2, <3>1 DEF TypeOK
  <2>6. fails' \in Nat
    BY <1>3 DEF Count, TypeOK
  <2>7. UNCHANGED <<seg, setting, listed, edits, cache, dies, pause, ev, conf, rpc, rlev, rday, new,
                    rgot, events, late, begun, finished, base, dropped, raced>>
    BY <1>3 DEF Count
  <2> QED BY <2>1, <2>3, <2>4, <2>5, <2>6, <2>7 DEF TypeOK
<1>4. CASE ExpireTen(t)
  <2>1. Split \in Splits /\ seg + 3 \in Nat
    BY ClockFacts DEF TypeOK
  <2>2. step' \in [Threads -> 0 .. 13] /\ dies' \in [Splits -> Nat] /\ fails' \in Nat
    BY <1>4, <2>1 DEF ExpireTen, TypeOK
  <2> QED BY <1>4, <2>2 DEF ExpireTen, TypeOK
<1>5. CASE KpiCampaign(t)
  <2> DEFINE p == CampaignPause(conf[t]["c"], got[t])
  <2>1. p \in [reason : Reasons("c"), until : Nat]
    BY VerdictFacts DEF Reasons
  <2>2. UNCHANGED <<pause, fails>> \/ SetPause("c", p)
    BY <1>5 DEF KpiCampaign
  <2> HIDE DEF p
  <2>3. /\ DOMAIN pause' = Levels /\ fails' \in Nat
        /\ \A l \in Levels : pause'[l] \in [reason : Reasons(l), until : Nat]
    BY <2>1, <2>2, PauseType DEF TypeOK, Levels
  <2>4. step' \in [Threads -> 0 .. 13]
    BY <1>5 DEF KpiCampaign, TypeOK
  <2>5. UNCHANGED <<seg, setting, listed, edits, cache, cnt, ten, dies, ev, conf, got, rpc, rlev,
                    rday, new, rgot, events, late, begun, finished, base, inSeg, dropped, raced>>
    BY <1>5 DEF KpiCampaign
  <2> QED BY <2>3, <2>4, <2>5 DEF TypeOK
<1>6. CASE KpiPolicy(t)
  <2> DEFINE p == PolicyPause(conf[t]["p"], got[t])
  <2>1. p \in [reason : Reasons("p"), until : Nat]
    BY VerdictFacts DEF Reasons
  <2>2. UNCHANGED <<pause, fails>> \/ SetPause("p", p)
    BY <1>6 DEF KpiPolicy
  <2> HIDE DEF p
  <2>3. /\ DOMAIN pause' = Levels /\ fails' \in Nat
        /\ \A l \in Levels : pause'[l] \in [reason : Reasons(l), until : Nat]
    BY <2>1, <2>2, PauseType DEF TypeOK, Levels
  <2>4. /\ step' \in [Threads -> 0 .. 13] /\ ev' \in [Threads -> Events \cup {NoEvent}]
        /\ conf' \in [Threads -> [Levels -> Controls]]
        /\ got' \in [Threads -> [DOMAIN Zero -> Nat]]
        /\ finished' \in [{"i", "c"} -> Nat]
    <3>1. CASE Finish(t)
      BY <3>1, FinishType
    <3>2. CASE step' = [step EXCEPT ![t] = 13] /\ UNCHANGED <<ev, conf, got, finished>>
      BY <3>2 DEF TypeOK
    <3> QED BY <1>6, <3>1, <3>2 DEF KpiPolicy
  <2>6. UNCHANGED <<seg, setting, listed, edits, cache, cnt, ten, dies, rpc, rlev,
                    rday, new, rgot, events, late, begun, base, inSeg, dropped, raced>>
    BY <1>6 DEF KpiPolicy
  <2> QED BY <2>3, <2>4, <2>6 DEF TypeOK
<1>7. CASE RemovePolicyId(t)
  <2>1. listed' \in BOOLEAN /\ Finish(t)
    BY <1>7 DEF RemovePolicyId, TypeOK
  <2>2. /\ step' \in [Threads -> 0 .. 13] /\ ev' \in [Threads -> Events \cup {NoEvent}]
        /\ conf' \in [Threads -> [Levels -> Controls]]
        /\ got' \in [Threads -> [DOMAIN Zero -> Nat]]
        /\ finished' \in [{"i", "c"} -> Nat]
    BY <2>1, FinishType
  <2>3. UNCHANGED <<seg, setting, edits, cache, cnt, ten, dies, pause, rpc, rlev, rday, new,
                    rgot, events, late, fails, begun, base, inSeg, dropped, raced>>
    BY <1>7 DEF RemovePolicyId
  <2> QED BY <2>1, <2>2, <2>3 DEF TypeOK
<1> QED BY <1>1, <1>2, <1>3, <1>4, <1>5, <1>6, <1>7 DEF ThreadStep

LEMMA ReloadType ==
  ASSUME TypeOK, ReloadStep
  PROVE  TypeOK'
<1> USE DEF clock, platform, counters, thread, reload, bounds, history
<1>1. Stored \in [Levels -> Controls] /\ NoConf \in [Levels -> Controls]
  <2>1. setting \in [Levels -> Controls] /\ Missing \in Controls
    BY SettingFacts DEF Missing, Controls
  <2> QED BY <2>1 DEF NoConf, Stored
<1>2. ASSUME NEW l \in Levels, NEW n \in [Levels -> Controls], LoadControl(l, n)
      PROVE  new' \in [Levels -> Controls] /\ fails' \in Nat
  <2>1. new' = [n EXCEPT ![l] = Stored[l]] \/ new' = n
    BY <1>2 DEF LoadControl
  <2>2. fails' = fails \/ fails' = fails + 1
    BY <1>2 DEF LoadControl
  <2>3. new' \in [Levels -> Controls]
    BY <1>1, <1>2, <2>1
  <2> QED BY <2>2, <2>3 DEF TypeOK
<1>3. CASE LoadCampaignControl
  <2>1. new' \in [Levels -> Controls] /\ fails' \in Nat
    BY <1>1, <1>2, <1>3 DEF LoadCampaignControl, Levels
  <2>2. raced' \in BOOLEAN
    BY <1>3 DEF LoadCampaignControl
  <2> QED BY <1>3, <2>1, <2>2 DEF LoadCampaignControl, TypeOK
<1>4. CASE LoadPolicyControl
  <2>1. new' \in [Levels -> Controls] /\ fails' \in Nat
    BY <1>2, <1>4 DEF LoadPolicyControl, Levels, TypeOK
  <2>2. rday' \in Days /\ rlev' \in Levels
    BY <1>4, ClockFacts DEF LoadPolicyControl, Levels, TypeOK
  <2> QED BY <1>4, <2>1, <2>2 DEF LoadPolicyControl, TypeOK
<1>5. CASE LoadFail
  BY <1>5 DEF LoadFail, TypeOK
<1>6. CASE CheckGuard
  <2>1. rlev' \in Levels /\ rpc' \in {"imp", "guard", "publish"}
    BY <1>6 DEF CheckGuard, AfterLevel, Levels, TypeOK
  <2> QED BY <1>6, <2>1 DEF CheckGuard, TypeOK
<1>7. CASE CheckGet
  <2>1. rpc \in {"imp", "clk", "cost"} /\ <<rlev, rpc>> \in DayKeys
    BY <1>7 DEF CheckGet, TypeOK, DayKeys
  <2>2. rgot' \in [{"imp", "clk", "cost"} -> Nat] /\ fails' \in Nat
    <3>1. cnt[rday][<<rlev, rpc>>] \in Nat
      BY <2>1 DEF TypeOK
    <3>2. PICK n \in Nat : rgot' = [rgot EXCEPT ![rpc] = n]
      BY <1>7, <3>1 DEF CheckGet
    <3>3. rgot \in [{"imp", "clk", "cost"} -> Nat]
      BY DEF TypeOK
    <3>4. fails' \in Nat
      BY <1>7 DEF CheckGet, TypeOK
    <3> QED BY <2>1, <3>2, <3>3, <3>4
  <2>3. rpc' \in {"clk", "cost", "act"}
    BY <1>7, <2>1 DEF CheckGet
  <2> QED BY <1>7, <2>2, <2>3 DEF CheckGet, TypeOK
<1>8. CASE CheckAct
  <2> DEFINE p == CheckPause(rlev, new[rlev], rgot)
  <2>1. p \in [reason : Reasons(rlev), until : Nat] /\ rlev \in Levels
    BY VerdictFacts DEF TypeOK
  <2>2. SetPause(rlev, p)
    BY <1>8 DEF CheckAct
  <2> HIDE DEF p
  <2>3. /\ DOMAIN pause' = Levels /\ fails' \in Nat
        /\ \A l \in Levels : pause'[l] \in [reason : Reasons(l), until : Nat]
    BY <2>1, <2>2, PauseType
  <2>4. rlev' \in Levels /\ rpc' \in {"guard", "publish"}
    BY <1>8 DEF CheckAct, AfterLevel, Levels
  <2>5. UNCHANGED <<seg, setting, listed, edits, cache, cnt, ten, dies, step, ev, conf, got,
                    rday, new, rgot, events, late, begun, finished, base, inSeg, dropped, raced>>
    BY <1>8 DEF CheckAct
  <2> QED BY <2>3, <2>4, <2>5 DEF TypeOK
<1>9. CASE Publish
  <2>1. dropped' \in BOOLEAN
    BY <1>9 DEF Publish
  <2> QED BY <1>9, <2>1 DEF Publish, TypeOK
<1> QED BY <1>3, <1>4, <1>5, <1>6, <1>7, <1>8, <1>9 DEF ReloadStep

LEMMA TypeStep == TypeOK /\ [Next]_vars => TypeOK'
<1> SUFFICES ASSUME TypeOK, [Next]_vars PROVE TypeOK'
  OBVIOUS
<1> USE DEF clock, platform, counters, thread, reload, bounds, history
<1>1. CASE Tick
  <2>1. seg' \in StartSeg .. MaxSeg /\ Day' \in Days
    BY <1>1, TickFacts
  <2>2. ten' \in [Splits -> [TenKeys -> Nat]] /\ dies' \in [Splits -> Nat]
    <3>1. ZeroTen \in [TenKeys -> Nat]
      BY DEF ZeroTen
    <3> QED BY <1>1, <3>1 DEF Tick, TypeOK
  <2>3. base' \in Nat /\ inSeg' \in Nat
    <3>1. <<"p", "imp">> \in DayKeys
      BY DEF DayKeys, Levels
    <3> QED BY <1>1, <2>1, <3>1 DEF Tick, TypeOK
  <2>4. raced' \in BOOLEAN /\ dropped' \in BOOLEAN
    BY <1>1 DEF Tick
  <2> QED BY <1>1, <2>1, <2>2, <2>3, <2>4 DEF Tick, TypeOK
<1>2. ASSUME NEW l \in Levels, ExpirePause(l) PROVE TypeOK'
  <2>1. NoPause \in [reason : Reasons(l), until : Nat]
    BY DEF NoPause, Reasons
  <2>2. SetPause(l, NoPause)
    BY <1>2 DEF ExpirePause, SetPause
  <2>3. /\ DOMAIN pause' = Levels
        /\ \A m \in Levels : pause'[m] \in [reason : Reasons(m), until : Nat]
    BY <2>1, <2>2, PauseType
  <2>4. UNCHANGED <<seg, setting, listed, edits, cache, cnt, ten, dies, step, ev, conf, got, fails,
                    rpc, rlev, rday, new, rgot, events, late, begun, finished, base,
                    inSeg, dropped, raced>>
    BY <1>2 DEF ExpirePause
  <2> QED BY <2>3, <2>4 DEF TypeOK
<1>3. CASE EditSetting \/ ListPolicy
  <2>1. setting' \in Settings /\ edits' \in Nat
    BY <1>3 DEF EditSetting, ListPolicy, TypeOK
  <2>2. listed' \in BOOLEAN
    BY <1>3 DEF EditSetting, ListPolicy, TypeOK
  <2>3. UNCHANGED <<seg, cache, cnt, ten, dies, pause, step, ev, conf, got, fails, rpc, rlev,
                    rday, new, rgot, events, late, begun, finished, base, inSeg, dropped,
                    raced>>
    BY <1>3 DEF EditSetting, ListPolicy
  <2> QED BY <2>1, <2>2, <2>3 DEF TypeOK
<1>4. CASE Crash
  <2>1. NoConf \in [Levels -> Controls] /\ Zero \in [DOMAIN Zero -> Nat]
    BY DEF NoConf, Missing, Controls, Zero
  <2>2. /\ step' \in [Threads -> 0 .. 13] /\ ev' \in [Threads -> Events \cup {NoEvent}]
        /\ conf' \in [Threads -> [Levels -> Controls]]
        /\ got' \in [Threads -> [DOMAIN Zero -> Nat]]
    BY <1>4, <2>1 DEF Crash, Idle
  <2> QED BY <1>4, <2>1, <2>2 DEF Crash, TypeOK
<1>5. ASSUME NEW t \in Threads, ThreadStep(t) PROVE TypeOK'
  BY <1>5, ThreadType
<1>6. CASE ReloadStep
  BY <1>6, ReloadType
<1>7. CASE UNCHANGED vars
  BY <1>7 DEF vars, TypeOK
<1> QED BY <1>1, <1>2, <1>3, <1>4, <1>5, <1>6, <1>7 DEF Next

\* Every variable of the delivery control keeps its type, whatever fails; the
\* pause keys hold only the reasons of their own level.
THEOREM TypeCorrect == Spec => []TypeOK
BY InitType, TypeStep, PTL DEF Spec

------------------------------------------------------------------------------
(* What the steps do to the counters, the clock and the pauses.             *)

\* What everything but the clock leaves alone, and everything but a count.
LEMMA ClockStep ==
  ASSUME [Next]_vars, ~Tick
  PROVE  seg' = seg /\ Day' = Day /\ DayEnd' = DayEnd
<1>1. seg' = seg
  BY DEF Next, vars, ExpirePause, EditSetting, ListPolicy, Crash, ThreadStep, Begin,
         GetPolicyControl, Count, ExpireTen, KpiCampaign, KpiPolicy, RemovePolicyId, ReloadStep,
         LoadCampaignControl, LoadPolicyControl, LoadFail, CheckGuard, CheckGet,
         CheckAct, Publish, clock
<1> QED BY <1>1 DEF Day, DayEnd

LEMMA CountsStep ==
  ASSUME [Next]_vars, \A t \in Threads : ~Count(t)
  PROVE  cnt' = cnt
BY DEF Next, vars, Tick, ExpirePause, EditSetting, ListPolicy, Crash, ThreadStep, Begin,
       GetPolicyControl, ExpireTen, KpiCampaign, KpiPolicy, RemovePolicyId, ReloadStep,
       LoadCampaignControl, LoadPolicyControl, LoadFail, CheckGuard, CheckGet,
       CheckAct, Publish, counters

\* HINCRBY and HGET touch one counter of today, also when they fail.
LEMMA CountToday ==
  ASSUME TypeOK, NEW t \in Threads, Count(t)
  PROVE  /\ seg' = seg
         /\ \A d \in Days, k \in DayKeys : d # Day => cnt'[d][k] = cnt[d][k]
         /\ \A k \in DayKeys : cnt'[Day][k] >= cnt[Day][k]
<1> DEFINE c == CountCommands[step[t] - 1]
           v == Value(c) + Delta(ev[t], c)
<1>1. seg' = seg /\ step[t] \in 2 .. 9
  BY DEF Count, clock
<1>2. Store(c, v) \/ UNCHANGED <<cnt, ten>>
  BY DEF Count
<1>3. Day \in Days /\ cnt \in [Days -> [DayKeys -> Nat]]
  BY ClockFacts DEF TypeOK
<1>4. Value(c) \in Nat /\ Delta(ev[t], c) \in Nat
  BY <1>1, ValueType
<1>5. c[1] # "m" => c \in DayKeys
  BY <1>1, KeyFacts
<1>6. CASE cnt' = cnt
  BY <1>1, <1>3, <1>6
<1>7. CASE c[1] # "m" /\ cnt' = [cnt EXCEPT ![Day][c] = v]
  <2>1. v >= cnt[Day][c] /\ c \in DayKeys
    BY <1>3, <1>4, <1>5, <1>7 DEF Value
  <2> HIDE DEF c, v
  <2> QED BY <1>1, <1>3, <1>7, <2>1
<1> QED BY <1>2, <1>6, <1>7 DEF Store

\* The thread that counts learns what the counter has become; without a failure
\* the counter of its event grows by one and the others stay.
LEMMA CountFacts ==
  ASSUME TypeOK, NEW t \in Threads, Count(t), fails' = 0
  PROVE  /\ fails = 0
         /\ step[t] \in 2 .. 9 /\ step' = [step EXCEPT ![t] = step[t] + 1]
         /\ \A k \in DayKeys : got'[t][k] \in {got[t][k], cnt'[Day][k]}
         /\ \A s \in Threads : s # t => got'[s] = got[s]
         /\ \A l \in Levels, k \in TenKeys :
              IF step[t] = CountAt(l, k)
              THEN /\ cnt'[Day][<<l, k>>] = cnt[Day][<<l, k>>] + Delta(ev[t], <<l, k>>)
                   /\ got'[t][<<l, k>>] = cnt'[Day][<<l, k>>]
              ELSE /\ cnt'[Day][<<l, k>>] = cnt[Day][<<l, k>>]
                   /\ got'[t][<<l, k>>] = got[t][<<l, k>>]
<1> DEFINE c == CountCommands[step[t] - 1]
           v == Value(c) + Delta(ev[t], c)
<1>1. step[t] \in 2 .. 9 /\ step' = [step EXCEPT ![t] = step[t] + 1]
  BY DEF Count
<1>2. Store(c, v) /\ got' = [got EXCEPT ![t][c] = v] /\ fails = 0
  BY DEF Count, TypeOK
<1>3. /\ Day \in Days /\ cnt \in [Days -> [DayKeys -> Nat]]
      /\ got \in [Threads -> [Keys -> Nat]]
  BY ClockFacts DEF TypeOK, Zero, Keys
<1>4. Value(c) \in Nat /\ Delta(ev[t], c) \in Nat /\ c \in Keys
  BY <1>1, ValueType, KeyFacts
<1>5. /\ c[1] # "m" => c \in DayKeys
      /\ \A l \in Levels, k \in TenKeys : c = <<l, k>> <=> step[t] = CountAt(l, k)
  BY <1>1, KeyFacts
<1>6. \A s \in Threads : s # t => got'[s] = got[s]
  BY <1>2, <1>3
<1>7. \A k \in Keys : got'[t][k] = IF k = c THEN v ELSE got[t][k]
  BY <1>2, <1>3, <1>4
<1>8. \A k \in DayKeys : cnt'[Day][k] = IF k = c THEN v ELSE cnt[Day][k]
  <2>1. CASE c[1] = "m"
    <3>1. c \notin DayKeys
      BY <2>1 DEF DayKeys, Levels
    <3> QED BY <1>2, <2>1, <3>1 DEF Store
  <2>2. CASE c[1] # "m"
    <3>1. cnt' = [cnt EXCEPT ![Day][c] = v]
      BY <1>2, <2>2 DEF Store
    <3> HIDE DEF c, v
    <3> QED BY <1>3, <1>5, <2>2, <3>1
  <2> QED BY <2>1, <2>2
<1>9. \A k \in DayKeys : k = c => v = cnt[Day][k] + Delta(ev[t], k)
  BY DEF Value, DayKeys, Levels
<1>10. \A l \in Levels, k \in TenKeys : <<l, k>> \in DayKeys
  BY DEF DayKeys, TenKeys
<1>11. \A k \in DayKeys : k \in Keys
  BY DEF Keys
<1> HIDE DEF c, v
<1>12. \A k \in DayKeys : got'[t][k] \in {got[t][k], cnt'[Day][k]}
  BY <1>7, <1>8, <1>11
<1> QED BY <1>1, <1>2, <1>5, <1>6, <1>7, <1>8, <1>9, <1>10, <1>11, <1>12

\* SETEX of the pause that a thread found.
LEMMA WriteFacts ==
  ASSUME TypeOK, NEW t \in Threads, NEW l \in Levels, fails' = 0,
         IF l = "c" THEN KpiCampaign(t) ELSE KpiPolicy(t)
  PROVE  /\ fails = 0 /\ step[t] = WriteAt(l) /\ DOMAIN pause' = Levels
         /\ pause'[l] = IF Verdict(t, l) = NoPause THEN pause[l] ELSE Verdict(t, l)
         /\ \A m \in Levels : m # l => pause'[m] = pause[m]
         /\ \A s \in Threads : s # t =>
              step'[s] = step[s] /\ got'[s] = got[s] /\ ev'[s] = ev[s] /\ conf'[s] = conf[s]
         /\ l = "c" => step'[t] = 12
         /\ l = "p" => step'[t] \in {0, 13}
         /\ step'[t] # 0 => got' = got
         /\ \A s \in Threads : got'[s] \in {got[s], Zero}
         /\ setting' = setting /\ cnt' = cnt /\ seg' = seg /\ late' = late /\ edits' = edits
<1> DEFINE v == Verdict(t, l)
<1>1. fails = 0 /\ step[t] = WriteAt(l)
      /\ (pause' = IF v = NoPause THEN pause ELSE [pause EXCEPT ![l] = v])
  <2>1. l \in {"c", "p"}
    BY DEF Levels
  <2>2. CASE l = "c"
    <3>1. step[t] = WriteAt(l) /\ KpiCampaign(t) /\ v = CampaignPause(conf[t]["c"], got[t])
      BY <2>2 DEF KpiCampaign, WriteAt, Verdict
    <3> HIDE DEF v
    <3>2. (v = NoPause /\ UNCHANGED <<pause, fails>>) \/ (v # NoPause /\ SetPause(l, v))
      BY <2>2, <3>1 DEF KpiCampaign
    <3> QED BY <3>1, <3>2 DEF SetPause, TypeOK
  <2>3. CASE l = "p"
    <3>1. step[t] = WriteAt(l) /\ KpiPolicy(t) /\ v = PolicyPause(conf[t]["p"], got[t])
      BY <2>3 DEF KpiPolicy, WriteAt, Verdict
    <3> HIDE DEF v
    <3>2. (v = NoPause /\ UNCHANGED <<pause, fails>>) \/ (v # NoPause /\ SetPause(l, v))
      BY <2>3, <3>1 DEF KpiPolicy
    <3> QED BY <3>1, <3>2 DEF SetPause, TypeOK
  <2> QED BY <2>1, <2>2, <2>3
<1>2. /\ pause'[l] = IF v = NoPause THEN pause[l] ELSE v
      /\ \A m \in Levels : m # l => pause'[m] = pause[m]
      /\ DOMAIN pause' = Levels
  <2> HIDE DEF v
  <2>1. DOMAIN pause = Levels
    BY DEF TypeOK
  <2> QED BY <1>1, <2>1
<1>3. CASE l = "c"
  <2>1. step' = [step EXCEPT ![t] = 12] /\ UNCHANGED <<ev, conf, got>>
    BY <1>3 DEF KpiCampaign
  <2>2. setting' = setting /\ cnt' = cnt /\ seg' = seg /\ late' = late /\ edits' = edits
    BY <1>3 DEF KpiCampaign, platform, counters, clock, bounds
  <2> QED BY <1>1, <1>2, <1>3, <2>1, <2>2 DEF TypeOK
<1>4. CASE l # "c"
  <2>1. Return(t) \/ (step' = [step EXCEPT ![t] = 13] /\ UNCHANGED <<ev, conf, got>>)
    BY <1>4 DEF KpiPolicy, Finish
  <2>2. setting' = setting /\ cnt' = cnt /\ seg' = seg /\ late' = late /\ edits' = edits
    BY <1>4 DEF KpiPolicy, platform, counters, clock, bounds
  <2> QED BY <1>1, <1>2, <1>4, <2>1, <2>2 DEF TypeOK, Return, Idle
<1> QED BY <1>3, <1>4

------------------------------------------------------------------------------
(* The counters of later days, and the threads between two events.          *)

LEMMA FutureStep == TypeOK /\ FutureInv /\ [Next]_vars => FutureInv'
<1> SUFFICES ASSUME TypeOK, FutureInv, [Next]_vars, NEW d \in Days, NEW k \in DayKeys,
                    d > Day'
             PROVE  cnt'[d][k] = 0
  BY DEF FutureInv, Days
<1>1. Day \in Nat /\ d \in Nat
  BY ClockFacts DEF TypeOK, Days
<1>2. Day' = Day \/ Day' = Day + 1
  BY TickFacts, ClockStep
<1>3. d > Day
  BY <1>1, <1>2
<1>4. cnt'[d][k] = cnt[d][k]
  BY <1>1, <1>3, CountToday, CountsStep
<1> QED BY <1>3, <1>4 DEF FutureInv

LEMMA LocalStep == TypeOK /\ LocalInv /\ [Next]_vars => LocalInv'
<1> SUFFICES ASSUME TypeOK, LocalInv, [Next]_vars, NEW s \in Threads, step'[s] = Idle,
                    NEW k \in DOMAIN Zero
             PROVE  got'[s][k] = 0
  BY DEF LocalInv, Zero
<1>1. Zero[k] = 0
  BY DEF Zero
<1>2. /\ step[s] = Idle => got[s][k] = 0
      /\ step \in [Threads -> 0 .. 13] /\ got \in [Threads -> [DOMAIN Zero -> Nat]]
  BY DEF LocalInv, TypeOK
<1>3. CASE Crash
  BY <1>1, <1>3 DEF Crash
<1>4. ASSUME NEW t \in Threads, Return(t) PROVE got'[s][k] = 0
  BY <1>1, <1>2, <1>4 DEF Return
<1>5. ASSUME NEW t \in Threads, Count(t) PROVE got'[s][k] = 0
  <2>1. s # t
    BY <1>2, <1>5 DEF Count, Idle
  <2>2. step'[s] = step[s] /\ got'[s] = got[s]
    BY <1>2, <1>5, <2>1 DEF Count
  <2> QED BY <1>2, <2>2
<1>6. CASE step' = step /\ got' = got
  BY <1>2, <1>6
<1>7. ASSUME NEW t \in Threads, NEW j \in 1 .. 13, step' = [step EXCEPT ![t] = j], got' = got
      PROVE  got'[s][k] = 0
  BY <1>2, <1>7 DEF Idle
<1>8. ASSUME NEW t \in Threads, ThreadStep(t) PROVE got'[s][k] = 0
  <2>1. CASE \E e \in Events : Begin(t, e)
    <3>1. step' = [step EXCEPT ![t] = 1] /\ got' = got
      BY <2>1 DEF Begin
    <3> QED BY <1>2, <3>1 DEF Idle
  <2>2. CASE GetPolicyControl(t)
    BY <1>4, <1>7, <2>2 DEF GetPolicyControl
  <2>3. CASE ExpireTen(t)
    <3>1. step' = [step EXCEPT ![t] = 11] /\ got' = got
      BY <2>3 DEF ExpireTen
    <3> QED BY <1>2, <3>1 DEF Idle
  <2>4. CASE KpiCampaign(t)
    <3>1. step' = [step EXCEPT ![t] = 12] /\ got' = got
      BY <2>4 DEF KpiCampaign
    <3> QED BY <1>2, <3>1 DEF Idle
  <2>5. CASE KpiPolicy(t) \/ RemovePolicyId(t)
    <3>1. Return(t) \/ (step' = [step EXCEPT ![t] = 13] /\ got' = got)
      BY <2>5 DEF KpiPolicy, RemovePolicyId, Finish
    <3> QED BY <1>4, <1>7, <3>1
  <2> QED BY <1>5, <1>8, <2>1, <2>2, <2>3, <2>4, <2>5 DEF ThreadStep
<1>9. CASE Tick \/ (\E l \in Levels : ExpirePause(l)) \/ EditSetting \/ ListPolicy
           \/ ReloadStep \/ UNCHANGED vars
  <2>1. step' = step /\ got' = got
    BY <1>9 DEF vars, Tick, ExpirePause, EditSetting, ListPolicy, ReloadStep, thread,
       LoadCampaignControl, LoadPolicyControl, LoadFail, CheckGuard, CheckGet,
       CheckAct, Publish
  <2> QED BY <1>6, <2>1
<1> QED BY <1>3, <1>8, <1>9 DEF Next

------------------------------------------------------------------------------
(* The targets stay the same.                                               *)

LEMMA NoFailure ==
  ASSUME TypeOK, [Next]_vars, fails' = 0
  PROVE  fails = 0 /\ ~Crash
<1>1. fails \in Nat
  BY DEF TypeOK
<1>2. fails' = fails \/ fails' = fails + 1
  BY DEF Next, vars, Tick, ExpirePause, EditSetting, ListPolicy, Crash, ThreadStep, Begin,
         GetPolicyControl, Count, ExpireTen, KpiCampaign, KpiPolicy, RemovePolicyId, ReloadStep,
         LoadCampaignControl, LoadPolicyControl, LoadFail, CheckGuard, CheckGet,
         CheckAct, Publish, SetPause, LoadControl
<1>3. Crash => fails' = fails + 1
  BY DEF Crash
<1> QED BY <1>1, <1>2, <1>3

LEMMA NoEdit ==
  ASSUME TypeOK, [Next]_vars, edits' = 0
  PROVE  edits = 0 /\ setting' = setting /\ ~EditSetting /\ ~ListPolicy
<1>1. edits \in Nat
  BY DEF TypeOK
<1>2. EditSetting \/ ListPolicy => edits' = edits + 1
  BY DEF EditSetting, ListPolicy
<1>3. (edits' = edits /\ setting' = setting) \/ edits' = edits + 1
  BY DEF Next, vars, Tick, ExpirePause, EditSetting, ListPolicy, Crash, ThreadStep, Begin,
         GetPolicyControl, Count, ExpireTen, KpiCampaign, KpiPolicy, RemovePolicyId, ReloadStep,
         LoadCampaignControl, LoadPolicyControl, LoadFail, CheckGuard, CheckGet,
         CheckAct, Publish, platform
<1> QED BY <1>1, <1>2, <1>3

LEMMA SameStep == TypeOK /\ SameInv /\ [Next]_vars => SameInv'
<1> SUFFICES ASSUME TypeOK, SameInv, [Next]_vars, Calm'
             PROVE  /\ \A l \in Levels : cache'[l] \in {Missing, setting'[l]}
                                         /\ new'[l] \in {Missing, setting'[l]}
                    /\ \A t \in Threads, l \in Levels :
                         /\ conf'[t][l] \in {Missing, setting'[l]}
                         /\ step'[t] >= 2 => conf'[t][l] = setting'[l]
                    /\ rpc' \notin {"imp", "clk", "cost", "act"}
  BY DEF SameInv, Missing
<1>1. Calm /\ setting' = setting /\ fails = 0 /\ fails' = 0 /\ ~Crash
  BY NoFailure, NoEdit DEF Calm
<1>2. /\ \A l \in Levels : cache[l] \in {Missing, setting[l]}
                           /\ new[l] \in {Missing, setting[l]}
      /\ \A t \in Threads, l \in Levels :
           /\ conf[t][l] \in {Missing, setting[l]}
           /\ step[t] >= 2 => conf[t][l] = setting[l]
      /\ rpc \notin {"imp", "clk", "cost", "act"}
  BY <1>1 DEF SameInv
<1>3. /\ step \in [Threads -> 0 .. 13] /\ conf \in [Threads -> [Levels -> Controls]]
      /\ new \in [Levels -> Controls] /\ NoConf = [l \in Levels |-> Missing]
  BY DEF TypeOK, NoConf
<1>4. \A l \in Levels : cache'[l] \in {Missing, setting[l]} /\ new'[l] \in {Missing, setting[l]}
  <2>1. CASE Publish
    BY <1>2, <2>1 DEF Publish
  <2>2. CASE LoadCampaignControl
    <3>1. cache' = cache /\ new' = [NoConf EXCEPT !["c"] = Stored["c"]]
      BY <1>1, <2>2 DEF LoadCampaignControl, LoadControl
    <3> QED BY <1>2, <1>3, <3>1 DEF Stored, Levels
  <2>3. CASE LoadPolicyControl
    <3>1. cache' = cache /\ new' = [new EXCEPT !["p"] = Stored["p"]]
      BY <1>1, <2>3 DEF LoadPolicyControl, LoadControl
    <3> QED BY <1>2, <1>3, <3>1 DEF Stored, Levels
  <2>4. CASE UNCHANGED <<cache, new>>
    BY <1>2, <2>4
  <2>5. Publish \/ LoadCampaignControl \/ LoadPolicyControl \/ UNCHANGED <<cache, new>>
    BY <1>1 DEF Next, vars, Tick, ExpirePause, EditSetting, ListPolicy, ThreadStep, Begin,
         GetPolicyControl, Count, ExpireTen, KpiCampaign, KpiPolicy, RemovePolicyId, ReloadStep,
         LoadFail, CheckGuard, CheckGet, CheckAct, reload
  <2> QED BY <2>1, <2>2, <2>3, <2>4, <2>5
<1>5. \A t \in Threads, l \in Levels :
         /\ conf'[t][l] \in {Missing, setting[l]}
         /\ step'[t] >= 2 => conf'[t][l] = setting[l]
  <2>1. ASSUME NEW t \in Threads, NEW e \in Events, Begin(t, e)
        PROVE  \A s \in Threads, l \in Levels :
                 /\ conf'[s][l] \in {Missing, setting[l]}
                 /\ step'[s] >= 2 => conf'[s][l] = setting[l]
    <3>1. PICK c \in {Missing, cache["c"]} :
            step' = [step EXCEPT ![t] = 1] /\ conf' = [conf EXCEPT ![t]["c"] = c]
      BY <2>1 DEF Begin
    <3>2. c \in {Missing, setting["c"]}
      BY <1>2 DEF Levels
    <3> QED BY <1>2, <1>3, <3>1, <3>2
  <2>2. ASSUME NEW t \in Threads, Return(t)
        PROVE  \A s \in Threads, l \in Levels :
                 /\ conf'[s][l] \in {Missing, setting[l]}
                 /\ step'[s] >= 2 => conf'[s][l] = setting[l]
    BY <1>2, <1>3, <2>2 DEF Return, Idle
  <2>3. ASSUME NEW t \in Threads, GetPolicyControl(t)
        PROVE  \A s \in Threads, l \in Levels :
                 /\ conf'[s][l] \in {Missing, setting[l]}
                 /\ step'[s] >= 2 => conf'[s][l] = setting[l]
    <3>1. CASE /\ step' = [step EXCEPT ![t] = 2] /\ conf[t]["c"] # Missing
               /\ cache["p"] # Missing
               /\ conf' = [conf EXCEPT ![t]["p"] = cache["p"]]
      <4>1. /\ \A s \in Threads : s # t => conf'[s] = conf[s] /\ step'[s] = step[s]
            /\ conf'[t]["c"] = conf[t]["c"] /\ conf'[t]["p"] = cache["p"]
        BY <1>3, <3>1 DEF Levels
      <4>2. conf[t]["c"] = setting["c"] /\ cache["p"] = setting["p"]
        BY <1>2, <3>1 DEF Levels
      <4> QED BY <1>2, <4>1, <4>2 DEF Levels
    <3> QED BY <2>2, <2>3, <3>1 DEF GetPolicyControl
  <2>4. ASSUME NEW t \in Threads, step[t] >= 2, NEW j, step' = [step EXCEPT ![t] = j], conf' = conf
        PROVE  \A s \in Threads, l \in Levels :
                 /\ conf'[s][l] \in {Missing, setting[l]}
                 /\ step'[s] >= 2 => conf'[s][l] = setting[l]
    BY <1>2, <1>3, <2>4
  <2>5. ASSUME NEW t \in Threads,
               Count(t) \/ ExpireTen(t) \/ KpiCampaign(t) \/ (KpiPolicy(t) /\ ~Return(t))
        PROVE  step[t] >= 2 /\ conf' = conf /\ \E j : step' = [step EXCEPT ![t] = j]
    BY <2>5 DEF Count, ExpireTen, KpiCampaign, KpiPolicy, Finish
  <2>6. CASE \E t \in Threads : ThreadStep(t)
    BY <2>1, <2>2, <2>3, <2>4, <2>5, <2>6 DEF ThreadStep, RemovePolicyId, Finish
  <2>7. CASE ~\E t \in Threads : ThreadStep(t)
    <3>1. UNCHANGED <<step, conf>>
      BY <1>1, <2>7 DEF Next, vars, Tick, ExpirePause, EditSetting, ListPolicy, ReloadStep,
         LoadCampaignControl, LoadPolicyControl, LoadFail, CheckGuard, CheckGet, CheckAct,
         Publish, thread
    <3> QED BY <1>2, <3>1
  <2> QED BY <2>6, <2>7
<1>6. rpc' \notin {"imp", "clk", "cost", "act"}
  <2>1. CASE CheckGuard
    <3>1. rlev \in Levels /\ cache[rlev] \in {Missing, setting[rlev]}
          /\ new[rlev] \in {Missing, setting[rlev]}
      BY <1>2 DEF TypeOK
    <3>2. setting[rlev] \in Controls
      BY <3>1, SettingFacts
    <3>3. ~HasTarget(Missing)
      BY DEF HasTarget, Missing
    <3>4. ~Raised(setting[rlev], setting[rlev])
      BY <3>2 DEF Raised, Controls
    <3>5. ~Raised(cache[rlev], new[rlev])
      BY <3>1, <3>3, <3>4 DEF Raised
    <3> QED BY <2>1, <3>5 DEF CheckGuard, AfterLevel
  <2>2. CASE ~CheckGuard
    BY <1>1, <1>2, <2>2
       DEF Next, vars, Tick, ExpirePause, EditSetting, ListPolicy, ThreadStep, Begin,
         GetPolicyControl, Count, ExpireTen, KpiCampaign, KpiPolicy, RemovePolicyId, ReloadStep,
         CheckGet, CheckAct, reload, LoadCampaignControl, LoadPolicyControl, LoadFail,
         Publish
  <2> QED BY <2>1, <2>2
<1> QED BY <1>1, <1>4, <1>5, <1>6

------------------------------------------------------------------------------
(* By how much a target can be overrun.                                     *)

LEMMA ThreadCounts ==
  ASSUME NEW S \in SUBSET Threads, NEW T \in SUBSET Threads
  PROVE  /\ Cardinality(S) \in Nat /\ Cardinality(Threads) \in Nat
         /\ Cardinality(S) <= Cardinality(Threads)
         /\ S \subseteq T => Cardinality(S) <= Cardinality(T)
         /\ \A t : S \subseteq T \cup {t} => Cardinality(S) <= Cardinality(T) + 1
         /\ \A t \in T : S \subseteq T \ {t} => Cardinality(S) + 1 <= Cardinality(T)
         /\ \A t \in S : t \notin T /\ T \subseteq S =>
              Cardinality(T) + 1 <= Cardinality(S)
         /\ S \cap T = {} => Cardinality(S) + Cardinality(T) <= Cardinality(Threads)
<1>1. IsFiniteSet(Threads) /\ IsFiniteSet(S) /\ IsFiniteSet(T)
  BY KpiAssumption, FS_Subset
<1>2. Cardinality(S) \in Nat /\ Cardinality(T) \in Nat /\ Cardinality(Threads) \in Nat
  BY <1>1, FS_CardinalityType
<1>3. Cardinality(S) <= Cardinality(Threads)
  BY <1>1, FS_Subset
<1>4. S \subseteq T => Cardinality(S) <= Cardinality(T)
  BY <1>1, FS_Subset
<1>5. \A t : S \subseteq T \cup {t} => Cardinality(S) <= Cardinality(T) + 1
  <2> SUFFICES ASSUME NEW t, S \subseteq T \cup {t}
               PROVE  Cardinality(S) <= Cardinality(T) + 1
    OBVIOUS
  <2>1. IsFiniteSet(T \cup {t}) /\ Cardinality(T \cup {t}) <= Cardinality(T) + 1
    <3>1. /\ IsFiniteSet(T \cup {t})
          /\ Cardinality(T \cup {t}) = IF t \in T THEN Cardinality(T) ELSE Cardinality(T) + 1
      BY <1>1, FS_AddElement
    <3> QED BY <1>2, <3>1
  <2>2. Cardinality(S) <= Cardinality(T \cup {t})
    BY <2>1, FS_Subset
  <2>3. Cardinality(T \cup {t}) \in Nat
    BY <2>1, FS_CardinalityType
  <2> QED BY <1>2, <2>1, <2>2, <2>3
<1>6. \A t \in T : S \subseteq T \ {t} => Cardinality(S) + 1 <= Cardinality(T)
  <2> SUFFICES ASSUME NEW t \in T, S \subseteq T \ {t}
               PROVE  Cardinality(S) + 1 <= Cardinality(T)
    OBVIOUS
  <2>1. IsFiniteSet(T \ {t}) /\ Cardinality(T \ {t}) = Cardinality(T) - 1
    BY <1>1, FS_RemoveElement
  <2>2. Cardinality(S) <= Cardinality(T \ {t})
    BY <2>1, FS_Subset
  <2> QED BY <1>2, <2>1, <2>2
<1>7. \A t \in S : t \notin T /\ T \subseteq S => Cardinality(T) + 1 <= Cardinality(S)
  <2> SUFFICES ASSUME NEW t \in S, t \notin T, T \subseteq S
               PROVE  Cardinality(T) + 1 <= Cardinality(S)
    OBVIOUS
  <2>1. IsFiniteSet(S \ {t}) /\ Cardinality(S \ {t}) = Cardinality(S) - 1
    BY <1>1, FS_RemoveElement
  <2>2. T \in SUBSET (S \ {t})
    OBVIOUS
  <2>3. Cardinality(T) <= Cardinality(S \ {t})
    BY <2>1, <2>2, FS_Subset
  <2> QED BY <1>2, <2>1, <2>3
<1>8. S \cap T = {} => Cardinality(S) + Cardinality(T) <= Cardinality(Threads)
  <2> SUFFICES ASSUME S \cap T = {}
               PROVE  Cardinality(S) + Cardinality(T) <= Cardinality(Threads)
    OBVIOUS
  <2>1. Cardinality(S \cup T) = Cardinality(S) + Cardinality(T) - Cardinality(S \cap T)
    BY <1>1, FS_Union
  <2>2. Cardinality(S \cap T) = 0
    BY FS_EmptySet
  <2>3. S \cup T \in SUBSET Threads
    OBVIOUS
  <2>4. Cardinality(S \cup T) <= Cardinality(Threads)
    BY <1>1, <2>3, FS_Subset
  <2> QED BY <1>2, <2>1, <2>2, <2>4
<1> QED BY <1>2, <1>3, <1>4, <1>5, <1>6, <1>7, <1>8

\* With targets of one kind a thread that read as much as the target pauses
\* the level, and every pause lasts until midnight.
LEMMA PlainVerdict ==
  ASSUME TypeOK, SameInv, Calm, NEW t \in Threads, NEW l \in Levels, Plain(l),
         step[t] = WriteAt(l)
  PROVE  /\ Verdict(t, l) # NoPause =>
              Verdict(t, l).reason # 0 /\ Verdict(t, l).until = DayEnd
         /\ \A k \in TenKeys :
              setting[l][k] > 0 /\ got[t][<<l, k>>] >= setting[l][k]
                => Verdict(t, l) # NoPause
<1> DEFINE c == setting[l]
           g == got[t]
           d == DayEnd
<1>1. step[t] >= 2 /\ setting \in Settings
  BY DEF WriteAt, TypeOK
<1>2. /\ conf[t][l] = c /\ c \in Controls
      /\ c.imp >= -1 /\ c.clk >= -1 /\ (c.imp <= 0 \/ c.clk <= 0)
  BY <1>1, SettingFacts DEF SameInv, Plain, PlainControl
<1>3. c.imp \in Int /\ c.clk \in Int
  BY <1>2 DEF Controls
<1>4. g[<<l, "imp">>] \in Nat /\ g[<<l, "clk">>] \in Nat
  BY DEF TypeOK, Zero, DayKeys
<1>5. ASSUME NEW k \in TenKeys, c[k] > 0, g[<<l, k>>] >= c[k]
      PROVE  ~NoKpi(c) /\ KpiReached(c, g[<<l, "imp">>], g[<<l, "clk">>])
  <2>1. CASE k = "imp"
    <3>1. Limit(c.clk) = -1 /\ Limit(c.imp) # -1
      BY <1>2, <1>3, <1>5, <2>1 DEF Limit
    <3> QED BY <1>5, <2>1, <3>1 DEF NoKpi, KpiReached
  <2>2. CASE k = "clk"
    <3>1. Limit(c.imp) = -1 /\ Limit(c.clk) # -1
      BY <1>2, <1>3, <1>5, <2>2 DEF Limit
    <3> QED BY <1>5, <2>2, <3>1 DEF NoKpi, KpiReached
  <2> QED BY <2>1, <2>2 DEF TenKeys
<1>6. /\ 10 + 1 = 11 /\ 10 + 2 = 12 /\ 20 + 1 = 21 /\ 20 + 2 = 22
      /\ NoPause.reason = 0
  BY DEF NoPause
<1>7. CASE l = "c"
  <2>1. Verdict(t, l) = CampaignPause(c, g)
    BY <1>2, <1>7 DEF Verdict
  <2> HIDE DEF c, g, d
  <2>2. CampaignPause(c, g) \in {NoPause, [reason |-> 11, until |-> d], [reason |-> 12, until |-> d]}
    BY <1>6 DEF CampaignPause, ReasonBase, d
  <2>3. ~NoKpi(c) /\ KpiReached(c, g[<<l, "imp">>], g[<<l, "clk">>])
          => CampaignPause(c, g) = [reason |-> 11, until |-> d]
    BY <1>6, <1>7 DEF CampaignPause, ReasonBase, d
  <2>4. \A r \in {11, 12} : [reason |-> r, until |-> d] # NoPause
    BY <1>6
  <2>5. CampaignPause(c, g) # NoPause =>
          CampaignPause(c, g).reason # 0 /\ CampaignPause(c, g).until = d
    BY <2>2
  <2>6. ASSUME NEW k \in TenKeys, c[k] > 0, g[<<l, k>>] >= c[k]
        PROVE  CampaignPause(c, g) # NoPause
    BY <1>5, <2>3, <2>4, <2>6
  <2> QED BY <2>1, <2>5, <2>6 DEF c, g, d
<1>8. CASE l = "p"
  <2>1. Verdict(t, l) = PolicyPause(c, g)
    BY <1>2, <1>8 DEF Verdict
  <2>2. NoKpi(c) \/ (~c.uniform /\ Hour \in c.allow)
    <3>1. seg \in Nat
      BY ClockFacts DEF TypeOK
    <3> QED BY <1>1, <1>8, <3>1, HourFacts DEF Plain, PlainControl
  <2> HIDE DEF c, g, d
  <2>3. PolicyPause(c, g) \in {NoPause, [reason |-> 21, until |-> d], [reason |-> 22, until |-> d]}
    BY <1>6, <2>2 DEF PolicyPause, ReasonBase, d
  <2>4. ~NoKpi(c) /\ KpiReached(c, g[<<l, "imp">>], g[<<l, "clk">>])
          => PolicyPause(c, g) = [reason |-> 21, until |-> d]
    BY <1>6, <1>8 DEF PolicyPause, ReasonBase, d
  <2>5. \A r \in {21, 22} : [reason |-> r, until |-> d] # NoPause
    BY <1>6
  <2>6. PolicyPause(c, g) # NoPause =>
          PolicyPause(c, g).reason # 0 /\ PolicyPause(c, g).until = d
    BY <2>3
  <2>7. ASSUME NEW k \in TenKeys, c[k] > 0, g[<<l, k>>] >= c[k]
        PROVE  PolicyPause(c, g) # NoPause
    BY <1>5, <2>4, <2>5, <2>7
  <2> QED BY <2>1, <2>6, <2>7 DEF c, g, d
<1> QED BY <1>7, <1>8 DEF Levels

LEMMA OverrunTypes ==
  ASSUME TypeOK, NEW l \in Levels, NEW k \in TenKeys
  PROVE  /\ Pending(l, k) \in SUBSET Threads /\ Pausing(l, k) \in SUBSET Threads
         /\ Pending(l, k) \cap Pausing(l, k) = {}
         /\ setting[l][k] \in Int /\ late \in Nat /\ Day \in Days
         /\ \A d \in Days : cnt[d][<<l, k>>] \in Nat
         /\ CountAt(l, k) \in 2 .. 5 /\ WriteAt(l) \in {11, 12}
<1>1. CountAt(l, k) \in 2 .. 5 /\ WriteAt(l) \in {11, 12}
  BY DEF CountAt, WriteAt
<1>2. Pending(l, k) \cap Pausing(l, k) = {}
  BY <1>1 DEF Pending, Pausing, TypeOK
<1>3. setting[l][k] \in Int
  BY SettingFacts DEF Controls, TenKeys
<1>4. \A d \in Days : cnt[d][<<l, k>>] \in Nat
  BY DEF TypeOK, DayKeys, TenKeys
<1> QED BY <1>1, <1>2, <1>3, <1>4, ClockFacts DEF Pending, Pausing, TypeOK

\* A step that counts nothing, lets no pause of today go and no thread drop
\* its pause keeps the bound; a pause that is new is no harm to it.
LEMMA OverrunKept ==
  ASSUME TypeOK, TypeOK', NEW l \in Levels, NEW k \in TenKeys, Overrun(l, k),
         setting' = setting, late' = late, Day' = Day,
         \A d \in Days : cnt'[d][<<l, k>>] = cnt[d][<<l, k>>],
         PausedToday(l) => PausedToday(l)',
         Pending(l, k)' \subseteq Pending(l, k),
         ~PausedToday(l)' => Pausing(l, k) \subseteq Pausing(l, k)'
  PROVE  Overrun(l, k)'
<1> DEFINE P == Pending(l, k)
           Q == P'
           R == Pausing(l, k)
           U == R'
           x == setting[l][k]
           c == cnt[Day][<<l, k>>]
           n == Cardinality(Threads)
<1>1. /\ P \in SUBSET Threads /\ Q \in SUBSET Threads /\ R \in SUBSET Threads
      /\ U \in SUBSET Threads /\ P \cap R = {} /\ Q \subseteq P
      /\ x \in Int /\ late \in Nat /\ c \in Nat /\ Day \in Days
  BY OverrunTypes DEF Pending, Pausing
<1>2. ~PausedToday(l)' => R \subseteq U
  OBVIOUS
<1>3. /\ PausedToday(l) => c + Cardinality(P) <= x - 1 + n + late
      /\ ~PausedToday(l) => c <= x - 1 + Cardinality(R)
  BY DEF Overrun
<1>4. \A d \in Days \ {Day'} : cnt'[d][<<l, k>>] <= setting'[l][k] - 1 + n + late'
  BY DEF Overrun
<1>5. cnt'[Day'][<<l, k>>] = c /\ setting'[l][k] = x
  BY <1>1
<1> HIDE DEF P, Q, R, U, x, c, n
<1>6. /\ n \in Nat /\ Cardinality(P) \in Nat /\ Cardinality(R) \in Nat
      /\ Cardinality(Q) \in Nat /\ Cardinality(U) \in Nat
      /\ Cardinality(Q) <= Cardinality(P)
      /\ R \subseteq U => Cardinality(R) <= Cardinality(U)
      /\ Cardinality(P) + Cardinality(R) <= n
  BY <1>1, ThreadCounts DEF n
<1>7. PausedToday(l)' => c + Cardinality(Q) <= x - 1 + n + late
  BY <1>1, <1>3, <1>6
<1>8. ~PausedToday(l)' => c <= x - 1 + Cardinality(U)
  BY <1>1, <1>2, <1>3, <1>6
<1> QED BY <1>4, <1>5, <1>7, <1>8 DEF Overrun, Q, U, P, R, n

\* At midnight the counters begin at zero.
LEMMA OverrunMidnight ==
  ASSUME TypeOK, TypeOK', NEW l \in Levels, NEW k \in TenKeys, Overrun(l, k),
         setting[l][k] > 0, setting' = setting, late' = late, cnt' = cnt,
         Day' # Day, cnt[Day'][<<l, k>>] = 0
  PROVE  Overrun(l, k)'
<1> DEFINE P == Pending(l, k)
           Q == P'
           R == Pausing(l, k)
           U == R'
           x == setting[l][k]
           c == cnt[Day][<<l, k>>]
           n == Cardinality(Threads)
<1>1. /\ P \in SUBSET Threads /\ Q \in SUBSET Threads /\ R \in SUBSET Threads
      /\ U \in SUBSET Threads /\ x \in Int /\ x > 0 /\ late \in Nat /\ c \in Nat
  BY OverrunTypes DEF Pending, Pausing
<1>2. /\ PausedToday(l) => c + Cardinality(P) <= x - 1 + n + late
      /\ ~PausedToday(l) => c <= x - 1 + Cardinality(R)
      /\ \A d \in Days \ {Day} : cnt[d][<<l, k>>] <= x - 1 + n + late
  BY DEF Overrun
<1>3. setting'[l][k] = x /\ cnt'[Day'][<<l, k>>] = 0
  OBVIOUS
<1> HIDE DEF P, Q, R, U, x, n
<1>4. /\ n \in Nat /\ Cardinality(P) \in Nat /\ Cardinality(R) \in Nat
      /\ Cardinality(Q) \in Nat /\ Cardinality(U) \in Nat
      /\ Cardinality(Q) <= n /\ Cardinality(R) <= n
  BY <1>1, ThreadCounts DEF n
<1>5. c <= x - 1 + n + late
  <2> HIDE DEF c
  <2> QED BY <1>1, <1>2, <1>4
<1>6. \A d \in Days : cnt'[d][<<l, k>>] <= x - 1 + n + late
  BY <1>2, <1>5
<1>7. 0 + Cardinality(Q) <= x - 1 + n + late /\ 0 <= x - 1 + Cardinality(U)
  BY <1>1, <1>4
<1> QED BY <1>3, <1>6, <1>7 DEF Overrun, Q, U, P, R, n

\* A bid that is answered under a pause is late.
LEMMA OverrunBegin ==
  ASSUME TypeOK, TypeOK', NEW l \in Levels, NEW k \in TenKeys, Overrun(l, k),
         NEW t \in Threads, NEW e \in Events, Begin(t, e)
  PROVE  Overrun(l, k)'
<1> DEFINE P == Pending(l, k)
           Q == P'
           R == Pausing(l, k)
           U == R'
           x == setting[l][k]
           c == cnt[Day][<<l, k>>]
           n == Cardinality(Threads)
<1>1. /\ P \in SUBSET Threads /\ Q \in SUBSET Threads /\ R \in SUBSET Threads
      /\ U \in SUBSET Threads
      /\ x \in Int /\ late \in Nat /\ c \in Nat /\ Day \in Days
      /\ CountAt(l, k) \in 2 .. 5 /\ WriteAt(l) \in {11, 12}
  BY OverrunTypes DEF Pending, Pausing
<1>2. /\ seg' = seg /\ setting' = setting /\ cnt' = cnt /\ pause' = pause /\ got' = got
      /\ step[t] = 0 /\ step' = [step EXCEPT ![t] = 1] /\ ev' = [ev EXCEPT ![t] = e]
  BY DEF Begin, clock, platform, counters, Idle
<1>3. Day' = Day /\ (PausedToday(l)' <=> PausedToday(l))
  BY <1>2 DEF Day, DayEnd, PausedToday, Paused
<1>4. /\ late' = late \/ late' = late + 1
      /\ PausedToday(l) => late' = late + 1
  BY DEF Begin, PausedToday
<1>5. \A s \in Threads : s # t => step'[s] = step[s] /\ ev'[s] = ev[s]
  BY <1>2 DEF TypeOK
<1>6. Q \subseteq P \cup {t}
  BY <1>5 DEF Pending
<1>7. R \subseteq U
  BY <1>1, <1>2, <1>5 DEF Pausing
<1>8. /\ PausedToday(l) => c + Cardinality(P) <= x - 1 + n + late
      /\ ~PausedToday(l) => c <= x - 1 + Cardinality(R)
      /\ \A d \in Days \ {Day} : cnt[d][<<l, k>>] <= x - 1 + n + late
  BY DEF Overrun
<1>9. cnt'[Day'][<<l, k>>] = c /\ setting'[l][k] = x
  BY <1>2, <1>3
<1> HIDE DEF P, Q, R, U, x, c, n
<1>10. /\ n \in Nat /\ Cardinality(P) \in Nat /\ Cardinality(R) \in Nat
       /\ Cardinality(Q) \in Nat /\ Cardinality(U) \in Nat
       /\ Cardinality(Q) <= Cardinality(P) + 1
       /\ Cardinality(R) <= Cardinality(U)
  <2>1. n \in Nat /\ Cardinality(P) \in Nat /\ Cardinality(R) \in Nat
        /\ Cardinality(Q) \in Nat /\ Cardinality(U) \in Nat
    BY <1>1, ThreadCounts DEF n
  <2>2. Cardinality(Q) <= Cardinality(P) + 1
    BY <1>1, <1>6, ThreadCounts
  <2>3. Cardinality(R) <= Cardinality(U)
    BY <1>1, <1>7, ThreadCounts
  <2> QED BY <2>1, <2>2, <2>3
<1>11. PausedToday(l)' => c + Cardinality(Q) <= x - 1 + n + late'
  BY <1>1, <1>3, <1>4, <1>8, <1>10
<1>12. ~PausedToday(l)' => c <= x - 1 + Cardinality(U)
  BY <1>1, <1>3, <1>8, <1>10
<1>13. \A d \in Days \ {Day'} : cnt'[d][<<l, k>>] <= x - 1 + n + late'
  <2> SUFFICES ASSUME NEW d \in Days \ {Day}
               PROVE  cnt[d][<<l, k>>] <= x - 1 + n + late'
    BY <1>2, <1>3
  <2>1. cnt[d][<<l, k>>] \in Nat
    BY OverrunTypes
  <2> QED BY <1>1, <1>4, <1>8, <1>10, <2>1
<1> QED BY <1>9, <1>11, <1>12, <1>13 DEF Overrun, Q, U, P, R, n

\* A thread that counts its event is no longer one that has yet to count; the
\* one that reaches the target, or goes beyond it, will pause the level.
LEMMA OverrunCount ==
  ASSUME TypeOK, TypeOK', NEW l \in Levels, NEW k \in TenKeys, Overrun(l, k),
         NEW t \in Threads, Count(t), fails' = 0
  PROVE  Overrun(l, k)'
<1> DEFINE P == Pending(l, k)
           Q == P'
           R == Pausing(l, k)
           U == R'
           x == setting[l][k]
           c == cnt[Day][<<l, k>>]
           y == cnt'[Day][<<l, k>>]
           n == Cardinality(Threads)
<1>1. /\ P \in SUBSET Threads /\ Q \in SUBSET Threads /\ R \in SUBSET Threads
      /\ U \in SUBSET Threads
      /\ x \in Int /\ late \in Nat /\ c \in Nat /\ Day \in Days
      /\ CountAt(l, k) \in 2 .. 5 /\ WriteAt(l) \in {11, 12}
      /\ <<l, k>> \in DayKeys
  BY OverrunTypes DEF Pending, Pausing, DayKeys, TenKeys
<1>2. /\ seg' = seg /\ setting' = setting /\ pause' = pause /\ ev' = ev /\ late' = late
  BY DEF Count, clock, platform, bounds
<1>3. Day' = Day /\ (PausedToday(l)' <=> PausedToday(l))
  BY <1>2 DEF Day, DayEnd, PausedToday, Paused
<1>4. /\ step[t] \in 2 .. 9 /\ step' = [step EXCEPT ![t] = step[t] + 1]
      /\ \A s \in Threads : s # t => got'[s] = got[s]
      /\ step[t] = CountAt(l, k) =>
           y = c + Delta(ev[t], <<l, k>>) /\ got'[t][<<l, k>>] = y
      /\ step[t] # CountAt(l, k) =>
           y = c /\ got'[t][<<l, k>>] = got[t][<<l, k>>]
  BY CountFacts
<1>5. \A d \in Days \ {Day} : cnt'[d][<<l, k>>] = cnt[d][<<l, k>>]
  BY <1>1, CountToday
<1>6. step'[t] = step[t] + 1 /\ \A s \in Threads : s # t => step'[s] = step[s]
  BY <1>4 DEF TypeOK
<1>7. Q \subseteq P
  BY <1>1, <1>2, <1>4, <1>6 DEF Pending, TypeOK
<1>8. R \subseteq U
  BY <1>1, <1>2, <1>4, <1>6 DEF Pausing, TypeOK
<1>9. CASE y = c
  <2>1. \A d \in Days : cnt'[d][<<l, k>>] = cnt[d][<<l, k>>]
    BY <1>5, <1>9
  <2> QED BY <1>2, <1>3, <1>7, <1>8, <2>1, OverrunKept
<1>10. CASE y # c
  <2>1. step[t] = CountAt(l, k) /\ got'[t][<<l, k>>] = y
    BY <1>4, <1>10
  <2>2. y = c + 1 /\ Counted(ev[t].m) = k
    <3>1. ev[t] \in Events \cup {NoEvent}
      BY DEF TypeOK
    <3>2. Delta(ev[t], <<l, k>>) = IF Counted(ev[t].m) = k /\ ev[t].m \in {"i", "c"} THEN 1 ELSE 0
      BY <3>1, DeltaFacts DEF TenKeys
    <3> QED BY <1>1, <1>4, <1>10, <2>1, <3>2
  <2>3. t \in P /\ t \notin Q /\ t \notin R
    BY <1>1, <1>6, <2>1, <2>2 DEF Pending, Pausing
  <2>4. y >= x => t \in U
    BY <1>1, <1>2, <1>6, <2>1 DEF Pausing
  <2>5. /\ PausedToday(l) => c + Cardinality(P) <= x - 1 + n + late
        /\ ~PausedToday(l) => c <= x - 1 + Cardinality(R)
        /\ \A d \in Days \ {Day} : cnt[d][<<l, k>>] <= x - 1 + n + late
    BY DEF Overrun
  <2>6. cnt'[Day'][<<l, k>>] = y /\ setting'[l][k] = x
    BY <1>2, <1>3
  <2>7. \A d \in Days \ {Day'} : cnt'[d][<<l, k>>] <= x - 1 + n + late'
    BY <1>2, <1>3, <1>5, <2>5
  <2> HIDE DEF P, Q, R, U, x, c, y, n
  <2>8. n \in Nat /\ Cardinality(P) \in Nat /\ Cardinality(R) \in Nat
        /\ Cardinality(Q) \in Nat /\ Cardinality(U) \in Nat
    BY <1>1, ThreadCounts DEF n
  <2>9. Q \subseteq P \ {t}
    BY <1>7, <2>3
  <2>10. Cardinality(Q) + 1 <= Cardinality(P)
    BY <1>1, <2>3, <2>9, ThreadCounts
  <2>11. t \in U => Cardinality(R) + 1 <= Cardinality(U)
    BY <1>1, <1>8, <2>3, ThreadCounts
  <2>12. PausedToday(l)' => y + Cardinality(Q) <= x - 1 + n + late'
    BY <1>1, <1>2, <1>3, <2>2, <2>5, <2>8, <2>10
  <2>13. ~PausedToday(l)' => y <= x - 1 + Cardinality(U)
    <3>1. CASE y >= x
      BY <1>1, <1>3, <2>2, <2>4, <2>5, <2>8, <2>11, <3>1
    <3>2. CASE y < x
      BY <1>1, <2>2, <2>8, <3>2
    <3> QED BY <1>1, <2>2, <3>1, <3>2
  <2> QED BY <2>6, <2>7, <2>12, <2>13 DEF Overrun, Q, U, P, R, n
<1> QED BY <1>9, <1>10

\* The pause of another level, and the verdict on this one.
LEMMA OverrunWrite ==
  ASSUME TypeOK, TypeOK', SameInv, Calm, fails' = 0,
         NEW l \in Levels, NEW k \in TenKeys, Plain(l), setting[l][k] > 0, Overrun(l, k),
         NEW t \in Threads, NEW m \in Levels,
         IF m = "c" THEN KpiCampaign(t) ELSE KpiPolicy(t)
  PROVE  Overrun(l, k)'
<1>1. /\ step[t] = WriteAt(m)
      /\ pause'[m] = IF Verdict(t, m) = NoPause THEN pause[m] ELSE Verdict(t, m)
      /\ \A j \in Levels : j # m => pause'[j] = pause[j]
      /\ \A s \in Threads : s # t => step'[s] = step[s] /\ got'[s] = got[s] /\ ev'[s] = ev[s]
      /\ m = "c" => step'[t] = 12 /\ got' = got
      /\ m = "p" => step'[t] \in {0, 13}
      /\ setting' = setting /\ cnt' = cnt /\ seg' = seg /\ late' = late
  BY WriteFacts
<1>2. Day' = Day /\ DayEnd' = DayEnd
  BY <1>1 DEF Day, DayEnd
<1>3. l = m =>
        /\ Verdict(t, m) # NoPause =>
             Verdict(t, m).reason # 0 /\ Verdict(t, m).until = DayEnd
        /\ \A j \in TenKeys :
             setting[m][j] > 0 /\ got[t][<<m, j>>] >= setting[m][j]
               => Verdict(t, m) # NoPause
  BY <1>1, PlainVerdict
<1>4. PausedToday(l) => PausedToday(l)'
  BY <1>1, <1>2, <1>3 DEF PausedToday, Paused
<1>5. CountAt(l, k) \in 2 .. 5
  BY OverrunTypes
<1>6. Pending(l, k)' \subseteq Pending(l, k)
  <2>1. step'[t] \in {0, 12, 13}
    BY <1>1 DEF Levels
  <2>2. \A s \in Threads : s \in Pending(l, k)' => s # t
    BY <1>5, <2>1 DEF Pending
  <2> QED BY <1>1, <2>2 DEF Pending
<1>7. t \in Pausing(l, k) /\ l = m => PausedToday(l)'
  <2> SUFFICES ASSUME t \in Pausing(l, k), l = m PROVE PausedToday(l)'
    OBVIOUS
  <2>1. Verdict(t, l) # NoPause
    BY <1>3 DEF Pausing
  <2>2. pause'[l].reason # 0 /\ pause'[l].until = DayEnd
    BY <1>1, <1>3, <2>1
  <2> QED BY <1>2, <2>2 DEF PausedToday, Paused
<1>8. t \in Pausing(l, k) /\ l # m => t \in Pausing(l, k)'
  BY <1>1, <1>5 DEF Pausing, WriteAt, Levels
<1>9. \A s \in Threads : s # t /\ s \in Pausing(l, k) => s \in Pausing(l, k)'
  BY <1>1 DEF Pausing
<1>10. ~PausedToday(l)' => Pausing(l, k) \subseteq Pausing(l, k)'
  <2>1. Pausing(l, k) \subseteq Threads
    BY DEF Pausing
  <2> QED BY <1>7, <1>8, <1>9, <2>1
<1> QED BY <1>1, <1>2, <1>4, <1>6, <1>10, OverrunKept

\* The steps that move no thread past a count or a pause.
LEMMA OverrunIdle ==
  ASSUME TypeOK, TypeOK', NEW l \in Levels, NEW k \in TenKeys, Overrun(l, k),
         setting' = setting, late' = late, cnt' = cnt, Day' = Day, DayEnd' = DayEnd,
         PausedToday(l) => pause'[l] = pause[l],
         PausedToday(l)' => pause'[l] = pause[l],
         \A t \in Threads :
           \/ step'[t] = step[t] /\ ev'[t] = ev[t] /\ got'[t] = got[t]
           \/ step[t] = 1 /\ step'[t] = 2 /\ ev'[t] = ev[t]
           \/ step[t] = 1 /\ step'[t] = 0
           \/ step[t] = 10 /\ step'[t] = 11 /\ got'[t] = got[t]
           \/ step[t] = 13 /\ step'[t] = 0
  PROVE  Overrun(l, k)'
<1>1. CountAt(l, k) \in 2 .. 5 /\ WriteAt(l) \in {11, 12}
  BY OverrunTypes
<1>2. PausedToday(l)' <=> PausedToday(l)
  BY DEF PausedToday, Paused
<1>3. Pending(l, k)' \subseteq Pending(l, k)
  BY <1>1 DEF Pending
<1>4. Pausing(l, k) \subseteq Pausing(l, k)'
  BY <1>1 DEF Pausing
<1> QED BY <1>2, <1>3, <1>4, OverrunKept

LEMMA OverrunStep ==
  TypeOK /\ FutureInv /\ SameInv /\ OverrunInv /\ [Next]_vars => OverrunInv'
<1> SUFFICES ASSUME TypeOK, FutureInv, SameInv, OverrunInv, [Next]_vars, Calm',
                    NEW l \in Levels, NEW k \in TenKeys, Plain(l)', setting'[l][k] > 0
             PROVE  Overrun(l, k)'
  BY DEF OverrunInv
<1> USE DEF clock, platform, counters, thread, reload, bounds, history
<1>1. /\ TypeOK' /\ Calm /\ setting' = setting /\ setting[l][k] > 0
      /\ fails = 0 /\ fails' = 0 /\ ~Crash /\ edits' = 0
      /\ Plain(l)
  BY TypeStep, NoFailure, NoEdit DEF Calm, Plain
<1>2. Overrun(l, k)
  BY <1>1 DEF OverrunInv
<1>3. step \in [Threads -> 0 .. 13] /\ DOMAIN pause = Levels
  BY DEF TypeOK
<1>4. CASE Tick
  <2>1. late' = late /\ cnt' = cnt /\ pause' = pause /\ UNCHANGED <<step, ev, got>>
    BY <1>4 DEF Tick
  <2>2. /\ Day' \in Days
        /\ (Day' = Day /\ DayEnd' = DayEnd) \/ (Day' = Day + 1 /\ seg' = DayEnd)
    BY <1>4, TickFacts
  <2>3. CASE Day' = Day /\ DayEnd' = DayEnd
    BY <1>1, <1>2, <2>1, <2>3, OverrunIdle
  <2>4. CASE Day' = Day + 1
    <3>1. Day \in Nat /\ <<l, k>> \in DayKeys
      BY ClockFacts DEF TypeOK, DayKeys, TenKeys
    <3>2. cnt[Day'][<<l, k>>] = 0 /\ Day' # Day
      BY <2>2, <2>4, <3>1 DEF FutureInv
    <3> QED BY <1>1, <1>2, <2>1, <3>2, OverrunMidnight
  <2> QED BY <2>2, <2>3, <2>4
<1>5. CASE ~Tick
  <2>1. seg' = seg /\ Day' = Day /\ DayEnd' = DayEnd
    BY <1>5, ClockStep
  <2>2. ASSUME NEW m \in Levels, ExpirePause(m) PROVE Overrun(l, k)'
    <3>1. seg < DayEnd
      BY ClockFacts DEF TypeOK
    <3>2. seg \in Nat /\ DayEnd \in Nat
      BY ClockFacts DEF TypeOK
    <3>3. PausedToday(l) => l # m
      BY <2>2, <3>1, <3>2 DEF ExpirePause, PausedToday
    <3>4. /\ late' = late /\ cnt' = cnt /\ UNCHANGED <<step, ev, got>>
          /\ pause' = [pause EXCEPT ![m] = NoPause]
      BY <2>2 DEF ExpirePause
    <3>5. l # m => pause'[l] = pause[l]
      BY <1>3, <3>4
    <3>6. l = m => ~PausedToday(l)'
      BY <1>3, <3>4 DEF PausedToday, Paused, NoPause
    <3> QED BY <1>1, <1>2, <2>1, <3>3, <3>4, <3>5, <3>6, OverrunIdle
  <2>3. ASSUME NEW t \in Threads, ThreadStep(t) PROVE Overrun(l, k)'
    <3>1. CASE \E e \in Events : Begin(t, e)
      BY <1>1, <1>2, <3>1, OverrunBegin
    <3>2. CASE GetPolicyControl(t)
      <4>1. /\ late' = late /\ cnt' = cnt /\ pause' = pause /\ step[t] = 1
            /\ (step' = [step EXCEPT ![t] = 2] /\ UNCHANGED <<ev, got>>) \/ Return(t)
        BY <3>2 DEF GetPolicyControl
      <4>2. \A s \in Threads :
              \/ step'[s] = step[s] /\ ev'[s] = ev[s] /\ got'[s] = got[s]
              \/ step[s] = 1 /\ step'[s] = 2 /\ ev'[s] = ev[s]
              \/ step[s] = 1 /\ step'[s] = 0
        BY <1>3, <4>1 DEF Return, Idle, TypeOK
      <4> QED BY <1>1, <1>2, <2>1, <4>1, <4>2, OverrunIdle
    <3>3. CASE Count(t)
      BY <1>1, <1>2, <3>3, OverrunCount
    <3>4. CASE ExpireTen(t)
      <4>1. /\ late' = late /\ cnt' = cnt /\ pause' = pause /\ step[t] = 10
            /\ step' = [step EXCEPT ![t] = 11] /\ UNCHANGED <<ev, got>>
        BY <3>4 DEF ExpireTen
      <4>2. \A s \in Threads :
              \/ step'[s] = step[s] /\ ev'[s] = ev[s] /\ got'[s] = got[s]
              \/ step[s] = 10 /\ step'[s] = 11 /\ got'[s] = got[s]
        BY <1>3, <4>1
      <4> QED BY <1>1, <1>2, <2>1, <4>1, <4>2, OverrunIdle
    <3>5. CASE KpiCampaign(t)
      <4>1. "c" \in Levels
        BY DEF Levels
      <4> QED BY <1>1, <1>2, <3>5, <4>1, OverrunWrite
    <3>6. CASE KpiPolicy(t)
      <4>1. "p" \in Levels /\ "p" # "c"
        BY DEF Levels
      <4> QED BY <1>1, <1>2, <3>6, <4>1, OverrunWrite
    <3>7. CASE RemovePolicyId(t)
      <4>1. /\ late' = late /\ cnt' = cnt /\ pause' = pause /\ step[t] = 13 /\ Return(t)
        BY <3>7 DEF RemovePolicyId, Finish
      <4>2. \A s \in Threads :
              \/ step'[s] = step[s] /\ ev'[s] = ev[s] /\ got'[s] = got[s]
              \/ step[s] = 13 /\ step'[s] = 0
        BY <1>3, <4>1 DEF Return, Idle, TypeOK
      <4> QED BY <1>1, <1>2, <2>1, <4>1, <4>2, OverrunIdle
    <3> QED BY <2>3, <3>1, <3>2, <3>3, <3>4, <3>5, <3>6, <3>7 DEF ThreadStep
  <2>4. CASE ReloadStep \/ UNCHANGED vars
    <3>1. ~CheckAct
      BY <1>1 DEF SameInv, CheckAct
    <3>2. late' = late /\ cnt' = cnt /\ pause' = pause /\ UNCHANGED <<step, ev, got>>
      BY <1>1, <2>4, <3>1 DEF ReloadStep, vars, LoadCampaignControl, LoadPolicyControl,
         LoadFail, CheckGuard, CheckGet, Publish
    <3> QED BY <1>1, <1>2, <2>1, <3>2, OverrunIdle
  <2>5. ~EditSetting /\ ~ListPolicy
    BY <1>1, NoEdit
  <2> QED BY <1>1, <1>5, <2>2, <2>3, <2>4, <2>5 DEF Next
<1> QED BY <1>4, <1>5

KpiInv == TypeOK /\ FutureInv /\ SameInv /\ OverrunInv

LEMMA KpiInit == Init => KpiInv
<1> SUFFICES ASSUME Init PROVE KpiInv
  OBVIOUS
<1>1. TypeOK
  BY InitType
<1>2. FutureInv
  BY DEF Init, FutureInv
<1>3. SameInv
  BY DEF Init, SameInv, NoConf, Idle
<1>4. ASSUME NEW l \in Levels, NEW k \in TenKeys, setting[l][k] > 0
      PROVE  Overrun(l, k)
  <2>1. /\ setting[l][k] \in Int /\ late = 0 /\ Day \in Days
        /\ \A d \in Days : cnt[d][<<l, k>>] = 0
    BY <1>1, OverrunTypes DEF Init, DayKeys, TenKeys
  <2>2. Pending(l, k) \in SUBSET Threads /\ Pausing(l, k) \in SUBSET Threads
    BY DEF Pending, Pausing
  <2>3. /\ Cardinality(Threads) \in Nat /\ Cardinality(Pausing(l, k)) \in Nat
        /\ Cardinality(Pending(l, k)) \in Nat
        /\ Cardinality(Pending(l, k)) <= Cardinality(Threads)
    BY <2>2, ThreadCounts
  <2> QED BY <1>4, <2>1, <2>3 DEF Overrun
<1> QED BY <1>1, <1>2, <1>3, <1>4 DEF KpiInv, OverrunInv

LEMMA KpiStep == KpiInv /\ [Next]_vars => KpiInv'
BY TypeStep, FutureStep, SameStep, OverrunStep DEF KpiInv

\* Until the platform changes a target, a loaded level is one of cache_root.
LEMMA LoadedIsSetting ==
  ASSUME SameInv, Calm, NEW l \in Levels, cache[l] # Missing
  PROVE  cache[l] = setting[l]
BY DEF SameInv

\* As long as nobody changes the targets, a level of plain targets that are
\* reached is paused when all threads are done, in whatever order they count
\* and write, and whatever the targets of the other level are: for every number
\* of threads, any targets and any events.
THEOREM ReachedLevelGetsPaused ==
  Spec => [](edits = 0 =>
               \A l \in Levels : Plain(l) /\ Quiet /\ Reached(l) => Paused(l))
<1>1. ASSUME KpiInv, edits = 0
      PROVE  \A l \in Levels : Plain(l) /\ Quiet /\ Reached(l) => Paused(l)
  <2> SUFFICES ASSUME NEW l \in Levels, Plain(l), Quiet, Reached(l), ~Paused(l)
               PROVE  FALSE
    OBVIOUS
  <2>1. Calm /\ cache[l] = setting[l] /\ TypeOK
    <3>1. cache[l] # Missing
      BY DEF Reached, Missing, TenKeys
    <3> QED BY <1>1, <3>1, LoadedIsSetting DEF KpiInv, Quiet, Calm
  <2>2. PICK k \in TenKeys : setting[l][k] > 0 /\ cnt[Day][<<l, k>>] >= setting[l][k]
    BY <2>1 DEF Reached
  <2>3. Overrun(l, k) /\ ~PausedToday(l)
    BY <1>1, <2>1, <2>2 DEF KpiInv, OverrunInv, PausedToday
  <2>4. Pausing(l, k) = {}
    <3>1. \A t \in Threads : step[t] = 0
      BY DEF Quiet, Working, Idle
    <3>2. CountAt(l, k) \in 2 .. 5
      BY <2>1, OverrunTypes
    <3> QED BY <3>1, <3>2 DEF Pausing
  <2>5. Cardinality(Pausing(l, k)) = 0
    BY <2>4, FS_EmptySet
  <2>6. setting[l][k] \in Int /\ cnt[Day][<<l, k>>] \in Nat
    BY <2>1, OverrunTypes
  <2> QED BY <2>2, <2>3, <2>5, <2>6 DEF Overrun
<1> QED BY <1>1, KpiInit, KpiStep, PTL DEF Spec

\* Where the platform uses plain targets only, this is ReachedIsPaused: as long as
\* nobody changes the targets, a level whose daily target is reached is paused
\* when all threads are done.
THEOREM ReachedGetsPaused ==
  ASSUME PlainTargets
  PROVE  Spec => [](edits = 0 => ReachedIsPaused)
<1>1. TypeOK => \A l \in Levels : Plain(l)
  BY DEF TypeOK, Plain, PlainTargets
<1>2. (\A l \in Levels : Plain(l))
        /\ (\A l \in Levels : Plain(l) /\ Quiet /\ Reached(l) => Paused(l))
      => ReachedIsPaused
  BY DEF ReachedIsPaused
<1> QED BY <1>1, <1>2, TypeCorrect, ReachedLevelGetsPaused, PTL

\* As long as nobody changes the targets, a daily target of a level of plain
\* targets is overrun by at most one event for every other thread and the events
\* of bids that were out before the pause, on every day, for every number of
\* threads and whatever the targets of the other level are.
THEOREM LevelOverrunIsBounded ==
  Spec => [](edits = 0 /\ fails = 0 /\ Loaded =>
               \A d \in Days, l \in Levels, k \in TenKeys :
                 Plain(l) /\ Limit(cache[l][k]) # -1 =>
                   cnt[d][<<l, k>>] <= cache[l][k] + Cardinality(Threads) - 1 + late)
<1>1. ASSUME KpiInv, edits = 0, fails = 0, Loaded
      PROVE  \A d \in Days, l \in Levels, k \in TenKeys :
               Plain(l) /\ Limit(cache[l][k]) # -1 =>
                 cnt[d][<<l, k>>] <= cache[l][k] + Cardinality(Threads) - 1 + late
  <2> SUFFICES ASSUME NEW d \in Days, NEW l \in Levels, NEW k \in TenKeys,
                      Plain(l), Limit(cache[l][k]) # -1
               PROVE  cnt[d][<<l, k>>] <= cache[l][k] + Cardinality(Threads) - 1 + late
    OBVIOUS
  <2>1. Calm /\ cache[l] = setting[l] /\ TypeOK
    BY <1>1, LoadedIsSetting DEF KpiInv, Calm, Loaded
  <2>2. /\ setting[l][k] \in Int /\ cnt[d][<<l, k>>] \in Nat /\ late \in Nat
        /\ Pending(l, k) \in SUBSET Threads /\ Pausing(l, k) \in SUBSET Threads
    BY <2>1, OverrunTypes
  <2>3. setting[l][k] > 0
    <3>1. setting[l][k] >= -1
      BY DEF Plain, PlainControl, TenKeys
    <3> QED BY <2>1, <2>2, <3>1 DEF Limit
  <2>4. Overrun(l, k)
    BY <1>1, <2>1, <2>3 DEF KpiInv, OverrunInv
  <2>5. /\ Cardinality(Threads) \in Nat /\ Cardinality(Pausing(l, k)) \in Nat
        /\ Cardinality(Pending(l, k)) \in Nat
        /\ Cardinality(Pausing(l, k)) <= Cardinality(Threads)
    BY <2>2, ThreadCounts
  <2>6. cnt[d][<<l, k>>] <= setting[l][k] - 1 + Cardinality(Threads) + late
    <3>1. CASE d # Day
      BY <2>4, <3>1 DEF Overrun
    <3>2. CASE d = Day
      BY <2>2, <2>4, <2>5, <3>2 DEF Overrun
    <3> QED BY <3>1, <3>2
  <2> QED BY <2>1, <2>2, <2>5, <2>6
<1> QED BY <1>1, KpiInit, KpiStep, PTL DEF Spec

\* Where the platform uses plain targets only, this is OverrunBounded: as long as
\* nobody changes the targets, a daily target is overrun by at most one event for
\* every other thread and the late events.
THEOREM OverrunIsBounded ==
  ASSUME PlainTargets
  PROVE  Spec => [](edits = 0 => OverrunBounded)
<1> DEFINE Bound(d, l, k) ==
             cnt[d][<<l, k>>] <= cache[l][k] + Cardinality(Threads) - 1 + late
           PlainBound ==
             \A d \in Days, l \in Levels, k \in TenKeys :
               Plain(l) /\ Limit(cache[l][k]) # -1 => Bound(d, l, k)
<1>1. TypeOK => \A l \in Levels : Plain(l)
  BY DEF TypeOK, Plain, PlainTargets
<1>2. ASSUME \A l \in Levels : Plain(l), fails = 0 /\ Loaded => PlainBound
      PROVE  OverrunBounded
  BY <1>2 DEF OverrunBounded
<1>3. Spec => [](edits = 0 /\ fails = 0 /\ Loaded => PlainBound)
  BY LevelOverrunIsBounded
<1> HIDE DEF PlainBound
<1> QED BY <1>1, <1>2, <1>3, TypeCorrect, PTL

------------------------------------------------------------------------------
(* What a pause says.                                                       *)

LEMMA StaysSerial ==
  ASSUME TypeOK, [Next]_vars, Serial'
  PROVE  /\ Serial /\ ~raced /\ ~raced' /\ fails = 0 /\ fails' = 0
         /\ ~Crash
<1>1. fails = 0 /\ fails' = 0 /\ ~raced' /\ ~Crash
  BY NoFailure DEF Serial
<1>2. raced => raced'
  <2>1. Tick \/ LoadCampaignControl \/ (\E t \in Threads, e \in Events : Begin(t, e))
          \/ raced' = raced
    BY DEF Next, vars, ExpirePause, EditSetting, ListPolicy, Crash, ThreadStep,
           GetPolicyControl, Count, ExpireTen, KpiCampaign, KpiPolicy, RemovePolicyId, ReloadStep,
           LoadPolicyControl, LoadFail, CheckGuard, CheckGet, CheckAct, Publish
  <2> QED BY <2>1, Zenon DEF Tick, LoadCampaignControl, Begin
<1> QED BY <1>1, <1>2 DEF Serial

\* Who moves when: a thread only while the reload thread sleeps, the reload
\* thread and midnight only while no thread has an event.
LEMMA SerialSteps ==
  ASSUME TypeOK, AloneInv, [Next]_vars, Serial'
  PROVE  /\ \A t \in Threads : ThreadStep(t) => rpc = "idle" /\ rpc' = "idle"
         /\ ReloadStep => \A t \in Threads : step[t] = 0
         /\ Tick /\ Day' # Day => rpc = "idle" /\ \A t \in Threads : step[t] = 0
<1>1. Serial /\ ~raced'
  BY StaysSerial
<1>2. Working => rpc = "idle"
  BY <1>1 DEF AloneInv
<1>3. ASSUME NEW t \in Threads, ThreadStep(t) PROVE rpc = "idle" /\ rpc' = "idle"
  <2>1. rpc' = rpc
    BY <1>3 DEF ThreadStep, Begin, GetPolicyControl, Count, ExpireTen, KpiCampaign,
       KpiPolicy, RemovePolicyId, reload
  <2>2. CASE \E e \in Events : Begin(t, e)
    <3>1. raced' = (raced \/ rpc # "idle")
      BY <2>2 DEF Begin
    <3>2. rpc = "idle"
      BY <1>1, <3>1, Zenon
    <3> QED BY <2>1, <3>2
  <2>3. CASE step[t] # Idle
    BY <1>2, <2>1, <2>3 DEF Working
  <2>4. (\E e \in Events : Begin(t, e)) \/ step[t] # Idle
    <3>1. GetPolicyControl(t) => step[t] = 1
      BY DEF GetPolicyControl
    <3>2. Count(t) => step[t] \in 2 .. 9
      BY DEF Count
    <3>3. ExpireTen(t) => step[t] = 10
      BY DEF ExpireTen
    <3>4. KpiCampaign(t) => step[t] = 11
      BY DEF KpiCampaign
    <3>5. KpiPolicy(t) => step[t] = 12
      BY DEF KpiPolicy
    <3>6. RemovePolicyId(t) => step[t] = 13
      BY DEF RemovePolicyId
    <3> QED BY <1>3, <3>1, <3>2, <3>3, <3>4, <3>5, <3>6 DEF ThreadStep, Idle
  <2> QED BY <2>2, <2>3, <2>4
<1>4. ASSUME ReloadStep PROVE \A t \in Threads : step[t] = 0
  <2>1. CASE LoadCampaignControl
    <3>1. raced' = (raced \/ Working)
      BY <2>1 DEF LoadCampaignControl
    <3>2. ~Working
      BY <1>1, <3>1, Zenon
    <3> QED BY <3>2 DEF Working, Idle
  <2>2. CASE rpc # "idle"
    BY <1>2, <2>2 DEF Working, Idle
  <2>3. LoadCampaignControl \/ rpc # "idle"
    BY <1>4 DEF ReloadStep, LoadPolicyControl, LoadFail, CheckGuard, CheckGet,
       CheckAct, Publish
  <2> QED BY <2>1, <2>2, <2>3
<1>5. ASSUME Tick, Day' # Day PROVE rpc = "idle" /\ \A t \in Threads : step[t] = 0
  <2>1. raced' = (raced \/ (Day' # Day /\ (Working \/ rpc # "idle")))
    BY <1>5 DEF Tick
  <2>2. ~Working /\ rpc = "idle"
    BY <1>1, <1>5, <2>1, Zenon
  <2> QED BY <2>2 DEF Working, Idle
<1> QED BY <1>3, <1>4, <1>5

LEMMA NextCases ==
  ASSUME [Next]_vars, ~Crash
  PROVE  \/ Tick
         \/ (\E l \in Levels : ExpirePause(l))
         \/ (\E t \in Threads : ThreadStep(t))
         \/ ReloadStep
         \/ (EditSetting \/ ListPolicy \/ UNCHANGED vars)
BY DEF Next

\* What the clock, an expiring pause and the platform leave alone.
LEMMA OthersStep ==
  ASSUME Tick \/ (\E l \in Levels : ExpirePause(l)) \/ EditSetting \/ ListPolicy
           \/ UNCHANGED vars
  PROVE  /\ UNCHANGED <<cache, cnt, step, conf, got, rpc, rlev, rday, new, rgot>>
         /\ ~Tick => UNCHANGED <<seg, dropped>>
BY DEF Tick, ExpirePause, EditSetting, ListPolicy, vars, clock, thread, counters, reload,
       history

LEMMA ReloadKeeps ==
  ASSUME ReloadStep
  PROVE  UNCHANGED <<seg, cnt, step, ev, conf, got, setting>>
BY DEF ReloadStep, LoadCampaignControl, LoadPolicyControl, LoadFail, CheckGuard,
       CheckGet, CheckAct, Publish, clock, counters, thread, platform

LEMMA ThreadKeeps ==
  ASSUME NEW t \in Threads, ThreadStep(t)
  PROVE  UNCHANGED <<seg, cache, setting, rpc, rlev, rday, new, rgot, dropped>>
BY DEF ThreadStep, Begin, GetPolicyControl, Count, ExpireTen, KpiCampaign, KpiPolicy,
       RemovePolicyId, clock, platform, reload, history

LEMMA AloneStep == TypeOK /\ AloneInv /\ [Next]_vars => AloneInv'
<1> SUFFICES ASSUME TypeOK, AloneInv, [Next]_vars, Serial', Working'
             PROVE  rpc' = "idle"
  BY DEF AloneInv
<1>1. Serial /\ ~Crash
  BY StaysSerial
<1>2. ASSUME UNCHANGED <<step, rpc>> PROVE rpc' = "idle"
  <2>1. Working
    BY <1>2 DEF Working
  <2> QED BY <1>1, <1>2, <2>1 DEF AloneInv
<1>3. CASE ReloadStep
  <2>1. \A t \in Threads : step[t] = 0 /\ step' = step
    BY <1>3, SerialSteps, ReloadKeeps
  <2> QED BY <2>1 DEF Working, Idle
<1>4. CASE \E t \in Threads : ThreadStep(t)
  BY <1>4, SerialSteps
<1> QED BY <1>1, <1>2, <1>3, <1>4, NextCases, OthersStep

LEMMA SourceStep == TypeOK /\ SourceInv /\ [Next]_vars => SourceInv'
<1> SUFFICES ASSUME TypeOK, SourceInv, [Next]_vars, Serial'
             PROVE  /\ \A l \in Levels : cache'[l] \in SettingsAt(l) \cup {Missing}
                    /\ rpc' # "idle" => new'["c"] \in SettingsAt("c")
                    /\ rpc' \notin {"idle", "policy"} =>
                         new'["p"] \in SettingsAt("p") \cup {Missing}
  BY DEF SourceInv, SettingsAt, Missing
<1>1. Serial /\ ~Crash /\ fails = 0 /\ fails' = 0
  BY StaysSerial
<1>2. /\ \A l \in Levels : cache[l] \in SettingsAt(l) \cup {Missing}
      /\ rpc # "idle" => new["c"] \in SettingsAt("c")
      /\ rpc \notin {"idle", "policy"} => new["p"] \in SettingsAt("p") \cup {Missing}
  BY <1>1 DEF SourceInv
<1>3. \A l \in Levels : setting[l] \in SettingsAt(l)
  BY DEF SettingsAt, TypeOK
<1>4. CASE UNCHANGED <<cache, rpc, new>>
  BY <1>2, <1>4
<1>5. CASE LoadCampaignControl
  <2>1. /\ cache' = cache /\ rpc' = "policy"
        /\ new' = [NoConf EXCEPT !["c"] = Stored["c"]]
    BY <1>1, <1>5 DEF LoadCampaignControl, LoadControl
  <2>2. new'["c"] = setting["c"]
    BY <2>1 DEF NoConf, Stored, Levels
  <2> QED BY <1>2, <1>3, <2>1, <2>2 DEF Levels
<1>6. CASE LoadPolicyControl
  <2>1. /\ cache' = cache /\ rpc = "policy"
        /\ new' = [new EXCEPT !["p"] = Stored["p"]]
    BY <1>1, <1>6 DEF LoadPolicyControl, LoadControl
  <2>2. new'["c"] = new["c"] /\ new'["p"] \in {Missing, setting["p"]}
    BY <2>1 DEF TypeOK, Stored, Levels
  <2> QED BY <1>2, <1>3, <2>1, <2>2 DEF Levels
<1>7. CASE CheckGuard \/ CheckGet \/ CheckAct
  <2>1. cache' = cache /\ new' = new /\ rpc \notin {"idle", "policy"}
    BY <1>7 DEF CheckGuard, CheckGet, CheckAct
  <2> QED BY <1>2, <2>1
<1>8. CASE Publish
  <2>1. cache' = new /\ rpc = "publish" /\ rpc' = "idle"
    BY <1>8 DEF Publish
  <2> QED BY <1>2, <2>1 DEF Levels
<1>9. CASE ReloadStep
  <2>1. CASE LoadFail
    BY <1>2, <2>1 DEF LoadFail
  <2> QED BY <1>1, <1>5, <1>6, <1>7, <1>8, <1>9, <2>1 DEF ReloadStep
<1>10. CASE ~ReloadStep
  BY <1>1, <1>4, <1>10, NextCases, OthersStep, ThreadKeeps
<1> QED BY <1>9, <1>10

LEMMA ConfStep == TypeOK /\ AloneInv /\ ConfInv /\ [Next]_vars => ConfInv'
<1> SUFFICES ASSUME TypeOK, AloneInv, ConfInv, [Next]_vars, Serial', NEW s \in Threads
             PROVE  /\ step'[s] = 1 => conf'[s]["c"] \in {Missing, cache'["c"]}
                    /\ step'[s] >= 2 => \A l \in Levels : conf'[s][l] = cache'[l]
  BY DEF ConfInv
<1>1. Serial /\ ~Crash
  BY StaysSerial
<1>2. /\ step[s] = 1 => conf[s]["c"] \in {Missing, cache["c"]}
      /\ step[s] >= 2 => \A l \in Levels : conf[s][l] = cache[l]
  BY <1>1 DEF ConfInv
<1>3. step \in [Threads -> 0 .. 13] /\ conf \in [Threads -> [Levels -> Controls]]
  BY DEF TypeOK
<1>4. CASE ReloadStep
  <2>1. step[s] = 0 /\ step' = step
    BY <1>4, SerialSteps, ReloadKeeps
  <2> QED BY <2>1
<1>5. ASSUME NEW t \in Threads, ThreadStep(t)
      PROVE  /\ step'[s] = 1 => conf'[s]["c"] \in {Missing, cache'["c"]}
             /\ step'[s] >= 2 => \A l \in Levels : conf'[s][l] = cache'[l]
  <2>1. cache' = cache
    BY <1>5, ThreadKeeps
  <2>2. CASE \E e \in Events : Begin(t, e)
    <3>1. PICK c \in {Missing, cache["c"]} :
            step' = [step EXCEPT ![t] = 1] /\ conf' = [conf EXCEPT ![t]["c"] = c]
      BY <2>2 DEF Begin
    <3>2. s = t => step'[s] = 1 /\ conf'[s]["c"] = c
      BY <1>3, <3>1 DEF Levels
    <3>3. s # t => step'[s] = step[s] /\ conf'[s] = conf[s]
      BY <1>3, <3>1
    <3> QED BY <1>2, <2>1, <3>2, <3>3
  <2>3. CASE Return(t)
    BY <1>2, <1>3, <2>1, <2>3 DEF Return, Idle
  <2>4. CASE /\ step[t] = 1 /\ step' = [step EXCEPT ![t] = 2]
             /\ conf[t]["c"] # Missing
             /\ conf' = [conf EXCEPT ![t]["p"] = cache["p"]]
    <3>1. s = t => conf'[s]["p"] = cache["p"] /\ conf'[s]["c"] = conf[s]["c"]
                   /\ step[s] = 1 /\ step'[s] = 2
      BY <1>3, <2>4 DEF Levels
    <3>2. s # t => step'[s] = step[s] /\ conf'[s] = conf[s]
      BY <1>3, <2>4
    <3> QED BY <1>2, <2>1, <2>4, <3>1, <3>2 DEF Levels
  <2>5. CASE /\ step[t] >= 2 /\ conf' = conf
             /\ \E j \in 2 .. 13 : step' = [step EXCEPT ![t] = j]
    BY <1>2, <1>3, <2>1, <2>5
  <2>6. Count(t) \/ ExpireTen(t) \/ KpiCampaign(t) \/ (KpiPolicy(t) /\ ~Return(t)) =>
          step[t] >= 2 /\ conf' = conf /\ \E j \in 2 .. 13 : step' = [step EXCEPT ![t] = j]
    BY DEF Count, ExpireTen, KpiCampaign, KpiPolicy, Finish
  <2>7. GetPolicyControl(t) =>
          \/ Return(t)
          \/ /\ step[t] = 1 /\ step' = [step EXCEPT ![t] = 2]
             /\ conf[t]["c"] # Missing
             /\ conf' = [conf EXCEPT ![t]["p"] = cache["p"]]
    BY DEF GetPolicyControl
  <2>8. RemovePolicyId(t) => Return(t)
    BY DEF RemovePolicyId, Finish
  <2> QED BY <1>5, <2>2, <2>3, <2>4, <2>5, <2>6, <2>7, <2>8 DEF ThreadStep
<1> QED BY <1>1, <1>2, <1>4, <1>5, NextCases, OthersStep

LEMMA ReadStep == TypeOK /\ LocalInv /\ AloneInv /\ ReadInv /\ [Next]_vars => ReadInv'
<1> SUFFICES ASSUME TypeOK, LocalInv, AloneInv, ReadInv, [Next]_vars, Serial',
                    NEW s \in Threads, NEW k \in DayKeys
             PROVE  got'[s][k] <= cnt'[Day'][k]
  BY DEF ReadInv, DayKeys, Levels
<1>1. Serial /\ ~Crash /\ fails' = 0
  BY StaysSerial
<1>2. /\ got[s][k] <= cnt[Day][k] /\ Day \in Days
      /\ got[s][k] \in Nat /\ \A d \in Days : cnt[d][k] \in Nat
  BY <1>1, ClockFacts DEF ReadInv, TypeOK, Zero
<1>3. Zero[k] = 0 /\ k \in DOMAIN Zero
  BY DEF Zero
<1>4. CASE Tick
  <2>1. Day' \in Days /\ UNCHANGED <<cnt, got>>
    BY <1>4, TickFacts, OthersStep
  <2>2. Day' # Day => got[s][k] = 0
    <3>1. Day' # Day => step[s] = 0
      BY <1>4, SerialSteps
    <3> QED BY <1>3, <3>1 DEF LocalInv, Idle
  <2> QED BY <1>2, <2>1, <2>2
<1>5. CASE ~Tick
  <2>1. Day' = Day
    BY <1>5, ClockStep
  <2>2. ASSUME NEW t \in Threads, Count(t) PROVE got'[s][k] <= cnt'[Day][k]
    <3>1. cnt'[Day][k] >= cnt[Day][k] /\ cnt'[Day][k] \in Nat
      <4>1. TypeOK'
        BY TypeStep
      <4> QED BY <1>2, <2>2, <4>1, CountToday DEF TypeOK
    <3>2. got'[s][k] \in {got[s][k], cnt'[Day][k]}
      BY <1>1, <2>2, CountFacts
    <3> QED BY <1>2, <3>1, <3>2
  <2>3. CASE (\A t \in Threads : ~Count(t))
    <3>1. cnt' = cnt
      BY <2>3, CountsStep
    <3>2. got'[s][k] \in {got[s][k], 0}
      <4>1. ASSUME NEW t \in Threads, ThreadStep(t) PROVE got' = got \/ Return(t)
        BY <2>3, <4>1 DEF ThreadStep, Begin, GetPolicyControl, ExpireTen, KpiCampaign,
           KpiPolicy, RemovePolicyId, Finish
      <4>2. ASSUME NEW t \in Threads, Return(t) PROVE got'[s][k] \in {got[s][k], 0}
        <5>1. got' = [got EXCEPT ![t] = Zero] /\ got \in [Threads -> [DOMAIN Zero -> Nat]]
          BY <4>2 DEF Return, TypeOK
        <5> QED BY <1>3, <5>1
      <4> QED BY <1>1, <4>1, <4>2, NextCases, OthersStep, ReloadKeeps
    <3> QED BY <1>2, <2>1, <3>1, <3>2
  <2> QED BY <2>1, <2>2, <2>3
<1> QED BY <1>4, <1>5

LEMMA RgotStep == TypeOK /\ AloneInv /\ RgotInv /\ [Next]_vars => RgotInv'
<1> SUFFICES ASSUME TypeOK, AloneInv, RgotInv, [Next]_vars, Serial'
             PROVE  /\ rpc' \notin {"idle", "policy"} => rday' = Day'
                    /\ rpc' \in {"clk", "cost", "act"} => rgot'["imp"] = cnt'[Day'][<<rlev', "imp">>]
                    /\ rpc' \in {"cost", "act"} => rgot'["clk"] = cnt'[Day'][<<rlev', "clk">>]
  BY DEF RgotInv
<1>1. Serial /\ ~Crash /\ fails = 0 /\ fails' = 0
  BY StaysSerial
<1>2. /\ rpc \notin {"idle", "policy"} => rday = Day
      /\ rpc \in {"clk", "cost", "act"} => rgot["imp"] = cnt[Day][<<rlev, "imp">>]
      /\ rpc \in {"cost", "act"} => rgot["clk"] = cnt[Day][<<rlev, "clk">>]
  BY <1>1 DEF RgotInv
<1>3. ASSUME UNCHANGED <<cnt, rpc, rlev, rday, rgot>>, Day' = Day \/ rpc = "idle"
      PROVE  /\ rpc' \notin {"idle", "policy"} => rday' = Day'
             /\ rpc' \in {"clk", "cost", "act"} => rgot'["imp"] = cnt'[Day'][<<rlev', "imp">>]
             /\ rpc' \in {"cost", "act"} => rgot'["clk"] = cnt'[Day'][<<rlev', "clk">>]
  BY <1>2, <1>3
<1>4. CASE Tick
  BY <1>3, <1>4, SerialSteps, OthersStep
<1>5. CASE ReloadStep
  <2>1. seg' = seg /\ cnt' = cnt /\ Day' = Day
    BY <1>5, ReloadKeeps DEF Day
  <2>2. CASE LoadCampaignControl \/ LoadFail \/ Publish
    BY <2>2 DEF LoadCampaignControl, LoadFail, Publish
  <2>3. CASE LoadPolicyControl
    BY <2>1, <2>3 DEF LoadPolicyControl
  <2>4. CASE CheckGuard \/ CheckAct
    <3>1. rpc \notin {"idle", "policy"} /\ rday' = rday /\ rpc' \in {"guard", "publish", "imp"}
      BY <2>4 DEF CheckGuard, CheckAct, AfterLevel
    <3> QED BY <1>2, <2>1, <3>1
  <2>5. CASE CheckGet
    <3>1. /\ rpc \in {"imp", "clk", "cost"} /\ rday' = rday /\ rlev' = rlev
          /\ rgot' = [rgot EXCEPT ![rpc] = cnt[rday][<<rlev, rpc>>]]
          /\ rpc' = CASE rpc = "imp" -> "clk" [] rpc = "clk" -> "cost" [] rpc = "cost" -> "act"
      BY <1>1, <2>5 DEF CheckGet
    <3>2. rday = Day /\ rgot \in [{"imp", "clk", "cost"} -> Nat]
      BY <1>2, <3>1 DEF TypeOK
    <3>3. CASE rpc = "imp"
      <4>1. rpc' = "clk" /\ rgot'["imp"] = cnt[Day][<<rlev, "imp">>]
        BY <3>1, <3>2, <3>3
      <4> QED BY <2>1, <3>1, <3>2, <4>1
    <3>4. CASE rpc = "clk"
      <4>1. rpc' = "cost" /\ rgot'["clk"] = cnt[Day][<<rlev, "clk">>]
            /\ rgot'["imp"] = rgot["imp"]
        BY <3>1, <3>2, <3>4
      <4> QED BY <1>2, <2>1, <3>1, <3>2, <3>4, <4>1
    <3>5. CASE rpc = "cost"
      <4>1. rpc' = "act" /\ rgot'["clk"] = rgot["clk"] /\ rgot'["imp"] = rgot["imp"]
        BY <3>1, <3>2, <3>5
      <4> QED BY <1>2, <2>1, <3>1, <3>2, <3>5, <4>1
    <3> QED BY <3>1, <3>3, <3>4, <3>5
  <2> QED BY <1>1, <1>5, <2>2, <2>3, <2>4, <2>5 DEF ReloadStep
<1>6. CASE \E t \in Threads : ThreadStep(t)
  BY <1>6, SerialSteps
<1>7. CASE (\E l \in Levels : ExpirePause(l)) \/ EditSetting \/ ListPolicy \/ UNCHANGED vars
  <2>1. seg' = seg
    BY <1>7 DEF ExpirePause, EditSetting, ListPolicy, vars, clock
  <2>2. Day' = Day
    BY <2>1 DEF Day
  <2> QED BY <1>3, <1>7, <2>2, OthersStep
<1> QED BY <1>1, <1>4, <1>5, <1>6, <1>7, NextCases

------------------------------------------------------------------------------

\* A target that was not raised is reached when the old one was.
LEMMA NotRaised ==
  ASSUME NEW l \in Levels, LimitStays(l), NEW o \in SettingsAt(l) \cup {Missing},
         NEW c \in SettingsAt(l), NEW i \in Nat, NEW n \in Nat,
         ~Raised(o, c), KpiReached(o, i, n)
  PROVE  KpiReached(c, i, n)
<1>1. o # Missing
  BY DEF KpiReached, NoKpi, Limit, Missing
<1>2. PICK s \in Settings, z \in Settings : o = s[l] /\ c = z[l]
  BY <1>1 DEF SettingsAt
<1>3. o \in Controls /\ c \in Controls
  BY <1>2, KpiAssumption
<1>4. /\ o.imp \in Int /\ o.clk \in Int /\ c.imp \in Int /\ c.clk \in Int
      /\ o.budget \in Int /\ c.budget \in Int
  BY <1>3 DEF Controls
<1>5. o.imp >= -1 /\ c.imp >= -1 /\ o.clk >= -1 /\ c.clk >= -1
  BY <1>2 DEF LimitStays, TenKeys
<1>6. ~NoKpi(o) /\ ~NoKpi(c)
  BY <1>2 DEF LimitStays, KpiReached
<1>7. (o.imp > 0 \/ o.clk > 0) /\ (c.imp > 0 \/ c.clk > 0)
  BY <1>4, <1>5, <1>6 DEF NoKpi, Limit
<1>8. ~(o.imp < c.imp) /\ ~(o.clk < c.clk)
  BY <1>4, <1>5, <1>7 DEF Raised, HasTarget
<1> QED BY <1>4, <1>5, <1>6, <1>8 DEF KpiReached, NoKpi, Limit

\* A counter that grew does not take a target back.
LEMMA ReachedGrows ==
  ASSUME NEW c \in Controls, NEW i \in Nat, NEW n \in Nat, NEW j \in Nat, NEW m \in Nat,
         KpiReached(c, i, n), i <= j, n <= m
  PROVE  KpiReached(c, j, m)
<1>1. c.imp \in Int /\ c.clk \in Int
  BY DEF Controls
<1> QED BY <1>1 DEF KpiReached

\* The pauses 11 and 21 are written when the targets are reached, until midnight.
LEMMA KpiVerdict ==
  ASSUME TypeOK, NEW l \in Levels, NEW c, NEW g
  PROVE  /\ CampaignPause(c, g).reason = 11 =>
              /\ CampaignPause(c, g).until = DayEnd
              /\ KpiReached(c, g[<<"c", "imp">>], g[<<"c", "clk">>])
         /\ PolicyPause(c, g).reason = 21 =>
              /\ PolicyPause(c, g).until = DayEnd
              /\ KpiReached(c, g[<<"p", "imp">>], g[<<"p", "clk">>])
         /\ CheckPause(l, c, g).reason = ReasonBase(l) + 1 =>
              CheckPause(l, c, g).until = DayEnd /\ KpiReached(c, g.imp, g.clk)
<1> DEFINE d == DayEnd
           h == HourEnd
           e == SegEnd
<1> HIDE DEF d, h, e
<1>1. /\ 10 + 1 = 11 /\ 10 + 2 = 12 /\ 20 + 1 = 21 /\ 20 + 2 = 22 /\ 20 + 3 = 23
      /\ 20 + 4 = 24 /\ NoPause.reason = 0
  BY DEF NoPause
<1>2. \/ CampaignPause(c, g) \in {NoPause, [reason |-> 12, until |-> d]}
      \/ /\ CampaignPause(c, g) = [reason |-> 11, until |-> d]
         /\ KpiReached(c, g[<<"c", "imp">>], g[<<"c", "clk">>])
  BY <1>1 DEF CampaignPause, ReasonBase, d
<1>3. \/ PolicyPause(c, g) \in {NoPause, [reason |-> 22, until |-> d],
                                [reason |-> 24, until |-> h], [reason |-> 23, until |-> e]}
      \/ /\ PolicyPause(c, g) = [reason |-> 21, until |-> d]
         /\ KpiReached(c, g[<<"p", "imp">>], g[<<"p", "clk">>])
  BY <1>1 DEF PolicyPause, ReasonBase, d, h, e
<1>4. \/ CheckPause(l, c, g) \in {NoPause, [reason |-> ReasonBase(l) + 2, until |-> d]}
      \/ /\ CheckPause(l, c, g) = [reason |-> ReasonBase(l) + 1, until |-> d]
         /\ KpiReached(c, g.imp, g.clk)
  BY DEF CheckPause, d
<1>5. ReasonBase(l) \in {10, 20}
  BY DEF ReasonBase
<1>6. CampaignPause(c, g).reason = 11 =>
        CampaignPause(c, g).until = d /\ KpiReached(c, g[<<"c", "imp">>], g[<<"c", "clk">>])
  BY <1>1, <1>2
<1>7. PolicyPause(c, g).reason = 21 =>
        PolicyPause(c, g).until = d /\ KpiReached(c, g[<<"p", "imp">>], g[<<"p", "clk">>])
  BY <1>1, <1>3
<1>8. CheckPause(l, c, g).reason = ReasonBase(l) + 1 =>
        CheckPause(l, c, g).until = d /\ KpiReached(c, g.imp, g.clk)
  BY <1>1, <1>4, <1>5
<1> QED BY <1>6, <1>7, <1>8 DEF d

\* The reload thread is done with a level when it goes on to the next one.
LEMMA AfterChecked ==
  ASSUME TypeOK, NEW l \in Levels, rpc \in {"guard", "act"}, AfterLevel
  PROVE  /\ rlev = l => Checked(l)' /\ ~Checked(l)
         /\ rlev # l => (Checked(l)' <=> Checked(l))
BY DEF AfterLevel, Checked, Levels, TypeOK

\* The same pause, the same day and targets, and counters that did not shrink.
LEMMA TrueKept ==
  ASSUME TypeOK, TypeOK', TrueInv, Serial, NEW l \in Levels, LimitStays(l), KpiPaused(l)',
         pause'[l] = pause[l], seg' >= seg, Day' = Day, DayEnd' = DayEnd,
         \A k \in DayKeys : cnt'[Day][k] >= cnt[Day][k],
         Target(l)' = Target(l), dropped' = dropped
  PROVE  /\ pause'[l].until = DayEnd'
         /\ Kept(l)' => ReachedBy(Target(l), l)'
<1> DEFINE c == Target(l)
<1>1. c \in Controls
  BY DEF TypeOK, Target
<1>2. KpiPaused(l)
  <2>1. seg \in Nat /\ seg' \in Nat /\ pause[l].until \in Nat
    BY KpiAssumption DEF TypeOK
  <2> QED BY <2>1 DEF KpiPaused
<1>3. pause[l].until = DayEnd /\ (Kept(l) => ReachedBy(c, l))
  BY <1>2 DEF TrueInv
<1>4. c' = c /\ (Kept(l)' <=> Kept(l))
  BY DEF Kept
<1> HIDE DEF c
<1>5. <<l, "imp">> \in DayKeys /\ <<l, "clk">> \in DayKeys /\ Day \in Days
  BY ClockFacts DEF DayKeys, TypeOK
<1>6. /\ cnt[Day][<<l, "imp">>] \in Nat /\ cnt[Day][<<l, "clk">>] \in Nat
      /\ cnt'[Day][<<l, "imp">>] \in Nat /\ cnt'[Day][<<l, "clk">>] \in Nat
      /\ cnt[Day][<<l, "imp">>] <= cnt'[Day][<<l, "imp">>]
      /\ cnt[Day][<<l, "clk">>] <= cnt'[Day][<<l, "clk">>]
  BY <1>5 DEF TypeOK
<1>7. Kept(l) => KpiReached(c, cnt'[Day][<<l, "imp">>], cnt'[Day][<<l, "clk">>])
  BY <1>1, <1>3, <1>6, ReachedGrows DEF ReachedBy
<1>8. Kept(l)' => ReachedBy(c, l)'
  BY <1>4, <1>7 DEF ReachedBy
<1> QED BY <1>3, <1>8 DEF c

\* A thread writes 11 or 21 for the targets of cache_root and for counters that
\* are at least what it read.
LEMMA TrueWrite ==
  ASSUME SerialInv, TypeOK', Serial, fails' = 0, rpc = "idle", rpc' = "idle", cache' = cache,
         dropped' = dropped, NEW t \in Threads, NEW m \in Levels, NEW l \in Levels, LimitStays(l),
         IF m = "c" THEN KpiCampaign(t) ELSE KpiPolicy(t), KpiPaused(l)'
  PROVE  /\ pause'[l].until = DayEnd'
         /\ Kept(l)' => ReachedBy(Target(l), l)'
<1> USE DEF SerialInv
<1>1. /\ step[t] = WriteAt(m)
      /\ pause'[m] = IF Verdict(t, m) = NoPause THEN pause[m] ELSE Verdict(t, m)
      /\ \A j \in Levels : j # m => pause'[j] = pause[j]
      /\ cnt' = cnt /\ seg' = seg
  BY WriteFacts
<1>2. Day' = Day /\ DayEnd' = DayEnd /\ seg \in Nat
  BY <1>1, ClockFacts DEF Day, DayEnd, TypeOK
<1>3. ~Checked(l) /\ ~Checked(l)'
  BY DEF Checked
<1>4. CASE pause'[l] = pause[l]
  <2>1. seg' >= seg
    BY <1>1, <1>2
  <2>2. \A k \in DayKeys : cnt'[Day][k] >= cnt[Day][k]
    BY <1>1, ClockFacts DEF TypeOK
  <2>3. Target(l)' = Target(l)
    BY <1>3 DEF Target
  <2> QED BY <1>2, <1>4, <2>1, <2>2, <2>3, TrueKept
<1>5. CASE l = m /\ pause'[l] = Verdict(t, l)
  <2>1. step[t] >= 2
    BY <1>1 DEF WriteAt
  <2>2. conf[t][l] = cache[l] /\ cache[l] \in Controls
    BY <2>1 DEF ConfInv, Levels, TypeOK
  <2> DEFINE i == got[t][<<l, "imp">>]
             n == got[t][<<l, "clk">>]
             j == cnt[Day][<<l, "imp">>]
             o == cnt[Day][<<l, "clk">>]
             v == Verdict(t, l)
  <2>3. v.reason = ReasonBase(l) + 1
    BY <1>5 DEF KpiPaused
  <2>4. v.until = DayEnd /\ KpiReached(cache[l], i, n)
    <3>1. CASE l = "c"
      <4>1. v = CampaignPause(cache[l], got[t]) /\ ReasonBase(l) + 1 = 11
        BY <2>2, <3>1 DEF Verdict, ReasonBase
      <4> HIDE DEF v
      <4> QED BY <2>3, <3>1, <4>1, KpiVerdict
    <3>2. CASE l = "p"
      <4>1. v = PolicyPause(cache[l], got[t]) /\ ReasonBase(l) + 1 = 21
        BY <2>2, <3>2 DEF Verdict, ReasonBase
      <4> HIDE DEF v
      <4> QED BY <2>3, <3>2, <4>1, KpiVerdict
    <3> QED BY <3>1, <3>2 DEF Levels
  <2>5. i \in Nat /\ n \in Nat /\ j \in Nat /\ o \in Nat /\ i <= j /\ n <= o
    <3>1. <<l, "imp">> \in DayKeys /\ <<l, "clk">> \in DayKeys /\ Day \in Days
      BY ClockFacts DEF DayKeys, TypeOK
    <3> QED BY <3>1 DEF ReadInv, TypeOK, Zero
  <2> HIDE DEF i, n, j, o, v
  <2>6. KpiReached(cache[l], j, o)
    BY <2>2, <2>4, <2>5, ReachedGrows
  <2>7. ReachedBy(cache[l], l)'
    BY <1>1, <1>2, <2>6 DEF ReachedBy, j, o
  <2>8. Target(l)' = cache'[l]
    BY <1>3 DEF Target
  <2>9. ReachedBy(Target(l), l)'
    BY <2>7, <2>8 DEF ReachedBy
  <2> QED BY <1>2, <1>5, <2>4, <2>9 DEF v
<1> QED BY <1>1, <1>4, <1>5

\* The reload thread leaves a pause that the new targets still ask for, and
\* writes or deletes the key after what it read where a target was raised.
LEMMA TrueReload ==
  ASSUME SerialInv, TypeOK', Serial, fails = 0, fails' = 0, ReloadStep,
         NEW l \in Levels, LimitStays(l), KpiPaused(l)'
  PROVE  /\ pause'[l].until = DayEnd'
         /\ Kept(l)' => ReachedBy(Target(l), l)'
<1> USE DEF SerialInv
<1>1. cnt' = cnt /\ seg' = seg /\ Day' = Day /\ DayEnd' = DayEnd
  BY ReloadKeeps DEF Day, DayEnd
<1>2. /\ seg \in Nat /\ seg' >= seg /\ Day \in Days
      /\ \A k \in DayKeys : cnt[Day][k] \in Nat /\ cnt'[Day][k] >= cnt[Day][k]
  BY <1>1, ClockFacts DEF TypeOK
<1>3. ASSUME pause'[l] = pause[l], Target(l)' = Target(l), dropped' = dropped
      PROVE  /\ pause'[l].until = DayEnd'
             /\ Kept(l)' => ReachedBy(Target(l), l)'
  BY <1>1, <1>2, <1>3, TrueKept
<1>4. ASSUME pause'[l].until = DayEnd, Checked(l)', new' = new, new[l] # Missing,
             dropped' = dropped, Kept(l) => ReachedBy(new[l], l)
      PROVE  /\ pause'[l].until = DayEnd'
             /\ Kept(l)' => ReachedBy(Target(l), l)'
  <2>1. Target(l)' = new[l] /\ (Kept(l)' <=> Kept(l))
    BY <1>4 DEF Target, Kept
  <2> QED BY <1>1, <1>4, <2>1 DEF ReachedBy
<1>5. CASE LoadCampaignControl
  <2>1. pause' = pause /\ cache' = cache /\ ~Checked(l) /\ ~Checked(l)' /\ dropped' = dropped
    BY <1>5 DEF LoadCampaignControl, Checked, history
  <2> QED BY <1>3, <2>1 DEF Target
<1>6. CASE LoadPolicyControl \/ LoadFail
  <2>1. pause' = pause /\ cache' = cache /\ ~Checked(l) /\ ~Checked(l)' /\ dropped' = dropped
    BY <1>6 DEF LoadPolicyControl, LoadFail, Checked, history
  <2> QED BY <1>3, <2>1 DEF Target
<1>7. CASE CheckGuard
  <2>1. pause' = pause /\ cache' = cache /\ new' = new /\ rpc = "guard" /\ dropped' = dropped
    BY <1>7 DEF CheckGuard, history
  <2>2. CASE rpc' = "imp" /\ rlev' = rlev
    <3>1. Checked(l)' <=> Checked(l)
      BY <2>1, <2>2 DEF Checked
    <3> QED BY <1>3, <2>1, <3>1 DEF Target
  <2>3. CASE ~Raised(cache[rlev], new[rlev]) /\ AfterLevel
    <3>1. CASE rlev # l
      <4>1. Checked(l)' <=> Checked(l)
        BY <2>1, <2>3, <3>1, AfterChecked
      <4> QED BY <1>3, <2>1, <4>1 DEF Target
    <3>2. CASE rlev = l
      <4>1. Checked(l)' /\ ~Checked(l)
        BY <2>1, <2>3, <3>2, AfterChecked
      <4>2. KpiPaused(l)
        BY <1>1, <2>1 DEF KpiPaused
      <4>3. pause[l].until = DayEnd /\ (Kept(l) => ReachedBy(cache[l], l))
        BY <4>1, <4>2 DEF TrueInv, Target
      <4>4. CASE new[l] = Missing
        <5>1. Target(l)' = Target(l)
          BY <2>1, <4>1, <4>4 DEF Target
        <5> QED BY <1>3, <2>1, <5>1
      <4>5. CASE new[l] # Missing
        <5>1. cache[l] \in SettingsAt(l) \cup {Missing} /\ new[l] \in SettingsAt(l)
          BY <2>1, <4>5 DEF SourceInv, Levels
        <5>2. cnt[Day][<<l, "imp">>] \in Nat /\ cnt[Day][<<l, "clk">>] \in Nat
          BY <1>2 DEF DayKeys
        <5>3. Kept(l) => ReachedBy(new[l], l)
          BY <2>3, <3>2, <4>3, <5>1, <5>2, NotRaised DEF ReachedBy
        <5> QED BY <1>4, <2>1, <4>1, <4>3, <4>5, <5>3
      <4> QED BY <4>4, <4>5
    <3> QED BY <3>1, <3>2
  <2> QED BY <1>7, <2>2, <2>3 DEF CheckGuard
<1>8. CASE CheckGet
  <2>1. /\ pause' = pause /\ cache' = cache /\ new' = new /\ rlev' = rlev
        /\ rpc \in {"imp", "clk", "cost"} /\ rpc' \in {"clk", "cost", "act"}
        /\ dropped' = dropped
    BY <1>8 DEF CheckGet, history
  <2>2. Checked(l)' <=> Checked(l)
    BY <2>1 DEF Checked
  <2> QED BY <1>3, <2>1, <2>2 DEF Target
<1>9. CASE CheckAct
  <2> DEFINE v == CheckPause(rlev, new[rlev], rgot)
  <2>1. /\ SetPause(rlev, v) /\ AfterLevel /\ cache' = cache /\ new' = new /\ rpc = "act"
        /\ dropped' = dropped
    BY <1>9 DEF CheckAct, history
  <2>2. pause' = [pause EXCEPT ![rlev] = v] /\ DOMAIN pause = Levels
    <3> HIDE DEF v
    <3> QED BY <2>1 DEF SetPause, TypeOK
  <2>3. CASE rlev # l
    <3>1. Checked(l)' <=> Checked(l)
      BY <2>1, <2>3, AfterChecked
    <3>2. pause'[l] = pause[l]
      BY <2>2, <2>3
    <3> QED BY <1>3, <2>1, <3>1, <3>2 DEF Target
  <2>4. CASE rlev = l
    <3>1. Checked(l)' /\ ~Checked(l)
      BY <2>1, <2>4, AfterChecked
    <3>2. pause'[l] = v
      BY <2>2, <2>4
    <3>3. v.reason = ReasonBase(l) + 1
      BY <3>2 DEF KpiPaused
    <3>4. v.until = DayEnd /\ KpiReached(new[l], rgot.imp, rgot.clk)
      BY <2>4, <3>3, KpiVerdict
    <3>5. rgot.imp = cnt[Day][<<l, "imp">>] /\ rgot.clk = cnt[Day][<<l, "clk">>]
      BY <2>1, <2>4 DEF RgotInv
    <3>6. ReachedBy(new[l], l) /\ new[l] # Missing
      BY <3>4, <3>5 DEF ReachedBy, KpiReached, NoKpi, Limit, Missing
    <3> HIDE DEF v
    <3> QED BY <1>4, <2>1, <3>1, <3>2, <3>4, <3>6
  <2> QED BY <2>3, <2>4
<1>10. CASE Publish
  <2>1. /\ pause' = pause /\ cache' = new /\ Checked(l) /\ ~Checked(l)'
        /\ dropped' = (dropped \/ (cache["p"] # Missing /\ new["p"] = Missing))
        /\ rpc = "publish"
    BY <1>10 DEF Publish, Checked
  <2>2. pause[l].until = DayEnd /\ (Kept(l) => ReachedBy(Target(l), l))
    <3>1. KpiPaused(l)
      BY <1>1, <2>1 DEF KpiPaused
    <3> QED BY <3>1 DEF TrueInv
  <2>3. Target(l)' = new[l]
    BY <2>1 DEF Target
  <2>4. Kept(l)' => Kept(l)
    BY <2>1, Zenon DEF Kept
  <2>5. ASSUME Kept(l)' PROVE Target(l) = new[l]
    <3>1. CASE new[l] # Missing
      BY <2>1, <3>1 DEF Target
    <3>2. CASE new[l] = Missing /\ l = "p"
      <4>1. cache["p"] = Missing
        BY <2>1, <2>5, <3>2, Zenon DEF Kept
      <4> QED BY <3>2, <4>1 DEF Target
    <3>3. CASE new[l] = Missing /\ l = "c"
      <4>1. ReachedBy(cache[l], l)
        BY <2>2, <2>4, <2>5, <3>3 DEF Target
      <4>2. ~NoKpi(cache[l]) /\ cache[l] # Missing /\ NoKpi(Missing)
        BY <4>1 DEF ReachedBy, KpiReached, NoKpi, Limit, Missing
      <4>3. cache[l] \in SettingsAt(l) /\ Missing \in SettingsAt(l)
        BY <2>1, <3>3, <4>2 DEF SourceInv
      <4>4. PICK s \in Settings, z \in Settings : cache[l] = s[l] /\ Missing = z[l]
        BY <4>3 DEF SettingsAt
      <4> QED BY <4>2, <4>4 DEF LimitStays
    <3> QED BY <3>1, <3>2, <3>3 DEF Levels
  <2> QED BY <1>1, <2>1, <2>2, <2>3, <2>4, <2>5 DEF ReachedBy
<1> QED BY <1>5, <1>6, <1>7, <1>8, <1>9, <1>10 DEF ReloadStep

LEMMA TrueStep == SerialInv /\ [Next]_vars => TrueInv'
<1> SUFFICES ASSUME SerialInv, [Next]_vars, Serial', NEW l \in Levels, LimitStays(l),
                    KpiPaused(l)'
             PROVE  /\ pause'[l].until = DayEnd'
                    /\ Kept(l)' => ReachedBy(Target(l), l)'
  BY DEF TrueInv
<1> USE DEF SerialInv
<1>1. Serial /\ ~Crash /\ fails = 0 /\ fails' = 0 /\ TypeOK'
  BY StaysSerial, TypeStep
<1>2. /\ seg \in Nat /\ seg < DayEnd /\ DayEnd \in Nat /\ Day \in Days
      /\ \A d \in Days, k \in DayKeys : cnt[d][k] \in Nat
  BY ClockFacts DEF TypeOK
<1>3. ASSUME pause'[l] = pause[l], seg' >= seg, Day' = Day, DayEnd' = DayEnd, cnt' = cnt,
             Target(l)' = Target(l), dropped' = dropped
      PROVE  /\ pause'[l].until = DayEnd'
             /\ Kept(l)' => ReachedBy(Target(l), l)'
  <2>1. \A k \in DayKeys : cnt'[Day][k] >= cnt[Day][k]
    BY <1>2, <1>3
  <2> QED BY <1>1, <1>3, <2>1, TrueKept
<1>4. UNCHANGED <<rpc, rlev, new, cache>> =>
        Target(l)' = Target(l)
  BY DEF Checked, Target
<1>5. CASE Tick
  <2>1. pause' = pause /\ cnt' = cnt /\ UNCHANGED <<rpc, rlev, new, cache>>
    BY <1>5, OthersStep DEF Tick
  <2>2. seg' = seg + 1
    BY <1>5, TickFacts
  <2>3. CASE Day' = Day /\ DayEnd' = DayEnd
    <3>1. dropped' = dropped
      <4>1. dropped' = (dropped /\ Day' = Day) /\ dropped \in BOOLEAN
        BY <1>5 DEF Tick, TypeOK
      <4> QED BY <2>3, <4>1, Zenon
    <3> QED BY <1>2, <1>3, <1>4, <2>1, <2>2, <2>3, <3>1
  <2>4. CASE seg' = DayEnd
    <3>1. pause[l].until \in Nat
      BY DEF TypeOK
    <3>2. KpiPaused(l) /\ pause[l].until > DayEnd
      BY <1>2, <2>1, <2>2, <2>4, <3>1 DEF KpiPaused
    <3>3. pause[l].until = DayEnd
      BY <1>1, <3>2 DEF TrueInv
    <3> QED BY <1>2, <3>2, <3>3
  <2> QED BY <1>5, <2>3, <2>4, TickFacts
<1>6. CASE ReloadStep
  BY <1>1, <1>6, TrueReload
<1>7. ASSUME NEW t \in Threads, ThreadStep(t)
      PROVE  /\ pause'[l].until = DayEnd'
             /\ Kept(l)' => ReachedBy(Target(l), l)'
  <2>1. UNCHANGED <<seg, rpc, rlev, new, cache, dropped>> /\ rpc = "idle" /\ rpc' = "idle"
    BY <1>7, ThreadKeeps, SerialSteps
  <2>2. Day' = Day /\ DayEnd' = DayEnd /\ seg' >= seg
    BY <1>2, <2>1 DEF Day, DayEnd
  <2>3. CASE Count(t)
    <3>1. pause' = pause
      BY <2>3 DEF Count
    <3>2. \A k \in DayKeys : cnt'[Day][k] >= cnt[Day][k]
      BY <2>3, CountToday
    <3> QED BY <1>1, <1>4, <2>1, <2>2, <3>1, <3>2, TrueKept
  <2>4. CASE KpiCampaign(t)
    <3>1. "c" \in Levels
      BY DEF Levels
    <3> QED BY <1>1, <2>1, <2>4, <3>1, TrueWrite
  <2>5. CASE KpiPolicy(t)
    <3>1. "p" \in Levels /\ "p" # "c"
      BY DEF Levels
    <3> QED BY <1>1, <2>1, <2>5, <3>1, TrueWrite
  <2>6. CASE \/ (\E e \in Events : Begin(t, e))
             \/ GetPolicyControl(t) \/ ExpireTen(t) \/ RemovePolicyId(t)
    <3>1. pause' = pause /\ cnt' = cnt
      BY <2>6 DEF Begin, GetPolicyControl, ExpireTen, RemovePolicyId, counters
    <3> QED BY <1>3, <1>4, <2>1, <2>2, <3>1
  <2> QED BY <1>7, <2>3, <2>4, <2>5, <2>6 DEF ThreadStep
<1>8. ASSUME NEW m \in Levels, ExpirePause(m)
      PROVE  /\ pause'[l].until = DayEnd'
             /\ Kept(l)' => ReachedBy(Target(l), l)'
  <2>1. pause' = [pause EXCEPT ![m] = NoPause] /\ seg' = seg /\ DOMAIN pause = Levels
    BY <1>8 DEF ExpirePause, clock, TypeOK
  <2>2. l # m
    <3>1. l = m => pause'[l].reason = 0
      BY <2>1 DEF NoPause
    <3>2. pause'[l].reason # 0
      BY DEF KpiPaused, ReasonBase
    <3> QED BY <3>1, <3>2
  <2>3. pause'[l] = pause[l]
    BY <2>1, <2>2
  <2>4. Day' = Day /\ DayEnd' = DayEnd /\ seg' >= seg
    BY <1>2, <2>1 DEF Day, DayEnd
  <2>5. cnt' = cnt /\ UNCHANGED <<rpc, rlev, new, cache, dropped>>
    BY <1>8, OthersStep DEF ExpirePause, history
  <2> QED BY <1>3, <1>4, <2>3, <2>4, <2>5
<1>9. CASE EditSetting \/ ListPolicy \/ UNCHANGED vars
  <2>1. seg' = seg /\ pause' = pause /\ dropped' = dropped
    BY <1>9 DEF EditSetting, ListPolicy, vars, clock, history
  <2>2. Day' = Day /\ DayEnd' = DayEnd /\ seg' >= seg
    BY <1>2, <2>1 DEF Day, DayEnd
  <2>3. cnt' = cnt /\ UNCHANGED <<rpc, rlev, new, cache>>
    BY <1>9, OthersStep
  <2> QED BY <1>3, <1>4, <2>1, <2>2, <2>3
<1> QED BY <1>1, <1>5, <1>6, <1>7, <1>8, <1>9, NextCases

LEMMA SerialInit == Init => SerialInv
<1> SUFFICES ASSUME Init PROVE SerialInv
  OBVIOUS
<1>1. TypeOK
  BY InitType
<1>2. LocalInv
  BY DEF Init, LocalInv, Zero
<1>3. AloneInv /\ RgotInv /\ ConfInv
  BY DEF Init, AloneInv, RgotInv, ConfInv, Idle
<1>4. SourceInv
  BY DEF Init, SourceInv, NoConf
<1>5. ReadInv
  <2>1. Day \in Days
    BY <1>1, ClockFacts DEF TypeOK
  <2> QED BY <2>1 DEF Init, ReadInv, Zero
<1>6. TrueInv
  <2>1. \A l \in Levels : pause[l].reason = 0
    BY DEF Init, NoPause
  <2>2. \A l \in Levels : ReasonBase(l) + 1 # 0
    BY DEF ReasonBase
  <2> QED BY <2>1, <2>2 DEF TrueInv, KpiPaused
<1> QED BY <1>1, <1>2, <1>3, <1>4, <1>5, <1>6 DEF SerialInv

\* Unless an event overlaps a reload or midnight, "KPI reached" is true of the
\* current targets and of today's counters, however often the platform raises
\* and lowers the targets or replaces a limit of one kind by one of the other:
\* adx_dump_check_kpi lifts the pauses that a raised target makes wrong, and no
\* others.  Of the policy this is said until a reload drops it from cache_root,
\* as the SREM of its own pause lets the next one do: when it is listed again,
\* the check finds no old targets.  The level must stay limited in something;
\* the other level need not.
THEOREM LevelPauseIsTrue ==
  Spec => [](\A l \in Levels :
               /\ LimitStays(l) /\ Quiet /\ ~raced /\ (l = "p" => ~dropped)
               /\ KpiPaused(l)
               => cache[l] # Missing /\ Reached(l))
<1>1. ASSUME SerialInv
      PROVE  \A l \in Levels :
               /\ LimitStays(l) /\ Quiet /\ ~raced /\ (l = "p" => ~dropped)
               /\ KpiPaused(l)
               => cache[l] # Missing /\ Reached(l)
  <2> SUFFICES ASSUME NEW l \in Levels, LimitStays(l), Quiet, ~raced,
                      l = "p" => ~dropped, KpiPaused(l)
               PROVE  cache[l] # Missing /\ Reached(l)
    OBVIOUS
  <2>1. Serial /\ ~Checked(l) /\ TypeOK
    BY <1>1 DEF Serial, Quiet, Checked, SerialInv
  <2>2. ReachedBy(cache[l], l)
    BY <1>1, <2>1 DEF SerialInv, TrueInv, Target, Kept
  <2>3. cache[l] # Missing
    BY <2>2 DEF ReachedBy, KpiReached, NoKpi, Limit, Missing
  <2>4. PICK s \in Settings : cache[l] = s[l]
    <3>1. cache[l] \in SettingsAt(l) \cup {Missing}
      BY <1>1, <2>1 DEF SerialInv, SourceInv
    <3> QED BY <2>3, <3>1 DEF SettingsAt
  <2> DEFINE c == cache[l]
  <2>5. c.imp >= -1 /\ c.clk >= -1 /\ c.imp \in Int /\ c.clk \in Int
    BY <1>1, <2>1, <2>4 DEF LimitStays, TenKeys, TypeOK, Controls
  <2>6. /\ c.imp > 0 \/ c.clk > 0
        /\ c.imp > 0 => cnt[Day][<<l, "imp">>] >= c.imp
        /\ c.clk > 0 => cnt[Day][<<l, "clk">>] >= c.clk
    BY <2>2, <2>5 DEF ReachedBy, KpiReached, NoKpi, Limit
  <2> QED BY <2>3, <2>6 DEF Reached, TenKeys
<1>2. SerialInv /\ [Next]_vars => SerialInv'
  BY TypeStep, LocalStep, AloneStep, SourceStep, ConfStep, ReadStep, RgotStep, TrueStep
     DEF SerialInv
<1> QED BY <1>1, <1>2, SerialInit, PTL DEF Spec

\* Where every level that is limited stays limited in something, this is
\* PauseMeansReachedIfSerial.
THEOREM PausesAreTrue ==
  ASSUME \A l \in Levels : LimitStays(l)
  PROVE  Spec => []PauseMeansReachedIfSerial
<1>1. (\A l \in Levels :
         /\ LimitStays(l) /\ Quiet /\ ~raced /\ (l = "p" => ~dropped)
         /\ KpiPaused(l)
         => cache[l] # Missing /\ Reached(l))
      => PauseMeansReachedIfSerial
  BY DEF PauseMeansReachedIfSerial
<1> QED BY <1>1, LevelPauseIsTrue, PTL

==============================================================================
