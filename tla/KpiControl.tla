----------------------------- MODULE KpiControl ------------------------------
(***************************************************************************)
(* Delivery control in the tracker: adx_dsp_control() of                   *)
(* tracker/src/adx_dsp_control.cpp, run by every tracker thread for every  *)
(* valid impression or click, and the thread adx_dump_reload() of          *)
(* tracker/src/adx_dump.cpp, which reloads the targets every 5 seconds and *)
(* lifts pauses that a raised target made wrong.                           *)
(*                                                                         *)
(* One policy and its campaign.  The counters live in one Redis, the pause *)
(* keys in another; the threads coordinate only through them, one command  *)
(* at a time.  The clock is counted in segments of ten minutes.  The       *)
(* counters that no decision reads (the totals, the auto-bid statistics)   *)
(* and the frequency caps are left out.                                    *)
(***************************************************************************)
EXTENDS Integers, Sequences, FiniteSets

CONSTANTS
    Threads,        \* the threads that run adx_dsp_thread
    HoursPerDay,    \* 24 in the code
    StartSeg,       \* the segment in which the model starts,
    MaxSeg,         \* and the last one it looks at
    Settings,       \* what the platform may store as control data
    EventTypes,     \* the mtype of the events: "i", "c" or both
    EventPrices,    \* dsp_info->price of an event
    MaxEvents,      \* bound: valid events
    MaxLate,        \* bound: events of bids sent before a pause was seen
    MaxEdits,       \* bound: changes of the control data and of its lists
    MaxFails        \* bound: failed Redis commands and crashes

Levels == {"c", "p"}                    \* campaign and policy
DayKeys == Levels \X {"imp", "clk", "cost"}
TenKeys == {"imp", "clk"}

\* Targets as the fields dayimp_, dayclk_, daybudget_ hold them: -1 is no
\* limit, 0 a missing field.  allow is the set of the hours in allowtime_.
Controls == [imp : Int, clk : Int, budget : Int, uniform : BOOLEAN,
             allow : SUBSET (0 .. HoursPerDay - 1)]

ASSUME KpiAssumption ==
    /\ IsFiniteSet(Threads)
    /\ HoursPerDay \in Nat \ {0}
    /\ StartSeg \in Nat /\ MaxSeg \in Nat /\ StartSeg <= MaxSeg
    /\ \A s \in Settings : s \in [Levels -> Controls]
    /\ EventTypes \subseteq {"i", "c"}
    /\ EventPrices \subseteq Nat
    /\ {MaxEvents, MaxLate, MaxEdits, MaxFails} \subseteq Nat

\* adx_dump_get_(campaign|policy)_control() returned NULL: every field reads 0.
Missing == [imp |-> 0, clk |-> 0, budget |-> 0, uniform |-> FALSE,
            allow |-> {}]

\* cache_root = NULL
NoConf == [l \in Levels |-> Missing]

Days == 0 .. (MaxSeg \div (6 * HoursPerDay))
Splits == 0 .. 5

NoPause == [reason |-> 0, until |-> 0]

VARIABLES
    seg,        \* the clock
    setting,    \* the control data in the setting Redis
    listed,     \* the policy is a member of dsp_policyids
    cache,      \* cache_root
    cnt,        \* the day counters d_(imp|clk|cost)_(c|p) of each day
    ten,        \* the hashes dsp10minutecounter_(policyid)_(0..5)
    dies,       \* the segment in which such a hash expires, 0 without EXPIRE
    pause,      \* the keys pause_campaign_ and pause_policy_
    step,       \* where a thread is: 0 between two events
    ev,         \* the event it handles
    conf,       \* dsp_count.campaign_control and .policy_control
    got,        \* the counters in dsp_count
    rpc, rlev, rday, new, rgot,     \* the reload thread
    events, late, edits, fails,     \* counters of the bounds
    begun, finished,    \* history: events that found control data, handled
    base,       \* history: the policy's impressions when the segment began
    inSeg,      \* history: what the 10-minute counter was sent in this segment
    dropped,    \* history: the policy has left cache_root today
    raced       \* history: an event overlapped a reload or midnight

clock == seg
platform == <<setting, listed, edits>>
counters == <<cnt, ten, dies>>
thread == <<step, ev, conf, got>>
reload == <<rpc, rlev, rday, new, rgot>>
bounds == <<events, late>>
history == <<begun, finished, base, inSeg, dropped>>
vars == <<seg, setting, listed, cache, cnt, ten, dies, pause, step, ev, conf, got,
          rpc, rlev, rday, new, rgot, events, late, edits, fails, begun,
          finished, base, inSeg, dropped, raced>>

------------------------------------------------------------------------------
(* The clock.                                                               *)

Day == seg \div (6 * HoursPerDay)               \* TIME_MONTH_DAY
Hour == (seg \div 6) % HoursPerDay              \* get_time_hour
Split == seg % 6                                \* get_time_hour_split(10)
DayEnd == (Day + 1) * 6 * HoursPerDay           \* get_time_sec_today_end
HourEnd == (seg \div 6 + 1) * 6                 \* get_time_sec_hour_end
SegEnd == seg + 1                               \* get_time_sec_10min_end

------------------------------------------------------------------------------
(* What the thresholds are.                                                 *)

\* dayimp_day = dayimp_day ? dayimp_day : -1
Limit(x) == IF x = 0 THEN -1 ELSE x

NoKpi(c) == Limit(c.imp) = -1 /\ Limit(c.clk) = -1

\* Mutant of KpiReached: the comparisons are strict.
KpiExceeded(c, imp, clk) ==
    /\ ~NoKpi(c)
    /\ Limit(c.imp) = -1 \/ imp > c.imp
    /\ Limit(c.clk) = -1 \/ clk > c.clk

\* The three branches "only clicks", "only impressions", "both".
KpiReached(c, imp, clk) ==
    /\ ~NoKpi(c)
    /\ Limit(c.imp) = -1 \/ imp >= c.imp
    /\ Limit(c.clk) = -1 \/ clk >= c.clk

\* c_cost_day / 1000 >= daybudget_day * 100: the counter sums up price * 100.
BudgetReached(c, cost) ==
    Limit(c.budget) # -1 /\ cost \div 1000 >= c.budget * 100

\* adx_except_ceil
CeilDiv(a, b) == -((-a) \div b)

\* Mutant of Surplus10m: the segments of the current hour are forgotten.
Surplus10mFullHours(c) ==
    LET n == 6 * Cardinality({h \in c.allow : h > Hour}) IN
    IF n > 2 THEN n - 2 ELSE 1

\* The ten-minute segments that are left today, less a buffer of two.
Surplus10m(c) ==
    LET n == 6 * Cardinality({h \in c.allow : h > Hour}) + (6 - Split) IN
    IF n > 2 THEN n - 2 ELSE 1

\* The share of this segment, as uniform delivery computes it.
TenReached(c, imp, clk, imp10, clk10) ==
    /\ Limit(c.imp) = -1 \/ imp10 >= CeilDiv(c.imp - imp, Surplus10m(c))
    /\ Limit(c.clk) = -1 \/ clk10 >= CeilDiv(c.clk - clk, Surplus10m(c))

\* Mutant of ReasonBase: the policy block writes the campaign's numbers.
ReasonBaseCampaign(l) == 10

\* 11, 12 pause a campaign and 21 .. 24 a policy.
ReasonBase(l) == IF l = "c" THEN 10 ELSE 20

------------------------------------------------------------------------------

Events == [m : EventTypes, price : EventPrices]
NoEvent == [m |-> "none", price |-> 0]
Zero == [k \in DayKeys \cup ({"m"} \X TenKeys) |-> 0]
ZeroTen == [k \in TenKeys |-> 0]
Idle == 0
Reasons(l) == IF l = "c" THEN {0, 11, 12} ELSE {0, 21, 22, 23, 24}

TypeOK ==
    /\ seg \in StartSeg .. MaxSeg
    /\ setting \in Settings /\ listed \in BOOLEAN
    /\ cache \in [Levels -> Controls]
    /\ cnt \in [Days -> [DayKeys -> Nat]]
    /\ ten \in [Splits -> [TenKeys -> Nat]]
    /\ dies \in [Splits -> Nat]
    /\ DOMAIN pause = Levels
    /\ \A l \in Levels : pause[l] \in [reason : Reasons(l), until : Nat]
    /\ step \in [Threads -> 0 .. 13]
    /\ ev \in [Threads -> Events \cup {NoEvent}]
    /\ conf \in [Threads -> [Levels -> Controls]]
    /\ got \in [Threads -> [DOMAIN Zero -> Nat]]
    /\ rpc \in {"idle", "policy", "guard", "imp", "clk", "cost", "act", "publish"}
    /\ rlev \in Levels /\ rday \in Days
    /\ new \in [Levels -> Controls]
    /\ rgot \in [{"imp", "clk", "cost"} -> Nat]
    /\ {events, late, edits, fails, base, inSeg} \subseteq Nat
    /\ begun \in [{"i", "c"} -> Nat] /\ finished \in [{"i", "c"} -> Nat]
    /\ dropped \in BOOLEAN /\ raced \in BOOLEAN

Init ==
    /\ seg = StartSeg
    /\ setting \in Settings /\ listed = TRUE
    /\ cache = NoConf
    /\ cnt = [d \in Days |-> [k \in DayKeys |-> 0]]
    /\ ten = [s \in Splits |-> ZeroTen]
    /\ dies = [s \in Splits |-> 0]
    /\ pause = [l \in Levels |-> NoPause]
    /\ step = [t \in Threads |-> Idle]
    /\ ev = [t \in Threads |-> NoEvent]
    /\ conf = [t \in Threads |-> NoConf]
    /\ got = [t \in Threads |-> Zero]
    /\ rpc = "idle" /\ rlev = "c" /\ rday = 0 /\ new = NoConf
    /\ rgot = [k \in {"imp", "clk", "cost"} |-> 0]
    /\ events = 0 /\ late = 0 /\ edits = 0 /\ fails = 0
    /\ begun = [m \in {"i", "c"} |-> 0]
    /\ finished = [m \in {"i", "c"} |-> 0]
    /\ base = 0 /\ inSeg = 0
    /\ dropped = FALSE /\ raced = FALSE

Working == \E t \in Threads : step[t] # Idle
Paused(l) == pause[l].reason # 0

------------------------------------------------------------------------------
(* The environment.                                                         *)

\* Ten minutes pass.  A hash whose 1800 s are over is gone.
Tick ==
    /\ seg < MaxSeg
    /\ \A l \in Levels : Paused(l) => pause[l].until > seg
    /\ seg' = seg + 1
    /\ LET gone == {s \in Splits : dies[s] # 0 /\ dies[s] <= seg'} IN
       /\ ten' = [s \in Splits |-> IF s \in gone THEN ZeroTen ELSE ten[s]]
       /\ dies' = [s \in Splits |-> IF s \in gone THEN 0 ELSE dies[s]]
    /\ base' = cnt[Day'][<<"p", "imp">>]
    /\ inSeg' = 0
    /\ dropped' = (dropped /\ Day' = Day)
    /\ raced' = (raced \/ (Day' # Day /\ (Working \/ rpc # "idle")))
    /\ UNCHANGED <<platform, cache, cnt, pause, thread, reload, bounds, fails,
                   begun, finished>>

\* The time to live of a pause key, rounded up to a full minute, runs out.
ExpirePause(l) ==
    /\ Paused(l)
    /\ pause[l].until <= seg
    /\ pause' = [pause EXCEPT ![l] = NoPause]
    /\ UNCHANGED <<clock, platform, cache, counters, thread, reload, bounds,
                   fails, history, raced>>

\* The platform changes the targets.
EditSetting ==
    /\ edits < MaxEdits
    /\ edits' = edits + 1
    /\ setting' \in Settings \ {setting}
    /\ UNCHANGED <<clock, listed, cache, counters, pause, thread, reload,
                   bounds, fails, history, raced>>

\* The platform stores control data, changed or not, and puts the policy back
\* into dsp_policyids (SADD; nothing in this code adds a policy to the set).
ListPolicy ==
    /\ edits < MaxEdits
    /\ edits' = edits + 1
    /\ ~listed
    /\ listed' = TRUE
    /\ setting' \in Settings
    /\ UNCHANGED <<clock, cache, counters, pause, thread, reload, bounds,
                   fails, history, raced>>

\* The process dies and is started again with an empty cache_root.
Crash ==
    /\ fails < MaxFails
    /\ fails' = fails + 1
    /\ cache # NoConf
    /\ cache' = NoConf
    /\ step' = [t \in Threads |-> Idle]
    /\ ev' = [t \in Threads |-> NoEvent]
    /\ conf' = [t \in Threads |-> NoConf]
    /\ got' = [t \in Threads |-> Zero]
    /\ rpc' = "idle"
    /\ UNCHANGED <<clock, platform, counters, pause, rlev, rday, new, rgot,
                   bounds, history, raced>>

------------------------------------------------------------------------------
(* A thread in adx_dsp_control().                                           *)

\* adx_dump_get_campaign_control(), which finds the campaign of a mapid through
\* the policies that were loaded.
Begin(t, e) ==
    /\ step[t] = Idle
    /\ events < MaxEvents
    /\ events' = events + 1
    /\ \/ (\A l \in Levels : ~Paused(l)) /\ UNCHANGED late
       \/ /\ \E l \in Levels : Paused(l)
          /\ late < MaxLate
          /\ late' = late + 1
    /\ step' = [step EXCEPT ![t] = 1]
    /\ ev' = [ev EXCEPT ![t] = e]
    /\ conf' = [conf EXCEPT ![t]["c"] =
                   IF cache["p"] = Missing THEN Missing ELSE cache["c"]]
    /\ raced' = (raced \/ rpc # "idle")
    /\ UNCHANGED <<clock, platform, cache, counters, pause, got, reload, fails,
                   history>>

\* The thread returns to adx_tracker(); dsp_count is gone.
Return(t) ==
    /\ step' = [step EXCEPT ![t] = Idle]
    /\ ev' = [ev EXCEPT ![t] = NoEvent]
    /\ conf' = [conf EXCEPT ![t] = NoConf]
    /\ got' = [got EXCEPT ![t] = Zero]

\* adx_dump_get_policy_control(), which reads cache_root once more.  When one
\* of the two is not there the event is dropped (E_REDIS_GROUP_FC_INVALID).
GetPolicyControl(t) ==
    LET found == conf[t]["c"] # Missing /\ cache["p"] # Missing IN
    /\ step[t] = 1
    /\ \/ /\ found
          /\ step' = [step EXCEPT ![t] = 2]
          /\ conf' = [conf EXCEPT ![t]["p"] = cache["p"]]
          /\ begun' = [begun EXCEPT ![ev[t].m] = @ + 1]
          /\ UNCHANGED <<ev, got>>
       \/ ~found /\ Return(t) /\ UNCHANGED begun
    /\ UNCHANGED <<clock, platform, cache, counters, pause, reload, bounds,
                   fails, finished, base, inSeg, dropped, raced>>

\* The commands of adx_dsp_control_count(), for 'i' and 'c' in the same order.
CountCommands ==
    << <<"c", "imp">>, <<"p", "imp">>, <<"c", "clk">>, <<"p", "clk">>,
       <<"m", "imp">>, <<"m", "clk">>, <<"c", "cost">>, <<"p", "cost">> >>

\* HINCRBY of what the event counts, HGET (that is, 0) of the other counters.
Delta(e, k) ==
    CASE k[2] = "cost" -> 100 * e.price
      [] k[2] = "imp" -> IF e.m = "i" THEN 1 ELSE 0
      [] k[2] = "clk" -> IF e.m = "c" THEN 1 ELSE 0

\* The key a command names is put together from the time at which it is sent.
Value(k) == IF k[1] = "m" THEN ten[Split][k[2]] ELSE cnt[Day][k]

Store(k, v) ==
    \/ k[1] = "m" /\ ten' = [ten EXCEPT ![Split][k[2]] = v] /\ UNCHANGED cnt
    \/ k[1] # "m" /\ cnt' = [cnt EXCEPT ![Day][k] = v] /\ UNCHANGED ten

\* Mutant of Count: a command whose reply is lost is sent again.
CountRetried(t) ==
    /\ step[t] \in 2 .. 9
    /\ LET k == CountCommands[step[t] - 1]
           v == Value(k) + Delta(ev[t], k) IN
       /\ \/ /\ Store(k, v)
             /\ got' = [got EXCEPT ![t][k] = v]
             /\ step' = [step EXCEPT ![t] = @ + 1]
             /\ UNCHANGED fails
          \/ /\ fails < MaxFails
             /\ fails' = fails + 1
             /\ Store(k, v) \/ UNCHANGED <<cnt, ten>>
             /\ UNCHANGED <<got, step>>
       /\ inSeg' = inSeg + IF k = <<"m", "imp">> THEN Delta(ev[t], k) ELSE 0
    /\ UNCHANGED <<clock, platform, cache, dies, pause, ev, conf, reload,
                   bounds, begun, finished, base, dropped, raced>>

\* One command of adx_dsp_control_count(); one that fails leaves a 0 behind.
Count(t) ==
    /\ step[t] \in 2 .. 9
    /\ LET k == CountCommands[step[t] - 1]
           v == Value(k) + Delta(ev[t], k) IN
       /\ \/ /\ Store(k, v)
             /\ got' = [got EXCEPT ![t][k] = v]
             /\ UNCHANGED fails
          \/ /\ fails < MaxFails
             /\ fails' = fails + 1
             /\ Store(k, v) \/ UNCHANGED <<cnt, ten>>
             /\ UNCHANGED got
       /\ inSeg' = inSeg + IF k = <<"m", "imp">> THEN Delta(ev[t], k) ELSE 0
    /\ step' = [step EXCEPT ![t] = @ + 1]
    /\ UNCHANGED <<clock, platform, cache, dies, pause, ev, conf, reload,
                   bounds, begun, finished, base, dropped, raced>>

\* EXPIRE dsp10minutecounter_(policyid)_(the segment of now) 1800
ExpireTen(t) ==
    /\ step[t] = 10
    /\ step' = [step EXCEPT ![t] = 11]
    /\ \/ /\ dies' = IF ten[Split] = ZeroTen THEN dies
                     ELSE [dies EXCEPT ![Split] = seg + 3]
          /\ UNCHANGED fails
       \/ fails < MaxFails /\ fails' = fails + 1 /\ UNCHANGED dies
    /\ UNCHANGED <<clock, platform, cache, cnt, ten, pause, ev, conf, got,
                   reload, bounds, history, raced>>

\* SETEX (or, with NoPause, DEL) of a pause key; nobody looks at its result.
SetPause(l, p) ==
    \/ pause' = [pause EXCEPT ![l] = p] /\ UNCHANGED fails
    \/ /\ fails < MaxFails
       /\ fails' = fails + 1
       /\ UNCHANGED pause

\* adx_dsp_control_kpi_campaign().  Without a KPI it returns before the budget.
CampaignPause(c, g) ==
    LET b == ReasonBase("c") IN
    IF NoKpi(c) THEN NoPause
    ELSE IF KpiReached(c, g[<<"c", "imp">>], g[<<"c", "clk">>])
    THEN [reason |-> b + 1, until |-> DayEnd]
    ELSE IF BudgetReached(c, g[<<"c", "cost">>])
    THEN [reason |-> b + 2, until |-> DayEnd]
    ELSE NoPause

KpiCampaign(t) ==
    LET p == CampaignPause(conf[t]["c"], got[t]) IN
    /\ step[t] = 11
    /\ step' = [step EXCEPT ![t] = 12]
    /\ \/ p = NoPause /\ UNCHANGED <<pause, fails>>
       \/ p # NoPause /\ SetPause("c", p)
    /\ UNCHANGED <<clock, platform, cache, counters, ev, conf, got, reload,
                   bounds, history, raced>>

\* adx_dsp_control_kpi_policy(): target, budget, allowed hours, uniform rate.
PolicyPause(c, g) ==
    LET b == ReasonBase("p")
        imp == g[<<"p", "imp">>]
        clk == g[<<"p", "clk">>] IN
    IF NoKpi(c) THEN NoPause
    ELSE IF KpiReached(c, imp, clk)
    THEN [reason |-> b + 1, until |-> DayEnd]
    ELSE IF BudgetReached(c, g[<<"p", "cost">>])
    THEN [reason |-> b + 2, until |-> DayEnd]
    ELSE IF Hour \notin c.allow
    THEN [reason |-> b + 4, until |-> HourEnd]
    ELSE IF c.uniform
            /\ TenReached(c, imp, clk, g[<<"m", "imp">>], g[<<"m", "clk">>])
    THEN [reason |-> b + 3, until |-> SegEnd]
    ELSE NoPause

\* The event is handled.
Finish(t) ==
    /\ finished' = [finished EXCEPT ![ev[t].m] = @ + 1]
    /\ Return(t)

KpiPolicy(t) ==
    LET p == PolicyPause(conf[t]["p"], got[t])
        removes == p.reason \in {ReasonBase("p") + 1, ReasonBase("p") + 2} IN
    /\ step[t] = 12
    /\ \/ p = NoPause /\ UNCHANGED <<pause, fails>>
       \/ p # NoPause /\ SetPause("p", p)
    /\ \/ ~removes /\ Finish(t)
       \/ /\ removes
          /\ step' = [step EXCEPT ![t] = 13]
          /\ UNCHANGED <<ev, conf, got, finished>>
    /\ UNCHANGED <<clock, platform, cache, counters, reload, bounds, begun,
                   base, inSeg, dropped, raced>>

\* SREM dsp_policyids (policyid), after the pauses 21 and 22 and whatever
\* became of them.  It has no effect when it fails, or when the pause keys are
\* kept in another Redis than the control data.
RemovePolicyId(t) ==
    /\ step[t] = 13
    /\ listed' \in {FALSE, listed}
    /\ Finish(t)
    /\ UNCHANGED <<clock, setting, edits, cache, counters, pause, reload,
                   bounds, fails, begun, base, inSeg, dropped, raced>>

ThreadStep(t) ==
    \/ \E e \in Events : Begin(t, e)
    \/ GetPolicyControl(t)
    \/ Count(t)
    \/ ExpireTen(t)
    \/ KpiCampaign(t)
    \/ KpiPolicy(t)
    \/ RemovePolicyId(t)

------------------------------------------------------------------------------
(* The thread adx_dump_reload().                                            *)

\* What a reload finds: SMEMBERS dsp_campaignids and dsp_policyids, and the
\* control hashes of their members.
Stored == [l \in Levels |-> IF l = "p" /\ ~listed THEN Missing ELSE setting[l]]

\* HGETALL of a control hash; a hash that can not be read is left out.
LoadControl(l, n) ==
    \/ new' = [n EXCEPT ![l] = Stored[l]] /\ UNCHANGED fails
    \/ fails < MaxFails /\ fails' = fails + 1 /\ new' = n

\* adx_dump_load_campaign_control() into a new root.  A reload of data that is
\* the same and stays the same changes nothing and is left out.
LoadCampaignControl ==
    /\ rpc = "idle"
    /\ \/ cache # Stored
       \/ edits < MaxEdits /\ (Settings # {setting} \/ ~listed)
    /\ LoadControl("c", NoConf)
    /\ rpc' = "policy"
    /\ raced' = (raced \/ Working)
    /\ UNCHANGED <<clock, platform, cache, counters, pause, thread, rlev, rday,
                   rgot, bounds, history>>

\* adx_dump_load_policy_control(); then adx_dump_check_kpi() takes the date.
LoadPolicyControl ==
    /\ rpc = "policy"
    /\ LoadControl("p", new)
    /\ rpc' = "guard"
    /\ rlev' = "c"
    /\ rday' = Day
    /\ UNCHANGED <<clock, platform, cache, counters, pause, thread, rgot,
                   bounds, history, raced>>

\* One of the three loads (campaigns, policies, map) failed: the root is freed.
\* An empty dsp_policyids is such a failure too.
LoadFail ==
    /\ rpc = "policy"
    /\ \/ fails < MaxFails /\ fails' = fails + 1
       \/ ~listed /\ UNCHANGED fails
    /\ rpc' = "idle"
    /\ UNCHANGED <<clock, platform, cache, counters, pause, thread, rlev, rday,
                   new, rgot, bounds, history, raced>>

HasTarget(c) == c.imp # 0 \/ c.clk # 0 \/ c.budget # 0

\* The four nested conditions of adx_dump_check_kpi().
Raised(old, c) ==
    /\ HasTarget(old) /\ HasTarget(c)
    /\ old.imp < c.imp \/ old.clk < c.clk \/ old.budget < c.budget

AfterLevel ==
    /\ rpc' = IF rlev = "c" THEN "guard" ELSE "publish"
    /\ rlev' = "p"

CheckGuard ==
    /\ rpc = "guard"
    /\ \/ Raised(cache[rlev], new[rlev]) /\ rpc' = "imp" /\ UNCHANGED rlev
       \/ ~Raised(cache[rlev], new[rlev]) /\ AfterLevel
    /\ UNCHANGED <<clock, platform, cache, counters, pause, thread, rday, new,
                   rgot, bounds, fails, history, raced>>

\* HGET of the three day counters; one that fails reads as 0.
CheckGet ==
    /\ rpc \in {"imp", "clk", "cost"}
    /\ \/ /\ rgot' = [rgot EXCEPT ![rpc] = cnt[rday][<<rlev, rpc>>]]
          /\ UNCHANGED fails
       \/ /\ fails < MaxFails
          /\ fails' = fails + 1
          /\ rgot' = [rgot EXCEPT ![rpc] = 0]
    /\ rpc' = CASE rpc = "imp" -> "clk" [] rpc = "clk" -> "cost"
                [] rpc = "cost" -> "act"
    /\ UNCHANGED <<clock, platform, cache, counters, pause, thread, rlev, rday,
                   new, bounds, history, raced>>

\* The verdict of adx_dump_check_kpi(): here a budget counts without a KPI and
\* takes precedence, and the answer "not reached" deletes the pause key.
CheckPause(l, c, g) ==
    LET b == ReasonBase(l) IN
    IF BudgetReached(c, g.cost) THEN [reason |-> b + 2, until |-> DayEnd]
    ELSE IF KpiReached(c, g.imp, g.clk)
    THEN [reason |-> b + 1, until |-> DayEnd]
    ELSE NoPause

\* Mutant of CheckAct: the key is never deleted.
CheckActWithoutDel ==
    /\ rpc = "act"
    /\ \/ CheckPause(rlev, new[rlev], rgot) = NoPause /\ UNCHANGED <<pause, fails>>
       \/ /\ CheckPause(rlev, new[rlev], rgot) # NoPause
          /\ SetPause(rlev, CheckPause(rlev, new[rlev], rgot))
    /\ AfterLevel
    /\ UNCHANGED <<clock, platform, cache, counters, thread, rday, new, rgot,
                   bounds, history, raced>>

\* SETEX or DEL of the pause key.
CheckAct ==
    /\ rpc = "act"
    /\ SetPause(rlev, CheckPause(rlev, new[rlev], rgot))
    /\ AfterLevel
    /\ UNCHANGED <<clock, platform, cache, counters, thread, rday, new, rgot,
                   bounds, history, raced>>

\* cache_root = new_cache, only now
Publish ==
    /\ rpc = "publish"
    /\ cache' = new
    /\ dropped' = (dropped \/ (cache["p"] # Missing /\ new["p"] = Missing))
    /\ rpc' = "idle"
    /\ UNCHANGED <<clock, platform, counters, pause, thread, rlev, rday, new,
                   rgot, bounds, fails, begun, finished, base, inSeg, raced>>

ReloadStep ==
    \/ LoadCampaignControl \/ LoadPolicyControl \/ LoadFail
    \/ CheckGuard \/ CheckGet \/ CheckAct \/ Publish

Next ==
    \/ Tick
    \/ \E l \in Levels : ExpirePause(l)
    \/ EditSetting
    \/ ListPolicy
    \/ Crash
    \/ \E t \in Threads : ThreadStep(t)
    \/ ReloadStep

Spec == Init /\ [][Next]_vars

------------------------------------------------------------------------------
(* Properties.                                                              *)

Counted(m) == IF m = "i" THEN "imp" ELSE "clk"

Loaded == \A l \in Levels : cache[l] # Missing

Quiet == ~Working /\ rpc = "idle" /\ fails = 0

\* What a daily target asks for, told from the targets alone: there is one, and
\* no counter of today is below its own.
Reached(l) ==
    LET limited == {k \in TenKeys : cache[l][k] > 0} IN
    /\ limited # {}
    /\ \A k \in limited : cnt[Day][<<l, k>>] >= cache[l][k]

\* The segments from now to the end of the last allowed hour, two kept back.
Share(c) ==
    LET left == {s \in seg .. DayEnd - 1 :
                    s < HourEnd \/ (s \div 6) % HoursPerDay \in c.allow} IN
    IF Cardinality(left) <= 2 THEN 1 ELSE Cardinality(left) - 2

\* The events that the days have counted at a level, one by one.
Tally(l, k) == UNION {{d} \X (1 .. cnt[d][<<l, k>>]) : d \in Days}

\* HINCRBY is sent once per event and never repeated: at both levels the day
\* counters together hold at most the events that were begun and at least the
\* finished ones less one per failed command, also when an event straddles
\* midnight or the process dies in the middle.
CountsWithinFailures ==
    \A l \in Levels, m \in {"i", "c"} :
        LET n == Cardinality(Tally(l, Counted(m))) IN
        finished[m] - fails <= n /\ n <= begun[m]

\* When every event is handled, a level whose daily target is reached is
\* paused: the thread whose HINCRBY reached the target saw it, in whatever
\* order the threads evaluate what they read.
ReachedIsPaused == \A l \in Levels : Quiet /\ Reached(l) => Paused(l)

\* The control loop overshoots a daily target by at most one event for every
\* other thread, besides the events of bids that were out before the pause:
\* a thread that counts beyond the target does not take its next event before
\* it has written the pause itself.
OverrunBounded ==
    fails = 0 /\ Loaded =>
        \A d \in Days, l \in Levels, k \in TenKeys :
            Limit(cache[l][k]) # -1 =>
                cnt[d][<<l, k>>] <= cache[l][k] + Cardinality(Threads) - 1 + late

\* A pause 11 or 21 that is not about to expire.
KpiPaused(l) == pause[l].reason = ReasonBase(l) + 1 /\ pause[l].until > seg

\* "KPI reached" is what the pauses 11 and 21 say of the current targets and
\* of today's counters ...
PauseMeansReached ==
    \A l \in Levels : Quiet /\ cache[l] # Missing /\ KpiPaused(l) => Reached(l)

\* ... and it is true of the campaign as long as no event overlapped a reload
\* or midnight: when a target is raised above its counter, adx_dump_check_kpi
\* lifts the pause.  It is true of the policy until a reload drops it from
\* cache_root, after the SREM that goes with its pause: adx_dump_check_kpi
\* compares with what cache_root held, and finds nothing to compare with when
\* the policy is listed again (MCKpiRelisted.cfg).
PauseMeansReachedIfSerial ==
    \A l \in Levels :
        /\ Quiet /\ ~raced /\ (l = "p" => ~dropped)
        /\ cache[l] # Missing /\ KpiPaused(l)
        => Reached(l)

\* A target that was raised above its counter lifts the pause, whether or not
\* the policy was out of dsp_policyids in between.
RaisedIsResumed == ~raced => PauseMeansReached

\* Uniform delivery of a policy that is limited in impressions alone: what a
\* ten-minute segment counts stays below its share of what was missing when it
\* began, rounded up, plus one impression for every thread and for every event
\* of a bid that was out before a pause.  The threads count the day and the
\* segment with two commands, and each decides on its own two readings.
NoBurst ==
    LET c == cache["p"]
        spare == Cardinality(Threads) + late
        n == cnt[Day][<<"p", "imp">>] - base IN
    fails = 0 /\ c.uniform /\ c.imp > 0 /\ Limit(c.clk) = -1 =>
        n <= spare \/ (n - spare) * Share(c) < c.imp - base

\* A limit of -1, "not limited", does not hold a campaign or policy back.
UnlimitedIsNotPaused ==
    \A l \in Levels :
        Quiet /\ cache = setting /\ ~raced /\ NoKpi(cache[l]) => ~KpiPaused(l)

\* A daily budget that is not -1 limits what is spent in a day.
BudgetIsEnforced ==
    \A l \in Levels :
        Quiet /\ BudgetReached(cache[l], cnt[Day][<<l, "cost">>]) => Paused(l)

\* The hash of a segment counts the impressions of this segment, not those of
\* the same segment an hour ago.
TenCountsThisSegment == ~Working => ten[Split]["imp"] <= inSeg

==============================================================================
