------------------------------ MODULE Frequency ------------------------------
(***************************************************************************)
(* The frequency caps of the tracker: how adx_dsp_control() of             *)
(* tracker/src/adx_dsp_control.cpp counts what one device saw of one       *)
(* campaign, policy and creative, and how it puts the device into the sets *)
(* fc_campaign_, fc_policy_ and fc_creative_ that the bidder filters with. *)
(*                                                                         *)
(* The counters are fields of a hash in a Redis cluster; the name of a     *)
(* field holds the last second of the period it counts.  The sets are keys *)
(* of another Redis, with one time to live for the whole set.  Every       *)
(* command reads the clock anew and may fail, with or without an effect.   *)
(* The steps of KpiControl, which run between the two halves, touch none   *)
(* of this.                                                                *)
(***************************************************************************)
EXTENDS Integers, Sequences, FiniteSets, FiniteSetsExt

CONSTANTS
    Threads,        \* the threads that run adx_dsp_thread
    Devices,        \* did_(deviceidtype)_(deviceid)
    Id,             \* campaignid, policyid and creativeid of the events
    Rules,          \* what the control data of campaign and policy may say
    MaxTime,        \* bound: the last second the model looks at
    MaxEvents,      \* bound: valid events
    MaxLate,        \* bound: events of bids sent before a cap was seen
    MaxFails        \* bound: failed commands and crashes

Levels == {"campaign", "policy", "creative"}
Mtypes == {"i", "c"}

\* frequencytype, the mtype that frequencyaction stands for, frequencycount,
\* the length of frequencyperiod (0: the whole campaign), frequencyendtime.
Controls == [type : 0 .. 2, action : Mtypes, count : Nat, period : Nat,
             endtime : Nat]

ASSUME FrequencyAssumption ==
    /\ IsFiniteSet(Threads) /\ IsFiniteSet(Devices)
    /\ Id \in [Levels -> Nat]
    /\ \A r \in Rules : r \in [{"campaign", "policy"} -> Controls]
    /\ {MaxTime, MaxEvents, MaxLate, MaxFails} \subseteq Nat

\* A creative is capped by the control data of its campaign.
RuleFor(r, l) == IF l = "policy" THEN r["policy"] ELSE r["campaign"]

VARIABLES
    now,        \* the clock, in seconds
    rule,       \* the control data the threads read
    fc,         \* the counters fc_(id)_(action)_(period)_(end) of a device
    del,        \* the sets del_(end): which fields a clean-up may remove
    full,       \* the sets fc_(level)_(id)
    ttl,        \* the second in which such a set expires, 0 without EXPIRE
    pc,         \* the next command of a thread, 0 between two events
    ev,         \* the event it handles: its device and mtype
    got,        \* dsp_count.fc_campaign, .fc_policy and .fc_creative
    events, late, fails,    \* counters of the bounds
    hits,       \* history: the events counted for a level in this period
    lost,       \* history: caps that a failure may have prevented
    dropped,    \* history: events cut short by a failure
    stray,      \* history: levels whose set may outlive its period
    orphan      \* history: fields whose index entry was missed

redis == <<fc, del, full, ttl>>
thread == <<pc, ev, got>>
history == <<hits, lost, dropped, stray, orphan>>
vars == <<now, rule, fc, del, full, ttl, pc, ev, got, events, late, fails,
          hits, lost, dropped, stray, orphan>>

------------------------------------------------------------------------------
(* Periods and fields.                                                      *)

\* get_enddatetime(): the last second of the period that holds the second s.
\* Periods are aligned, and of equal length here.
EndAt(c, s) == IF c.period = 0 THEN c.endtime
               ELSE (s \div c.period + 1) * c.period - 1

FieldAt(r, l, s) ==
    LET c == RuleFor(r, l) IN
    [id |-> Id[l], action |-> c.action, period |-> c.period,
     end |-> EndAt(c, s)]

Fields == {FieldAt(r, l, s) : r \in Rules, l \in Levels, s \in 0 .. MaxTime}

Ctl(l) == RuleFor(rule, l)
End(l) == EndAt(Ctl(l), now)

\* Mutant of Field: the name of the field does not follow the clock.
FieldOfFirstPeriod(l) == FieldAt(rule, l, 0)

Field(l) == FieldAt(rule, l, now)

\* frequencytype names the level, and frequencyaction this kind of event.
Limits(l) == Ctl(l).type = (IF l = "creative" THEN 2 ELSE 1)
Applies(m, l) == Limits(l) /\ Ctl(l).action = m

\* Mutant of Reached: the comparison is strict.
Exceeded(g, l) == g > Ctl(l).count

Reached(g, l) == g >= Ctl(l).count

------------------------------------------------------------------------------

\* The commands of one event in the order of adx_dsp_control(): the counters
\* and their index entries, then the three adx_dsp_control_frequency_*().
Program ==
    << <<"incr", "campaign">>, <<"index", "campaign">>,
       <<"incr", "creative">>, <<"index", "creative">>,
       <<"incr", "policy">>,   <<"index", "policy">>,
       <<"sadd", "campaign">>, <<"expire", "campaign">>,
       <<"sadd", "policy">>,   <<"expire", "policy">>,
       <<"sadd", "creative">>, <<"expire", "creative">> >>

Idle == 0
NoEvent == [dev |-> "none", m |-> "none"]
Events == [dev : Devices, m : Mtypes]
Nothing == [l \in Levels |-> 0]

At(t, op, l) == pc[t] # Idle /\ Program[pc[t]] = <<op, l>>

\* The thread has begun to count at level l and may still cap the device.
Busy(t, l) ==
    /\ pc[t] # Idle
    /\ Applies(ev[t].m, l)
    /\ \E j \in pc[t] .. Len(Program) : Program[j] \in {"sadd", "expire"} \X {l}

TypeOK ==
    /\ now \in 0 .. MaxTime
    /\ rule \in Rules
    /\ fc \in [Devices \X Fields -> Nat]
    /\ del \subseteq Devices \X Fields
    /\ full \in [Levels -> SUBSET Devices]
    /\ ttl \in [Levels -> Nat]
    /\ pc \in [Threads -> 0 .. Len(Program)]
    /\ ev \in [Threads -> Events \cup {NoEvent}]
    /\ \A t \in Threads : pc[t] # Idle => ev[t] \in Events
    /\ got \in [Threads -> [Levels -> Nat]]
    /\ {events, late, fails, dropped} \subseteq Nat
    /\ hits \in [Levels \X Devices -> Nat]
    /\ lost \subseteq Levels \X Devices
    /\ stray \subseteq Levels
    /\ orphan \subseteq Devices \X Fields

Init ==
    /\ now = 0
    /\ rule \in Rules
    /\ fc = [k \in Devices \X Fields |-> 0]
    /\ del = {}
    /\ full = [l \in Levels |-> {}]
    /\ ttl = [l \in Levels |-> 0]
    /\ pc = [t \in Threads |-> Idle]
    /\ ev = [t \in Threads |-> NoEvent]
    /\ got = [t \in Threads |-> Nothing]
    /\ events = 0 /\ late = 0 /\ fails = 0 /\ dropped = 0
    /\ hits = [k \in Levels \X Devices |-> 0]
    /\ lost = {} /\ stray = {} /\ orphan = {}

------------------------------------------------------------------------------
(* The environment.                                                         *)

\* A second passes.  What is counted, and what is capped, starts again for a
\* level whose period is over; a thread that is still at work on the level
\* brings a count of the old period into the new one.
Tick ==
    LET Over(l) == EndAt(Ctl(l), now + 1) # End(l) IN
    /\ now < MaxTime
    /\ \A l \in Levels : ttl[l] # 0 => ttl[l] > now
    /\ now' = now + 1
    /\ hits' = [k \in Levels \X Devices |-> IF Over(k[1]) THEN 0 ELSE hits[k]]
    /\ lost' = {k \in lost : ~Over(k[1])}
    /\ stray' = stray \cup
           {l \in Levels : Over(l) /\ \E t \in Threads : Busy(t, l)}
    /\ orphan' = orphan \cup
           {k \in Devices \X Fields : \E t \in Threads, l \in Levels :
               Over(l) /\ At(t, "index", l) /\ k = <<ev[t].dev, Field(l)>>}
    /\ UNCHANGED <<rule, redis, thread, events, late, fails, dropped>>

\* The time to live of a set runs out: in the last second of a period.
ExpireSet(l) ==
    /\ ttl[l] # 0
    /\ ttl[l] <= now
    /\ full' = [full EXCEPT ![l] = {}]
    /\ ttl' = [ttl EXCEPT ![l] = 0]
    /\ UNCHANGED <<now, rule, fc, del, thread, events, late, fails, history>>

\* The process dies and is started again: nothing it was doing is resumed.
Crash ==
    LET dead == {t \in Threads : pc[t] # Idle} IN
    /\ fails < MaxFails
    /\ dead # {}
    /\ fails' = fails + 1
    /\ dropped' = dropped + Cardinality(dead)
    /\ pc' = [t \in Threads |-> Idle]
    /\ ev' = [t \in Threads |-> NoEvent]
    /\ got' = [t \in Threads |-> Nothing]
    /\ lost' = lost \cup
           {k \in Levels \X Devices :
               \E t \in dead : Busy(t, k[1]) /\ ev[t].dev = k[2]}
    /\ stray' = stray \cup
           {l \in Levels : \E t \in Threads : At(t, "expire", l)}
    /\ orphan' = orphan \cup
           {k \in Devices \X Fields : \E t \in Threads, l \in Levels :
               At(t, "index", l) /\ k = <<ev[t].dev, Field(l)>>}
    /\ UNCHANGED <<now, rule, redis, events, late, hits>>

------------------------------------------------------------------------------
(* A thread in adx_dsp_control().                                           *)

\* Where a thread goes on after the command i; levels without a cap, and caps
\* on another kind of event, have no commands.
After(m, i) ==
    LET js == {j \in i + 1 .. Len(Program) : Applies(m, Program[j][2])} IN
    IF js = {} THEN Idle ELSE Min(js)

\* dsp_count starts with zeros for every event.
Goto(t, j) ==
    /\ pc' = [pc EXCEPT ![t] = j]
    /\ ev' = IF j = Idle THEN [ev EXCEPT ![t] = NoEvent] ELSE ev

\* A Redis command is done, is refused, or is done and its reply is lost.
Outcomes == {"done", "refused", "unheard"}

Result(o) ==
    /\ o = "done" \/ fails < MaxFails
    /\ fails' = IF o = "done" THEN fails ELSE fails + 1
    /\ dropped' = IF o = "done" THEN dropped ELSE dropped + 1

\* An event arrives.  The bidder does not offer to a device it finds in a
\* set; the events of bids it sent before are late.
Begin(t, e) ==
    LET capped == \E l \in Levels : Limits(l) /\ e.dev \in full[l] IN
    /\ pc[t] = Idle
    /\ events < MaxEvents
    /\ events' = events + 1
    /\ capped => late < MaxLate
    /\ late' = IF capped THEN late + 1 ELSE late
    /\ After(e.m, 0) # Idle
    /\ pc' = [pc EXCEPT ![t] = After(e.m, 0)]
    /\ ev' = [ev EXCEPT ![t] = e]
    /\ got' = [got EXCEPT ![t] = Nothing]
    /\ UNCHANGED <<now, rule, redis, fails, history>>

\* Mutant of Incr: a failure leaves an error code in dsp_count.
IncrErrorCode(t, l, o) ==
    LET k == <<ev[t].dev, Field(l)>>
        h == <<l, ev[t].dev>> IN
    /\ At(t, "incr", l)
    /\ Result(o)
    /\ fc' = IF o = "refused" THEN fc ELSE [fc EXCEPT ![k] = @ + 1]
    /\ hits' = IF o = "refused" THEN hits ELSE [hits EXCEPT ![h] = @ + 1]
    /\ got' = [got EXCEPT ![t][l] = IF o = "done" THEN fc[k] + 1 ELSE -1]
    /\ lost' = IF o = "done" THEN lost ELSE lost \cup {h}
    /\ Goto(t, After(ev[t].m, pc[t]))
    /\ UNCHANGED <<now, rule, del, full, ttl, events, late, stray, orphan>>

\* HINCRBY did_... fc_(id)_(action)_(period)_(end) 1
Incr(t, l, o) ==
    LET k == <<ev[t].dev, Field(l)>>
        h == <<l, ev[t].dev>> IN
    /\ At(t, "incr", l)
    /\ Result(o)
    /\ fc' = IF o = "refused" THEN fc ELSE [fc EXCEPT ![k] = @ + 1]
    /\ hits' = IF o = "refused" THEN hits ELSE [hits EXCEPT ![h] = @ + 1]
    /\ got' = IF o = "done" THEN [got EXCEPT ![t][l] = fc[k] + 1] ELSE got
    /\ lost' = IF o = "done" THEN lost ELSE lost \cup {h}
    /\ Goto(t, After(ev[t].m, pc[t]))
    /\ UNCHANGED <<now, rule, del, full, ttl, events, late, stray, orphan>>

\* Mutant of Index: the entry is written only by the first event.
IndexOnce(t, l, o) ==
    LET k == <<ev[t].dev, Field(l)>> IN
    /\ At(t, "index", l)
    /\ Result(o)
    /\ del' = IF o = "refused" \/ got[t][l] # 1 THEN del ELSE del \cup {k}
    /\ orphan' = IF o = "refused" THEN orphan \cup {k} ELSE orphan
    /\ Goto(t, After(ev[t].m, pc[t]))
    /\ UNCHANGED <<now, rule, fc, full, ttl, got, events, late, hits, lost,
                   stray>>

\* SADD del_(end) did_...&$&fc_(id)_(action)_(period)_(end)
Index(t, l, o) ==
    LET k == <<ev[t].dev, Field(l)>> IN
    /\ At(t, "index", l)
    /\ Result(o)
    /\ del' = IF o = "refused" THEN del ELSE del \cup {k}
    /\ orphan' = IF o = "refused" THEN orphan \cup {k} ELSE orphan
    /\ Goto(t, After(ev[t].m, pc[t]))
    /\ UNCHANGED <<now, rule, fc, full, ttl, got, events, late, hits, lost,
                   stray>>

\* The cap is not reached: the function has nothing to do.
NotReached(t, l) ==
    /\ At(t, "sadd", l)
    /\ ~Reached(got[t][l], l)
    /\ Goto(t, After(ev[t].m, pc[t] + 1))
    /\ UNCHANGED <<now, rule, redis, got, events, late, fails, history>>

\* SADD fc_(level)_(id) did_...; when it fails the function returns.
SAdd(t, l, o) ==
    LET h == <<l, ev[t].dev>> IN
    /\ At(t, "sadd", l)
    /\ Reached(got[t][l], l)
    /\ Result(o)
    /\ full' = IF o = "refused" THEN full
               ELSE [full EXCEPT ![l] = @ \cup {ev[t].dev}]
    /\ lost' = IF o = "refused" THEN lost \cup {h} ELSE lost
    /\ stray' = IF o = "unheard" THEN stray \cup {l} ELSE stray
    /\ Goto(t, IF o = "done" THEN pc[t] + 1 ELSE After(ev[t].m, pc[t] + 1))
    /\ UNCHANGED <<now, rule, fc, del, ttl, got, events, late, hits, orphan>>

\* Mutant of ExpireCommand: the time to live is a second short.
ExpireCommandShort(l) ==
    IF full[l] = {} THEN UNCHANGED <<full, ttl>>
    ELSE IF End(l) - 1 <= now
    THEN /\ full' = [full EXCEPT ![l] = {}]
         /\ ttl' = [ttl EXCEPT ![l] = 0]
    ELSE /\ ttl' = [ttl EXCEPT ![l] = End(l) - 1]
         /\ UNCHANGED full

\* What EXPIRE does to the set of level l: nothing to a key that is not
\* there, and a time to live of zero or less deletes the key.
ExpireCommand(l) ==
    IF full[l] = {} THEN UNCHANGED <<full, ttl>>
    ELSE IF End(l) <= now
    THEN /\ full' = [full EXCEPT ![l] = {}]
         /\ ttl' = [ttl EXCEPT ![l] = 0]
    ELSE /\ ttl' = [ttl EXCEPT ![l] = End(l)]
         /\ UNCHANGED full

\* EXPIRE fc_(level)_(id) END_DATE_TIME_SEC
Expire(t, l, o) ==
    /\ At(t, "expire", l)
    /\ Result(o)
    /\ IF o = "refused" THEN UNCHANGED <<full, ttl>> ELSE ExpireCommand(l)
    /\ stray' = IF o = "refused" THEN stray \cup {l} ELSE stray
    /\ Goto(t, After(ev[t].m, pc[t]))
    /\ UNCHANGED <<now, rule, fc, del, got, events, late, hits, lost, orphan>>

ThreadStep(t) ==
    \/ \E e \in Events : Begin(t, e)
    \/ \E l \in Levels, o \in Outcomes :
        Incr(t, l, o) \/ Index(t, l, o) \/ SAdd(t, l, o) \/ Expire(t, l, o)
    \/ \E l \in Levels : NotReached(t, l)

Next ==
    \/ Tick
    \/ \E l \in Levels : ExpireSet(l)
    \/ Crash
    \/ \E t \in Threads : ThreadStep(t)

Spec == Init /\ [][Next]_vars

------------------------------------------------------------------------------
(* Properties.                                                              *)

\* A device that has seen as much of a level as the level allows in this
\* period is in the set of the level, so that the bidder no longer offers to
\* it: unless an event of it is still being handled, a command for it failed,
\* or it is the last second of the period, in which EXPIRE 0 removes the set.
ReachedIsCapped ==
    \A l \in Levels, d \in Devices :
        \/ ~Limits(l) \/ now >= End(l)
        \/ hits[<<l, d>>] = 0 \/ hits[<<l, d>>] < Ctl(l).count
        \/ <<l, d>> \in lost
        \/ \E t \in Threads : Busy(t, l) /\ ev[t].dev = d
        \/ d \in full[l]

\* The other level whose control data may name the same field: a campaign is
\* capped itself or through its creatives, never both.
Twin(l) == IF l # "policy" THEN "policy"
           ELSE IF Limits("campaign") THEN "campaign" ELSE "creative"

SharesField(l) == Limits(Twin(l)) /\ Field(Twin(l)) = Field(l)

\* What this period's events of a device added to the field of a level.
Counted(l, d) ==
    hits[<<l, d>>] + IF SharesField(l) THEN hits[<<Twin(l), d>>] ELSE 0

\* A device is in the set of a level only when its events of this period
\* reached the cap in the field of the level: the counts of an earlier period
\* never cap it, and those of another level only when the two levels have the
\* same number, action and period, since the name of a field does not hold
\* the level.  The exceptions are those in which the set outlives its period:
\* EXPIRE failed or was never sent, or a thread counted in one period and
\* capped in the next.
CappedByThisPeriod ==
    \A l \in Levels : \A d \in full[l] :
        Counted(l, d) >= Ctl(l).count \/ l \in stray

\* What the three counters fc_campaign, fc_policy and fc_creative of
\* dsp_count stand for: a level is capped by its own events alone.  It fails
\* for a policy with the number of its campaign (MCFrequencySharedId.cfg).
CappedByOwnLevel ==
    \A l \in Levels : \A d \in full[l] :
        hits[<<l, d>>] >= Ctl(l).count \/ l \in stray

\* Every counter that was ever written is listed in the set del_(end) of its
\* own last second, so that a clean-up finds it; what is missing there was
\* refused, died with the process or was put into the next period's set.
CountersAreIndexed ==
    \A k \in Devices \X Fields :
        \/ fc[k] = 0
        \/ k \in del \cup orphan
        \/ \E t \in Threads, l \in Levels :
            At(t, "index", l) /\ k = <<ev[t].dev, Field(l)>>

\* A device sees a level at most once per thread beyond the cap, plus the
\* events of bids that were already out and those that a failure cut short;
\* except in the last second of the period.
FrequencyOverrunBounded ==
    \A l \in Levels, d \in Devices :
        \/ ~Limits(l) \/ now >= End(l) \/ Ctl(l).count = 0
        \/ hits[<<l, d>>] < Ctl(l).count + Cardinality(Threads) + late + dropped

==============================================================================
