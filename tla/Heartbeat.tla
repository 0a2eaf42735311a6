------------------------------ MODULE Heartbeat ------------------------------
(***************************************************************************)
(* The heartbeat by which the bidder knows that the tracker still counts.  *)
(*                                                                         *)
(* The tracker sets liveflag at the end of every notice it handled; a loop *)
(* that runs once a minute turns the flag into a new time stamp in Redis   *)
(* (dsp_adcontrol_working) and clears it.  A second loop, which is to keep *)
(* the tracker active, requests a URL of the tracker itself; the request   *)
(* has no User-Agent and is answered before the flag is set                *)
(* (tracker/src/adx_dsp_control.cpp, tracker.cpp).  The bidder looks at    *)
(* the stamp whenever it reloads pauses and frequency caps: when the stamp *)
(* has not changed for too long, or cannot be read, it forgets them        *)
(* (AdCtrl::Update and EffectChecker of BidCore/common/ad_cache).  Each of *)
(* the two slots of its DoubleCache has a checker of its own.              *)
(*                                                                         *)
(* Time is counted in units of the model.  A thread that is due takes its  *)
(* step within Jitter, and the bidder publishes a slot at least every Gap. *)
(***************************************************************************)
EXTENDS Integers

CONSTANTS
    Period,         \* sleep(60) of the two loops
    Retry,          \* sleep(10) after a SET that failed
    Jitter,         \* how late a step that is due may be taken
    Second,         \* EffectChecker::_second, 600
    Gap,            \* the longest time between two reloads in the bidder
    Skew,           \* the tracker's clock is ahead of the bidder's
    MaxTime,        \* bound: how long the model looks
    MaxFails        \* bound: failures, stops and restarts

ASSUME HeartbeatAssumption ==
    /\ {Period, Jitter, Second, Gap, Skew} \subseteq Nat \ {0}
    /\ {Retry, MaxTime, MaxFails} \subseteq Nat
    /\ 2 * Jitter <= Period

Slots == {0, 1}
NoStamp == 0        \* the key is missing, or _server_stab is still ""
Never == -1

VARIABLES
    now,
    up,             \* the tracker runs
    liveflag,
    upc, uat,       \* adx_dsp_control_update: its next step, and when it is due
    ppc, pat,       \* adx_dsp_control_activation_url
    stamp,          \* dsp_adcontrol_working
    cur, bat,       \* the slot the bidder uses, and when it was published
    stab, tupd,     \* _server_stab and _time_update of the slots' checkers
    verdict,        \* what Check said of the slot in use
    fails,
    beat,           \* history: when the stamp was written last
    started, boot,  \* history: when the tracker, the bidder was started
    owed,           \* history: the first notice that is to cause a heartbeat
    handled,        \* history: when a notice was handled last
    unread,         \* history: failed GETs of the stamp since it was written
    silence         \* history: the age of the heartbeat at an overtime check

clock == now
tracker == <<up, liveflag, upc, uat, ppc, pat, started, owed, handled>>
redis == <<stamp, beat, unread>>
bidder == <<cur, bat, stab, tupd, verdict, boot, silence>>
vars == <<now, up, liveflag, upc, uat, ppc, pat, stamp, cur, bat, stab, tupd,
          verdict, fails, beat, started, boot, owed, handled, unread, silence>>

TypeOK ==
    /\ now \in Nat
    /\ up \in BOOLEAN /\ liveflag \in BOOLEAN
    /\ upc \in {"test", "set", "clear"} /\ uat \in Nat
    /\ ppc \in {"sleep", "request"} /\ pat \in Nat
    /\ stamp \in Nat
    /\ cur \in Slots /\ bat \in Nat
    /\ stab \in [Slots -> Nat]
    /\ tupd \in [Slots -> Nat]
    /\ verdict \in {"fresh", "overtime", "unreadable"}
    /\ fails \in Nat
    /\ {beat, started, boot, unread, silence} \subseteq Nat
    /\ {owed, handled} \subseteq Nat \cup {Never}

\* Both programs start together; the bidder found no stamp.
Init ==
    /\ now = 0
    /\ up = TRUE /\ liveflag = FALSE
    /\ upc = "test" /\ uat = 0
    /\ ppc = "sleep" /\ pat = 0
    /\ stamp = NoStamp
    /\ cur = 0 /\ bat = 0
    /\ stab = [s \in Slots |-> NoStamp]
    /\ tupd = [s \in Slots |-> 0]
    /\ verdict = "unreadable"
    /\ fails = 0
    /\ beat = 0 /\ started = 0 /\ boot = 0
    /\ owed = Never /\ handled = Never
    /\ unread = 0 /\ silence = 0

\* Nobody who is due is late by more than Jitter, no reload by more than Gap.
Tick ==
    /\ now < MaxTime
    /\ up => now < uat + Jitter /\ now < pat + Jitter
    /\ now < bat + Gap
    /\ now' = now + 1
    /\ UNCHANGED <<tracker, redis, bidder, fails>>

Fault == fails < MaxFails /\ fails' = fails + 1

------------------------------------------------------------------------------
(* The tracker.                                                             *)

\* set_liveflag(1).  A notice that ends between the test of the flag and its
\* clearing is not noticed.
SetLiveflag ==
    /\ liveflag' = TRUE
    /\ handled' = now
    /\ owed' = IF owed = Never /\ upc = "test" THEN now ELSE owed

\* The end of adx_tracker() for a notice of the exchange.
Notice ==
    /\ up
    /\ SetLiveflag
    /\ UNCHANGED <<clock, up, upc, uat, ppc, pat, redis, bidder, fails,
                   started>>

\* Mutant of Test: the stamp is written in every round.
TestUnguarded ==
    /\ up /\ upc = "test" /\ now >= uat
    /\ upc' = "set"
    /\ uat' = now
    /\ UNCHANGED <<clock, up, liveflag, ppc, pat, redis, bidder, fails,
                   started, owed, handled>>

\* if (liveflag)
Test ==
    /\ up /\ upc = "test" /\ now >= uat
    /\ upc' = IF liveflag THEN "set" ELSE "clear"
    /\ uat' = now
    /\ UNCHANGED <<clock, up, liveflag, ppc, pat, redis, bidder, fails,
                   started, owed, handled>>

\* The stamp is written: all that was owed is paid.
Beat ==
    /\ stamp' = now + Skew
    /\ beat' = now
    /\ unread' = 0

\* SET dsp_adcontrol_working (time).  After a failure, which does not tell
\* whether the stamp was written, the thread sleeps before it goes on.
UpdateWorking ==
    /\ up /\ upc = "set" /\ now >= uat
    /\ upc' = "clear"
    /\ owed' = Never
    /\ \/ Beat /\ uat' = now /\ UNCHANGED fails
       \/ Beat /\ uat' = now + Retry /\ Fault
       \/ UNCHANGED redis /\ uat' = now + Retry /\ Fault
    /\ UNCHANGED <<clock, up, liveflag, ppc, pat, bidder, started, handled>>

\* Mutant of Clear: the pause of the loop is taken twice.
ClearSleepsTwice ==
    /\ up /\ upc = "clear" /\ now >= uat
    /\ liveflag' = FALSE
    /\ upc' = "test"
    /\ uat' = now + 2 * Period
    /\ UNCHANGED <<clock, up, ppc, pat, redis, bidder, fails, started,
                   owed, handled>>

\* Mutant of Clear: the flag is not cleared.
ClearForgotten ==
    /\ up /\ upc = "clear" /\ now >= uat
    /\ upc' = "test"
    /\ uat' = now + Period
    /\ UNCHANGED <<clock, up, liveflag, ppc, pat, redis, bidder, fails,
                   started, owed, handled>>

\* liveflag = 0; sleep(60);
Clear ==
    /\ up /\ upc = "clear" /\ now >= uat
    /\ liveflag' = FALSE
    /\ upc' = "test"
    /\ uat' = now + Period
    /\ UNCHANGED <<clock, up, ppc, pat, redis, bidder, fails, started,
                   owed, handled>>

\* adx_curl_open(activation_url)
Ping ==
    /\ up /\ ppc = "sleep" /\ now >= pat
    /\ ppc' = "request"
    /\ pat' = now
    /\ UNCHANGED <<clock, up, liveflag, upc, uat, redis, bidder, fails,
                   started, owed, handled>>

\* The request ends.  It fails, for which nothing is done; or it is answered by
\* adx_dsp_doit() before adx_tracker() is called, because adx_curl_open() sends
\* no User-Agent.
Pong ==
    /\ up /\ ppc = "request" /\ now >= pat
    /\ ppc' = "sleep"
    /\ pat' = now + Period
    /\ UNCHANGED <<clock, up, liveflag, upc, uat, redis, bidder, fails,
                   started, owed, handled>>

\* The tracker is stopped or dies.
Stop ==
    /\ up
    /\ Fault
    /\ up' = FALSE
    /\ owed' = Never
    /\ UNCHANGED <<clock, liveflag, upc, uat, ppc, pat, redis, bidder,
                   started, handled>>

\* adx_dsp_control_init()
Start ==
    /\ ~up
    /\ up' = TRUE
    /\ started' = now
    /\ liveflag' = FALSE
    /\ upc' = "test" /\ uat' = now
    /\ ppc' = "sleep" /\ pat' = now
    /\ UNCHANGED <<clock, redis, bidder, fails, owed, handled>>

------------------------------------------------------------------------------
(* The bidder.                                                              *)

\* Mutant of Check: the time is remembered when the stamp does not change.
CheckResets(val, tab, t) ==
    IF tab # val
    THEN [stab |-> val, tupd |-> now, verdict |-> "fresh"]
    ELSE [stab |-> tab, tupd |-> now,
          verdict |-> IF now - t > Second THEN "overtime" ELSE "fresh"]

\* Mutant of Check: the stamp is compared with the bidder's own clock.
CheckByClock(val, tab, t) ==
    IF tab # val
    THEN [stab |-> val, tupd |-> now, verdict |-> "fresh"]
    ELSE [stab |-> tab, tupd |-> t,
          verdict |-> IF val + Second < now + 2 * Skew
                      THEN "overtime" ELSE "fresh"]

\* EffectChecker::Check() with the value val of the key, for a checker that
\* remembers the stamp tab since the time t.
Check(val, tab, t) ==
    IF tab # val
    THEN [stab |-> val, tupd |-> now, verdict |-> "fresh"]
    ELSE [stab |-> tab, tupd |-> t,
          verdict |-> IF now - t > Second THEN "overtime" ELSE "fresh"]

\* Mutant of OtherSlot: _cur counts on without % 2.
OtherSlotUnbounded == cur + 1

\* (_cur + 1) % 2
OtherSlot == 1 - cur

\* AdCtrl::Update() of the idle slot, and its publication by DoubleCache.  A
\* GET that fails, or finds no key, leaves the checker as it is.
Reload ==
    LET s == OtherSlot
        c == Check(stamp, stab[s], tupd[s]) IN
    /\ now > bat
    /\ cur' = s
    /\ bat' = now
    /\ \/ /\ stamp # NoStamp
          /\ stab' = [stab EXCEPT ![s] = c.stab]
          /\ tupd' = [tupd EXCEPT ![s] = c.tupd]
          /\ verdict' = c.verdict
          /\ silence' = IF c.verdict = "overtime" THEN now - beat ELSE 0
          /\ UNCHANGED <<fails, unread>>
       \/ /\ stamp = NoStamp \/ fails < MaxFails
          /\ fails' = IF stamp = NoStamp THEN fails ELSE fails + 1
          /\ unread' = IF stamp = NoStamp THEN unread ELSE unread + 1
          /\ verdict' = "unreadable"
          /\ silence' = 0
          /\ UNCHANGED <<stab, tupd>>
    /\ UNCHANGED <<clock, tracker, stamp, beat, boot>>

\* The bidder is started again: new checkers, and slot 0 is loaded at once.
Restart ==
    LET found == stamp # NoStamp
        c == Check(stamp, NoStamp, 0) IN
    /\ Fault
    /\ cur' = 0
    /\ bat' = now /\ boot' = now
    /\ stab' = [s \in Slots |-> IF s = 0 /\ found THEN c.stab ELSE NoStamp]
    /\ tupd' = [s \in Slots |-> IF s = 0 /\ found THEN c.tupd ELSE 0]
    /\ verdict' = IF found THEN c.verdict ELSE "unreadable"
    /\ silence' = 0
    /\ UNCHANGED <<clock, tracker, redis>>

UpdateLoop == Test \/ UpdateWorking \/ Clear
PingLoop == Ping \/ Pong

Next ==
    \/ Tick
    \/ Notice \/ UpdateLoop \/ PingLoop \/ Stop \/ Start
    \/ Reload \/ Restart

Spec == Init /\ [][Next]_vars

------------------------------------------------------------------------------
(* Properties.                                                              *)

Latest(a, b) == IF a >= b THEN a ELSE b

\* A notice that ends while the loop sleeps has its heartbeat no later than at
\* the next test and the SET that follows it; the flag is never cleared before
\* it was seen.  (A SET that fails, or a stop, ends the obligation.)
NoticeBeatsInTime == owed = Never \/ now - owed <= Period + 2 * Jitter

\* The stamp is renewed only when a notice was handled since the last round:
\* a tracker that serves nobody falls silent.
BeatMeansServed ==
    up /\ upc = "set" => handled # Never /\ now - handled <= Period + 2 * Jitter

\* The bidder gives up pauses and caps for lack of a heartbeat only after a
\* silence of more than Second, whatever the difference of the two clocks and
\* whichever slot noticed the last stamp.
DroppedMeansSilent ==
    verdict = "overtime" => silence > Second

\* The bidder trusts the pauses of a tracker that has stopped no longer than
\* Second after it saw the last stamp; a slot sees it at its second next
\* publication and is in use until the next one.  A restart of the bidder
\* starts the time anew, and a GET that fails delays a slot by two reloads.
TrustedMeansRecent ==
    verdict = "fresh" =>
        now - Latest(beat, boot) <= Second + (3 + 2 * unread) * Gap

\* The bidder keeps to the pauses and caps only while the exchange sends
\* notices: when none was handled for as long, the own requests of a tracker
\* that works notwithstanding, it has given them up.
TrustNeedsTraffic ==
    verdict = "fresh" =>
        /\ handled # Never
        /\ now - Latest(handled, boot)
             <= Second + (3 + 2 * unread) * Gap + Period + 2 * Jitter

\* What the loop of own requests is there for: without failures the heartbeat
\* goes on when there is no traffic.  It does not (MCHeartbeatIdle.cfg).
KeptAlive ==
    up /\ fails = 0 =>
        now - Latest(beat, started) <= 2 * Period + Retry + 5 * Jitter

==============================================================================
