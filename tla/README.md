# Verification of adx-dsp

adx-dsp is a demand-side platform for online advertising. Exchanges send bid
requests to the **bidder** (`BidCore`), and later notices (win, impression,
click) to the **tracker** (`tracker`). The tracker removes duplicates, finds the
price, counts, and pauses a campaign or policy that has delivered what it
should; the bidder reads the pauses and stops bidding. The two sides, their
threads and their processes share nothing but Redis.

This directory holds TLA+ models of that core, the TLC runs that check them and
TLAPS proofs. Each module is translated from the source; `PROJECT.json` maps each
definition to its lines.

1. [Inventory](#1-inventory)
2. [Modules](#2-modules)
3. [Runs](#3-runs)
4. [Proofs](#4-proofs)
5. [Where code and comments disagree](#5-where-code-and-comments-disagree)
6. [Not modelled, and assumptions](#6-not-modelled-and-assumptions)
7. [Plan](#7-plan)

## 1. Inventory

### Bidder (`BidCore/common`)

| part | state | operations | what must hold |
|---|---|---|---|
| double cache (`baselib/double_cache.h`) | two slots, a semaphore per slot, `_cur`, `_extsemid`, a mutex | `GetData`, `ReleaseData` (workers); `run`, `WaitSwap` (updater) | nobody reads a slot while it is rebuilt; a release never blocks; the updater eventually gets the idle slot |
| ad data and pauses (`ad_cache.cpp`) | campaigns, policies, creatives, pauses, heartbeat | `AdData::Update` (fails closed: an empty slot), `AdCtrl::Update` (fails open) | a load that was given up is emptied before it is published; with a dead tracker pauses are dropped |
| request handling (`bidbase.cpp`) | per thread | `BidWork::run`, selection, `SetBidRedisFlag` | a bid is sent only after its flag key is stored |
| start and shutdown (`bidbase.cpp`, `thread.cpp`) | `run_flag`, the threads | `StopBid`, cancel, join, `Uninit` | shutdown ends, nothing is used after it is destroyed |
| queues (`local_log.cpp`, `ad_control.cpp`, `serverLog/server_log.cpp`) | four kinds of queue, a lock each, three kinds of consumer thread | `WriteLog`, `AddRecord`, `AddLog`; `run` of the consumers | records go out once, in order, also those left at exit |
| adapters and price decoders (`bid/`, `adx_decode/`) | none | conversion | - |

### Tracker (`tracker/src`)

| part | state | operations | what must hold |
|---|---|---|---|
| notice pipeline (`tracker.cpp`) | keys `dsp_id_flag`, `dsp_id_price`; `dsp_info` per thread | `adx_dsp_doit`, `adx_tracker`, `adx_deal_process`, `adx_rtb_process` | a notice counts once; a click follows an impression; a price has a source |
| delivery control (`adx_dsp_control.cpp`) | day and ten-minute counters, pause keys | `adx_dsp_control_count`, `_kpi_campaign`, `_kpi_policy` | a reached target pauses; a pause means a reached target; bounded overrun; even delivery |
| frequency caps (same file) | device counters and sets | `_frequency_*` | a device over its cap, and only that, is blocked for the period |
| dump (`adx_dump.cpp`) | `cache_root`, a tree of control data | `adx_dump_reload`, `adx_dump_load` of the members of `dsp_policyids`, `adx_dump_check_kpi` | a raised target lifts the pause; a tree in use is not freed |
| liveflag (`adx_dsp_control.cpp`, `main.cpp`) | `liveflag`, the heartbeat key | set, update, reset | the bidder trusts the pauses of a tracker that counts, and of no other |
| wrappers and containers (`adx_redis.cpp`, `adx_kafka.c`, ...) | connections, pools | - | error results |

### Other programs

`adx_core` (page views, link jumps, MySQL), `adx_auto_cost` (bid prices computed
from the tracker's statistics), `adx_dsp` (an unfinished second bidder),
`adx_module` (nginx handlers), `adx_web` (administration), and a vendored nginx.

### How the parts interact

    bidder --SETEX dsp_id_flag--> Redis <--GET/SETEX-- tracker <--notices-- exchange
    bidder <--pause_campaign_, pause_policy_-- Redis <--SETEX/DEL-- tracker
    bidder <--fc_campaign_, fc_policy_, fc_creative_-- Redis <--SADD/EXPIRE-- tracker
    bidder <--dsp_adcontrol_working-- Redis <--SET once a minute-- tracker
    platform --control data--> Redis --HGETALL every 5 s--> tracker (reload thread)
    platform --SADD dsp_policyids--> Redis <--SREM with a pause 21, 22-- tracker
    workers --queues--> background threads --> Kafka, Redis cluster, files

### What is hard

Every decision of the tracker is a *sequence of Redis commands* computed from
values read before, by threads and processes that hold no common lock: a GET and
its SETEX, a HINCRBY and the evaluation of its result, a date formatted anew for
each command. Commands fail, or take effect while the reply is lost; processes
die between two of them; keys expire; notices come repeatedly and out of order;
targets change while events are counted. In the bidder the updater of a cache
looks at a semaphore without the lock that guards it, and at the end workers are
cancelled wherever they happen to be, locked mutexes included. `PROJECT.json` lists these
hazards with the line where each bites and the property that covers it.

## 2. Modules

### DoubleCache

One action per lock, semaphore operation and assignment.

| variable | code |
|---|---|
| `cur`, `extsemid` | `_cur % 2`; the slot whose semaphore `_extsemid` points to |
| `sem`, `arr`, `mutex` | `_semidarr`; whether `_arr[s]` is loaded, emptied or in the making; `_mutex` |
| `wpc`, `held` | a worker in `BidWork::run`, and the slot it was given |
| `upc`, `run_flag` | the updater in `DoubleCache::run`; the flag SIGTERM clears |

`GetLock`, `GetPost`, `GetRead` are `GetData`; `RelLock`, `RelWait` are
`ReleaseData`; `SleepInFlag`, `WaitSwap`, `Update`, `SwapLock`, `SwapExt`, `SwapCur`
are `run`. `SwapExt` and `SwapCur` are apart because the code assigns `_extsemid` and
`_cur` one after the other. `WaitSwap` includes the `ClearData` with which `Update`
begins, and leaves the slot partial; `Update` ends with one of `Outcomes`, loaded or
emptied. `AdData::Update` and `AdCtrl::Update` return true in either case, so `run`
publishes what they leave and its `continue` is never taken. `Init` may begin with an
emptied slot 0.

### Tracker

An element of `Ads` is a triple (bid, impid, advid), the name of a `dsp_id_flag`
key; `ImpOf` maps it to (bid, impid), the name of a `dsp_id_price` key, which two
ads of one impression share. A flag is the set of its bits, `{}` a missing key.

| variable | code |
|---|---|
| `flag`, `priceKey` | the keys in Redis |
| `pc`, `req`, `seen`, `iv`, `ic`, `price` | a thread: position, `url_info`, `dsp_id_flag` as read, `dsp_info` |
| `issued`, `delivered`, `accepted`, `handled`, `lost`, `shown`, `won`, `overlap` | history that only the properties (and the bound `MaxCopies`) read |

`Accept` / `Malformed` (parameter checks) -> `GetFlagFresh` / `GetFlagRefuse`
(GET and the bit tests) -> `SetFlag` / `SetFlagFail` (SETEX, whose reply can get
lost) -> `DealPrice` / `WinPrice` / `ImpPrice` / `OtherPrice` -> `KafkaSend` /
`KafkaSendLast` -> `DspControl`. `Finish` models that `adx_dsp_doit` resets
`dsp_info`. The environment is `SetBidRedisFlag` (the bidder), `ExpireFlag`,
`ExpirePrice` and `Crash`.

### KpiControl

One policy and its campaign; the clock counts segments of ten minutes.

| variable | code |
|---|---|
| `seg` | the time all date, hour and segment functions of `adx_time.c` read |
| `setting`, `listed`, `cache` | control data in Redis; the policy is in `dsp_policyids`; `cache_root` (all zero: no such entry) |
| `cnt`, `ten`, `dies` | day counters per day; the hashes `dsp10minutecounter_*_(0..5)` and their expiry |
| `pause` | `pause_campaign_`, `pause_policy_`: reason and expiry |
| `step`, `ev`, `conf`, `got` | a thread: position, event, the control data it took, the counters in `dsp_count` |
| `rpc`, `rlev`, `rday`, `new`, `rgot` | the reload thread |
| `begun`, `finished`, `base`, `inSeg`, `dropped`, `raced` | history |

`Begin` and `GetPolicyControl` read `cache_root` twice, as the code does; `Count`
is one of the eight commands of `adx_dsp_control_count` that a decision reads;
`ExpireTen` is its EXPIRE, which computes the segment anew; `KpiCampaign` and
`KpiPolicy` evaluate and write the pauses; `RemovePolicyId` is the SREM that follows
the pauses 21 and 22. It has no effect when it fails or when, as the configuration
allows, the pauses are kept in another Redis than the control data. Otherwise
the next reload finds no such policy (`Stored`): if it was the only one, the list is
empty and the load fails as a whole (`LoadFail`); if it was one of several, it drops out
of the tree (`LoadPolicyControl`). `ListPolicy` is the platform's SADD, since nothing
in this code puts a policy back. `LoadCampaignControl`,
`LoadPolicyControl`, `LoadFail`, `CheckGuard`, `CheckGet`, `CheckAct` and `Publish`
are the reload thread: `check_kpi` runs against Redis *before* the new tree becomes
visible. `Tick` moves the clock and expires the ten-minute hashes; `ExpirePause` is
apart from it because the lifetimes are rounded to a full minute and a pause may
survive its end for some seconds.

`Begin` respects the pauses, up to `MaxLate` events: those of bids that were out
when the pause was written.

### Frequency

The other half of `adx_dsp_control`: one campaign, policy and creative, any devices.

| variable | code |
|---|---|
| `now`, `rule` | the clock in seconds; `frequencytype`, `-action`, `-count`, `-period`, `-endtime` of campaign and policy |
| `fc`, `del` | the fields `fc_(id)_(action)_(period)_(end)` of `did_...` and the sets `del_(end)` in the cluster |
| `full`, `ttl` | the sets `fc_campaign_`, `fc_policy_`, `fc_creative_` and their expiry in the other Redis |
| `pc`, `ev`, `got` | a thread: its next command in `Program`, its event, `dsp_count` |
| `hits`, `lost`, `dropped`, `stray`, `orphan` | history |

`Incr`, `Index`, `SAdd` and `Expire` are the four kinds of command, each with the
outcomes done, refused, and done with a lost reply; `NotReached` is the comparison
that ends a function early. The end of the period, `END_DATE_TIME()`, is computed
from `now` in every one of them, as the macro does, so a period may end between any
two. `ExpireCommand` keeps what EXPIRE does with a time to live of 0: it deletes the
set. Hours, days, weeks and months are periods of equal length here. `Id` numbers the
levels; a field is named by the number, the action and the period, so that a policy
with the number of its campaign may share a field with it.

### Heartbeat

Tracker and bidder together, in time: `Notice` sets `liveflag`; `Test`,
`UpdateWorking`, `Clear` are one round of `adx_dsp_control_update`; `Ping` and `Pong` one
round of `adx_dsp_control_activation_url`; `Stop` and `Start` the tracker's process.
`Pong` leaves the flag alone: `adx_curl_open` sends no User-Agent, and `adx_dsp_doit`
answers a request without one before it calls `adx_tracker`. `Reload` is
`AdCtrl::Update` of the idle slot with `EffectChecker::Check`, and its publication;
`Restart` starts the bidder again. The checker compares *stamps* and its own clock,
never the two clocks; the constant `Skew` makes them differ. `Tick` lets time pass only
while nobody is late by more than `Jitter`, and no reload by more than `Gap`: the sleeps
of the code are lower bounds, and what a scheduler adds is a parameter.

### BidQueues and Fifo

`Fifo` is the abstract queue: items are added one at a time and delivered in order,
once, without a hole. `BidQueues` has the two queues of `ServerLog`, the one of
`RecordCount` and the one of `LocalLog`, with their locks. `Enter` and `Push` are a
worker's `AddLog`, `AddRecord` or `WriteLog`; `ServerLoop`, `CountLoop`, `LogLoop` the
normal loops and `ServerLast`, `CountLast`, `LogLast` what follows them after
`run_flag` fell. `Test` is apart from the step under the lock, so a thread may act on
a flag that fell meanwhile. `Look` and `Sent` are apart because the first message is
sent outside the lock; `Taking` is how many lines one round of the log takes. `Cancel`
ends a worker where it is. Each queue implements `Fifo` with `added <- added[k]`, `delivered <- out[k]` (`ImplementsFifo`).

### BidShutdown

`BidContext::Monitor` and `Uninit` composed with `DoubleCache` by
`Cache == INSTANCE DoubleCache` over the same variables: a worker's step is a step of
`DoubleCache` guarded by whether the worker is alive and, where the code logs, sends
or counts before it, by the locks of the queues (`WorkAdds`). `Term` cancels;
`Cancelled` and `CancelledIn` let the cancel act, in the second between Enter and
Leave of a queue. `ThreadExit` is the end of `LocalLog::run`, `ServerLog::run` or
`RecordCount::run`, each of which locks once more for what is queued. `JoinWorker`,
`UninitCache`, `UninitLog`, `JoinLog`, `JoinServer` and `JoinCount` are the joins and
destructions in the order of the code, to the last line of `Uninit`.
`ImplementsCache` states the refinement: cancelled workers are workers that stop.

### How the modules fit together

`BidShutdown` and `DoubleCache` share variables; the others do not.
`Tracker!DspControl` is the call of what `KpiControl` and `Frequency` open, an event
of either is a notice with `iv = 1`, and the end of that call is `Heartbeat!Notice`.
The slots of `Heartbeat` are those of `DoubleCache` with `Reload` as its
`Update`. What is in the queues whose locks `BidShutdown` has is in `BidQueues`.

## 3. Runs

TLC explores each instance completely. Deadlock is not checked: workers end after
a SIGTERM, and bounded environments run out of events.

| run | instance | shows |
|---|---|---|
| `double_cache` | 3 workers | `SemCountsUsers`, `NoUseDuringUpdate`, `ReleaseNeverBlocks`, `HandedOutWhole`, `StableWhileUsed`, and under fairness `SlotDrains` |
| `tracker` | 2 threads, 1 ad, each notice up to twice | `ValidOnceIfSerial`, `ClickNeedsShow`, `ValidIsHandledOnce`, `ChargedPriceWasWon`, `BitsStayIfSerial` |
| `tracker_deal` | 1 thread, 2 ads of one impression, one a deal, 2 prices | `ChargedPriceWasWon` where two ads share a price key |
| `kpi` | 2 threads, 3 impressions, 1 late, midnight, the policy dropped after its pause | `ReachedIsPaused`, `OverrunBounded` |
| `kpi_reload` | 1 thread and the reload thread, 2 clicks, none late, 1 edit or relisting, 1 failure or crash, midnight | `PauseMeansReachedIfSerial`, `CountsWithinFailures` |
| `kpi_uniform` | 2 threads, 6 impressions, 1 late, a day of three hours of which two are allowed, target 6, three segments | `NoBurst` |
| `frequency` | 2 threads, 2 devices, equal numbers, 3 events, 1 late, 2 periods, 1 failure or crash | `ReachedIsCapped`, `CappedByThisPeriod`, `CountersAreIndexed`, `FrequencyOverrunBounded` |
| `heartbeat` | rounds of 2 units, 3 units of patience, 12 units of time, 1 failure, stop or restart | `NoticeBeatsInTime`, `BeatMeansServed`, `DroppedMeansSilent`, `TrustedMeansRecent`, `TrustNeedsTraffic` |
| `bid_queues` | 2 workers, up to 5 items per queue, batches of 2 | `NothingVanishes`, `QueuedIsDelivered`, `ImplementsFifo`, and under fairness `ThreadsExit` |
| `bid_shutdown` | 2 workers, the updater, 3 queue threads | `CacheOutlivesItsUsers`, `ImplementsCache`, and under fairness `WorkersEnd`, `ShutdownEnds` |

Two more, `tracker_valid_once` and `kpi_ten_minutes`, are expected to end in a
violation; section 5 describes them and the configurations that are kept beside
the runs.

**Bounds.** Three workers suffice for one to hold the old slot, one the new slot
and one to be inside `GetData`. Two threads and two copies are the least with which
duplicates can overlap; the proofs cover every number of them. In `kpi`, three
events with targets of 2 and 1 let both threads be past a threshold while a third
event starts, and the segments 5 and 6 of one-hour days are the two sides of midnight.
The two settings of `kpi_reload` raise the target of one level and lower that of the
other, also during a reload in progress. In `kpi_uniform` the segments 4 and 5 end an
allowed hour and 6 begins one that is not, of a day with a hole in its middle: the
formula for the remaining segments sees full hours, the current hour and the hole, and
both threads can be past their share. Constants of the code that are scaled down:
`HoursPerDay` (24). Kept as they are: 6 segments an hour, 1800 s (three segments),
the factor 100 * price, the division by 1000 and by 100 in the budget test.

In `frequency` one rule caps a creative at 2 per period of two seconds and its policy
at 1 for the whole campaign, which gives them fields of their own although their
numbers are equal; the other caps the clicks of campaign and policy in the same period,
at 1 and 2, which gives them one field. Three events and two threads let both be past
the comparison, and the clock passes the last second of a period into the next.

In `heartbeat` twelve units are six rounds, enough for a flag that falls between test and clearing, a retry, a
silence longer than `Second` and the recovery from it; `Skew` is larger than a
round. `Batch` is 2 instead of 16, and five lines are more than two batches and an
odd rest. The threads of `bid_queues` share only `run_flag` and the workers, so
every behaviour lets the requests fill the queues of one thread (`Uses`) and leaves
the idle threads out.

**Symmetry** is used for threads in `tracker`, `kpi` and `kpi_uniform`, for threads and
devices in `frequency`; none of them checks liveness.

**Fairness.** Running threads get weak fairness: the operating system schedules
them. Where they compete for a mutex that is free again and again they get strong
fairness, because pthread mutexes do not starve a waiter for ever in practice
(`RelLock` and `SwapLock` of `double_cache`, the workers and threads of `bid_queues`,
the workers' progress and the updater of `bid_shutdown`). `GetLock` and `AcceptFail`
get none: `FCGX_Accept_r` may wait for ever. In `bid_shutdown` a cancel acts some
time. `double_cache` presumes that no worker is cancelled while it holds a slot;
`bid_shutdown` drops that, and `ShutdownEnds` names what a dead worker may hold that
leaves somebody waiting (`Stranded`): the lock of the log, of the server log or of the
record count while their threads, or for the log the updater, still need it; the
cache's mutex while the updater swaps; and the slot `WaitSwap` polls without a look at
`run_flag`. Nothing else keeps `Uninit` from its last line.

**Mutants.** Each property of a passing run has a mutant, an operator that stands
just before the definition it replaces and makes a plausible mistake (a forgotten
semaphore operation, a strict comparison, a repeated HINCRBY, a SETEX of the bit
alone). With it the property fails under the same configuration.

## 4. Proofs

Each component has a module of proofs, `KpiControl` two. The theorems hold for every
value of the constants: any number of threads, workers, devices, items, events and failures. What a
theorem assumes beyond the `ASSUME` of its module it says itself (`ASSUME ... PROVE`),
and the text below says why.

**DoubleCacheProofs**, from `WorkersAssumption` (the workers are a finite set that
does not contain the names of the other owners of the mutex).
`TypeCorrect`; then `SemaphoreExact`, `UpdateExclusive`, `ReleaseProgress`,
`UsedDataStable` and `WholeUpdatesOnly`. None of the properties is inductive
alone. The invariant is

    IInv == TypeOK /\ MutexInv /\ ExtInv /\ HeldInv /\ IdleInv /\ SemCountsUsers

- `MutexInv`: the mutex is held by the thread whose position says so, hence at
  most one thread is inside a critical section;
- `ExtInv`: `_extsemid` differs from `_cur` only between the two assignments of
  the swap, so `GetPost` always posts the slot that `GetRead` will return;
- `IdleInv`: from the poll to the end of the swap the idle slot has no users. It
  holds although the poll takes no lock: the semaphore counts exactly, and only
  the current slot gains users.

`WholeUpdatesOnly` rests on `FillInv`: a slot is partial only between the poll and the
end of its `Update`, when it is the idle one and, by `IdleInv`, has no users.

**TrackerProofs**, from `TrackerAssumption` (finitely many threads; the shapes of
`ImpOf`, `Deals`, `Prices`, `FixPrice`). The invariant is

    IInv == TypeOK /\ LocalInv /\ ShowInv /\ SerialInv /\ PriceInv

- `LocalInv`: where a thread is determines what it holds;
- `ShowInv` adds the copies the threads hold to `ClickNeedsShow`: no lost update can
  create a bit, so this part needs no assumption about overlaps;
- `SerialInv`: while nobody overlapped on a key, at most one thread is about to
  write it, its copy is current (or the key expired meanwhile), and the key holds
  the bit of every valid notice. An expired key is never refilled, because the
  bidder issues a bid once: that is why expiry does not break `ValidOnceIfSerial`;
- `PriceInv`: only win notices fill price keys.

From it follow `SerialDedup`, `ClickAfterShow`, `PriceHasSource` and `BitsStay`.
`ValidNoticesBalance` rests on `TypeOK` and `LocalInv` and counts the threads in
flight.

**BidShutdownProofs**, from `ShutdownAssumption` (as `WorkersAssumption`).
`ShutdownRefinesCache`: each action of the composition is a step of `DoubleCache` or
leaves its variables alone, so every theorem of `DoubleCacheProofs` holds of a bidder
that is being shut down. `NoUseAfterDestroy` needs that the main thread has passed
the loop over `works` only when every worker has ended, and that an ended worker or
updater stays ended.

**HeartbeatProofs**, from `HeartbeatAssumption` (the periods are positive, no thread
is late by more than half a period). `ClockInv` (all remembered times lie in the past,
nobody who is due is late) supports the rest.

- `NoticesBeat`: while a heartbeat is owed the flag stays set, and where the loop is
  bounds how long it is until its test (`OwedInv`).
- `BeatsAreServed`: a flag the next test finds was set in this round (`ServedInv`).
- `DropsAreSilent`: the stamp is the tracker's time of the last heartbeat, and no
  checker noticed a stamp before it was written (`StampInv`); this absorbs the
  difference of the two clocks.
- `TrustIsRecent`: the idle slot of the cache may have missed a stamp at one reload,
  the one in use at none that succeeded (`TrustInv`). Each failed GET costs two reloads.
- `IdleIsSilence`: the last stamp is at most a round younger than the last notice
  (`TrafficInv`, from `ServedInv`), so the bound of `TrustIsRecent` becomes one on the
  time since a notice: with the requests of the tracker to itself nothing is gained.

**BidQueuesProofs**, from `QueuesAssumption`.

- `ItemsAreConserved`: every step moves at most one item of a queue or adds one, and
  what a thread holds goes with where it is (`HandInv`: ServerLog has a *copy* of the
  first message, RecordCount owns what it holds, LocalLog owns a whole batch).
- `QueuesImplementFifo`: the same classification of the steps maps each queue to
  `Fifo`: an addition is `Add`, a delivery `Deliver`, everything else a stutter.
- `ExitsDeliver`: a consumer's last loop begins after `run_flag` fell (`UsedInv`), and
  a round of ServerLog's last loop that found no message had delivered all
  (`LastInv`). For LocalLog half of the lines is all that can be claimed: it drops a
  batch when it has no file.

**FrequencyProofs**, from `FrequencyAssumption`. The base is

    BaseInv == TypeOK /\ ActiveInv /\ CountInv /\ TtlInv /\ GotInv

(a thread runs only commands of levels whose cap is about its kind of event; a counter
is at least the events it stands for; a set expires in the last second of its
period; a thread that has not counted knows no count).

- `CountersStayIndexed` needs only types.
- `ReachedGetsCapped`: a device that reached the cap is in the set or some thread has
  read a count that will put it there (`ReachInv`). HINCRBY is atomic and returns the
  new value, so the thread that reaches the cap knows it.
- `OverrunIsBounded` counts threads: those with an event still to be counted
  (`Pending`) and those that will cap (`Capping`) are disjoint. Once the device is in
  the set only pending and late events are left (`OverrunInv`).
- `CapsAreOfThisPeriod` makes no assumption about the numbers of the levels. A field
  holds exactly what this period's events of the levels that share it added
  (`ExactInv`), is fresh at the start of a period (`FreshInv`), and the sets hold
  devices of this period (`SetInv`, `OwnInv`). That a level be capped by its own
  events alone (`CappedByOwnLevel`) fails for equal numbers: `MCFrequencySharedId.cfg`.

**KpiControlProofs**, from `KpiAssumption`. `ReachedLevelGetsPaused` and
`LevelOverrunIsBounded` hold while nobody edits the targets, for each level that is
`Plain`: limited in impressions or in clicks, with -1 as the only negative target,
and, if it is a policy, delivered all day and not uniformly; the other level may be
anything. Each part is needed. A lowered target is not checked before the next event.
With both kinds two threads can miss each other (`MCKpiBothLimits.cfg`). A slow thread
may write a pause 23 or 24, which ends before midnight, over a pause 21. Where the
platform gives every level such targets (`PlainTargets`, as in run `kpi`) they are
`ReachedIsPaused` and `OverrunBounded`: `ReachedGetsPaused`, `OverrunIsBounded`. The
invariant is

    KpiInv == TypeOK /\ FutureInv /\ SameInv /\ OverrunInv

- `SameInv`: a copy of the targets is the current one or missing, and the reload thread
  touches no pause;
- `FutureInv`: the counters of later days are empty, so midnight is a new beginning;
- `OverrunInv`: before the pause, what exceeds the target is at most the number of
  threads that have read as much and will write the pause (`Pausing`); after it, the
  events under way and the late ones are all that can still come. Both theorems
  follow: when all threads are idle, `Pausing` is empty.

`LevelPauseIsTrue` allows edits, relistings, and a reload at any time. `SerialInv` says:
threads and the reload thread do not overlap (`AloneInv`), every copy of the targets is
one the platform stored or missing (`SourceInv`), a thread works with the targets of
`cache_root` (`ConfInv`) and with counters that are at most today's (`ReadInv`), the
reload thread has read the counters as they are (`RgotInv`), and each pause is what
`Target` asks for: the old targets, or the new ones where `check_kpi` has been
(`TrueInv`). Of the policy this is said until a reload has dropped it (`Kept`); its own
pause brings that about through the SREM, and afterwards the pause may be wrong, as
`MCKpiRelisted.cfg` shows. The levels it speaks of are those for which `LimitStays`: an
edit may change how much the level is limited to and in what, but not take its last
limit away. That is what goes wrong in `MCKpiLimitRemoved.cfg`, where a removed limit
leaves its pause behind. `PausesAreTrue` is the case that it holds of both levels, as in
run `kpi_reload`.

**KpiCountProofs**, from the same assumption, is about sums and shares.

- `CountsAreWithinFailures` needs no condition at all. `TallyInv`: what was counted
  plus the threads that are still to count (`ToCount`) is at most what was begun, and
  what is finished plus the threads past their count (`HasCounted`) is at most what
  was counted plus the failures. The sum over the days is stated as the size of a set
  with one element per counted event (`Tally`), so that one HINCRBY adds one element
  and no induction over the days is needed.
- `SurplusIsShare`: the code computes how many segments are left from the allowed
  hours, six for each and the rest of the current one; `Share` counts the segments
  themselves. They are equal for every clock and every set of hours, by a bijection
  of pairs (hour, split) with segments.
- `UniformDeliveryHolds`: `NoBurst` for every number of threads and any target, hours
  and length of day, while nobody edits the targets. `Rate` counts threads: those on
  their way to their count (`OnTheWay`), those that counted an impression of this
  segment for the day and not yet in the hash (`Counting`), and those that will find
  the share reached (`Stopping`). Every impression of the segment is in the hash or one
  of `Counting`; before the pause, what exceeds the `Quota` is at most `Stopping`, since
  each of those threads paused, or will, before it takes another event; after it
  (`Held`), only those on their way and the late ones can come. That a thread compares
  with the share of what *it* read as missing, and not of what was missing when the
  segment began, is to the safe side: `CeilDiv` is monotone. A pause that overwrites
  another may end earlier, but no pause a thread writes ends before this segment does.
  That the hash may hold too much (`kpi_ten_minutes`) makes delivery slower, never
  faster.

**Only model-checked:** `SlotDrains`, `ThreadsExit`, `WorkersEnd` and `ShutdownEnds`:
liveness under fairness is beyond the prover. Every other property of a passing run is
stated by a theorem.

## 5. Where code and comments disagree

Two are runs that TLC ends with a counterexample; `PROJECT.json` quotes the text.

- `tracker_valid_once`: GET and SETEX of `dsp_id_flag` are separate, so two threads
  with copies of a notice both find it new (`tracker.cpp:387`). With
  `ValidOnceIfSerial` this says that the overlap is the *only* cause.
- `kpi_ten_minutes`: EXPIRE may name the next segment, and the hash just written
  stays for ever and counts again an hour later (`adx_dsp_control.cpp:325`).

The others are kept as configurations beside the runs. Each names one property and
`tlc -config <file> <module>` shows its counterexample.

- `MCKpiBothLimits.cfg`, `ReachedIsPaused`: with both targets set, an impression
  thread and a click thread each read the other's counter too early, both targets
  are reached and neither pauses, although a comment says "both are limited"
  (`adx_dsp_control.cpp:652`). With one target per level, run `kpi`, this cannot
  happen.
- `MCKpiBudget.cfg`, `BudgetIsEnforced`: a budget without an impression or click
  target is never compared (`adx_dsp_control.cpp:626`).
- `MCKpiMidnight.cfg`, `PauseMeansReached`: an event counted before and evaluated
  after midnight pauses the new day (`adx_dsp_control.cpp:643`).
- `MCKpiLimitRemoved.cfg`, `UnlimitedIsNotPaused`: a target set to -1 is "smaller",
  so the pause of the old target stays until the end of the day (`adx_dump.cpp:300`).
- `MCKpiRelisted.cfg`, `RaisedIsResumed`: a paused policy is taken off `dsp_policyids`
  and drops out of the tree; when the platform lists it again with a raised target,
  `adx_dump_check_kpi`, which is to "check whether the KPI has changed"
  (`adx_dump.cpp:197`), has no old targets to compare with, and the pause stays until
  midnight (`adx_dsp_control.cpp:648`).
- `MCFrequencySharedId.cfg`, `CappedByOwnLevel`: the comments list three counters per
  device, of campaign, policy and creative (`adx_dsp_control.cpp:344`), but their
  fields have the same name when the numbers are equal, and one event then counts
  twice (`adx_dsp_control.cpp:374`, `:429`).
- `MCHeartbeatIdle.cfg`, `KeptAlive`: the thread called "keep active"
  (`adx_dsp_control.cpp:25`) requests the tracker's own URL with `adx_curl_open`, which
  sets no User-Agent (`adx_curl.c:15`), and `adx_dsp_doit` answers a request without one
  before `adx_tracker` sets the flag (`tracker.cpp:526`). A tracker without traffic falls
  silent; the run `heartbeat` says how soon the bidder then drops the pauses
  (`TrustNeedsTraffic`).

More were met while reading and are not turned into configurations: the bit documented
as "there is price information" is set before, and whether or not, a price is
stored, and a repeated win notice that would bring one is refused
(`tracker.cpp:397`); a repeated impression is reported with the code of a repeated
click (`tracker.cpp:408`); uniform delivery still pauses in the last twenty
minutes, which a comment promises to deliver at full speed
(`adx_dsp_control.cpp:722`); the log loses half of its queue at exit, and all of it
when no file is open, which `QueuedIsDelivered` states as the code has it
(`local_log.cpp:450`); `closeIPB` frees the table of IP ranges before the workers that
search it have ended (`bidbase.cpp:104`); `LocalLog::Uninit` destroys its mutex after a
wait of 100 ms, whether or not the thread has left it (`local_log.cpp:84`); devices of
unknown or other type are named `unknow_unknow` and `other_other` by the tracker
(`adx_dsp_control.cpp:139`) and otherwise by the bidder, so that their caps do not
bite; the time to the end of the day ignores the seconds of the minute
(`adx_time.c:97`).

## 6. Not modelled, and assumptions

- Exchange adapters, protobuf, price decryption, JSON, logging, containers:
  sequential data conversion. A price either decodes to a member of `Prices` or
  does not (`NoPrice`).
- A click notice carries no price, as the bidder builds its URLs. `tracker.cpp:258`
  means to return early for clicks but tests `adx` instead of `mtype`, so that a
  click with a price would get it; `Accept` takes this as its environment.
- `Tracker!Crash` takes all threads down; a crash of one of several processes is
  included as far as its threads may also just never be scheduled again.
- A failed Redis command either had no effect or lost its reply. Redis itself is
  atomic per command and does not lose what it acknowledged. The wrapper's
  reconnect is folded into the command.
- `KpiControl` has no map of mapid to campaign, policy and creative (constant), no
  total counters and no automatic-bid statistics, which no
  decision reads; likewise the HSET for `adx_auto_cost` that follows a pause. Other
  policies are there only in that the list of policies may be empty or not without
  this one. The five seconds before an old tree is freed are real time and
  not modelled: a thread keeps the control data it took.
- `Frequency` keeps its control data constant; what a reload changes there is what
  the next event reads. The clean-up that reads the sets `del_(end)` is not in the
  repository.
- `Heartbeat` keeps or drops pauses and caps as a whole; which keys `AdCtrl` reads is
  left out. A reload that reads the stamp while it changes sees one or the other.
- `BidQueues` leaves out the Kafka client (its push always reports success), a log
  file that cannot be opened, file names and sizes. `BidShutdown` leaves out
  `BidContext::Init`, which runs before any thread.
- The load of the initial tree that `adx_dump_init` throws away has no effect and
  is not an action; `cache` starts empty, and events before the first `Publish` are
  dropped, as in the code.
- `adx_core`, `adx_auto_cost`, `adx_dsp`, `adx_module`, `adx_web` and nginx: see
  the notes in `PROJECT.json`.

## 7. Plan

Done: all seven components modelled, checked and proved about, except for the
liveness properties listed at the end of section 4; the refinements of `DoubleCache`
by `BidShutdown` and of `Fifo` by `BidQueues`, both proved.

1. An abstract at-most-once ledger that `Tracker` implements when no two threads
   overlap.
2. Several policies of one campaign, each with its own membership in `dsp_policyids`.
