----------------------------- MODULE DoubleCache -----------------------------
(***************************************************************************)
(* The double buffer through which the bidding workers read the data that  *)
(* a background thread reloads from Redis: DoubleCache<T> of               *)
(* BidCore/common/baselib/double_cache.h (T is AdData or AdCtrl).          *)
(*                                                                         *)
(* Two slots hold the data; the counting semaphore of a slot is the number *)
(* of workers that use it.  Workers take and give back the current slot    *)
(* under _mutex; the updater polls the semaphore of the other slot WITHOUT *)
(* the mutex, reloads that slot, and publishes it under the mutex by       *)
(* writing _extsemid and _cur one after the other.                         *)
(***************************************************************************)
EXTENDS Integers, FiniteSets

CONSTANTS
    Workers,    \* the BidWork threads that call GetData / ReleaseData
    Outcomes    \* bound: how an Update may end, {"loaded", "empty"} or one of them

ASSUME WorkersAssumption ==
    /\ IsFiniteSet(Workers)
    /\ "free" \notin Workers
    /\ "updater" \notin Workers
    /\ Outcomes \subseteq {"loaded", "empty"}

Slots == {0, 1}

NoSlot == 2         \* the NULL pointer a worker holds between two requests

VARIABLES
    cur,        \* _cur % 2, the slot that GetData hands out
    extsemid,   \* _extsemid, the slot whose semaphore GetData posts
    sem,        \* _semidarr
    arr,        \* _arr: loaded, emptied by ClearData, or in the making
    mutex,      \* _mutex
    wpc, held,  \* where a worker is, and the slot GetData returned to it
    upc,        \* where the updater thread is
    run_flag    \* BidContext::run_flag, cleared by SIGINT / SIGTERM

vars == <<cur, extsemid, sem, arr, mutex, wpc, held, upc, run_flag>>

WorkerPcs == {"loop", "accept", "get_locked", "get_posted", "using",
              "rel_locked", "exited"}

UpdaterPcs == {"sleep", "waitswap", "updating", "swap", "swap_locked",
               "swap_ext", "exited"}

TypeOK ==
    /\ cur \in Slots
    /\ extsemid \in Slots
    /\ sem \in [Slots -> Nat]
    /\ arr \in [Slots -> {"loaded", "empty", "partial"}]
    /\ mutex \in Workers \cup {"free", "updater"}
    /\ wpc \in [Workers -> WorkerPcs]
    /\ held \in [Workers -> Slots \cup {NoSlot}]
    /\ upc \in UpdaterPcs
    /\ run_flag \in BOOLEAN

\* Init(): the first Update of slot 0 may have failed, which leaves it empty.
Init ==
    /\ cur = 0
    /\ extsemid = 0
    /\ sem = [s \in Slots |-> 0]
    /\ arr \in {[s \in Slots |-> IF s = 0 THEN a ELSE "empty"] : a \in Outcomes}
    /\ mutex = "free"
    /\ wpc = [w \in Workers |-> "loop"]
    /\ held = [w \in Workers |-> NoSlot]
    /\ upc = "sleep"
    /\ run_flag = TRUE

-----------------------------------------------------------------------------
(* The worker: BidWork::run, reduced to the use it makes of the cache.      *)

\* while (_context->run_flag)
WorkLoop(w) ==
    /\ wpc[w] = "loop"
    /\ wpc' = [wpc EXCEPT ![w] = IF run_flag THEN "accept" ELSE "exited"]
    /\ UNCHANGED <<cur, extsemid, sem, arr, mutex, held, upc, run_flag>>

\* FCGX_Accept_r returned an error: break.
AcceptFail(w) ==
    /\ wpc[w] = "accept"
    /\ wpc' = [wpc EXCEPT ![w] = "exited"]
    /\ UNCHANGED <<cur, extsemid, sem, arr, mutex, held, upc, run_flag>>

\* FCGX_Accept_r returned a request; GetData takes the mutex.
GetLock(w) ==
    /\ wpc[w] = "accept"
    /\ mutex = "free"
    /\ mutex' = w
    /\ wpc' = [wpc EXCEPT ![w] = "get_locked"]
    /\ UNCHANGED <<cur, extsemid, sem, arr, held, upc, run_flag>>

\* sem_post(_extsemid)
GetPost(w) ==
    /\ wpc[w] = "get_locked"
    /\ sem' = [sem EXCEPT ![extsemid] = @ + 1]
    /\ wpc' = [wpc EXCEPT ![w] = "get_posted"]
    /\ UNCHANGED <<cur, extsemid, arr, mutex, held, upc, run_flag>>

\* ret_ = &_arr[_cur % 2]; unlock
GetRead(w) ==
    /\ wpc[w] = "get_posted"
    /\ held' = [held EXCEPT ![w] = cur]
    /\ mutex' = "free"
    /\ wpc' = [wpc EXCEPT ![w] = "using"]
    /\ UNCHANGED <<cur, extsemid, sem, arr, upc, run_flag>>

\* The request is answered; ReleaseData takes the mutex.
RelLock(w) ==
    /\ wpc[w] = "using"
    /\ mutex = "free"
    /\ mutex' = w
    /\ wpc' = [wpc EXCEPT ![w] = "rel_locked"]
    /\ UNCHANGED <<cur, extsemid, sem, arr, held, upc, run_flag>>

\* Mutant: the semaphore of the current slot is taken back, not that of held.
RelWaitCurrentSlot(w) ==
    /\ wpc[w] = "rel_locked"
    /\ sem[held[w]] > 0
    /\ sem' = [sem EXCEPT ![cur] = @ - 1]
    /\ held' = [held EXCEPT ![w] = NoSlot]
    /\ mutex' = "free"
    /\ wpc' = [wpc EXCEPT ![w] = "loop"]
    /\ UNCHANGED <<cur, extsemid, arr, upc, run_flag>>

\* Mutant: ReleaseData forgets its sem_wait.
RelWaitForgotten(w) ==
    /\ wpc[w] = "rel_locked"
    /\ held' = [held EXCEPT ![w] = NoSlot]
    /\ mutex' = "free"
    /\ wpc' = [wpc EXCEPT ![w] = "loop"]
    /\ UNCHANGED <<cur, extsemid, sem, arr, upc, run_flag>>

\* sem_wait(&_semidarr[sel]), with the mutex held; unlock
RelWait(w) ==
    /\ wpc[w] = "rel_locked"
    /\ sem[held[w]] > 0
    /\ sem' = [sem EXCEPT ![held[w]] = @ - 1]
    /\ held' = [held EXCEPT ![w] = NoSlot]
    /\ mutex' = "free"
    /\ wpc' = [wpc EXCEPT ![w] = "loop"]
    /\ UNCHANGED <<cur, extsemid, arr, upc, run_flag>>

-----------------------------------------------------------------------------
(* The updater thread: DoubleCache<T>::run.                                 *)

\* next = _cur + 1 (modulo the number of slots)
NextSlot == 1 - cur

\* SleepInFlag returns; leave the loop when the flag is down.
SleepInFlag ==
    /\ upc = "sleep"
    /\ upc' = IF run_flag THEN "waitswap" ELSE "exited"
    /\ UNCHANGED <<cur, extsemid, sem, arr, mutex, wpc, held, run_flag>>

\* Mutant: the updater does not wait for the users of the slot.
WaitSwapSkipped ==
    /\ upc = "waitswap"
    /\ arr' = [arr EXCEPT ![NextSlot] = "partial"]
    /\ upc' = "updating"
    /\ UNCHANGED <<cur, extsemid, sem, mutex, wpc, held, run_flag>>

\* WaitSwap sees the semaphore of the idle slot at zero, no lock held; then
\* Update starts with ClearData.
WaitSwap ==
    /\ upc = "waitswap"
    /\ sem[NextSlot] = 0
    /\ arr' = [arr EXCEPT ![NextSlot] = "partial"]
    /\ upc' = "updating"
    /\ UNCHANGED <<cur, extsemid, sem, mutex, wpc, held, run_flag>>

\* Mutant: a load that is given up half way is not cleared.
UpdateNotCleared ==
    /\ upc = "updating"
    /\ \E a \in Outcomes \cup {"partial"} : arr' = [arr EXCEPT ![NextSlot] = a]
    /\ upc' = "swap"
    /\ UNCHANGED <<cur, extsemid, sem, mutex, wpc, held, run_flag>>

\* Update() ends.  Single keys that cannot be read are skipped; when the list
\* of policies or the templates cannot be read, or the check of the time stamp
\* fails, ClearData empties the slot.  AdData and AdCtrl return true all the
\* same, so the continue of run() is never taken and the slot is published.
Update ==
    /\ upc = "updating"
    /\ \E a \in Outcomes : arr' = [arr EXCEPT ![NextSlot] = a]
    /\ upc' = "swap"
    /\ UNCHANGED <<cur, extsemid, sem, mutex, wpc, held, run_flag>>

SwapLock ==
    /\ upc = "swap"
    /\ mutex = "free"
    /\ mutex' = "updater"
    /\ upc' = "swap_locked"
    /\ UNCHANGED <<cur, extsemid, sem, arr, wpc, held, run_flag>>

\* Mutant: the swap forgets to redirect _extsemid.
SwapExtForgotten ==
    /\ upc = "swap_locked"
    /\ upc' = "swap_ext"
    /\ UNCHANGED <<cur, extsemid, sem, arr, mutex, wpc, held, run_flag>>

\* _extsemid = &_semidarr[next % 2]
SwapExt ==
    /\ upc = "swap_locked"
    /\ extsemid' = NextSlot
    /\ upc' = "swap_ext"
    /\ UNCHANGED <<cur, sem, arr, mutex, wpc, held, run_flag>>

\* _cur++; unlock
SwapCur ==
    /\ upc = "swap_ext"
    /\ cur' = NextSlot
    /\ mutex' = "free"
    /\ upc' = "sleep"
    /\ UNCHANGED <<extsemid, sem, arr, wpc, held, run_flag>>

-----------------------------------------------------------------------------
\* SIGINT / SIGTERM: sigroutine calls StopBid.
StopBid ==
    /\ run_flag
    /\ run_flag' = FALSE
    /\ UNCHANGED <<cur, extsemid, sem, arr, mutex, wpc, held, upc>>

WorkerStep(w) ==
    \/ WorkLoop(w) \/ AcceptFail(w) \/ GetLock(w) \/ GetPost(w)
    \/ GetRead(w) \/ RelLock(w) \/ RelWait(w)

UpdaterStep ==
    \/ SleepInFlag \/ WaitSwap \/ Update
    \/ SwapLock \/ SwapExt \/ SwapCur

Next == (\E w \in Workers : WorkerStep(w)) \/ UpdaterStep \/ StopBid

Spec == Init /\ [][Next]_vars

(***************************************************************************)
(* Threads that can run do run.  A worker waits in FCGX_Accept_r for as    *)
(* long as no request comes, so GetLock gets no fairness; the lock steps   *)
(* that must eventually win a contended mutex get strong fairness.         *)
(***************************************************************************)
Fairness ==
    /\ \A w \in Workers :
        /\ WF_vars(WorkLoop(w)) /\ WF_vars(GetPost(w)) /\ WF_vars(GetRead(w))
        /\ SF_vars(RelLock(w)) /\ WF_vars(RelWait(w))
    /\ WF_vars(SleepInFlag) /\ WF_vars(WaitSwap) /\ WF_vars(Update)
    /\ SF_vars(SwapLock) /\ WF_vars(SwapExt) /\ WF_vars(SwapCur)

FairSpec == Spec /\ Fairness

-----------------------------------------------------------------------------
(* Properties.                                                              *)

\* The workers a slot's semaphore has to count: the ones GetData gave the
\* slot to and, between its sem_post and its return, the one inside GetData.
Users(s) ==
    {w \in Workers :
        \/ wpc[w] \in {"using", "rel_locked"} /\ held[w] = s
        \/ wpc[w] = "get_posted" /\ cur = s}

\* The semaphore of each slot counts its users exactly: GetData posts the
\* semaphore of the very slot it returns although _extsemid and _cur are two
\* variables, and ReleaseData takes it back from the same slot.
SemCountsUsers == \A s \in Slots : sem[s] = Cardinality(Users(s))

\* No worker reads a slot while Update rebuilds it, although the updater looks
\* at the semaphore without the mutex and only once before it starts.
NoUseDuringUpdate ==
    upc \in {"updating", "swap", "swap_locked"} => Users(NextSlot) = {}

\* sem_wait in ReleaseData, called with the mutex held, never blocks: it would
\* stop every worker and the updater for good.
ReleaseNeverBlocks ==
    \A w \in Workers : wpc[w] = "rel_locked" => sem[held[w]] > 0

\* What a worker has in hand is the result of a whole Update, all of it or an
\* empty slot, although Update reports no failure: a load that is given up half
\* way is emptied before the swap, and the workers that still read the other
\* slot keep it from being cleared under them.
HandedOutWhole ==
    \A w \in Workers :
        wpc[w] \in {"using", "rel_locked"} => arr[held[w]] # "partial"

\* What a worker reads does not change between its GetData and its ReleaseData.
StableWhileUsed ==
    [][\A w \in Workers :
         wpc[w] = "using" => arr'[held[w]] = arr[held[w]]]_vars

\* An updater that waits for the idle slot gets it: the workers that still use
\* it finish and new ones only come to the current slot.
SlotDrains == upc = "waitswap" ~> upc = "updating"
=============================================================================
