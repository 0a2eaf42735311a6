----------------------------- MODULE BidShutdown -----------------------------
(***************************************************************************)
(* How a bidder process ends: BidContext::Monitor and Uninit of            *)
(* BidCore/common/bidbase.cpp, Thread::term and join of baselib/thread.cpp *)
(* and DoubleCache<T>::Uninit, composed with the double buffer.            *)
(*                                                                         *)
(* BidWork::run makes its thread asynchronously cancellable, so the cancel *)
(* of Uninit may end a worker anywhere: inside a request with a slot of    *)
(* the cache in hand, inside GetData or ReleaseData with _mutex locked,    *)
(* inside WriteOnce, AddLog or AddRecord with the lock of a queue.  A      *)
(* cancelled worker takes no further step and gives nothing back; for the  *)
(* cache it is a worker that never moves again, and the composition        *)
(* implements DoubleCache.  One cache stands for the two (AdDataMan,       *)
(* AdCtrlMan), one log for the three and one lock for the two of           *)
(* ServerLog, which the code handles alike.  What the queues hold is the   *)
(* matter of BidQueues; here they are locks that only the dead keep.       *)
(* accept_mutex and resp_mutex are waited for by workers alone, which the  *)
(* cancel reaches there too.                                               *)
(***************************************************************************)
EXTENDS Integers, FiniteSets

CONSTANTS
    Workers,    \* BidContext::works
    Outcomes    \* bound: how an Update may end; one will do here

ASSUME ShutdownAssumption ==
    /\ IsFiniteSet(Workers)
    /\ {"free", "updater", "none"} \cap Workers = {}
    /\ Outcomes \subseteq {"loaded", "empty"}

VARIABLES cur, extsemid, sem, arr, mutex, wpc, held, upc, run_flag

Cache == INSTANCE DoubleCache

VARIABLES
    status,     \* _threadStatus of a worker, and what a cancel made of it
    lock,       \* the lock of a queue: "free" or the worker that died in it
    cpc,        \* the threads LocalLog::run, ServerLog::run, RecordCount::run
    mpc,        \* the main thread
    works,      \* the workers that Uninit has not deleted yet
    victim,     \* the worker that Uninit is joining
    destroyed   \* the semaphores and the mutex of the cache are destroyed

cacheVars == <<cur, extsemid, sem, arr, mutex, wpc, held, upc, run_flag>>
mainVars == <<mpc, works, victim, destroyed>>
vars == <<cur, extsemid, sem, arr, mutex, wpc, held, upc, run_flag,
          status, lock, cpc, mpc, works, victim, destroyed>>

\* LocalLog with its _mutex_log, ServerLog with _lock_bid and _lock_detail, and
\* RecordCount with its _lock; each has a thread that takes out what is queued.
Queues == {"log", "server", "count"}

Statuses == {"new", "running", "cancelled", "dead"}

MainPcs == {"monitor", "exit_log", "term", "join", "cache", "log",
            "log_join", "server_join", "count_join", "end"}

TypeOK ==
    /\ Cache!TypeOK
    /\ status \in [Workers -> Statuses]
    /\ lock \in [Queues -> Workers \cup {"free"}]
    /\ cpc \in [Queues -> {"running", "exited"}]
    /\ mpc \in MainPcs
    /\ works \in SUBSET Workers
    /\ victim \in Workers \cup {"none"}
    /\ destroyed \in BOOLEAN

Init ==
    /\ Cache!Init
    /\ status = [w \in Workers |-> "new"]
    /\ lock = [k \in Queues |-> "free"]
    /\ cpc = [k \in Queues |-> "running"]
    /\ mpc = "monitor"
    /\ works = Workers
    /\ victim = "none"
    /\ destroyed = FALSE

------------------------------------------------------------------------------
(* The workers.                                                             *)

\* Thread::run1: the new thread marks itself as running; BidWork::run returns
\* at once when the flag is already down.
Run1(w) ==
    /\ status[w] = "new"
    /\ status' = [status EXCEPT ![w] = "running"]
    /\ IF run_flag THEN UNCHANGED cacheVars ELSE Cache!WorkLoop(w)
    /\ UNCHANGED <<lock, cpc, mainVars>>

Alive(w) == status[w] \in {"running", "cancelled"}

\* BidWork::run.
Work(w, Step(_)) ==
    /\ Alive(w)
    /\ Step(w)
    /\ UNCHANGED <<status, lock, cpc, mainVars>>

Free(ks) == \A k \in ks : lock[k] = "free"

\* Steps before which BidWork::run adds to the queues ks: WriteLog, WriteOnce
\* and FlushOnce lock and unlock _mutex_log, and SendBidLog, SendDetailLog and
\* RecordOtherLog the locks of the other queues.
WorkAdds(ks, w, Step(_)) == Free(ks) /\ Work(w, Step)

\* Mutant: a cleanup handler unlocks the cache, but nothing takes back the
\* semaphore.
CancelledUnlocks(w) ==
    /\ status[w] = "cancelled"
    /\ wpc[w] # "exited"
    /\ status' = [status EXCEPT ![w] = "dead"]
    /\ mutex' = IF mutex = w THEN "free" ELSE mutex
    /\ UNCHANGED <<cur, extsemid, sem, arr, wpc, held, upc, run_flag,
                   lock, cpc, mainVars>>

\* PTHREAD_CANCEL_ASYNCHRONOUS: the cancel acts wherever the worker is, also
\* while it waits for a mutex or in FCGX_Accept_r.
Cancelled(w) ==
    /\ status[w] = "cancelled"
    /\ wpc[w] # "exited"
    /\ status' = [status EXCEPT ![w] = "dead"]
    /\ UNCHANGED <<cacheVars, lock, cpc, mainVars>>

\* Where BidWork::run adds to queue k: it logs everywhere outside of GetData and
\* ReleaseData, sends its messages with the slot in hand, and counts its bids
\* after ReleaseData, before it comes back to the head of its loop.
AddsAt(k) ==
    CASE k = "log" -> {"loop", "accept", "using"}
      [] k = "server" -> {"using"}
      [] k = "count" -> {"loop"}

\* The cancel acts between Enter() and Leave() of queue k.
CancelledIn(w, k) ==
    /\ status[w] = "cancelled"
    /\ wpc[w] \in AddsAt(k)
    /\ lock[k] = "free"
    /\ status' = [status EXCEPT ![w] = "dead"]
    /\ lock' = [lock EXCEPT ![k] = w]
    /\ UNCHANGED <<cacheVars, cpc, mainVars>>

------------------------------------------------------------------------------
(* The updater of the cache and the threads of the queues.                  *)

\* DoubleCache<T>::run; every Update writes to the log.
Update(Step) ==
    /\ Step
    /\ UNCHANGED <<status, lock, cpc, mainVars>>

UpdateLogs(Step) == Free({"log"}) /\ Update(Step)

\* The thread leaves its loop and locks once more for what is queued.
ThreadExit(k) ==
    /\ cpc[k] = "running"
    /\ ~run_flag
    /\ Free({k})
    /\ cpc' = [cpc EXCEPT ![k] = "exited"]
    /\ UNCHANGED <<cacheVars, status, lock, mainVars>>

------------------------------------------------------------------------------
(* The main thread.                                                         *)

StopBid == Cache!StopBid /\ UNCHANGED <<status, lock, cpc, mainVars>>

Goto(a, b) == mpc = a /\ mpc' = b

\* Mutant: the main thread waits for the workers before it cancels them.
MonitorWaits ==
    /\ Goto("monitor", "exit_log")
    /\ ~run_flag
    /\ \A w \in Workers : wpc[w] = "exited"
    /\ UNCHANGED <<cacheVars, status, lock, cpc, works, victim, destroyed>>

\* while (run_flag) Sleep(200)
Monitor ==
    /\ Goto("monitor", "exit_log")
    /\ ~run_flag
    /\ UNCHANGED <<cacheVars, status, lock, cpc, works, victim, destroyed>>

\* log_local.WriteLog(LOGDEBUG, ...)
ExitLog ==
    /\ Goto("exit_log", "term")
    /\ Free({"log"})
    /\ UNCHANGED <<cacheVars, status, lock, cpc, works, victim, destroyed>>

\* Mutant: join without term.
TermSkipped(w) ==
    /\ Goto("term", "join")
    /\ w \in works
    /\ victim' = w
    /\ UNCHANGED <<cacheVars, status, lock, cpc, works, destroyed>>

\* works[i]->term() cancels a thread that has marked itself as running.
Term(w) ==
    /\ Goto("term", "join")
    /\ w \in works
    /\ status' = [status EXCEPT ![w] =
                    IF @ = "running" /\ wpc[w] # "exited" THEN "cancelled"
                                                          ELSE @]
    /\ victim' = w
    /\ UNCHANGED <<cacheVars, lock, cpc, works, destroyed>>

Ended(w) == status[w] = "dead" \/ wpc[w] = "exited"

\* works[i]->join(); delete works[i]
JoinWorker ==
    /\ Goto("join", "term")
    /\ Ended(victim)
    /\ works' = works \ {victim}
    /\ victim' = "none"
    /\ UNCHANGED <<cacheVars, status, lock, cpc, destroyed>>

WorksCleared ==
    /\ Goto("term", "cache")
    /\ works = {}
    /\ UNCHANGED <<cacheVars, status, lock, cpc, works, victim, destroyed>>

\* Mutant: the updater is not joined.
UninitCacheNoJoin ==
    /\ Goto("cache", "log")
    /\ destroyed' = TRUE
    /\ UNCHANGED <<cacheVars, status, lock, cpc, works, victim>>

\* DoubleCache<T>::Uninit joins the updater and destroys what it locks with.
UninitCache ==
    /\ Goto("cache", "log")
    /\ upc = "exited"
    /\ destroyed' = TRUE
    /\ UNCHANGED <<cacheVars, status, lock, cpc, works, victim>>

\* LocalLog::Uninit: join(100) ends when the thread has, or by its timeout.
UninitLog ==
    /\ Goto("log", "log_join")
    /\ UNCHANGED <<cacheVars, status, lock, cpc, works, victim, destroyed>>

\* log_local.join(), log_server.join(), record_count.join()
JoinThread(k, a, b) ==
    /\ Goto(a, b)
    /\ cpc[k] = "exited"
    /\ UNCHANGED <<cacheVars, status, lock, cpc, works, victim, destroyed>>

JoinLog == JoinThread("log", "log_join", "server_join")
JoinServer == JoinThread("server", "server_join", "count_join")
JoinCount == JoinThread("count", "count_join", "end")

------------------------------------------------------------------------------
\* What a worker does when every lock it may need is free.
Progress(w) ==
    \/ WorkAdds({"log", "count"}, w, Cache!WorkLoop) \/ Work(w, Cache!GetPost)
    \/ Work(w, Cache!GetRead) \/ WorkAdds({"log", "server"}, w, Cache!RelLock)
    \/ Work(w, Cache!RelWait)

\* A request that sends no message, or bids for nothing, needs the log only.
WorkerStep(w) ==
    \/ Run1(w) \/ Progress(w) \/ WorkAdds({"log"}, w, Cache!WorkLoop)
    \/ WorkAdds({"log"}, w, Cache!RelLock) \/ WorkAdds({"log"}, w, Cache!AcceptFail)
    \/ WorkAdds({"log"}, w, Cache!GetLock) \/ Cancelled(w)
    \/ \E k \in Queues : CancelledIn(w, k)

UpdaterStep ==
    \/ Update(Cache!SleepInFlag) \/ Update(Cache!WaitSwap)
    \/ UpdateLogs(Cache!Update)
    \/ Update(Cache!SwapLock) \/ Update(Cache!SwapExt) \/ Update(Cache!SwapCur)

MainStep ==
    \/ Monitor \/ ExitLog \/ (\E w \in Workers : Term(w)) \/ JoinWorker
    \/ WorksCleared \/ UninitCache \/ UninitLog \/ JoinLog \/ JoinServer
    \/ JoinCount

Next ==
    \/ \E w \in Workers : WorkerStep(w)
    \/ \E k \in Queues : ThreadExit(k)
    \/ UpdaterStep \/ StopBid \/ MainStep

Spec == Init /\ [][Next]_vars

(***************************************************************************)
(* Threads that can run do run, and a cancel acts some time.  As in        *)
(* DoubleCache nothing promises that a request arrives; a thread that      *)
(* waits for a mutex that others take again and again gets it some time.   *)
(***************************************************************************)
Fairness ==
    /\ \A w \in Workers :
        WF_vars(Run1(w) \/ Cancelled(w)) /\ SF_vars(Progress(w))
    /\ \A k \in Queues : WF_vars(ThreadExit(k))
    /\ SF_vars(UpdaterStep) /\ WF_vars(MainStep)

FairSpec == Spec /\ Fairness

------------------------------------------------------------------------------
(* Properties.                                                              *)

\* Workers that are cancelled in the middle of anything are, for the cache,
\* workers that stop: every behaviour is one of DoubleCache, so what holds of
\* the slots and their semaphores there holds while the process ends.
ImplementsCache == Cache!Spec

\* The semaphores and the mutex of the cache are destroyed when no thread is
\* left that can lock, post or wait: not the workers that were still busy when
\* the signal came, and not the updater.
CacheOutlivesItsUsers ==
    destroyed => upc = "exited" /\ \A w \in Workers : Ended(w)

\* A stop ends every worker, whatever it was waiting for: a request, a mutex
\* held by a worker that is already dead.
WorkersEnd == ~run_flag ~> works = {}

\* A dead worker holds what a live thread waits for: the lock of a queue that
\* its thread, or for the log the updater, asks for; the cache's mutex when the
\* updater wants to swap; or the slot that WaitSwap polls without a look at
\* run_flag.
Stranded ==
    \E w \in Workers :
        /\ status[w] = "dead"
        /\ \/ \E k \in Queues : lock[k] = w /\ cpc[k] = "running"
           \/ lock["log"] = w /\ upc = "updating"
           \/ mutex = w /\ upc = "swap"
           \/ w \in Cache!Users(Cache!NextSlot) /\ upc = "waitswap"

\* A stop ends the process, through every join of Uninit, unless a worker was
\* cancelled with something in hand that the updater or the thread of a queue
\* waits for: nothing else, no order of the joins and no worker that waits for
\* a request or for a dead one, keeps the process from ending.
ShutdownEnds == ~run_flag ~> mpc = "end" \/ Stranded
=============================================================================
