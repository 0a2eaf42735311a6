-------------------------- MODULE BidShutdownProofs --------------------------
(* The end of the bidder process implements the double buffer, for any      *)
(* finite set of workers.                                                   *)
EXTENDS BidShutdown, TLAPS

\* A cancel, a join or the exit of a queue's thread is a stutter of the cache; every other
\* step is a step of the cache.
LEMMA StepRefines == [Next]_vars => [Cache!Next]_cacheVars
<1> SUFFICES ASSUME [Next]_vars PROVE [Cache!Next]_cacheVars
  OBVIOUS
<1>1. ASSUME NEW w \in Workers, WorkerStep(w) PROVE [Cache!Next]_cacheVars
  <2>1. CASE Run1(w)
    BY <2>1 DEF Run1, Cache!Next, Cache!WorkerStep
  <2>2. CASE \/ Progress(w) \/ WorkAdds({"log"}, w, Cache!WorkLoop)
             \/ WorkAdds({"log"}, w, Cache!RelLock)
             \/ WorkAdds({"log"}, w, Cache!AcceptFail)
             \/ WorkAdds({"log"}, w, Cache!GetLock)
    BY <2>2 DEF Progress, WorkAdds, Work, Cache!Next, Cache!WorkerStep
  <2>3. CASE Cancelled(w) \/ \E k \in Queues : CancelledIn(w, k)
    BY <2>3 DEF Cancelled, CancelledIn
  <2> QED BY <1>1, <2>1, <2>2, <2>3 DEF WorkerStep
<1>2. CASE UpdaterStep
  BY <1>2 DEF UpdaterStep, Update, UpdateLogs, Cache!Next, Cache!UpdaterStep
<1>3. CASE MainStep \/ \E k \in Queues : ThreadExit(k)
  BY <1>3 DEF ThreadExit, MainStep, Monitor, ExitLog, Term, JoinWorker,
              WorksCleared, UninitCache, UninitLog, JoinLog, JoinServer, JoinCount,
              JoinThread
<1>4. CASE StopBid
  BY <1>4 DEF StopBid, Cache!Next
<1>5. CASE UNCHANGED vars
  BY <1>5 DEF vars, cacheVars
<1> QED BY <1>1, <1>2, <1>3, <1>4, <1>5 DEF Next

\* Every behaviour of the process, its end included, is one of the cache.
THEOREM ShutdownRefinesCache == Spec => ImplementsCache
<1>1. Init => Cache!Init
  BY DEF Init
<1>2. [Next]_vars => [Cache!Next]_(Cache!vars)
  BY StepRefines DEF cacheVars, Cache!vars
<1> QED BY <1>1, <1>2, PTL DEF Spec, ImplementsCache, Cache!Spec

------------------------------------------------------------------------------
(* Uninit joins before it destroys.                                         *)

AfterCache == mpc \in {"log", "log_join", "server_join", "count_join", "end"}

JoinInv ==
    /\ works \in SUBSET Workers
    /\ status \in [Workers -> Statuses]
    /\ wpc \in [Workers -> Cache!WorkerPcs]
    /\ \A w \in Workers \ works : Ended(w)
    /\ mpc = "cache" \/ AfterCache => works = {}
    /\ AfterCache => upc = "exited"
    /\ destroyed => AfterCache
    /\ mpc = "join" => victim \in Workers

\* The threads of the bidder, without the main thread, keep the invariant: a
\* thread that has ended stays ended.
LEMMA ThreadsKeepJoinInv ==
  ASSUME JoinInv,
         \/ \E w \in Workers : WorkerStep(w)
         \/ \E k \in Queues : ThreadExit(k)
         \/ UpdaterStep \/ StopBid \/ UNCHANGED vars
  PROVE  JoinInv'
<1> USE DEF JoinInv, AfterCache, Ended, Alive, Statuses, Cache!WorkerPcs, mainVars
<1>1. ASSUME NEW w \in Workers, WorkerStep(w) PROVE JoinInv'
  <2>1. CASE Run1(w)
    BY <1>1, <2>1 DEF Run1, Cache!WorkLoop, cacheVars
  <2>2. CASE Progress(w)
    BY <1>1, <2>2 DEF Progress, WorkAdds, Work, Cache!WorkLoop, Cache!GetPost,
                      Cache!GetRead, Cache!RelLock, Cache!RelWait
  <2>3. CASE \/ WorkAdds({"log"}, w, Cache!WorkLoop)
             \/ WorkAdds({"log"}, w, Cache!RelLock)
             \/ WorkAdds({"log"}, w, Cache!AcceptFail)
             \/ WorkAdds({"log"}, w, Cache!GetLock)
    BY <1>1, <2>3 DEF WorkAdds, Work, Cache!WorkLoop, Cache!RelLock,
                      Cache!AcceptFail, Cache!GetLock
  <2>4. CASE Cancelled(w) \/ \E k \in Queues : CancelledIn(w, k)
    BY <1>1, <2>4 DEF Cancelled, CancelledIn, cacheVars
  <2> QED BY <1>1, <2>1, <2>2, <2>3, <2>4 DEF WorkerStep
<1>2. CASE UpdaterStep
  BY <1>2 DEF UpdaterStep, Update, UpdateLogs, Cache!SleepInFlag,
              Cache!WaitSwap, Cache!Update,
              Cache!SwapLock, Cache!SwapExt, Cache!SwapCur
<1>3. CASE StopBid \/ UNCHANGED vars
  BY <1>3 DEF StopBid, Cache!StopBid, cacheVars, vars
<1>4. ASSUME NEW k \in Queues, ThreadExit(k) PROVE JoinInv'
  BY <1>4 DEF ThreadExit, cacheVars
<1> QED BY <1>1, <1>2, <1>3, <1>4

\* The main thread keeps the invariant: it leaves a join only when the thread
\* has ended, and works is empty only when each has been joined.
LEMMA MainKeepsJoinInv == ASSUME JoinInv, MainStep PROVE JoinInv'
<1> USE DEF JoinInv, AfterCache, Ended, Statuses, Goto, cacheVars
<1>1. CASE Monitor \/ ExitLog
  BY <1>1 DEF Monitor, ExitLog
<1>2. ASSUME NEW w \in Workers, Term(w) PROVE JoinInv'
  BY <1>2 DEF Term
<1>3. CASE JoinWorker
  BY <1>3 DEF JoinWorker
<1>4. CASE WorksCleared \/ UninitCache
  BY <1>4 DEF WorksCleared, UninitCache
<1>5. CASE UninitLog \/ JoinLog \/ JoinServer \/ JoinCount
  BY <1>5 DEF UninitLog, JoinLog, JoinServer, JoinCount, JoinThread
<1> QED BY <1>1, <1>2, <1>3, <1>4, <1>5 DEF MainStep

\* No thread is left that could use the cache when Uninit destroys it, for any
\* number of workers and wherever the cancel struck them.
THEOREM NoUseAfterDestroy == Spec => []CacheOutlivesItsUsers
<1>1. Init => JoinInv
  BY DEF Init, JoinInv, AfterCache, Statuses, Cache!Init, Cache!WorkerPcs
<1>2. JoinInv /\ [Next]_vars => JoinInv'
  BY ThreadsKeepJoinInv, MainKeepsJoinInv DEF Next
<1>3. JoinInv => CacheOutlivesItsUsers
  BY DEF JoinInv, AfterCache, CacheOutlivesItsUsers
<1> QED BY <1>1, <1>2, <1>3, PTL DEF Spec
=============================================================================
