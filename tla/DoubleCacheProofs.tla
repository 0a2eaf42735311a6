-------------------------- MODULE DoubleCacheProofs --------------------------
(* Proofs about the double buffer, for any finite set of workers.           *)
EXTENDS DoubleCache, FiniteSetTheorems, TLAPS

\* Every variable keeps its type.
THEOREM TypeCorrect == Spec => []TypeOK
<1>1. Init => TypeOK
  BY WorkersAssumption DEF Init, TypeOK, Slots, NoSlot, WorkerPcs, UpdaterPcs
<1>2. TypeOK /\ [Next]_vars => TypeOK'
  <2> SUFFICES ASSUME TypeOK, [Next]_vars PROVE TypeOK'
    OBVIOUS
  <2> USE DEF TypeOK, Slots, NoSlot, WorkerPcs, UpdaterPcs
  <2>1. ASSUME NEW w \in Workers, WorkerStep(w) PROVE TypeOK'
    BY <2>1 DEF WorkerStep, WorkLoop, AcceptFail, GetLock, GetPost, GetRead,
                RelLock, RelWait
  <2>2. CASE UpdaterStep
    BY <2>2, WorkersAssumption DEF UpdaterStep, SleepInFlag, WaitSwap, Update,
                SwapLock, SwapExt, SwapCur, NextSlot
  <2>3. CASE StopBid
    BY <2>3 DEF StopBid
  <2>4. CASE UNCHANGED vars
    BY <2>4 DEF vars
  <2> QED BY <2>1, <2>2, <2>3, <2>4 DEF Next
<1> QED BY <1>1, <1>2, PTL DEF Spec

-----------------------------------------------------------------------------
(* The mutex is held by exactly the thread that is between its lock and its *)
(* unlock, and _extsemid differs from _cur only inside the swap.            *)

InLock == {"get_locked", "get_posted", "rel_locked"}

MutexInv ==
    /\ \A w \in Workers : wpc[w] \in InLock <=> mutex = w
    /\ upc \in {"swap_locked", "swap_ext"} <=> mutex = "updater"

ExtInv == extsemid = IF upc = "swap_ext" THEN NextSlot ELSE cur

HeldInv == \A w \in Workers : wpc[w] \in {"using", "rel_locked"} => held[w] \in Slots

\* From the poll in WaitSwap to the publication nobody uses the idle slot.
IdleInv ==
    upc \in {"updating", "swap", "swap_locked", "swap_ext"} => Users(NextSlot) = {}

IInv == TypeOK /\ MutexInv /\ ExtInv /\ HeldInv /\ IdleInv /\ SemCountsUsers

\* A slot's users are finitely many.
LEMMA UsersFinite == ASSUME NEW s \in Slots PROVE IsFiniteSet(Users(s))
  BY WorkersAssumption, FS_Subset DEF Users

\* A step that leaves every set of users alone and does not touch the
\* semaphores keeps the count.
LEMMA SameUsers ==
  ASSUME SemCountsUsers, UNCHANGED sem, \A s \in Slots : Users(s)' = Users(s)
  PROVE  SemCountsUsers'
  BY DEF SemCountsUsers

\* The invariant holds initially: no worker uses a slot.
LEMMA InitIInv == Init => IInv
<1> SUFFICES ASSUME Init PROVE IInv
  OBVIOUS
<1>1. TypeOK
  BY WorkersAssumption DEF Init, TypeOK, Slots, NoSlot, WorkerPcs, UpdaterPcs
<1>2. MutexInv /\ ExtInv /\ HeldInv /\ IdleInv
  BY WorkersAssumption DEF Init, MutexInv, ExtInv, HeldInv, IdleInv, InLock
<1>3. \A s \in Slots : Users(s) = {}
  BY DEF Init, Users
<1>4. SemCountsUsers
  BY <1>3, FS_EmptySet DEF Init, SemCountsUsers
<1> QED BY <1>1, <1>2, <1>4 DEF IInv

\* A worker's step keeps the invariant.
LEMMA WorkerKeepsIInv ==
  ASSUME IInv, TypeOK', NEW w \in Workers, WorkerStep(w)
  PROVE  IInv'
<1> USE WorkersAssumption DEF Slots
<1> TypeOK
  BY DEF IInv
<1>1. CASE WorkLoop(w) \/ AcceptFail(w)
  <2>1. MutexInv' /\ ExtInv' /\ HeldInv'
    BY <1>1 DEF IInv, TypeOK, WorkLoop, AcceptFail, MutexInv, ExtInv, HeldInv, InLock, NextSlot
  <2>2. \A s \in Slots : Users(s)' = Users(s)
    BY <1>1 DEF TypeOK, WorkLoop, AcceptFail, Users
  <2>3. IdleInv'
    BY <1>1, <2>2 DEF IInv, IdleInv, WorkLoop, AcceptFail, NextSlot, TypeOK
  <2> QED BY <1>1, <2>1, <2>2, <2>3, SameUsers DEF IInv, WorkLoop, AcceptFail
<1>2. CASE GetLock(w)
  <2>1. MutexInv' /\ ExtInv' /\ HeldInv'
    BY <1>2 DEF IInv, TypeOK, GetLock, MutexInv, ExtInv, HeldInv, InLock, NextSlot
  <2>2. \A s \in Slots : Users(s)' = Users(s)
    BY <1>2 DEF TypeOK, GetLock, Users
  <2>3. IdleInv'
    BY <1>2, <2>2 DEF IInv, IdleInv, GetLock, NextSlot, TypeOK
  <2> QED BY <1>2, <2>1, <2>2, <2>3, SameUsers DEF IInv, GetLock
<1>3. CASE GetPost(w)
  <2>1. MutexInv' /\ ExtInv' /\ HeldInv'
    BY <1>3 DEF IInv, TypeOK, GetPost, MutexInv, ExtInv, HeldInv, InLock, NextSlot
  <2>2. extsemid = cur
    BY <1>3 DEF IInv, GetPost, MutexInv, ExtInv, InLock
  <2>3. Users(cur)' = Users(cur) \cup {w} /\ w \notin Users(cur)
    BY <1>3 DEF TypeOK, GetPost, Users
  <2>4. \A s \in Slots : s # cur => Users(s)' = Users(s)
    BY <1>3 DEF TypeOK, GetPost, Users
  <2>5. IdleInv'
    BY <1>3, <2>4 DEF IInv, IdleInv, GetPost, NextSlot, TypeOK
  <2>6. Cardinality(Users(cur)') = Cardinality(Users(cur)) + 1
    <3>1. IsFiniteSet(Users(cur))
      BY UsersFinite DEF TypeOK
    <3> QED BY <2>3, <3>1, FS_AddElement
  <2>7. SemCountsUsers'
    <3> SUFFICES ASSUME NEW s \in Slots PROVE sem'[s] = Cardinality(Users(s)')
      BY DEF SemCountsUsers
    <3>1. sem[s] = Cardinality(Users(s))
      BY DEF IInv, SemCountsUsers
    <3>2. CASE s = cur
      <4>1. sem'[cur] = sem[cur] + 1
        BY <1>3, <2>2 DEF GetPost, TypeOK
      <4>2. Users(s)' = Users(cur)'
        BY <3>2, <1>3 DEF GetPost, Users
      <4> QED BY <3>1, <3>2, <4>1, <4>2, <2>6
    <3>3. CASE s # cur
      <4>1. sem'[s] = sem[s]
        BY <1>3, <2>2, <3>3 DEF GetPost, TypeOK
      <4> QED BY <4>1, <3>1, <3>3, <2>4
    <3> QED BY <3>2, <3>3
  <2> QED BY <2>1, <2>5, <2>7 DEF IInv
<1>4. CASE GetRead(w)
  <2>1. MutexInv' /\ ExtInv' /\ HeldInv'
    BY <1>4 DEF IInv, TypeOK, GetRead, MutexInv, ExtInv, HeldInv, InLock, NextSlot
  <2>2. \A s \in Slots : Users(s)' = Users(s)
    BY <1>4 DEF TypeOK, GetRead, Users
  <2>3. IdleInv'
    BY <1>4, <2>2 DEF IInv, IdleInv, GetRead, NextSlot, TypeOK
  <2> QED BY <1>4, <2>1, <2>2, <2>3, SameUsers DEF IInv, GetRead
<1>5. CASE RelLock(w)
  <2>1. MutexInv' /\ ExtInv' /\ HeldInv'
    BY <1>5 DEF IInv, TypeOK, RelLock, MutexInv, ExtInv, HeldInv, InLock, NextSlot
  <2>2. \A s \in Slots : Users(s)' = Users(s)
    BY <1>5 DEF TypeOK, RelLock, Users
  <2>3. IdleInv'
    BY <1>5, <2>2 DEF IInv, IdleInv, RelLock, NextSlot, TypeOK
  <2> QED BY <1>5, <2>1, <2>2, <2>3, SameUsers DEF IInv, RelLock
<1>6. CASE RelWait(w)
  <2>0. PICK h \in Slots : h = held[w]
    BY <1>6 DEF IInv, HeldInv, RelWait
  <2>1. MutexInv' /\ ExtInv' /\ HeldInv'
    BY <1>6 DEF IInv, TypeOK, RelWait, MutexInv, ExtInv, HeldInv, InLock, NextSlot
  <2>2. Users(h)' = Users(h) \ {w} /\ w \in Users(h)
    BY <1>6, <2>0 DEF TypeOK, RelWait, Users
  <2>3. \A s \in Slots : s # h => Users(s)' = Users(s)
    BY <1>6, <2>0 DEF TypeOK, RelWait, Users
  <2>4. \A s \in Slots : Users(s)' \subseteq Users(s)
    BY <1>6 DEF TypeOK, RelWait, Users
  <2>5. IdleInv'
    BY <1>6, <2>4 DEF IInv, IdleInv, RelWait, NextSlot, TypeOK
  <2>6. Cardinality(Users(h)') = Cardinality(Users(h)) - 1
    BY <2>0, <2>2, UsersFinite, FS_RemoveElement
  <2>7. SemCountsUsers'
    <3> SUFFICES ASSUME NEW s \in Slots PROVE sem'[s] = Cardinality(Users(s)')
      BY DEF SemCountsUsers
    <3>1. sem[s] = Cardinality(Users(s))
      BY DEF IInv, SemCountsUsers
    <3>2. CASE s = h
      <4>1. sem'[h] = sem[h] - 1
        BY <1>6, <2>0 DEF RelWait, TypeOK
      <4>2. Cardinality(Users(s)') = Cardinality(Users(h)) - 1
        BY <3>2, <2>6, <2>2, <1>6 DEF RelWait, Users
      <4> QED BY <3>1, <3>2, <4>1, <4>2
    <3>3. CASE s # h
      <4>1. sem'[s] = sem[s]
        BY <1>6, <2>0, <3>3 DEF RelWait, TypeOK
      <4> QED BY <4>1, <3>1, <3>3, <2>3
    <3> QED BY <3>2, <3>3
  <2> QED BY <2>1, <2>5, <2>7 DEF IInv
<1> QED BY <1>1, <1>2, <1>3, <1>4, <1>5, <1>6 DEF WorkerStep

\* A step of the updater keeps the invariant: WaitSwap reads a zero that is
\* the true number of users, and SwapCur runs when nobody is inside GetData.
LEMMA UpdaterKeepsIInv ==
  ASSUME IInv, TypeOK', UpdaterStep
  PROVE  IInv'
<1> USE WorkersAssumption DEF Slots
<1> TypeOK
  BY DEF IInv
<1>1. MutexInv' /\ ExtInv' /\ HeldInv'
  <2>1. MutexInv'
    BY DEF IInv, TypeOK, UpdaterStep, SleepInFlag, WaitSwap, Update,
           SwapLock, SwapExt, SwapCur, MutexInv, InLock
  <2>2. ExtInv'
    BY DEF IInv, TypeOK, UpdaterStep, SleepInFlag, WaitSwap, Update,
           SwapLock, SwapExt, SwapCur, ExtInv, NextSlot
  <2>3. HeldInv'
    BY DEF IInv, UpdaterStep, SleepInFlag, WaitSwap, Update,
           SwapLock, SwapExt, SwapCur, HeldInv
  <2> QED BY <2>1, <2>2, <2>3
<1>2. \A s \in Slots : Users(s)' = Users(s)
  <2>1. CASE SwapCur
    <3>1. \A w \in Workers : wpc[w] # "get_posted"
      BY <2>1 DEF IInv, MutexInv, InLock, SwapCur
    <3> QED BY <2>1, <3>1 DEF SwapCur, Users
  <2>2. CASE ~SwapCur
    BY <2>2 DEF UpdaterStep, SleepInFlag, WaitSwap, Update,
                SwapLock, SwapExt, Users
  <2> QED BY <2>1, <2>2
<1>3. UNCHANGED sem
  BY DEF UpdaterStep, SleepInFlag, WaitSwap, Update, SwapLock,
         SwapExt, SwapCur
<1>4. IdleInv'
  <2>1. CASE WaitSwap
    <3>1. NextSlot \in Slots /\ NextSlot' = NextSlot
      BY <2>1 DEF NextSlot, WaitSwap, TypeOK
    <3>2. Cardinality(Users(NextSlot)) = 0
      BY <2>1, <3>1 DEF WaitSwap, IInv, SemCountsUsers
    <3>3. Users(NextSlot) = {}
      BY <3>1, <3>2, UsersFinite, FS_EmptySet
    <3> QED BY <3>1, <3>3, <1>2 DEF IdleInv
  <2>2. CASE ~WaitSwap
    BY <2>2, <1>2 DEF UpdaterStep, SleepInFlag, Update, SwapLock,
                SwapExt, SwapCur, IInv, IdleInv, NextSlot, TypeOK
  <2> QED BY <2>1, <2>2
<1> QED BY <1>1, <1>2, <1>3, <1>4, SameUsers DEF IInv

LEMMA StepKeepsIInv == IInv /\ TypeOK' /\ [Next]_vars => IInv'
<1> SUFFICES ASSUME IInv, TypeOK', [Next]_vars PROVE IInv'
  OBVIOUS
<1>1. ASSUME NEW w \in Workers, WorkerStep(w) PROVE IInv'
  BY <1>1, WorkerKeepsIInv
<1>2. CASE UpdaterStep
  BY <1>2, UpdaterKeepsIInv
<1>3. CASE StopBid \/ UNCHANGED vars
  <2>1. MutexInv' /\ ExtInv' /\ HeldInv'
    BY <1>3 DEF IInv, StopBid, vars, MutexInv, ExtInv, HeldInv, NextSlot
  <2>2. \A s \in Slots : Users(s)' = Users(s)
    BY <1>3 DEF StopBid, vars, Users
  <2>3. IdleInv'
    BY <1>3, <2>2 DEF IInv, IdleInv, StopBid, vars, NextSlot, Users
  <2> QED BY <1>3, <2>1, <2>2, <2>3, SameUsers DEF IInv, StopBid, vars
<1> QED BY <1>1, <1>2, <1>3 DEF Next

THEOREM Invariant == Spec => []IInv
  BY InitIInv, StepKeepsIInv, TypeCorrect, PTL DEF Spec

\* Each semaphore counts the users of its slot, for any number of workers.
THEOREM SemaphoreExact == Spec => []SemCountsUsers
<1>1. IInv => SemCountsUsers
  BY DEF IInv
<1> QED BY <1>1, Invariant, PTL

\* No worker uses the slot that Update is rebuilding.
THEOREM UpdateExclusive == Spec => []NoUseDuringUpdate
<1>1. IInv => NoUseDuringUpdate
  BY DEF IInv, IdleInv, NoUseDuringUpdate
<1> QED BY <1>1, Invariant, PTL

\* ReleaseData never waits for its semaphore while it holds the mutex.
THEOREM ReleaseProgress == Spec => []ReleaseNeverBlocks
<1>1. IInv => ReleaseNeverBlocks
  <2> SUFFICES ASSUME IInv, NEW w \in Workers, wpc[w] = "rel_locked"
               PROVE  sem[held[w]] > 0
    BY DEF ReleaseNeverBlocks
  <2>1. held[w] \in Slots /\ w \in Users(held[w])
    BY DEF IInv, HeldInv, Users
  <2>2. Cardinality(Users(held[w])) \in Nat /\ Cardinality(Users(held[w])) # 0
    BY <2>1, UsersFinite, FS_EmptySet, FS_CardinalityType
  <2> QED BY <2>1, <2>2 DEF IInv, SemCountsUsers
<1> QED BY <1>1, Invariant, PTL

\* Data in use does not change under a worker.
THEOREM UsedDataStable == Spec => StableWhileUsed
<1>1. IInv /\ [Next]_vars =>
        [\A w \in Workers : wpc[w] = "using" => arr'[held[w]] = arr[held[w]]]_vars
  <2> SUFFICES ASSUME IInv, Next, NEW w \in Workers, wpc[w] = "using"
               PROVE  arr'[held[w]] = arr[held[w]]
    BY DEF vars
  <2>1. held[w] \in Slots /\ w \in Users(held[w])
    BY DEF IInv, HeldInv, Users
  <2>2. ASSUME NEW v \in Workers, WorkerStep(v) PROVE arr' = arr
    BY <2>2 DEF WorkerStep, WorkLoop, AcceptFail, GetLock, GetPost, GetRead,
                RelLock, RelWait
  <2>3. CASE WaitSwap
    <3>1. Users(NextSlot) = {}
      BY <2>3, UsersFinite, FS_EmptySet DEF WaitSwap, IInv, SemCountsUsers, NextSlot, TypeOK, Slots
    <3> QED BY <2>1, <2>3, <3>1 DEF WaitSwap, IInv, TypeOK
  <2>4. CASE Update
    BY <2>1, <2>4 DEF Update, IInv, IdleInv, TypeOK
  <2>5. CASE StopBid \/ (UpdaterStep /\ ~WaitSwap /\ ~Update)
    BY <2>5 DEF StopBid, UpdaterStep, SleepInFlag, SwapLock, SwapExt, SwapCur
  <2> QED BY <2>2, <2>3, <2>4, <2>5 DEF Next
<1> QED BY <1>1, Invariant, PTL DEF Spec, StableWhileUsed

-----------------------------------------------------------------------------
(* What is published.                                                       *)

\* The current slot, and from the end of Update to the end of the swap the
\* idle one too, are the result of a whole Update.
FillInv ==
    /\ arr[cur] # "partial"
    /\ upc \in {"swap", "swap_locked", "swap_ext"} => arr[NextSlot] # "partial"

\* Only WaitSwap makes a slot partial: the idle one, when nobody uses it.
LEMMA StepKeepsFill ==
  ASSUME IInv, FillInv, HandedOutWhole, [Next]_vars
  PROVE  FillInv' /\ HandedOutWhole'
<1> USE DEF FillInv, HandedOutWhole
<1>1. /\ cur \in Slots /\ NextSlot \in Slots /\ NextSlot # cur
      /\ \A s \in Slots : s # cur => s = NextSlot
      /\ arr \in [Slots -> {"loaded", "empty", "partial"}]
  BY DEF IInv, TypeOK, NextSlot, Slots
<1>2. \A w \in Workers : wpc[w] \in {"using", "rel_locked"} =>
          held[w] \in Slots /\ w \in Users(held[w])
  BY DEF IInv, HeldInv, Users
<1>3. CASE StopBid \/ UNCHANGED vars
  BY <1>3 DEF StopBid, vars, NextSlot
<1>4. ASSUME NEW w \in Workers, WorkerStep(w) PROVE FillInv' /\ HandedOutWhole'
  <2>1. UNCHANGED <<cur, arr, upc>>
    BY <1>4 DEF WorkerStep, WorkLoop, AcceptFail, GetLock, GetPost, GetRead, RelLock, RelWait
  <2>2. FillInv'
    BY <2>1 DEF NextSlot
  <2>3. HandedOutWhole'
    BY <1>4, <2>1 DEF WorkerStep, WorkLoop, AcceptFail, GetLock, GetPost, GetRead,
                      RelLock, RelWait, IInv, TypeOK
  <2> QED BY <2>2, <2>3
<1>5. CASE WaitSwap
  <2>1. Users(NextSlot) = {}
    BY <1>1, <1>5, UsersFinite, FS_EmptySet DEF WaitSwap, IInv, SemCountsUsers
  <2> QED BY <1>1, <1>2, <1>5, <2>1 DEF WaitSwap
<1>6. CASE Update
  BY <1>1, <1>2, <1>6, WorkersAssumption DEF Update, NextSlot
<1>7. CASE SleepInFlag \/ SwapLock \/ SwapExt
  BY <1>7 DEF SleepInFlag, SwapLock, SwapExt, NextSlot
<1>8. CASE SwapCur
  BY <1>1, <1>8 DEF SwapCur, NextSlot
<1> QED BY <1>3, <1>4, <1>5, <1>6, <1>7, <1>8 DEF Next, UpdaterStep

\* Whatever fails in a reload, no worker ever holds a slot that is not the
\* result of a whole Update, for any number of workers.
THEOREM WholeUpdatesOnly == Spec => []HandedOutWhole
<1>1. Init => FillInv /\ HandedOutWhole
  BY WorkersAssumption DEF Init, FillInv, HandedOutWhole, Slots
<1>2. IInv /\ FillInv /\ HandedOutWhole /\ [Next]_vars => FillInv' /\ HandedOutWhole'
  BY StepKeepsFill
<1> QED BY <1>1, <1>2, Invariant, PTL DEF Spec
=============================================================================
