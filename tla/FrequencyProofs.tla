--------------------------- MODULE FrequencyProofs ---------------------------
(* The frequency caps, for every number of threads and devices, every rule  *)
(* and any number of events, failures and crashes.                          *)
EXTENDS Frequency, FiniteSetTheorems, WellFoundedInduction, TLAPS

------------------------------------------------------------------------------
(* The commands of one event.                                               *)

\* The places of the commands of a level in Program, and the level of a place.
IncrAt(l) == IF l = "campaign" THEN 1 ELSE IF l = "creative" THEN 3 ELSE 5
SaddAt(l) == IF l = "campaign" THEN 7 ELSE IF l = "policy" THEN 9 ELSE 11
LevelAt(i) == Program[i][2]

LEMMA ProgramFacts ==
  /\ Len(Program) = 12
  /\ Program[1] = <<"incr", "campaign">> /\ Program[2] = <<"index", "campaign">>
  /\ Program[3] = <<"incr", "creative">> /\ Program[4] = <<"index", "creative">>
  /\ Program[5] = <<"incr", "policy">>   /\ Program[6] = <<"index", "policy">>
  /\ Program[7] = <<"sadd", "campaign">> /\ Program[8] = <<"expire", "campaign">>
  /\ Program[9] = <<"sadd", "policy">>   /\ Program[10] = <<"expire", "policy">>
  /\ Program[11] = <<"sadd", "creative">> /\ Program[12] = <<"expire", "creative">>
BY DEF Program

LEMMA LevelFacts ==
  ASSUME NEW i \in 1 .. 12, NEW l \in Levels
  PROVE  /\ LevelAt(i) \in Levels
         /\ IncrAt(l) \in 1 .. 5 /\ SaddAt(l) \in 7 .. 11
         /\ Program[i] = <<"incr", l>> <=> i = IncrAt(l)
         /\ Program[i] = <<"index", l>> <=> i = IncrAt(l) + 1
         /\ Program[i] = <<"sadd", l>> <=> i = SaddAt(l)
         /\ Program[i] = <<"expire", l>> <=> i = SaddAt(l) + 1
         /\ LevelAt(i) = l <=> i \in {IncrAt(l), IncrAt(l) + 1, SaddAt(l), SaddAt(l) + 1}
<1>1. i \in {1, 2, 3, 4, 5, 6, 7, 8, 9, 10, 11, 12}
  OBVIOUS
<1> QED BY <1>1, ProgramFacts DEF LevelAt, IncrAt, SaddAt, Levels

LEMMA CapPlaces ==
  \A i \in 1 .. 12, l \in Levels :
    /\ Program[i] = <<"sadd", l>> <=> i = SaddAt(l)
    /\ Program[i] = <<"expire", l>> <=> i = SaddAt(l) + 1
BY LevelFacts

\* A set of numbers has a smallest one: the order of the numbers is well-founded.
LEMMA LeastNumber ==
  ASSUME NEW js \in SUBSET Nat, js # {}
  PROVE  Min(js) \in js /\ \A j \in js : Min(js) <= j
<1>1. PICK x \in js : \A y \in js : ~(<<y, x>> \in OpToRel(<, Nat))
  BY NatLessThanWellFounded, WFMin
<1>2. \A y \in js : ~(y < x)
  BY <1>1 DEF OpToRel
<1>3. \E i \in js : \A j \in js : i <= j
  BY <1>2
<1> QED BY <1>3 DEF Min

\* A thread goes on with the next command of a level that applies, and passes
\* none of them.
LEMMA AfterFacts ==
  ASSUME NEW m, NEW i \in 0 .. 12
  PROVE  /\ After(m, i) \in 0 .. 12
         /\ After(m, i) # Idle =>
              After(m, i) > i /\ Applies(m, LevelAt(After(m, i)))
         /\ \A p \in i + 1 .. 12 : Applies(m, LevelAt(p)) =>
              After(m, i) # Idle /\ After(m, i) <= p
<1> DEFINE js == {j \in i + 1 .. 12 : Applies(m, LevelAt(j))}
<1>1. After(m, i) = IF js = {} THEN Idle ELSE Min(js)
  BY ProgramFacts DEF After, LevelAt
<1>2. js \in SUBSET Nat /\ js \subseteq i + 1 .. 12
  OBVIOUS
<1>3. CASE js = {}
  BY <1>1, <1>3 DEF Idle
<1>4. CASE js # {}
  <2>1. Min(js) \in js /\ \A j \in js : Min(js) <= j
    BY <1>2, <1>4, LeastNumber
  <2> HIDE DEF Applies
  <2> QED BY <1>1, <1>4, <2>1 DEF Idle
<1> QED BY <1>3, <1>4

\* Where a thread is, in numbers.
LEMMA Places ==
  ASSUME NEW t \in Threads, NEW l \in Levels, pc \in [Threads -> 0 .. Len(Program)]
  PROVE  /\ pc[t] \in 0 .. 12
         /\ At(t, "incr", l) <=> pc[t] = IncrAt(l)
         /\ At(t, "index", l) <=> pc[t] = IncrAt(l) + 1
         /\ At(t, "sadd", l) <=> pc[t] = SaddAt(l)
         /\ At(t, "expire", l) <=> pc[t] = SaddAt(l) + 1
         /\ Busy(t, l) <=> /\ pc[t] # Idle /\ Applies(ev[t].m, l)
                          /\ pc[t] <= SaddAt(l) + 1
<1>1. pc[t] \in 0 .. 12 /\ Idle = 0
  BY ProgramFacts DEF Idle
<1>2. IncrAt(l) \in 1 .. 5 /\ SaddAt(l) \in 7 .. 11
  BY LevelFacts
<1>3. CASE pc[t] = 0
  BY <1>1, <1>2, <1>3 DEF At, Busy
<1>4. CASE pc[t] # 0
  <2>1. pc[t] \in 1 .. 12
    BY <1>1, <1>4
  <2>2. /\ At(t, "incr", l) <=> pc[t] = IncrAt(l)
        /\ At(t, "index", l) <=> pc[t] = IncrAt(l) + 1
        /\ At(t, "sadd", l) <=> pc[t] = SaddAt(l)
        /\ At(t, "expire", l) <=> pc[t] = SaddAt(l) + 1
    BY <1>1, <1>4, <2>1, LevelFacts DEF At
  <2>3. (\E j \in pc[t] .. Len(Program) : Program[j] \in {"sadd", "expire"} \X {l})
          <=> pc[t] <= SaddAt(l) + 1
    <3>1. \A j \in 1 .. 12 : Program[j] \in {"sadd", "expire"} \X {l}
            <=> j = SaddAt(l) \/ j = SaddAt(l) + 1
      <4>1. \A x : x \in {"sadd", "expire"} \X {l}
              <=> x = <<"sadd", l>> \/ x = <<"expire", l>>
        OBVIOUS
      <4>2. \A j \in 1 .. 12 : /\ Program[j] = <<"sadd", l>> <=> j = SaddAt(l)
                               /\ Program[j] = <<"expire", l>> <=> j = SaddAt(l) + 1
        BY CapPlaces
      <4> QED BY <4>1, <4>2
    <3> QED BY <1>2, <2>1, <3>1, ProgramFacts
  <2> QED BY <1>1, <1>4, <2>2, <2>3 DEF Busy
<1> QED BY <1>3, <1>4

------------------------------------------------------------------------------
(* Periods and fields.                                                      *)

LEMMA Division ==
  ASSUME NEW u \in Nat, NEW p \in Nat, p # 0
  PROVE  /\ u \div p \in Nat
         /\ (u \div p) * p <= u
         /\ u < (u \div p + 1) * p
<1>1. u \div p >= 0
  OBVIOUS
<1>2. (u \div p) * p <= u
  OBVIOUS
<1>3. u < (u \div p + 1) * p
  OBVIOUS
<1> QED BY <1>1, <1>2, <1>3

\* The end of a period is not before the second it is asked for, it changes
\* only after its own second, and then to a later one.
LEMMA EndFacts ==
  ASSUME NEW c \in Controls, NEW s \in Nat
  PROVE  /\ EndAt(c, s) \in Nat
         /\ EndAt(c, s + 1) \in Nat
         /\ EndAt(c, s + 1) # EndAt(c, s) => EndAt(c, s) = s
         /\ EndAt(c, s) <= EndAt(c, s + 1)
         /\ c.period # 0 => s <= EndAt(c, s)
<1> DEFINE p == c.period
           q == s \div p
           q1 == (s + 1) \div p
<1>1. p \in Nat /\ c.endtime \in Nat
  BY DEF Controls
<1>2. CASE p = 0
  BY <1>1, <1>2 DEF EndAt
<1>3. CASE p # 0
  <2>1. /\ q \in Nat /\ q * p <= s /\ s < (q + 1) * p
        /\ q1 \in Nat /\ q1 * p <= s + 1 /\ s + 1 < (q1 + 1) * p
    <3>1. q \in Nat /\ q * p <= s /\ s < (q + 1) * p
      BY <1>1, <1>3, Division
    <3>2. q1 \in Nat /\ q1 * p <= s + 1 /\ s + 1 < (q1 + 1) * p
      <4>1. s + 1 \in Nat
        OBVIOUS
      <4> QED BY <4>1, <1>1, <1>3, Division
    <3> QED BY <3>1, <3>2
  <2>2. EndAt(c, s) = (q + 1) * p - 1 /\ EndAt(c, s + 1) = (q1 + 1) * p - 1
    BY <1>3 DEF EndAt
  <2> HIDE DEF p, q, q1
  <2>3. q1 = q \/ q1 = q + 1
    BY <1>1, <1>3, <2>1
  <2> QED BY <1>1, <1>3, <2>1, <2>2, <2>3 DEF p
<1> QED BY <1>2, <1>3

LEMMA FieldFacts ==
  TypeOK => \A l \in Levels :
    /\ Ctl(l) \in Controls
    /\ now \in Nat /\ End(l) \in Nat
    /\ Field(l) \in Fields
<1> SUFFICES ASSUME TypeOK, NEW l \in Levels
             PROVE  /\ Ctl(l) \in Controls
                    /\ now \in Nat /\ End(l) \in Nat
                    /\ Field(l) \in Fields
  OBVIOUS
<1>1. now \in 0 .. MaxTime /\ rule \in Rules /\ now \in Nat
  BY FrequencyAssumption DEF TypeOK
<1>2. Ctl(l) \in Controls
  BY <1>1, FrequencyAssumption DEF Ctl, RuleFor, Levels
<1>3. End(l) \in Nat
  BY <1>1, <1>2, EndFacts DEF End
<1>4. Field(l) \in Fields
  BY <1>1 DEF Field, Fields
<1> QED BY <1>1, <1>2, <1>3, <1>4

------------------------------------------------------------------------------
(* Types.                                                                   *)

\* A thread is only at commands of levels that apply to its event.
ActiveInv ==
  \A t \in Threads : pc[t] # Idle => Applies(ev[t].m, LevelAt(pc[t]))

\* What depends on the control data alone does not change, and what depends on
\* the clock changes only when a second passes.
LEMMA SameRule ==
  ASSUME rule' = rule, NEW l
  PROVE  /\ (Ctl(l))' = Ctl(l)
         /\ (Limits(l))' <=> Limits(l)
         /\ \A m : (Applies(m, l))' <=> Applies(m, l)
         /\ \A g : (Reached(g, l))' <=> Reached(g, l)
BY DEF Ctl, Limits, Applies, Reached

LEMMA SameTime ==
  ASSUME rule' = rule, now' = now, NEW l
  PROVE  (End(l))' = End(l) /\ (Field(l))' = Field(l)
BY DEF Ctl, End, Field

\* A thread that goes on: the others stay where they are, and it keeps its
\* event until it has none.
LEMMA GotoFacts ==
  ASSUME TypeOK, NEW t \in Threads, NEW j \in 0 .. 12, Goto(t, j), pc[t] # Idle
  PROVE  /\ pc' \in [Threads -> 0 .. 12]
         /\ ev' \in [Threads -> Events \cup {NoEvent}]
         /\ pc'[t] = j
         /\ \A s \in Threads : s # t => pc'[s] = pc[s] /\ ev'[s] = ev[s]
         /\ \A s \in Threads : pc'[s] # Idle => ev'[s] = ev[s] /\ ev'[s] \in Events
BY ProgramFacts DEF TypeOK, Goto

\* The commands of level l; o is not used by a cap that is not reached.
Command(t, l, o) ==
  Incr(t, l, o) \/ Index(t, l, o) \/ SAdd(t, l, o) \/ Expire(t, l, o) \/ NotReached(t, l)

LEMMA CommandFacts ==
  ASSUME TypeOK, ActiveInv, NEW t \in Threads, NEW l \in Levels, NEW o \in Outcomes,
         Command(t, l, o)
  PROVE  /\ now' = now /\ rule' = rule /\ events' = events /\ late' = late
         /\ pc[t] \in 1 .. 12 /\ ev[t] \in Events /\ Applies(ev[t].m, l)
         /\ pc' \in [Threads -> 0 .. 12]
         /\ ev' \in [Threads -> Events \cup {NoEvent}]
         /\ \A s \in Threads : s # t => pc'[s] = pc[s] /\ ev'[s] = ev[s]
         /\ \A s \in Threads : pc'[s] # Idle => ev'[s] = ev[s] /\ ev'[s] \in Events
         /\ pc'[t] # Idle => pc'[t] > pc[t] /\ Applies(ev[t].m, LevelAt(pc'[t]))
         /\ \A p \in pc[t] + 1 .. 12 : Applies(ev[t].m, LevelAt(p)) =>
              (pc'[t] # Idle /\ pc'[t] <= p) \/ p = SaddAt(l) + 1
<1> DEFINE i == pc[t]
           m == ev[t].m
<1>1. /\ now' = now /\ rule' = rule /\ events' = events /\ late' = late
  BY DEF Command, Incr, Index, SAdd, Expire, NotReached
<1>2. i \in 1 .. 12 /\ pc[t] # Idle /\ ev[t] \in Events
  <2>1. pc[t] # Idle
    BY DEF Command, Incr, Index, SAdd, Expire, NotReached, At
  <2> QED BY <2>1, ProgramFacts DEF TypeOK, Idle
<1>3. LevelAt(i) = l
  <2>1. \E op \in {"incr", "index", "sadd", "expire"} : Program[i] = <<op, l>>
    BY DEF Command, Incr, Index, SAdd, Expire, NotReached, At
  <2> QED BY <2>1 DEF LevelAt
<1>4. Applies(m, l)
  BY <1>2, <1>3 DEF ActiveInv
<1>5. CASE Goto(t, After(m, i))
  <2> DEFINE j == After(m, i)
  <2>1. /\ j \in 0 .. 12
        /\ j # Idle => j > i /\ Applies(m, LevelAt(j))
        /\ \A p \in i + 1 .. 12 : Applies(m, LevelAt(p)) => j # Idle /\ j <= p
    BY <1>2, AfterFacts
  <2> HIDE DEF j
  <2>2. /\ pc' \in [Threads -> 0 .. 12]
        /\ ev' \in [Threads -> Events \cup {NoEvent}]
        /\ pc'[t] = j
        /\ \A s \in Threads : s # t => pc'[s] = pc[s] /\ ev'[s] = ev[s]
        /\ \A s \in Threads : pc'[s] # Idle => ev'[s] = ev[s] /\ ev'[s] \in Events
    BY <1>2, <1>5, <2>1, GotoFacts DEF j
  <2> QED BY <1>1, <1>2, <1>4, <2>1, <2>2
<1>6. CASE i = SaddAt(l) /\ (Goto(t, i + 1) \/ Goto(t, After(m, i + 1)))
  <2>1. PICK j : Goto(t, j) /\ (j = i + 1 \/ j = After(m, i + 1))
    BY <1>6
  <2>2. i + 1 \in 1 .. 12 /\ LevelAt(i + 1) = l
    <3>1. SaddAt(l) \in 7 .. 11
      BY <1>2, LevelFacts
    <3>2. i + 1 \in 1 .. 12 /\ i + 1 = SaddAt(l) + 1
      BY <1>6, <3>1
    <3> QED BY <3>2, LevelFacts
  <2>3. /\ j \in 0 .. 12
        /\ j # Idle => j > i /\ Applies(m, LevelAt(j))
        /\ \A p \in i + 1 .. 12 : Applies(m, LevelAt(p)) =>
             (j # Idle /\ j <= p) \/ p = SaddAt(l) + 1
    <3>1. CASE j = i + 1
      BY <1>2, <1>4, <2>2, <3>1 DEF Idle
    <3>2. CASE j = After(m, i + 1)
      <4>1. i + 1 \in 0 .. 12
        BY <2>2
      <4>2. /\ j \in 0 .. 12
            /\ j # Idle => j > i + 1 /\ Applies(m, LevelAt(j))
            /\ \A p \in i + 1 + 1 .. 12 : Applies(m, LevelAt(p)) => j # Idle /\ j <= p
        BY <3>2, <4>1, AfterFacts
      <4> QED BY <1>2, <1>6, <4>2
    <3> QED BY <2>1, <3>1, <3>2
  <2>4. /\ pc' \in [Threads -> 0 .. 12]
        /\ ev' \in [Threads -> Events \cup {NoEvent}]
        /\ pc'[t] = j
        /\ \A s \in Threads : s # t => pc'[s] = pc[s] /\ ev'[s] = ev[s]
        /\ \A s \in Threads : pc'[s] # Idle => ev'[s] = ev[s] /\ ev'[s] \in Events
    BY <1>2, <2>1, <2>3, GotoFacts
  <2> QED BY <1>1, <1>2, <1>4, <2>3, <2>4
<1>7. (i = SaddAt(l) /\ (Goto(t, i + 1) \/ Goto(t, After(m, i + 1)))) \/ Goto(t, After(m, i))
  <2>1. CASE SAdd(t, l, o) \/ NotReached(t, l)
    <3>1. Program[i] = <<"sadd", l>>
      BY <2>1 DEF SAdd, NotReached, At
    <3>2. i = SaddAt(l)
      BY <1>2, <3>1, CapPlaces
    <3> QED BY <2>1, <3>2 DEF SAdd, NotReached
  <2> QED BY <2>1 DEF Command, Incr, Index, Expire
<1> QED BY <1>5, <1>6, <1>7

LEMMA NextCases ==
  ASSUME Next
  PROVE  \/ Tick \/ Crash
         \/ \E l \in Levels : ExpireSet(l)
         \/ \E t \in Threads, e \in Events : Begin(t, e)
         \/ \E t \in Threads, l \in Levels, o \in Outcomes : Command(t, l, o)
<1>1. "done" \in Outcomes
  BY DEF Outcomes
<1> QED BY <1>1 DEF Next, ThreadStep, Command

\* An event begins with the first command that applies to it.
LEMMA BeginFacts ==
  ASSUME TypeOK, NEW t \in Threads, NEW e \in Events, Begin(t, e)
  PROVE  /\ pc' \in [Threads -> 0 .. 12]
         /\ ev' \in [Threads -> Events \cup {NoEvent}]
         /\ pc[t] = Idle /\ ev'[t] = e
         /\ \A s \in Threads : s # t => pc'[s] = pc[s] /\ ev'[s] = ev[s]
         /\ pc'[t] # Idle /\ Applies(e.m, LevelAt(pc'[t]))
         /\ \A p \in 1 .. 12 : Applies(e.m, LevelAt(p)) => pc'[t] <= p
<1> DEFINE j == After(e.m, 0)
<1>1. /\ j \in 0 .. 12
      /\ j # Idle => Applies(e.m, LevelAt(j))
      /\ \A p \in 1 .. 12 : Applies(e.m, LevelAt(p)) => j <= p
  BY AfterFacts
<1> HIDE DEF j
<1>2. pc \in [Threads -> 0 .. 12] /\ ev \in [Threads -> Events \cup {NoEvent}]
  BY ProgramFacts DEF TypeOK
<1>3. /\ pc[t] = Idle /\ j # Idle
      /\ pc' = [pc EXCEPT ![t] = j] /\ ev' = [ev EXCEPT ![t] = e]
  BY DEF Begin, j
<1> QED BY <1>1, <1>2, <1>3

LEMMA InitType == Init => TypeOK /\ ActiveInv
<1> SUFFICES ASSUME Init PROVE TypeOK /\ ActiveInv
  OBVIOUS
<1>1. TypeOK
  <2>1. Nothing \in [Levels -> Nat] /\ Idle \in 0 .. Len(Program) /\ MaxTime \in Nat
    BY ProgramFacts, FrequencyAssumption DEF Nothing, Idle
  <2> QED BY <2>1 DEF Init, TypeOK
<1>2. ActiveInv
  BY DEF Init, ActiveInv
<1> QED BY <1>1, <1>2

LEMMA TypeStep == TypeOK /\ ActiveInv /\ [Next]_vars => TypeOK' /\ ActiveInv'
<1> SUFFICES ASSUME TypeOK, ActiveInv, [Next]_vars
             PROVE  TypeOK' /\ ActiveInv'
  OBVIOUS
<1> USE ProgramFacts
<1>f. \A l \in Levels : Field(l) \in Fields
  BY FieldFacts
<1>1. CASE UNCHANGED vars
  BY <1>1 DEF TypeOK, ActiveInv, vars, Applies, Limits, Ctl, LevelAt
<1>2. CASE Tick
  <2>1. now' \in 0 .. MaxTime /\ orphan' \subseteq Devices \X Fields
    BY <1>2, FrequencyAssumption DEF Tick, TypeOK
  <2>2. /\ hits' \in [Levels \X Devices -> Nat]
        /\ lost' \subseteq Levels \X Devices /\ stray' \subseteq Levels
    BY <1>2 DEF Tick, TypeOK
  <2>3. /\ rule' = rule /\ fc' = fc /\ del' = del /\ full' = full /\ ttl' = ttl
        /\ pc' = pc /\ ev' = ev /\ got' = got /\ events' = events /\ late' = late
        /\ fails' = fails /\ dropped' = dropped
    BY <1>2 DEF Tick, redis, thread
  <2> QED BY <2>1, <2>2, <2>3 DEF TypeOK, ActiveInv, Applies, Limits, Ctl, LevelAt
<1>3. CASE Crash
  <2>1. Cardinality({t \in Threads : pc[t] # Idle}) \in Nat
    BY FrequencyAssumption, FS_Subset, FS_CardinalityType
  <2>2. fails' \in Nat /\ dropped' \in Nat
    BY <1>3, <2>1 DEF Crash, TypeOK
  <2>3. /\ pc' \in [Threads -> 0 .. 12] /\ got' \in [Threads -> [Levels -> Nat]]
        /\ ev' \in [Threads -> Events \cup {NoEvent}]
        /\ \A t \in Threads : pc'[t] = Idle
    BY <1>3 DEF Crash, Idle, Nothing
  <2>4. /\ lost' \subseteq Levels \X Devices /\ stray' \subseteq Levels
        /\ orphan' \subseteq Devices \X Fields
    BY <1>3 DEF Crash, TypeOK
  <2>5. /\ rule' = rule /\ fc' = fc /\ del' = del /\ full' = full /\ ttl' = ttl
        /\ now' = now /\ events' = events /\ late' = late /\ hits' = hits
    BY <1>3 DEF Crash, redis
  <2>6. ActiveInv'
    BY <2>3 DEF ActiveInv
  <2> QED BY <2>2, <2>3, <2>4, <2>5, <2>6 DEF TypeOK
<1>4. CASE \E l \in Levels : ExpireSet(l)
  <2>1. full' \in [Levels -> SUBSET Devices] /\ ttl' \in [Levels -> Nat]
    BY <1>4 DEF ExpireSet, TypeOK
  <2>2. /\ rule' = rule /\ fc' = fc /\ del' = del /\ now' = now
        /\ pc' = pc /\ ev' = ev /\ got' = got /\ events' = events /\ late' = late
        /\ fails' = fails /\ history' = history
    BY <1>4 DEF ExpireSet, thread
  <2> QED BY <2>1, <2>2 DEF TypeOK, history, ActiveInv, Applies, Limits, Ctl, LevelAt
<1>5. CASE \E t \in Threads, e \in Events : Begin(t, e)
  <2>1. PICK t \in Threads, e \in Events : Begin(t, e)
    BY <1>5
  <2>2. /\ pc' \in [Threads -> 0 .. 12]
        /\ ev' \in [Threads -> Events \cup {NoEvent}]
        /\ ev'[t] = e
        /\ \A s \in Threads : s # t => pc'[s] = pc[s] /\ ev'[s] = ev[s]
        /\ pc'[t] # Idle /\ Applies(e.m, LevelAt(pc'[t]))
    BY <2>1, BeginFacts
  <2>3. /\ rule' = rule /\ fc' = fc /\ del' = del /\ full' = full /\ ttl' = ttl
        /\ now' = now /\ fails' = fails /\ history' = history
        /\ got' \in [Threads -> [Levels -> Nat]] /\ events' \in Nat /\ late' \in Nat
    BY <2>1 DEF Begin, TypeOK, Nothing, redis
  <2>4. ActiveInv'
    BY <2>2, <2>3, SameRule DEF ActiveInv, LevelAt
  <2> QED BY <2>2, <2>3, <2>4 DEF TypeOK, history
<1>6. CASE \E t \in Threads, l \in Levels, o \in Outcomes : Command(t, l, o)
  <2>1. PICK t \in Threads, l \in Levels, o \in Outcomes : Command(t, l, o)
    BY <1>6
  <2>2. /\ now' = now /\ rule' = rule /\ events' = events /\ late' = late
        /\ ev[t] \in Events
        /\ pc' \in [Threads -> 0 .. 12]
        /\ ev' \in [Threads -> Events \cup {NoEvent}]
        /\ \A s \in Threads : s # t => pc'[s] = pc[s] /\ ev'[s] = ev[s]
        /\ \A s \in Threads : pc'[s] # Idle => ev'[s] = ev[s] /\ ev'[s] \in Events
        /\ pc'[t] # Idle => Applies(ev[t].m, LevelAt(pc'[t]))
    BY <2>1, CommandFacts
  <2>3. ActiveInv'
    BY <2>2, SameRule DEF ActiveInv, LevelAt
  <2> DEFINE k == <<ev[t].dev, Field(l)>>
             h == <<l, ev[t].dev>>
  <2>4. k \in Devices \X Fields /\ h \in Levels \X Devices
    BY <1>f, <2>2 DEF Events
  <2> HIDE DEF k, h
  <2>5. fails' \in Nat /\ dropped' \in Nat
    BY <2>1 DEF Command, Incr, Index, SAdd, Expire, NotReached, Result, history, TypeOK
  <2>6. /\ fc' \in [Devices \X Fields -> Nat] /\ hits' \in [Levels \X Devices -> Nat]
        /\ got' \in [Threads -> [Levels -> Nat]]
    <3>1. CASE Incr(t, l, o)
      <4>1. /\ fc' = fc \/ fc' = [fc EXCEPT ![k] = @ + 1]
            /\ hits' = hits \/ hits' = [hits EXCEPT ![h] = @ + 1]
            /\ got' = got \/ got' = [got EXCEPT ![t][l] = fc[k] + 1]
        BY <3>1 DEF Incr, k, h
      <4>2. fc[k] + 1 \in Nat /\ hits[h] + 1 \in Nat
        BY <2>4 DEF TypeOK
      <4>3. fc' \in [Devices \X Fields -> Nat]
        BY <2>4, <4>1, <4>2 DEF TypeOK
      <4>4. hits' \in [Levels \X Devices -> Nat]
        BY <2>4, <4>1, <4>2 DEF TypeOK
      <4>5. got' \in [Threads -> [Levels -> Nat]]
        <5>1. got \in [Threads -> [Levels -> Nat]]
          BY DEF TypeOK
        <5>2. PICK n \in Nat : got' = got \/ got' = [got EXCEPT ![t][l] = n]
          BY <4>1, <4>2
        <5>3. CASE got' = [got EXCEPT ![t][l] = n]
          <6>1. [got[t] EXCEPT ![l] = n] \in [Levels -> Nat]
            BY <5>1
          <6>2. got' = [got EXCEPT ![t] = [got[t] EXCEPT ![l] = n]]
            BY <5>3
          <6> QED BY <5>1, <6>1, <6>2
        <5> QED BY <5>1, <5>2, <5>3
      <4> QED BY <4>3, <4>4, <4>5
    <3>2. CASE fc' = fc /\ hits' = hits /\ got' = got
      BY <3>2 DEF TypeOK
    <3> QED BY <2>1, <3>1, <3>2
         DEF Command, Index, SAdd, Expire, NotReached, redis, history
  <2>7. /\ lost' \subseteq Levels \X Devices /\ stray' \subseteq Levels
        /\ del' \subseteq Devices \X Fields /\ orphan' \subseteq Devices \X Fields
    <3>1. /\ lost' = lost \/ lost' = lost \cup {h}
          /\ stray' = stray \/ stray' = stray \cup {l}
          /\ del' = del \/ del' = del \cup {k}
          /\ orphan' = orphan \/ orphan' = orphan \cup {k}
      BY <2>1 DEF Command, Incr, Index, SAdd, Expire, NotReached, history, redis, k, h
    <3> QED BY <2>4, <3>1 DEF TypeOK
  <2>8. full' \in [Levels -> SUBSET Devices] /\ ttl' \in [Levels -> Nat]
    <3>1. \/ full' = full \/ full' = [full EXCEPT ![l] = {}]
          \/ full' = [full EXCEPT ![l] = @ \cup {ev[t].dev}]
      BY <2>1 DEF Command, Incr, Index, SAdd, Expire, ExpireCommand, NotReached, redis
    <3>2. ttl' = ttl \/ ttl' = [ttl EXCEPT ![l] = 0] \/ ttl' = [ttl EXCEPT ![l] = End(l)]
      BY <2>1 DEF Command, Incr, Index, SAdd, Expire, ExpireCommand, NotReached, redis
    <3>3. End(l) \in Nat
      BY FieldFacts
    <3>4. full \in [Levels -> SUBSET Devices] /\ ev[t].dev \in Devices
      BY <2>2 DEF TypeOK, Events
    <3>5. full' \in [Levels -> SUBSET Devices]
      BY <3>1, <3>4
    <3>6. ttl' \in [Levels -> Nat]
      <4>1. ttl \in [Levels -> Nat]
        BY DEF TypeOK
      <4>2. PICK n \in Nat : ttl' = ttl \/ ttl' = [ttl EXCEPT ![l] = n]
        BY <3>2, <3>3
      <4> QED BY <4>1, <4>2
    <3> QED BY <3>5, <3>6
  <2> QED BY <2>2, <2>3, <2>5, <2>6, <2>7, <2>8 DEF TypeOK
<1> QED BY <1>1, <1>2, <1>3, <1>4, <1>5, <1>6, NextCases

\* Every variable keeps its type, whatever fails, and a thread runs only the
\* commands of levels whose cap is about its kind of event.
THEOREM TypeCorrect == Spec => [](TypeOK /\ ActiveInv)
BY InitType, TypeStep, PTL DEF Spec

------------------------------------------------------------------------------
(* The index of the counters.                                               *)

\* After a counter the thread writes its index entry, and nothing else.
LEMMA IncrNext ==
  ASSUME TypeOK, ActiveInv, NEW t \in Threads, NEW l \in Levels, NEW o \in Outcomes,
         Incr(t, l, o)
  PROVE  /\ pc[t] = IncrAt(l)
         /\ pc'[t] = IncrAt(l) + 1
         /\ pc'[t] # Idle /\ Program[pc'[t]] = <<"index", l>>
         /\ ev'[t] = ev[t]
<1>1. Command(t, l, o) /\ Program[pc[t]] = <<"incr", l>>
  BY DEF Command, Incr, At
<1>2. /\ pc[t] \in 1 .. 12 /\ Applies(ev[t].m, l)
      /\ pc' \in [Threads -> 0 .. 12]
      /\ \A s \in Threads : pc'[s] # Idle => ev'[s] = ev[s]
      /\ pc'[t] # Idle => pc'[t] > pc[t]
      /\ \A p \in pc[t] + 1 .. 12 : Applies(ev[t].m, LevelAt(p)) =>
           (pc'[t] # Idle /\ pc'[t] <= p) \/ p = SaddAt(l) + 1
  BY <1>1, CommandFacts
<1>3. pc[t] = IncrAt(l)
  BY <1>1, <1>2, LevelFacts
<1>4. IncrAt(l) \in 1 .. 5 /\ SaddAt(l) \in 7 .. 11
  BY <1>2, LevelFacts
<1> DEFINE p == IncrAt(l) + 1
<1>5. p \in 1 .. 12 /\ p \in pc[t] + 1 .. 12 /\ p # SaddAt(l) + 1
  BY <1>3, <1>4
<1>6. Program[p] = <<"index", l>> /\ LevelAt(p) = l
  BY <1>5, LevelFacts
<1>7. pc'[t] # Idle /\ pc'[t] <= p
  BY <1>2, <1>5, <1>6
<1>8. pc'[t] = p
  BY <1>2, <1>3, <1>4, <1>7
<1> QED BY <1>2, <1>3, <1>6, <1>7, <1>8

LEMMA IndexStep ==
  TypeOK /\ ActiveInv /\ CountersAreIndexed /\ [Next]_vars => CountersAreIndexed'
<1> SUFFICES ASSUME TypeOK, ActiveInv, CountersAreIndexed, [Next]_vars,
                    NEW k \in Devices \X Fields, fc'[k] # 0, k \notin del' \cup orphan'
             PROVE  \E t \in Threads, l \in Levels :
                      (At(t, "index", l))' /\ k = <<ev'[t].dev, (Field(l))'>>
  BY DEF CountersAreIndexed
<1> DEFINE W(t, l) == At(t, "index", l) /\ k = <<ev[t].dev, Field(l)>>
<1>w. ASSUME fc[k] # 0, k \notin del, k \notin orphan
      PROVE  \E t \in Threads, l \in Levels : W(t, l)
  BY <1>w DEF CountersAreIndexed
<1>1. CASE UNCHANGED vars
  BY <1>1, <1>w DEF vars, At, Field
<1>2. CASE Tick
  <2>1. /\ rule' = rule /\ fc' = fc /\ del' = del /\ pc' = pc /\ ev' = ev
        /\ now' = now + 1 /\ orphan \subseteq orphan'
    BY <1>2 DEF Tick, redis, thread
  <2>2. PICK t \in Threads, l \in Levels : W(t, l)
    BY <1>w, <2>1
  <2>3. EndAt(Ctl(l), now + 1) = End(l)
    BY <1>2, <2>2 DEF Tick
  <2>4. (Field(l))' = Field(l)
    BY <2>1, <2>3 DEF Field, FieldAt, End, Ctl
  <2> QED BY <2>1, <2>2, <2>4 DEF At
<1>3. CASE Crash
  <2>1. fc' = fc /\ del' = del /\ orphan \subseteq orphan'
    BY <1>3 DEF Crash, redis
  <2>2. PICK t \in Threads, l \in Levels : W(t, l)
    BY <1>w, <2>1
  <2> QED BY <1>3, <2>2 DEF Crash
<1>4. CASE \E l \in Levels : ExpireSet(l)
  <2>1. /\ rule' = rule /\ fc' = fc /\ del' = del /\ pc' = pc /\ ev' = ev
        /\ now' = now /\ orphan' = orphan
    BY <1>4 DEF ExpireSet, thread, history
  <2> QED BY <1>w, <2>1 DEF At, Field
<1>5. CASE \E t \in Threads, e \in Events : Begin(t, e)
  <2>1. PICK t \in Threads, e \in Events : Begin(t, e)
    BY <1>5
  <2>2. pc[t] = Idle /\ \A s \in Threads : s # t => pc'[s] = pc[s] /\ ev'[s] = ev[s]
    BY <2>1, BeginFacts
  <2>3. rule' = rule /\ fc' = fc /\ del' = del /\ now' = now /\ orphan' = orphan
    BY <2>1 DEF Begin, redis, history
  <2>4. PICK s \in Threads, l \in Levels : W(s, l)
    BY <1>w, <2>3
  <2>5. pc'[s] = pc[s] /\ ev'[s] = ev[s] /\ (Field(l))' = Field(l)
    BY <2>2, <2>3, <2>4 DEF At, Field
  <2> QED BY <2>4, <2>5 DEF At
<1>6. CASE \E t \in Threads, l \in Levels, o \in Outcomes : Command(t, l, o)
  <2>1. PICK t \in Threads, l \in Levels, o \in Outcomes : Command(t, l, o)
    BY <1>6
  <2>2. /\ now' = now /\ rule' = rule
        /\ \A s \in Threads : s # t => pc'[s] = pc[s] /\ ev'[s] = ev[s]
    BY <2>1, CommandFacts
  <2>3. \A c \in Levels : (Field(c))' = Field(c)
    BY <2>2, SameTime
  \* A witness other than the thread that moves is still one.
  <2>4. ASSUME NEW s \in Threads, NEW c \in Levels, W(s, c), s # t
        PROVE  (At(s, "index", c))' /\ k = <<ev'[s].dev, (Field(c))'>>
    BY <2>2, <2>3, <2>4 DEF At
  <2>5. CASE Incr(t, l, o)
    <3>1. /\ Program[pc'[t]] = <<"index", l>> /\ pc'[t] # Idle /\ ev'[t] = ev[t]
          /\ Program[pc[t]] = <<"incr", l>>
      BY <2>5, IncrNext DEF Incr, At
    <3>2. CASE k = <<ev[t].dev, Field(l)>>
      BY <2>3, <3>1, <3>2 DEF At
    <3>3. CASE k # <<ev[t].dev, Field(l)>>
      <4>1. fc'[k] = fc[k] /\ del' = del /\ orphan' = orphan
        <5>1. fc \in [Devices \X Fields -> Nat]
          BY DEF TypeOK
        <5> QED BY <2>5, <3>3, <5>1 DEF Incr
      <4>2. PICK s \in Threads, c \in Levels : W(s, c)
        BY <1>w, <4>1
      <4>3. s # t
        BY <3>1, <4>2 DEF At
      <4> QED BY <2>4, <4>2, <4>3
    <3> QED BY <3>2, <3>3
  <2>6. CASE Index(t, l, o)
    <3>1. /\ fc' = fc /\ del \subseteq del' /\ orphan \subseteq orphan'
          /\ <<ev[t].dev, Field(l)>> \in del' \cup orphan'
          /\ Program[pc[t]] = <<"index", l>>
      BY <2>6 DEF Index, At
    <3>2. PICK s \in Threads, c \in Levels : W(s, c)
      BY <1>w, <3>1
    <3>3. s # t
      BY <3>1, <3>2 DEF At
    <3> QED BY <2>4, <3>2, <3>3
  <2>7. CASE SAdd(t, l, o) \/ Expire(t, l, o) \/ NotReached(t, l)
    <3>1. /\ fc' = fc /\ del' = del /\ orphan' = orphan
          /\ Program[pc[t]] \in {<<"sadd", l>>, <<"expire", l>>}
      BY <2>7 DEF SAdd, Expire, NotReached, At, redis, history
    <3>2. PICK s \in Threads, c \in Levels : W(s, c)
      BY <1>w, <3>1
    <3>3. s # t
      BY <3>1, <3>2 DEF At
    <3> QED BY <2>4, <3>2, <3>3
  <2> QED BY <2>1, <2>5, <2>6, <2>7 DEF Command
<1> QED BY <1>1, <1>2, <1>3, <1>4, <1>5, <1>6, NextCases

\* A counter that was ever written is listed in the set of its own last second,
\* or a thread is about to list it there; what is missing was refused, died
\* with the process, or the clock left its period before SADD del_(end).
THEOREM CountersStayIndexed == Spec => []CountersAreIndexed
<1>1. Init => CountersAreIndexed
  BY DEF Init, CountersAreIndexed
<1> QED BY <1>1, InitType, TypeStep, IndexStep, PTL DEF Spec

------------------------------------------------------------------------------
(* What the counters, the sets and the threads know of each other.          *)

\* The field of this period counted every event of this period.
CountInv ==
  \A l \in Levels, d \in Devices : hits[<<l, d>>] <= fc[<<d, Field(l)>>]

\* A set expires in the last second of this period.
TtlInv == \A l \in Levels : ttl[l] # 0 => ttl[l] = End(l)

\* A thread that has yet to count knows of no count.
GotInv ==
  \A t \in Threads, l \in Levels :
    pc[t] # Idle /\ pc[t] <= IncrAt(l) => got[t][l] = 0

BaseInv == TypeOK /\ ActiveInv /\ CountInv /\ TtlInv /\ GotInv

LEMMA BaseInit == Init => BaseInv
<1> SUFFICES ASSUME Init PROVE BaseInv
  OBVIOUS
<1>1. TypeOK /\ ActiveInv
  BY InitType
<1>2. \A l \in Levels : Field(l) \in Fields
  BY <1>1, FieldFacts
<1>3. CountInv
  BY <1>2 DEF Init, CountInv
<1> QED BY <1>1, <1>3 DEF Init, BaseInv, TtlInv, GotInv

\* A second that ends no period of a level changes neither the end nor the
\* field of the level.
LEMMA TickFacts ==
  ASSUME TypeOK, Tick, NEW l \in Levels
  PROVE  /\ now' = now + 1 /\ rule' = rule
         /\ EndAt(Ctl(l), now + 1) = (End(l))'
         /\ (End(l))' # End(l) => End(l) = now
         /\ End(l) <= (End(l))'
         /\ (End(l))' = End(l) => (Field(l))' = Field(l)
         /\ \A d \in Devices :
              hits'[<<l, d>>] = IF (End(l))' # End(l) THEN 0 ELSE hits[<<l, d>>]
<1>1. now' = now + 1 /\ rule' = rule
  BY DEF Tick
<1>2. Ctl(l) \in Controls /\ now \in Nat
  BY FieldFacts
<1>3. EndAt(Ctl(l), now + 1) = (End(l))'
  BY <1>1 DEF End, Ctl
<1>4. /\ (End(l))' # End(l) => End(l) = now
      /\ End(l) <= (End(l))'
  BY <1>2, <1>3, EndFacts DEF End
<1>5. (End(l))' = End(l) => (Field(l))' = Field(l)
  BY <1>1, <1>3 DEF Field, FieldAt, End, Ctl
<1>6. \A d \in Devices :
        hits'[<<l, d>>] = IF (End(l))' # End(l) THEN 0 ELSE hits[<<l, d>>]
  BY <1>3 DEF Tick
<1> QED BY <1>1, <1>3, <1>4, <1>5, <1>6

\* What an increment does to the counters: the field counts more than the
\* events of this period, and the thread learns what it counts.
LEMMA IncrFacts ==
  ASSUME BaseInv, NEW t \in Threads, NEW l \in Levels, NEW o \in Outcomes,
         Incr(t, l, o)
  PROVE  LET d == ev[t].dev IN
         /\ d \in Devices
         /\ \A c \in Levels, x \in Devices : <<c, x>> # <<l, d>> =>
              hits'[<<c, x>>] = hits[<<c, x>>]
         /\ hits'[<<l, d>>] = IF o = "refused" THEN hits[<<l, d>>] ELSE hits[<<l, d>>] + 1
         /\ \A k \in Devices \X Fields : fc[k] <= fc'[k]
         /\ \A k \in Devices \X Fields : k # <<d, Field(l)>> => fc'[k] = fc[k]
         /\ fc'[<<d, Field(l)>>] = IF o = "refused" THEN fc[<<d, Field(l)>>]
                                   ELSE fc[<<d, Field(l)>>] + 1
         /\ got'[t][l] = IF o = "done" THEN fc[<<d, Field(l)>>] + 1 ELSE got[t][l]
         /\ \A c \in Levels : c # l => got'[t][c] = got[t][c]
         /\ \A s \in Threads : s # t => got'[s] = got[s]
<1> DEFINE d == ev[t].dev
           k0 == <<d, Field(l)>>
           h0 == <<l, d>>
<1>1. ev[t] \in Events
  BY DEF BaseInv, TypeOK, Incr, At
<1>2. d \in Devices /\ k0 \in Devices \X Fields /\ h0 \in Levels \X Devices
  BY <1>1, FieldFacts DEF Events, BaseInv
<1>3. /\ fc \in [Devices \X Fields -> Nat] /\ hits \in [Levels \X Devices -> Nat]
      /\ got \in [Threads -> [Levels -> Nat]]
  BY DEF BaseInv, TypeOK
<1>4. /\ fc' = IF o = "refused" THEN fc ELSE [fc EXCEPT ![k0] = @ + 1]
      /\ hits' = IF o = "refused" THEN hits ELSE [hits EXCEPT ![h0] = @ + 1]
      /\ got' = IF o = "done" THEN [got EXCEPT ![t][l] = fc[k0] + 1] ELSE got
  BY DEF Incr
<1> HIDE DEF k0, h0
<1>5. /\ \A h \in Levels \X Devices : h # h0 => hits'[h] = hits[h]
      /\ hits'[h0] = IF o = "refused" THEN hits[h0] ELSE hits[h0] + 1
  BY <1>2, <1>3, <1>4
<1>6. /\ \A k \in Devices \X Fields : fc[k] <= fc'[k]
      /\ \A k \in Devices \X Fields : k # k0 => fc'[k] = fc[k]
      /\ fc'[k0] = IF o = "refused" THEN fc[k0] ELSE fc[k0] + 1
  BY <1>2, <1>3, <1>4
<1>7. /\ got'[t][l] = IF o = "done" THEN fc[k0] + 1 ELSE got[t][l]
      /\ \A c \in Levels : c # l => got'[t][c] = got[t][c]
      /\ \A s \in Threads : s # t => got'[s] = got[s]
  BY <1>3, <1>4
<1>8. \A c \in Levels, x \in Devices : <<c, x>> # <<l, d>> =>
              hits'[<<c, x>>] = hits[<<c, x>>]
  BY <1>5 DEF h0
<1> QED BY <1>2, <1>5, <1>6, <1>7, <1>8 DEF k0, h0

\* It changes no other count, and what no other thread knows.
LEMMA IncrElsewhere ==
  ASSUME BaseInv, NEW t \in Threads, NEW l \in Levels, NEW o \in Outcomes,
         Incr(t, l, o), NEW c \in Levels, NEW x \in Devices,
         c # l \/ x # ev[t].dev
  PROVE  hits'[<<c, x>>] = hits[<<c, x>>]
<1>1. hits \in [Levels \X Devices -> Nat]
  BY DEF BaseInv, TypeOK
<1>2. hits' = hits \/ hits' = [hits EXCEPT ![<<l, ev[t].dev>>] = @ + 1]
  BY DEF Incr
<1> QED BY <1>1, <1>2

LEMMA IncrKeepsGot ==
  ASSUME BaseInv, NEW t \in Threads, NEW l \in Levels, NEW o \in Outcomes,
         Incr(t, l, o), NEW s \in Threads, NEW c \in Levels,
         s # t \/ c # l \/ o # "done"
  PROVE  got'[s][c] = got[s][c]
<1>1. got \in [Threads -> [Levels -> Nat]]
  BY DEF BaseInv, TypeOK
<1>2. \/ got' = got
      \/ o = "done" /\ got' = [got EXCEPT ![t][l] = fc[<<ev[t].dev, Field(l)>>] + 1]
  BY DEF Incr
<1> QED BY <1>1, <1>2

LEMMA CountStep == BaseInv /\ [Next]_vars => CountInv'
<1> SUFFICES ASSUME BaseInv, [Next]_vars, NEW l \in Levels, NEW d \in Devices
             PROVE  hits'[<<l, d>>] <= fc'[<<d, (Field(l))'>>]
  BY DEF CountInv
<1>t. TypeOK /\ ActiveInv /\ Field(l) \in Fields
  BY FieldFacts DEF BaseInv
<1>h. /\ hits[<<l, d>>] \in Nat /\ fc[<<d, Field(l)>>] \in Nat
      /\ hits[<<l, d>>] <= fc[<<d, Field(l)>>]
  BY <1>t DEF TypeOK, BaseInv, CountInv
<1>1. CASE hits' = hits /\ fc' = fc /\ rule' = rule /\ now' = now
  BY <1>1, <1>h, SameTime
<1>2. CASE Tick
  <2>1. /\ (End(l))' = End(l) => (Field(l))' = Field(l)
        /\ hits'[<<l, d>>] = IF (End(l))' # End(l) THEN 0 ELSE hits[<<l, d>>]
    BY <1>2, <1>t, TickFacts
  <2>2. CASE (End(l))' = End(l)
    BY <1>2, <1>h, <2>1, <2>2 DEF Tick, redis
  <2>3. CASE (End(l))' # End(l)
    <3>1. TypeOK'
      BY <1>t, TypeStep
    <3>2. (Field(l))' \in Fields
      BY <1>2, <3>1 DEF TypeOK, Field, Fields
    <3>3. fc'[<<d, (Field(l))'>>] \in Nat
      BY <3>1, <3>2 DEF TypeOK
    <3> QED BY <2>1, <2>3, <3>3
  <2> QED BY <2>2, <2>3
<1>3. CASE \E t \in Threads, c \in Levels, o \in Outcomes : Incr(t, c, o)
  <2>1. PICK t \in Threads, c \in Levels, o \in Outcomes : Incr(t, c, o)
    BY <1>3
  <2> DEFINE x == ev[t].dev
  <2>2. /\ <<l, d>> # <<c, x>> => hits'[<<l, d>>] = hits[<<l, d>>]
        /\ hits'[<<c, x>>] = IF o = "refused" THEN hits[<<c, x>>] ELSE hits[<<c, x>>] + 1
        /\ \A k \in Devices \X Fields : fc[k] <= fc'[k]
        /\ fc'[<<x, Field(c)>>] = IF o = "refused" THEN fc[<<x, Field(c)>>]
                                   ELSE fc[<<x, Field(c)>>] + 1
    BY <2>1, IncrFacts
  <2>3. (Field(l))' = Field(l)
    BY <2>1, SameTime DEF Incr
  <2>4. CASE <<l, d>> = <<c, x>>
    BY <1>h, <2>2, <2>3, <2>4
  <2>5. CASE <<l, d>> # <<c, x>>
    <3>1. fc'[<<d, Field(l)>>] >= fc[<<d, Field(l)>>] /\ fc'[<<d, Field(l)>>] \in Nat
      <4>1. TypeOK'
        BY <1>t, TypeStep
      <4> QED BY <1>t, <1>h, <2>2, <4>1 DEF TypeOK
    <3> QED BY <1>h, <2>2, <2>3, <2>5, <3>1
  <2> QED BY <2>4, <2>5
<1>4. \/ hits' = hits /\ fc' = fc /\ rule' = rule /\ now' = now
      \/ Tick
      \/ \E t \in Threads, c \in Levels, o \in Outcomes : Incr(t, c, o)
  BY NextCases DEF vars, Crash, ExpireSet, Begin, Command, Index, SAdd, Expire, NotReached,
                   redis, history
<1> QED BY <1>1, <1>2, <1>3, <1>4

LEMMA TtlStep == BaseInv /\ [Next]_vars => TtlInv'
<1> SUFFICES ASSUME BaseInv, [Next]_vars, NEW l \in Levels, ttl'[l] # 0
             PROVE  ttl'[l] = (End(l))'
  BY DEF TtlInv
<1>t. TypeOK /\ End(l) \in Nat /\ now \in Nat /\ ttl \in [Levels -> Nat]
  BY FieldFacts DEF BaseInv, TypeOK
<1>h. ttl[l] # 0 => ttl[l] = End(l)
  BY DEF BaseInv, TtlInv
<1>1. CASE Tick
  <2>1. ttl' = ttl /\ (ttl[l] # 0 => ttl[l] > now)
    BY <1>1 DEF Tick, redis
  <2>2. (End(l))' # End(l) => End(l) = now
    BY <1>1, <1>t, TickFacts
  <2> QED BY <1>t, <1>h, <2>1, <2>2
<1>2. CASE /\ now' = now /\ rule' = rule
           /\ ttl' = ttl \/ \E c \in Levels : \/ ttl' = [ttl EXCEPT ![c] = 0]
                                              \/ ttl' = [ttl EXCEPT ![c] = End(c)]
  <2>1. (End(l))' = End(l)
    BY <1>2, SameTime
  <2> QED BY <1>2, <1>t, <1>h, <2>1
<1>3. Tick \/ /\ now' = now /\ rule' = rule
              /\ ttl' = ttl \/ \E c \in Levels : \/ ttl' = [ttl EXCEPT ![c] = 0]
                                                 \/ ttl' = [ttl EXCEPT ![c] = End(c)]
  <2>1. CASE \E t \in Threads, c \in Levels, o \in Outcomes : Expire(t, c, o)
    BY <2>1 DEF Expire, ExpireCommand
  <2>2. CASE \E c \in Levels : ExpireSet(c)
    BY <2>2 DEF ExpireSet
  <2>3. CASE UNCHANGED vars \/ Crash \/ \E t \in Threads, e \in Events : Begin(t, e)
    BY <2>3 DEF vars, Crash, Begin, redis
  <2>4. CASE \E t \in Threads, c \in Levels, o \in Outcomes :
               Incr(t, c, o) \/ Index(t, c, o) \/ SAdd(t, c, o) \/ NotReached(t, c)
    BY <2>4 DEF Incr, Index, SAdd, NotReached, redis
  <2> QED BY <2>1, <2>2, <2>3, <2>4, NextCases DEF Command
<1> QED BY <1>1, <1>2, <1>3

LEMMA GotStep == BaseInv /\ [Next]_vars => GotInv'
<1> SUFFICES ASSUME BaseInv, [Next]_vars, NEW t \in Threads, NEW l \in Levels,
                    pc'[t] # Idle, pc'[t] <= IncrAt(l)
             PROVE  got'[t][l] = 0
  BY DEF GotInv
<1>t. TypeOK /\ ActiveInv /\ got \in [Threads -> [Levels -> Nat]]
  BY DEF BaseInv, TypeOK
<1>h. pc[t] # Idle /\ pc[t] <= IncrAt(l) => got[t][l] = 0
  BY DEF BaseInv, GotInv
<1>1. CASE pc' = pc /\ got' = got
  BY <1>1, <1>h
<1>2. CASE Crash
  BY <1>2 DEF Crash
<1>3. CASE \E s \in Threads, e \in Events : Begin(s, e)
  <2>1. PICK s \in Threads, e \in Events : Begin(s, e)
    BY <1>3
  <2>2. got' = [got EXCEPT ![s] = Nothing]
    BY <2>1 DEF Begin
  <2>3. CASE s = t
    BY <1>t, <2>2, <2>3 DEF Nothing
  <2>4. CASE s # t
    <3>1. pc'[t] = pc[t]
      BY <1>t, <2>1, <2>4, BeginFacts
    <3> QED BY <1>t, <1>h, <2>2, <2>4, <3>1
  <2> QED BY <2>3, <2>4
<1>4. CASE \E s \in Threads, c \in Levels, o \in Outcomes : Command(s, c, o)
  <2>1. PICK s \in Threads, c \in Levels, o \in Outcomes : Command(s, c, o)
    BY <1>4
  <2>2. /\ \A u \in Threads : u # s => pc'[u] = pc[u]
        /\ pc'[s] # Idle => pc'[s] > pc[s]
        /\ pc[s] \in 1 .. 12 /\ pc' \in [Threads -> 0 .. 12]
    BY <1>t, <2>1, CommandFacts
  <2>3. IncrAt(l) \in 1 .. 5
    BY <2>2, LevelFacts
  <2>4. pc[t] # Idle /\ pc[t] <= IncrAt(l) /\ (s = t => pc[t] < IncrAt(l))
    BY <2>2, <2>3 DEF Idle
  <2>5. CASE Incr(s, c, o)
    <3>1. s # t \/ c # l => got'[t][l] = got[t][l]
      BY <2>5, IncrKeepsGot
    <3>2. pc[s] = IncrAt(c)
      BY <1>t, <2>5, IncrNext
    <3>3. s = t => c # l
      BY <2>2, <2>3, <2>4, <3>2
    <3> QED BY <1>h, <2>4, <3>1, <3>3
  <2>6. CASE ~Incr(s, c, o)
    <3>1. got' = got
      BY <2>1, <2>6 DEF Command, Index, SAdd, Expire, NotReached
    <3> QED BY <1>h, <2>4, <3>1
  <2> QED BY <2>5, <2>6
<1>5. CASE \E c \in Levels : ExpireSet(c)
  BY <1>5, <1>1 DEF ExpireSet, thread
<1>6. CASE Tick \/ UNCHANGED vars
  BY <1>6, <1>1 DEF Tick, thread, vars
<1> QED BY <1>2, <1>3, <1>4, <1>5, <1>6, NextCases

LEMMA BaseStep == BaseInv /\ [Next]_vars => BaseInv'
<1>1. BaseInv /\ [Next]_vars => TypeOK' /\ ActiveInv'
  BY TypeStep DEF BaseInv
<1> QED BY <1>1, CountStep, TtlStep, GotStep DEF BaseInv

------------------------------------------------------------------------------
(* Who reached the cap is capped.                                           *)

\* The thread knows that the cap is reached, and has yet to say so.
WillCap(t, l, d) ==
  /\ pc[t] # Idle /\ ev[t].dev = d
  /\ Applies(ev[t].m, l) /\ Reached(got[t][l], l)
  /\ pc[t] <= SaddAt(l)

\* A device that reached the cap is in the set, or will be put there.
ReachInv ==
  \A l \in Levels, d \in Devices :
    /\ Limits(l) /\ now < End(l)
    /\ hits[<<l, d>>] # 0 /\ Reached(hits[<<l, d>>], l)
    /\ <<l, d>> \notin lost
    => d \in full[l] \/ \E t \in Threads : WillCap(t, l, d)

LEMMA WillCapIsBusy ==
  ASSUME TypeOK, NEW t \in Threads, NEW l \in Levels, NEW d, WillCap(t, l, d)
  PROVE  Busy(t, l) /\ ev[t].dev = d
<1>1. pc \in [Threads -> 0 .. Len(Program)]
  BY DEF TypeOK
<1>2. /\ pc[t] \in 0 .. 12
      /\ Busy(t, l) <=> /\ pc[t] # Idle /\ Applies(ev[t].m, l)
                        /\ pc[t] <= SaddAt(l) + 1
  BY <1>1, Places
<1>3. SaddAt(l) \in 7 .. 11
  BY DEF SaddAt
<1>4. /\ pc[t] # Idle /\ ev[t].dev = d /\ Applies(ev[t].m, l)
      /\ pc[t] <= SaddAt(l)
  BY DEF WillCap
<1> QED BY <1>2, <1>3, <1>4

\* A command of one level takes from no thread what it knows of another level.
LEMMA KeepCap ==
  ASSUME BaseInv, NEW t \in Threads, NEW l \in Levels, NEW o \in Outcomes,
         Command(t, l, o),
         NEW s \in Threads, NEW c \in Levels, NEW d \in Devices, WillCap(s, c, d),
         s = t /\ c = l => Index(t, l, o)
  PROVE  (WillCap(s, c, d))'
<1>t. TypeOK /\ ActiveInv
  BY DEF BaseInv
<1>1. /\ now' = now /\ rule' = rule
      /\ pc[t] \in 1 .. 12
      /\ \A u \in Threads : u # t => pc'[u] = pc[u] /\ ev'[u] = ev[u]
      /\ \A u \in Threads : pc'[u] # Idle => ev'[u] = ev[u]
      /\ \A p \in pc[t] + 1 .. 12 : Applies(ev[t].m, LevelAt(p)) =>
           (pc'[t] # Idle /\ pc'[t] <= p) \/ p = SaddAt(l) + 1
  BY <1>t, CommandFacts
<1>2. /\ \A m : (Applies(m, c))' <=> Applies(m, c)
      /\ \A g : (Reached(g, c))' <=> Reached(g, c)
  BY <1>1, SameRule
<1>3. /\ pc[s] # Idle /\ ev[s].dev = d
      /\ Applies(ev[s].m, c) /\ Reached(got[s][c], c)
      /\ pc[s] <= SaddAt(c)
  BY DEF WillCap
<1>4. got'[s][c] = got[s][c]
  <2>1. CASE Incr(t, l, o)
    <3>1. ~Index(t, l, o)
      BY <2>1 DEF Incr, Index, At
    <3>2. s # t \/ c # l => got'[s][c] = got[s][c]
      BY <2>1, IncrKeepsGot
    <3> QED BY <3>1, <3>2
  <2>2. CASE ~Incr(t, l, o)
    BY <2>2 DEF Command, Index, SAdd, Expire, NotReached
  <2> QED BY <2>1, <2>2
<1>5. CASE s # t
  BY <1>1, <1>2, <1>3, <1>4, <1>5 DEF WillCap
<1>6. CASE s = t
  <2> DEFINE p == SaddAt(c)
  <2>1. p \in 7 .. 11 /\ SaddAt(l) \in 7 .. 11
    BY <1>1, LevelFacts
  <2>2. p \in 1 .. 12 /\ LevelAt(p) = c
    BY <2>1, LevelFacts
  <2>3. p # pc[t]
    <3>1. CASE c # l
      <4>1. LevelAt(pc[t]) = l
        BY DEF Command, Incr, Index, SAdd, Expire, NotReached, At, LevelAt
      <4> QED BY <2>2, <3>1, <4>1
    <3>2. CASE Index(t, l, o)
      <4>1. Program[pc[t]] = <<"index", l>>
        BY <3>2 DEF Index, At
      <4>2. Program[p] = <<"sadd", c>>
        BY <2>2, CapPlaces
      <4> QED BY <4>1, <4>2
    <3> QED BY <1>6, <3>1, <3>2
  <2>4. p # SaddAt(l) + 1
    <3>1. SaddAt(l) + 1 \in 1 .. 12
      BY <2>1
    <3>2. Program[SaddAt(l) + 1] = <<"expire", l>> /\ Program[p] = <<"sadd", c>>
      BY <2>2, <3>1, CapPlaces
    <3> QED BY <3>2
  <2>5. p \in pc[t] + 1 .. 12
    BY <1>1, <1>3, <1>6, <2>2, <2>3
  <2>6. pc'[t] # Idle /\ pc'[t] <= p
    BY <1>1, <1>3, <1>6, <2>2, <2>4, <2>5
  <2> QED BY <1>1, <1>2, <1>3, <1>4, <1>6, <2>6 DEF WillCap
<1> QED BY <1>5, <1>6

\* A thread that knows of the cap comes to the SADD of the level before anything
\* else could make it forget.
LEMMA CapCommand ==
  ASSUME TypeOK, NEW t \in Threads, NEW l \in Levels, NEW o \in Outcomes, NEW d,
         Command(t, l, o), WillCap(t, l, d)
  PROVE  Incr(t, l, o) \/ Index(t, l, o) \/ SAdd(t, l, o)
<1>1. Reached(got[t][l], l) /\ pc[t] <= SaddAt(l)
  BY DEF WillCap
<1>2. ~NotReached(t, l)
  BY <1>1 DEF NotReached
<1>3. ~Expire(t, l, o)
  <2>1. SUFFICES ASSUME At(t, "expire", l) PROVE FALSE
    BY DEF Expire
  <2>2. pc \in [Threads -> 0 .. Len(Program)]
    BY DEF TypeOK
  <2>3. pc[t] = SaddAt(l) + 1 /\ pc[t] \in 0 .. 12
    BY <2>1, <2>2, Places
  <2>4. SaddAt(l) \in 7 .. 11
    BY DEF SaddAt
  <2> QED BY <1>1, <2>3, <2>4
<1> QED BY <1>2, <1>3 DEF Command

\* A set loses a device only in the last second of the period, or later.
LEMMA FullStep ==
  ASSUME BaseInv, [Next]_vars, NEW l \in Levels, now' < (End(l))'
  PROVE  full[l] \subseteq full'[l]
<1>t. TypeOK /\ End(l) \in Nat /\ now \in Nat /\ full \in [Levels -> SUBSET Devices]
  BY FieldFacts DEF BaseInv, TypeOK
<1>h. ttl[l] # 0 => ttl[l] = End(l)
  BY DEF BaseInv, TtlInv
<1>1. CASE full' = full
  BY <1>1
<1>2. CASE \E c \in Levels : ExpireSet(c)
  <2>1. PICK c \in Levels : ExpireSet(c)
    BY <1>2
  <2>2. /\ full' = [full EXCEPT ![c] = {}] /\ ttl[c] # 0 /\ ttl[c] <= now
        /\ now' = now /\ rule' = rule
    BY <2>1 DEF ExpireSet
  <2>3. (End(l))' = End(l)
    BY <2>2, SameTime
  <2>4. c # l
    BY <1>t, <1>h, <2>2, <2>3
  <2> QED BY <1>t, <2>2, <2>4
<1>3. CASE \E t \in Threads, c \in Levels, o \in Outcomes : SAdd(t, c, o)
  <2>1. PICK t \in Threads, c \in Levels, o \in Outcomes : SAdd(t, c, o)
    BY <1>3
  <2>2. full' = full \/ full' = [full EXCEPT ![c] = @ \cup {ev[t].dev}]
    BY <2>1 DEF SAdd
  <2> QED BY <1>t, <2>2
<1>4. CASE \E t \in Threads, c \in Levels, o \in Outcomes : Expire(t, c, o)
  <2>1. PICK t \in Threads, c \in Levels, o \in Outcomes : Expire(t, c, o)
    BY <1>4
  <2>2. now' = now /\ rule' = rule
    BY <2>1 DEF Expire
  <2>3. full' = full \/ (End(c) <= now /\ full' = [full EXCEPT ![c] = {}])
    BY <2>1 DEF Expire, ExpireCommand
  <2>4. (End(l))' = End(l)
    BY <2>2, SameTime
  <2>5. CASE c = l
    BY <1>t, <2>2, <2>3, <2>4, <2>5
  <2>6. CASE c # l
    BY <1>t, <2>3, <2>6
  <2> QED BY <2>5, <2>6
<1>5. CASE UNCHANGED vars \/ Tick \/ Crash \/ \E t \in Threads, e \in Events : Begin(t, e)
  BY <1>5 DEF vars, Tick, Crash, Begin, redis
<1>6. CASE \E t \in Threads, c \in Levels, o \in Outcomes :
             Incr(t, c, o) \/ Index(t, c, o) \/ NotReached(t, c)
  BY <1>6 DEF Incr, Index, NotReached, redis
<1> QED BY <1>2, <1>3, <1>4, <1>5, <1>6, NextCases DEF Command

LEMMA ReachStep == BaseInv /\ ReachInv /\ [Next]_vars => ReachInv'
<1> SUFFICES ASSUME BaseInv, ReachInv, [Next]_vars, NEW l \in Levels, NEW d \in Devices,
                    (Limits(l))', now' < (End(l))',
                    hits'[<<l, d>>] # 0, (Reached(hits[<<l, d>>], l))',
                    <<l, d>> \notin lost', d \notin full'[l]
             PROVE  \E t \in Threads : (WillCap(t, l, d))'
  BY DEF ReachInv
<1>t. TypeOK /\ ActiveInv /\ End(l) \in Nat /\ now \in Nat /\ Ctl(l).count \in Nat
  BY FieldFacts DEF BaseInv, Controls
<1>f. d \notin full[l]
  BY FullStep
<1>w. ASSUME Limits(l), now < End(l), hits[<<l, d>>] # 0, Reached(hits[<<l, d>>], l),
             <<l, d>> \notin lost
      PROVE  \E t \in Threads : WillCap(t, l, d)
  BY <1>w, <1>f DEF ReachInv
\* Whenever the level, the time and the counts stay as they are.
<1>k. ASSUME rule' = rule, now' = now, hits'[<<l, d>>] = hits[<<l, d>>], lost \subseteq lost'
      PROVE  \E t \in Threads : WillCap(t, l, d)
  <2>1. Limits(l) /\ now < End(l) /\ Reached(hits[<<l, d>>], l)
    BY <1>k, SameRule, SameTime
  <2> QED BY <1>k, <1>w, <2>1
<1>1. CASE UNCHANGED vars
  <2>1. \E t \in Threads : WillCap(t, l, d)
    BY <1>1, <1>k DEF vars
  <2> QED BY <1>1, <2>1, SameRule DEF vars, WillCap
<1>2. CASE Tick
  <2>1. /\ now' = now + 1 /\ rule' = rule
        /\ EndAt(Ctl(l), now + 1) = (End(l))'
        /\ hits'[<<l, d>>] = IF (End(l))' # End(l) THEN 0 ELSE hits[<<l, d>>]
    BY <1>2, <1>t, TickFacts
  <2>2. (End(l))' = End(l) /\ hits'[<<l, d>>] = hits[<<l, d>>] /\ now < End(l)
    BY <1>t, <2>1
  <2>3. <<l, d>> \notin lost
    BY <1>2, <2>1, <2>2 DEF Tick
  <2>4. Limits(l) /\ Reached(hits[<<l, d>>], l)
    BY <2>1, <2>2, SameRule
  <2>5. PICK t \in Threads : WillCap(t, l, d)
    BY <1>w, <2>2, <2>3, <2>4
  <2>6. pc' = pc /\ ev' = ev /\ got' = got
    BY <1>2 DEF Tick, thread
  <2> QED BY <2>1, <2>5, <2>6, SameRule DEF WillCap
<1>3. CASE Crash
  <2>1. PICK t \in Threads : WillCap(t, l, d)
    BY <1>3, <1>k DEF Crash
  <2>2. pc[t] # Idle /\ ev[t].dev = d /\ Applies(ev[t].m, l) /\ pc[t] <= SaddAt(l)
    BY <2>1 DEF WillCap
  <2>3. Busy(t, l)
    BY <1>t, <2>1, WillCapIsBusy
  <2> QED BY <1>3, <2>2, <2>3 DEF Crash
<1>4. CASE \E c \in Levels : ExpireSet(c)
  <2>1. /\ rule' = rule /\ now' = now /\ hits' = hits /\ lost' = lost
        /\ pc' = pc /\ ev' = ev /\ got' = got
    BY <1>4 DEF ExpireSet, thread, history
  <2>2. PICK t \in Threads : WillCap(t, l, d)
    BY <1>k, <2>1
  <2> QED BY <2>1, <2>2, SameRule DEF WillCap
<1>5. CASE \E t \in Threads, e \in Events : Begin(t, e)
  <2>1. PICK t \in Threads, e \in Events : Begin(t, e)
    BY <1>5
  <2>2. /\ pc[t] = Idle
        /\ \A s \in Threads : s # t => pc'[s] = pc[s] /\ ev'[s] = ev[s]
    BY <1>t, <2>1, BeginFacts
  <2>3. /\ rule' = rule /\ now' = now /\ hits' = hits /\ lost' = lost
        /\ got' = [got EXCEPT ![t] = Nothing]
    BY <2>1 DEF Begin, history
  <2>4. PICK s \in Threads : WillCap(s, l, d)
    BY <1>k, <2>3
  <2>5. s # t
    BY <2>2, <2>4 DEF WillCap
  <2>6. got'[s] = got[s]
    BY <1>t, <2>3, <2>5 DEF TypeOK
  <2> QED BY <2>2, <2>3, <2>4, <2>5, <2>6, SameRule DEF WillCap
<1>6. CASE \E t \in Threads, c \in Levels, o \in Outcomes : Command(t, c, o)
  <2>1. PICK t \in Threads, c \in Levels, o \in Outcomes : Command(t, c, o)
    BY <1>6
  <2>2. now' = now /\ rule' = rule /\ Applies(ev[t].m, c)
    BY <1>t, <2>1, CommandFacts
  <2>3. lost \subseteq lost'
    BY <2>1 DEF Command, Incr, Index, SAdd, Expire, NotReached, history
  \* This event brings the device to the cap.
  <2>4. CASE Incr(t, c, o) /\ c = l /\ ev[t].dev = d
    <3>1. o = "done"
      BY <2>4 DEF Incr
    <3>2. /\ hits'[<<l, d>>] = hits[<<l, d>>] + 1
          /\ got'[t][l] = fc[<<d, Field(l)>>] + 1
      BY <2>4, <3>1, IncrFacts
    <3>3. pc'[t] = IncrAt(l) + 1 /\ pc'[t] # Idle /\ ev'[t] = ev[t]
      BY <1>t, <2>4, IncrNext
    <3>4. /\ hits[<<l, d>>] \in Nat /\ fc[<<d, Field(l)>>] \in Nat
          /\ hits[<<l, d>>] <= fc[<<d, Field(l)>>]
      BY <1>t, FieldFacts DEF BaseInv, TypeOK, CountInv
    <3>5. (Reached(got[t][l], l))'
      <4>1. hits'[<<l, d>>] >= Ctl(l).count
        BY <2>2, SameRule DEF Reached
      <4>2. got'[t][l] >= Ctl(l).count
        BY <1>t, <3>2, <3>4, <4>1
      <4> QED BY <2>2, <4>2, SameRule DEF Reached
    <3>6. (Applies(ev[t].m, l))'
      BY <2>2, <2>4, <3>3, SameRule
    <3>7. pc'[t] <= SaddAt(l)
      BY <3>3 DEF IncrAt, SaddAt
    <3> QED BY <2>4, <3>3, <3>5, <3>6, <3>7 DEF WillCap
  <2>5. CASE ~(Incr(t, c, o) /\ c = l /\ ev[t].dev = d)
    <3>1. hits'[<<l, d>>] = hits[<<l, d>>]
      <4>1. CASE Incr(t, c, o)
        <5>1. <<l, d>> # <<c, ev[t].dev>>
          BY <2>5, <4>1
        <5> QED BY <4>1, <5>1, IncrElsewhere
      <4>2. CASE ~Incr(t, c, o)
        BY <2>1, <4>2 DEF Command, Index, SAdd, Expire, NotReached, history
      <4> QED BY <4>1, <4>2
    <3>2. PICK s \in Threads : WillCap(s, l, d)
      BY <1>k, <2>2, <2>3, <3>1
    <3>3. s = t /\ l = c => Index(t, c, o)
      <4> SUFFICES ASSUME s = t, l = c PROVE Index(t, c, o)
        OBVIOUS
      <4>1. ev[t].dev = d /\ Reached(got[t][l], l)
        BY <3>2 DEF WillCap
      <4>2. Incr(t, c, o) \/ Index(t, c, o) \/ SAdd(t, c, o)
        BY <1>t, <2>1, <3>2, CapCommand
      <4>5. ~SAdd(t, c, o)
        <5>1. SUFFICES ASSUME SAdd(t, c, o) PROVE FALSE
          OBVIOUS
        <5>2. o # "refused"
          BY <4>1, <5>1 DEF SAdd
        <5>3. full' = [full EXCEPT ![l] = @ \cup {d}]
          BY <4>1, <5>1, <5>2 DEF SAdd
        <5>4. full'[l] = full[l] \cup {d}
          BY <1>t, <5>3 DEF TypeOK
        <5> QED BY <5>4
      <4> QED BY <2>5, <4>1, <4>2, <4>5
    <3>4. (WillCap(s, l, d))'
      BY <2>1, <3>2, <3>3, KeepCap
    <3> QED BY <3>4
  <2> QED BY <2>4, <2>5
<1> QED BY <1>1, <1>2, <1>3, <1>4, <1>5, <1>6, NextCases

\* A device that has seen as much as a level allows in this period is in the
\* set of the level, or a thread is still at work on an event of it, a command
\* for it failed, or it is the last second of the period.
THEOREM ReachedGetsCapped == Spec => []ReachedIsCapped
<1>1. Init => ReachInv
  <2> SUFFICES ASSUME Init, NEW l \in Levels, NEW d \in Devices
               PROVE  hits[<<l, d>>] = 0
    BY DEF ReachInv
  <2> QED BY DEF Init
<1>2. BaseInv /\ ReachInv => ReachedIsCapped
  <2> SUFFICES ASSUME BaseInv, ReachInv, NEW l \in Levels, NEW d \in Devices,
                      Limits(l), ~(now >= End(l)), hits[<<l, d>>] # 0,
                      ~(hits[<<l, d>>] < Ctl(l).count), <<l, d>> \notin lost,
                      d \notin full[l]
               PROVE  \E t \in Threads : Busy(t, l) /\ ev[t].dev = d
    BY DEF ReachedIsCapped
  <2>1. /\ TypeOK /\ End(l) \in Nat /\ now \in Nat /\ Ctl(l).count \in Nat
        /\ hits[<<l, d>>] \in Nat
    BY FieldFacts DEF BaseInv, Controls, TypeOK
  <2>2. now < End(l) /\ Reached(hits[<<l, d>>], l)
    BY <2>1 DEF Reached
  <2>3. PICK t \in Threads : WillCap(t, l, d)
    BY <2>2 DEF ReachInv
  <2> QED BY <2>1, <2>3, WillCapIsBusy
<1> QED BY <1>1, <1>2, BaseInit, BaseStep, ReachStep, PTL DEF Spec

------------------------------------------------------------------------------
(* By how much a cap can be overrun.                                        *)

\* The threads that have an event of the device and have yet to count it, and
\* those that counted it and will put the device into the set.
Pending(l, d) ==
  {t \in Threads : /\ pc[t] # Idle /\ ev[t].dev = d /\ Applies(ev[t].m, l)
                   /\ pc[t] <= IncrAt(l)}
Capping(l, d) == {t \in Threads : WillCap(t, l, d)}

\* Every event that goes beyond the cap is one that a thread has reached the
\* cap with, one that failed, or, when the device is in the set, one that was
\* on its way by then or late.
OverrunInv ==
  \A l \in Levels, d \in Devices :
    Limits(l) /\ now < End(l) /\ Ctl(l).count # 0 =>
      IF d \in full[l]
      THEN hits[<<l, d>>] + Cardinality(Pending(l, d))
             <= Ctl(l).count - 1 + Cardinality(Threads) + late + dropped
      ELSE hits[<<l, d>>]
             <= Ctl(l).count - 1 + Cardinality(Capping(l, d)) + dropped

LEMMA ThreadCounts ==
  ASSUME NEW S \in SUBSET Threads, NEW T \in SUBSET Threads
  PROVE  /\ Cardinality(S) \in Nat /\ Cardinality(Threads) \in Nat
         /\ Cardinality(S) <= Cardinality(Threads)
         /\ S \subseteq T => Cardinality(S) <= Cardinality(T)
         /\ \A t : S \subseteq T \cup {t} => Cardinality(S) <= Cardinality(T) + 1
         /\ \A t \in T : S \subseteq T \ {t} => Cardinality(S) + 1 <= Cardinality(T)
         /\ \A t \in S : t \notin T /\ T \subseteq S =>
              Cardinality(T) + 1 <= Cardinality(S)
         /\ S \cap T = {} => Cardinality(S) + Cardinality(T) <= Cardinality(Threads)
<1>1. IsFiniteSet(Threads) /\ IsFiniteSet(S) /\ IsFiniteSet(T)
  BY FrequencyAssumption, FS_Subset
<1>2. Cardinality(S) \in Nat /\ Cardinality(T) \in Nat /\ Cardinality(Threads) \in Nat
  BY <1>1, FS_CardinalityType
<1>3. Cardinality(S) <= Cardinality(Threads)
  BY <1>1, FS_Subset
<1>4. S \subseteq T => Cardinality(S) <= Cardinality(T)
  BY <1>1, FS_Subset
<1>5. \A t : S \subseteq T \cup {t} => Cardinality(S) <= Cardinality(T) + 1
  <2> SUFFICES ASSUME NEW t, S \subseteq T \cup {t}
               PROVE  Cardinality(S) <= Cardinality(T) + 1
    OBVIOUS
  <2>1. IsFiniteSet(T \cup {t}) /\ Cardinality(T \cup {t}) <= Cardinality(T) + 1
    <3>1. /\ IsFiniteSet(T \cup {t})
          /\ Cardinality(T \cup {t}) = IF t \in T THEN Cardinality(T) ELSE Cardinality(T) + 1
      BY <1>1, FS_AddElement
    <3> QED BY <1>2, <3>1
  <2>2. Cardinality(S) <= Cardinality(T \cup {t})
    BY <2>1, FS_Subset
  <2>3. Cardinality(T \cup {t}) \in Nat
    BY <2>1, FS_CardinalityType
  <2> QED BY <1>2, <2>1, <2>2, <2>3
<1>6. \A t \in T : S \subseteq T \ {t} => Cardinality(S) + 1 <= Cardinality(T)
  <2> SUFFICES ASSUME NEW t \in T, S \subseteq T \ {t}
               PROVE  Cardinality(S) + 1 <= Cardinality(T)
    OBVIOUS
  <2>1. IsFiniteSet(T \ {t}) /\ Cardinality(T \ {t}) = Cardinality(T) - 1
    BY <1>1, FS_RemoveElement
  <2>2. Cardinality(S) <= Cardinality(T \ {t})
    BY <2>1, FS_Subset
  <2> QED BY <1>2, <2>1, <2>2
<1>7. \A t \in S : t \notin T /\ T \subseteq S => Cardinality(T) + 1 <= Cardinality(S)
  <2> SUFFICES ASSUME NEW t \in S, t \notin T, T \subseteq S
               PROVE  Cardinality(T) + 1 <= Cardinality(S)
    OBVIOUS
  <2>1. IsFiniteSet(S \ {t}) /\ Cardinality(S \ {t}) = Cardinality(S) - 1
    BY <1>1, FS_RemoveElement
  <2>2. T \in SUBSET (S \ {t})
    OBVIOUS
  <2>3. Cardinality(T) <= Cardinality(S \ {t})
    BY <2>1, <2>2, FS_Subset
  <2> QED BY <1>2, <2>1, <2>3
<1>8. S \cap T = {} => Cardinality(S) + Cardinality(T) <= Cardinality(Threads)
  <2> SUFFICES ASSUME S \cap T = {}
               PROVE  Cardinality(S) + Cardinality(T) <= Cardinality(Threads)
    OBVIOUS
  <2>1. Cardinality(S \cup T) = Cardinality(S) + Cardinality(T) - Cardinality(S \cap T)
    BY <1>1, FS_Union
  <2>2. Cardinality(S \cap T) = 0
    BY FS_EmptySet
  <2>3. S \cup T \in SUBSET Threads
    OBVIOUS
  <2>4. Cardinality(S \cup T) <= Cardinality(Threads)
    BY <1>1, <2>3, FS_Subset
  <2> QED BY <1>2, <2>1, <2>2, <2>4
<1> QED BY <1>2, <1>3, <1>4, <1>5, <1>6, <1>7, <1>8

\* A thread that has yet to count does not know of the cap.
LEMMA PendingOrCapping ==
  ASSUME BaseInv, NEW l \in Levels, NEW d \in Devices, Ctl(l).count # 0
  PROVE  Pending(l, d) \cap Capping(l, d) = {}
<1> SUFFICES ASSUME NEW t \in Threads, pc[t] # Idle, pc[t] <= IncrAt(l), WillCap(t, l, d)
             PROVE  FALSE
  BY DEF Pending, Capping
<1>1. got[t][l] = 0 /\ Ctl(l).count \in Nat
  BY FieldFacts DEF BaseInv, GotInv, Controls
<1> QED BY <1>1 DEF WillCap, Reached

\* A command adds no thread to those that have yet to count.
LEMMA PendingShrinks ==
  ASSUME BaseInv, NEW t \in Threads, NEW c \in Levels, NEW o \in Outcomes,
         Command(t, c, o), NEW l \in Levels, NEW d \in Devices
  PROVE  /\ (Pending(l, d))' \subseteq Pending(l, d)
         /\ Incr(t, c, o) /\ c = l /\ ev[t].dev = d =>
              t \in Pending(l, d) /\ (Pending(l, d))' \subseteq Pending(l, d) \ {t}
<1>t. TypeOK /\ ActiveInv
  BY DEF BaseInv
<1>1. /\ now' = now /\ rule' = rule /\ Applies(ev[t].m, c)
      /\ pc[t] \in 1 .. 12 /\ pc' \in [Threads -> 0 .. 12]
      /\ \A u \in Threads : u # t => pc'[u] = pc[u] /\ ev'[u] = ev[u]
      /\ \A u \in Threads : pc'[u] # Idle => ev'[u] = ev[u]
      /\ pc'[t] # Idle => pc'[t] > pc[t]
  BY <1>t, CommandFacts
<1>2. \A m : (Applies(m, l))' <=> Applies(m, l)
  BY <1>1, SameRule
<1>3. IncrAt(l) \in 1 .. 5
  BY DEF IncrAt
<1>4. ASSUME NEW u \in Threads, u \in (Pending(l, d))'
      PROVE  u \in Pending(l, d) /\ (u = t => pc[t] < IncrAt(l))
  <2>1. /\ pc'[u] # Idle /\ ev'[u].dev = d /\ Applies(ev[u].m, l)
        /\ pc'[u] <= IncrAt(l)
    BY <1>1, <1>2, <1>4 DEF Pending
  <2>2. CASE u = t
    BY <1>1, <1>3, <2>1, <2>2 DEF Pending, Idle
  <2>3. CASE u # t
    BY <1>1, <2>1, <2>3 DEF Pending
  <2> QED BY <2>2, <2>3
<1>5. (Pending(l, d))' \subseteq Threads
  BY DEF Pending
<1>6. ASSUME Incr(t, c, o), c = l, ev[t].dev = d
      PROVE  t \in Pending(l, d) /\ t \notin (Pending(l, d))'
  <2>1. pc[t] = IncrAt(l)
    BY <1>t, <1>6, IncrNext
  <2>2. t \in Pending(l, d)
    BY <1>1, <1>3, <1>6, <2>1 DEF Pending, Idle
  <2> QED BY <1>3, <1>4, <2>1, <2>2
<1> QED BY <1>4, <1>5, <1>6

\* A command other than those of this device at this level takes no thread
\* from those that will cap it.
LEMMA CappingGrows ==
  ASSUME BaseInv, NEW t \in Threads, NEW c \in Levels, NEW o \in Outcomes,
         Command(t, c, o), NEW l \in Levels, NEW d \in Devices
  PROVE  /\ Capping(l, d) \subseteq (Capping(l, d))' \cup {t}
         /\ (c = l /\ ev[t].dev = d => ~Incr(t, c, o) /\ ~SAdd(t, c, o)) =>
              Capping(l, d) \subseteq (Capping(l, d))'
<1>t. TypeOK
  BY DEF BaseInv
<1>1. ASSUME NEW s \in Threads, WillCap(s, l, d), s = t /\ l = c => Index(t, c, o)
      PROVE  s \in (Capping(l, d))'
  <2>1. (WillCap(s, l, d))'
    BY <1>1, KeepCap
  <2> QED BY <2>1 DEF Capping
<1>2. Capping(l, d) \subseteq (Capping(l, d))' \cup {t}
  BY <1>1 DEF Capping
<1>3. ASSUME c = l /\ ev[t].dev = d => ~Incr(t, c, o) /\ ~SAdd(t, c, o),
             NEW s \in Threads, WillCap(s, l, d)
      PROVE  s \in (Capping(l, d))'
  <2>1. ASSUME s = t, l = c PROVE Index(t, c, o)
    <3>1. ev[t].dev = d
      BY <1>3, <2>1 DEF WillCap
    <3>2. Incr(t, c, o) \/ Index(t, c, o) \/ SAdd(t, c, o)
      BY <1>t, <1>3, <2>1, CapCommand
    <3> QED BY <1>3, <2>1, <3>1, <3>2
  <2> QED BY <1>1, <1>3, <2>1
<1> QED BY <1>2, <1>3 DEF Capping

LEMMA OverrunStep == BaseInv /\ OverrunInv /\ [Next]_vars => OverrunInv'
<1> DEFINE N == Cardinality(Threads)
           Bound(l, d) ==
             IF d \in full[l]
             THEN hits[<<l, d>>] + Cardinality(Pending(l, d))
                    <= Ctl(l).count - 1 + N + late + dropped
             ELSE hits[<<l, d>>]
                    <= Ctl(l).count - 1 + Cardinality(Capping(l, d)) + dropped
<1> SUFFICES ASSUME BaseInv, OverrunInv, [Next]_vars, NEW l \in Levels, NEW d \in Devices,
                    (Limits(l))', now' < (End(l))', (Ctl(l))'.count # 0
             PROVE  (Bound(l, d))'
  BY DEF OverrunInv
<1> DEFINE n == Ctl(l).count
           h == hits[<<l, d>>]
           h1 == hits'[<<l, d>>]
           P == Cardinality(Pending(l, d))
           P1 == Cardinality((Pending(l, d))')
           C == Cardinality(Capping(l, d))
           C1 == Cardinality((Capping(l, d))')
<1>t. TypeOK /\ ActiveInv /\ End(l) \in Nat /\ now \in Nat /\ n \in Nat
  BY FieldFacts DEF BaseInv, Controls
<1>u. TypeOK'
  BY <1>t, TypeStep
<1>v. /\ h \in Nat /\ h1 \in Nat /\ late \in Nat /\ late' \in Nat
      /\ dropped \in Nat /\ dropped' \in Nat
  BY <1>t, <1>u DEF TypeOK
<1>s. /\ Pending(l, d) \in SUBSET Threads /\ (Pending(l, d))' \in SUBSET Threads
      /\ Capping(l, d) \in SUBSET Threads /\ (Capping(l, d))' \in SUBSET Threads
  BY DEF Pending, Capping
<1>c. N \in Nat /\ P \in Nat /\ P1 \in Nat /\ C \in Nat /\ C1 \in Nat /\ P1 <= N
  BY <1>s, ThreadCounts
<1>r. rule' = rule
  <2>1. CASE UNCHANGED vars
    BY <2>1 DEF vars
  <2>2. CASE \E t \in Threads, c \in Levels, o \in Outcomes : Command(t, c, o)
    BY <1>t, <2>2, CommandFacts
  <2> QED BY <2>1, <2>2, NextCases DEF Tick, Crash, ExpireSet, Begin
<1>n. (Ctl(l))' = Ctl(l) /\ Limits(l) /\ n # 0
  BY <1>r, SameRule
<1>f. full[l] \subseteq full'[l]
  BY FullStep
<1>p. Pending(l, d) \cap Capping(l, d) = {} /\ P + C <= N
  <2>1. Pending(l, d) \cap Capping(l, d) = {}
    BY <1>n, PendingOrCapping
  <2> QED BY <1>s, <2>1, ThreadCounts
<1>g. SUFFICES IF d \in full'[l] THEN h1 + P1 <= n - 1 + N + late' + dropped'
               ELSE h1 <= n - 1 + C1 + dropped'
  BY <1>n
<1>h. now < End(l) => IF d \in full[l] THEN h + P <= n - 1 + N + late + dropped
                      ELSE h <= n - 1 + C + dropped
  BY <1>n DEF OverrunInv
<1>k. now' = now => now < End(l)
  BY <1>r, SameTime
<1> HIDE DEF N, n, h, h1, P, P1, C, C1, Bound
\* Nothing counts, and no set changes.
<1>1. ASSUME now' = now, h1 = h, late' = late, dropped' >= dropped,
             d \in full'[l] => d \in full[l],
             P1 <= P, C <= C1
      PROVE  IF d \in full'[l] THEN h1 + P1 <= n - 1 + N + late' + dropped'
             ELSE h1 <= n - 1 + C1 + dropped'
  BY <1>1, <1>v, <1>c, <1>t, <1>f, <1>h, <1>k
<1>2. CASE UNCHANGED vars
  <2>1. (Pending(l, d))' = Pending(l, d) /\ (Capping(l, d))' = Capping(l, d)
    BY <1>2, SameRule DEF vars, Pending, Capping, WillCap
  <2>2. P1 = P /\ C1 = C
    BY <2>1 DEF P, P1, C, C1
  <2> QED BY <1>1, <1>2, <1>v, <1>c, <2>2 DEF vars, h, h1
<1>3. CASE \E c \in Levels : ExpireSet(c)
  <2>1. /\ now' = now /\ pc' = pc /\ ev' = ev /\ got' = got /\ hits' = hits
        /\ late' = late /\ dropped' = dropped
    BY <1>3 DEF ExpireSet, thread, history
  <2>2. (Pending(l, d))' = Pending(l, d) /\ (Capping(l, d))' = Capping(l, d)
    BY <1>r, <2>1, SameRule DEF Pending, Capping, WillCap
  <2>3. P1 = P /\ C1 = C
    BY <2>2 DEF P, P1, C, C1
  <2>4. full'[l] \subseteq full[l]
    BY <1>3, <1>t DEF ExpireSet, TypeOK
  <2> QED BY <1>1, <1>v, <1>c, <2>1, <2>3, <2>4 DEF h, h1
<1>4. CASE Tick
  <2>1. h1 = IF (End(l))' # End(l) THEN 0 ELSE h
    BY <1>4, <1>t, TickFacts DEF h, h1
  <2>2. /\ now' = now + 1 /\ full' = full /\ late' = late /\ dropped' = dropped
        /\ pc' = pc /\ ev' = ev /\ got' = got
    BY <1>4 DEF Tick, redis, thread
  <2>3. (Pending(l, d))' = Pending(l, d) /\ (Capping(l, d))' = Capping(l, d)
    BY <1>r, <2>2, SameRule DEF Pending, Capping, WillCap
  <2>4. P1 = P /\ C1 = C
    BY <2>3 DEF P, P1, C, C1
  <2>5. CASE (End(l))' # End(l)
    <3>1. h1 <= 0
      BY <1>v, <2>1, <2>5
    <3>2. n \in Nat /\ n >= 1
      BY <1>t, <1>n
    <3>3. h1 + P1 <= n - 1 + N + late' + dropped'
      BY <1>v, <1>c, <2>2, <3>1, <3>2
    <3>4. h1 <= n - 1 + C1 + dropped'
      BY <1>v, <1>c, <2>2, <3>1, <3>2
    <3> QED BY <3>3, <3>4
  <2>6. CASE (End(l))' = End(l)
    <3>1. now < End(l)
      BY <1>t, <2>2, <2>6
    <3> QED BY <1>v, <1>c, <1>t, <1>h, <2>1, <2>2, <2>4, <2>6, <3>1
  <2> QED BY <2>5, <2>6
<1>5. CASE Crash
  <2> DEFINE dead == {t \in Threads : pc[t] # Idle}
  <2>1. /\ now' = now /\ full' = full /\ late' = late /\ hits' = hits
        /\ dropped' = dropped + Cardinality(dead) /\ \A t \in Threads : pc'[t] = Idle
    BY <1>5 DEF Crash, redis
  <2>2. /\ Capping(l, d) \subseteq dead /\ dead \in SUBSET Threads
        /\ (Pending(l, d))' \subseteq Pending(l, d)
    BY <2>1 DEF Capping, Pending, WillCap
  <2>3. C <= Cardinality(dead) /\ Cardinality(dead) \in Nat /\ P1 <= P
    BY <1>s, <2>2, ThreadCounts DEF C, P, P1
  <2> HIDE DEF dead
  <2>4. h1 = h
    BY <2>1 DEF h, h1
  <2> QED BY <1>v, <1>c, <1>t, <1>h, <1>k, <2>1, <2>3, <2>4
<1>6. CASE \E t \in Threads, e \in Events : Begin(t, e)
  <2>1. PICK t \in Threads, e \in Events : Begin(t, e)
    BY <1>6
  <2>2. /\ pc[t] = Idle /\ ev'[t] = e
        /\ \A s \in Threads : s # t => pc'[s] = pc[s] /\ ev'[s] = ev[s]
    BY <1>t, <2>1, BeginFacts
  <2>3. /\ now' = now /\ full' = full /\ hits' = hits /\ dropped' = dropped
        /\ got' = [got EXCEPT ![t] = Nothing]
    BY <2>1 DEF Begin, redis, history
  <2>4. \A s \in Threads : s # t => got'[s] = got[s]
    BY <1>t, <2>3 DEF TypeOK
  <2>5. C <= C1
    <3>1. Capping(l, d) \subseteq (Capping(l, d))'
      BY <1>r, <2>2, <2>4, SameRule DEF Capping, WillCap
    <3> QED BY <1>s, <3>1, ThreadCounts DEF C, C1
  <2>6. \A m : (Applies(m, l))' <=> Applies(m, l)
    BY <1>r, SameRule
  <2>7. CASE d \in full[l] /\ e.dev = d
    <3>1. late' = late + 1
      BY <1>n, <2>1, <2>7 DEF Begin
    <3>2. (Pending(l, d))' \subseteq Pending(l, d) \cup {t}
      BY <2>2, <2>6 DEF Pending
    <3>3. P1 <= P + 1
      BY <1>s, <3>2, ThreadCounts DEF P, P1
    <3> QED BY <1>v, <1>c, <1>t, <1>h, <1>k, <2>3, <2>7, <3>1, <3>3 DEF h, h1
  <2>8. CASE ~(d \in full[l] /\ e.dev = d)
    <3>1. late' >= late
      BY <1>v, <2>1 DEF Begin
    <3>2. CASE d \in full[l]
      <4>1. (Pending(l, d))' \subseteq Pending(l, d)
        BY <2>2, <2>6, <2>8, <3>2 DEF Pending
      <4>2. P1 <= P
        BY <1>s, <4>1, ThreadCounts DEF P, P1
      <4> QED BY <1>v, <1>c, <1>t, <1>h, <1>k, <2>3, <3>1, <3>2, <4>2 DEF h, h1
    <3>3. CASE d \notin full[l]
      BY <1>v, <1>c, <1>t, <1>h, <1>k, <2>3, <2>5, <3>3 DEF h, h1
    <3> QED BY <3>2, <3>3
  <2> QED BY <2>7, <2>8
<1>7. CASE \E t \in Threads, c \in Levels, o \in Outcomes : Command(t, c, o)
  <2>1. PICK t \in Threads, c \in Levels, o \in Outcomes : Command(t, c, o)
    BY <1>7
  <2>2. now' = now /\ late' = late
    BY <1>t, <2>1, CommandFacts
  <2>3. dropped' >= dropped
    BY <1>v, <2>1 DEF Command, Incr, Index, SAdd, Expire, NotReached, Result, history
  <2>4. P1 <= P
    <3>1. (Pending(l, d))' \subseteq Pending(l, d)
      BY <2>1, PendingShrinks
    <3> QED BY <1>s, <3>1, ThreadCounts DEF P, P1
  <2>5. CASE Incr(t, c, o) /\ c = l /\ ev[t].dev = d
    <3>1. full' = full /\ dropped' = (IF o = "done" THEN dropped ELSE dropped + 1)
      BY <2>5 DEF Incr, Result
    <3>2. t \in Pending(l, d) /\ (Pending(l, d))' \subseteq Pending(l, d) \ {t}
      BY <2>1, <2>5, PendingShrinks
    <3>3. P1 + 1 <= P
      BY <1>s, <3>2, ThreadCounts DEF P, P1
    <3>4. /\ h1 = IF o = "refused" THEN h ELSE h + 1
          /\ got'[t][l] = IF o = "done" THEN fc[<<d, Field(l)>>] + 1 ELSE got[t][l]
      BY <2>5, IncrFacts DEF h, h1
    <3>5. h1 <= h + 1
      BY <1>v, <3>4
    <3>6. CASE d \in full[l]
      BY <1>v, <1>c, <1>t, <1>h, <1>k, <2>2, <3>1, <3>3, <3>5, <3>6
    <3>7. CASE d \notin full[l]
      <4>1. t \notin Capping(l, d)
        BY <1>p, <3>2
      <4>2. Capping(l, d) \subseteq (Capping(l, d))'
        BY <2>1, <4>1, CappingGrows
      <4>3. C <= C1
        BY <1>s, <4>2, ThreadCounts DEF C, C1
      <4>4. CASE o # "done"
        BY <1>v, <1>c, <1>t, <1>h, <1>k, <2>2, <3>1, <3>5, <3>7, <4>3, <4>4
      <4>5. CASE o = "done"
        <5>1. /\ h <= fc[<<d, Field(l)>>] /\ fc[<<d, Field(l)>>] \in Nat
          BY <1>t, FieldFacts DEF BaseInv, TypeOK, CountInv, h
        <5>2. h1 <= got'[t][l] /\ got'[t][l] \in Nat
          BY <1>v, <3>4, <4>5, <5>1
        <5>3. CASE got'[t][l] >= n
          <6>1. pc'[t] = IncrAt(l) + 1 /\ pc'[t] # Idle /\ ev'[t] = ev[t]
            BY <1>t, <2>5, IncrNext
          <6>2. Applies(ev[t].m, l)
            BY <1>t, <2>1, <2>5, CommandFacts
          <6>3. pc'[t] <= SaddAt(l)
            BY <6>1 DEF IncrAt, SaddAt
          <6>4. \A m : (Applies(m, l))' <=> Applies(m, l)
            BY <1>r, SameRule
          <6>5. (Reached(got[t][l], l))'
            BY <1>n, <5>3 DEF Reached, n
          <6>6. t \in (Capping(l, d))'
            BY <2>5, <6>1, <6>2, <6>3, <6>4, <6>5 DEF Capping, WillCap
          <6>7. C + 1 <= C1
            BY <1>s, <4>1, <4>2, <6>6, ThreadCounts DEF C, C1
          <6> QED BY <1>v, <1>c, <1>t, <1>h, <1>k, <2>2, <3>1, <3>5, <3>7, <4>5, <6>7
        <5>4. CASE ~(got'[t][l] >= n)
          BY <1>v, <1>c, <1>t, <3>1, <3>7, <5>2, <5>4
        <5> QED BY <5>3, <5>4
      <4> QED BY <4>4, <4>5
    <3> QED BY <3>6, <3>7
  <2>6. CASE SAdd(t, c, o) /\ c = l /\ ev[t].dev = d
    <3>1. h1 = h
      BY <2>6 DEF SAdd, h, h1
    <3>2. CASE d \in full[l]
      BY <1>v, <1>c, <1>t, <1>f, <1>h, <1>k, <2>2, <2>3, <2>4, <3>1, <3>2
    <3>3. CASE d \notin full[l] /\ d \in full'[l]
      BY <1>v, <1>c, <1>t, <1>p, <1>h, <1>k, <2>2, <2>3, <2>4, <3>1, <3>3
    <3>4. CASE d \notin full'[l]
      <4>1. o = "refused"
        <5>1. ASSUME o # "refused" PROVE FALSE
          <6>1. full' = [full EXCEPT ![l] = @ \cup {d}]
            BY <2>6, <5>1 DEF SAdd
          <6>2. full'[l] = full[l] \cup {d}
            BY <1>t, <6>1 DEF TypeOK
          <6> QED BY <3>4, <6>2
        <5> QED BY <5>1
      <4>2. dropped' = dropped + 1
        BY <2>6, <4>1 DEF SAdd, Result
      <4>3. Capping(l, d) \subseteq (Capping(l, d))' \cup {t}
        BY <2>1, CappingGrows
      <4>4. C <= C1 + 1
        BY <1>s, <4>3, ThreadCounts DEF C, C1
      <4> QED BY <1>v, <1>c, <1>t, <1>f, <1>h, <1>k, <2>2, <3>1, <3>4, <4>2, <4>4
    <3> QED BY <3>2, <3>3, <3>4
  <2>7. CASE c = l /\ ev[t].dev = d => ~Incr(t, c, o) /\ ~SAdd(t, c, o)
    <3>1. Capping(l, d) \subseteq (Capping(l, d))'
      BY <2>1, <2>7, CappingGrows
    <3>2. C <= C1
      BY <1>s, <3>1, ThreadCounts DEF C, C1
    <3>3. h1 = h
      <4>1. CASE Incr(t, c, o)
        <5>1. <<l, d>> # <<c, ev[t].dev>>
          BY <2>7, <4>1
        <5> QED BY <4>1, <5>1, IncrElsewhere DEF h, h1
      <4>2. CASE ~Incr(t, c, o)
        BY <2>1, <4>2 DEF Command, Index, SAdd, Expire, NotReached, history, h, h1
      <4> QED BY <4>1, <4>2
    <3>4. d \in full'[l] => d \in full[l]
      <4>1. full \in [Levels -> SUBSET Devices]
        BY <1>t DEF TypeOK
      <4>2. CASE SAdd(t, c, o)
        <5>1. full' = full \/ full' = [full EXCEPT ![c] = @ \cup {ev[t].dev}]
          BY <4>2 DEF SAdd
        <5> QED BY <2>7, <4>1, <4>2, <5>1
      <4>3. CASE ~SAdd(t, c, o)
        <5>1. full' = full \/ full' = [full EXCEPT ![c] = {}]
          BY <2>1, <4>3 DEF Command, Incr, Index, Expire, ExpireCommand, NotReached, redis
        <5> QED BY <4>1, <5>1
      <4> QED BY <4>2, <4>3
    <3> QED BY <1>1, <2>2, <2>3, <2>4, <3>2, <3>3, <3>4
  <2> QED BY <2>5, <2>6, <2>7
<1> QED BY <1>2, <1>3, <1>4, <1>5, <1>6, <1>7, NextCases

\* A device sees a level at most once per thread beyond the cap, plus the
\* events of bids that were out before the cap was seen and those a failure
\* cut short, except in the last second of the period: for every number of
\* threads, devices, events and failures.
THEOREM OverrunIsBounded == Spec => []FrequencyOverrunBounded
<1>1. Init => OverrunInv
  <2> SUFFICES ASSUME Init, NEW l \in Levels, NEW d \in Devices, Ctl(l).count # 0
               PROVE  /\ d \notin full[l]
                      /\ hits[<<l, d>>] <= Ctl(l).count - 1 + Cardinality(Capping(l, d)) + dropped
    BY DEF OverrunInv
  <2>1. hits[<<l, d>>] = 0 /\ dropped = 0 /\ d \notin full[l]
    BY DEF Init
  <2>2. Ctl(l).count \in Nat
    BY InitType, FieldFacts DEF Controls
  <2>3. Cardinality(Capping(l, d)) \in Nat
    <3>1. Capping(l, d) \in SUBSET Threads
      BY DEF Capping
    <3> QED BY <3>1, ThreadCounts
  <2> QED BY <2>1, <2>2, <2>3
<1>2. BaseInv /\ OverrunInv => FrequencyOverrunBounded
  <2> SUFFICES ASSUME BaseInv, OverrunInv, NEW l \in Levels, NEW d \in Devices,
                      Limits(l), ~(now >= End(l)), Ctl(l).count # 0
               PROVE  hits[<<l, d>>] < Ctl(l).count + Cardinality(Threads) + late + dropped
    BY DEF FrequencyOverrunBounded
  <2>1. /\ End(l) \in Nat /\ now \in Nat /\ Ctl(l).count \in Nat
        /\ hits[<<l, d>>] \in Nat /\ late \in Nat /\ dropped \in Nat
    BY FieldFacts DEF BaseInv, Controls, TypeOK
  <2>2. /\ Cardinality(Threads) \in Nat /\ Cardinality(Pending(l, d)) \in Nat
        /\ Cardinality(Capping(l, d)) \in Nat
        /\ Cardinality(Capping(l, d)) <= Cardinality(Threads)
    <3>1. Capping(l, d) \in SUBSET Threads /\ Pending(l, d) \in SUBSET Threads
      BY DEF Capping, Pending
    <3> QED BY <3>1, ThreadCounts
  <2>3. now < End(l)
    BY <2>1
  <2>4. IF d \in full[l]
        THEN hits[<<l, d>>] + Cardinality(Pending(l, d))
               <= Ctl(l).count - 1 + Cardinality(Threads) + late + dropped
        ELSE hits[<<l, d>>]
               <= Ctl(l).count - 1 + Cardinality(Capping(l, d)) + dropped
    BY <2>3 DEF OverrunInv
  <2> QED BY <2>1, <2>2, <2>4
<1> QED BY <1>1, <1>2, BaseInit, BaseStep, OverrunStep, PTL DEF Spec

------------------------------------------------------------------------------
(* A cap comes from this period and from this field.                        *)

\* Nothing has been counted for a period to come.
FreshInv ==
  \A l \in Levels, d \in Devices, s \in 0 .. MaxTime :
    Limits(l) /\ EndAt(Ctl(l), s) > End(l) => fc[<<d, FieldAt(rule, l, s)>>] = 0

\* The field of this period counted nothing but the events of this period.
ExactInv ==
  \A l \in Levels, d \in Devices :
    Limits(l) => fc[<<d, Field(l)>>] <= Counted(l, d)

\* What a thread knows of this period was counted in it.
OwnInv ==
  \A t \in Threads, l \in Levels, d \in Devices :
    Busy(t, l) /\ l \notin stray /\ ev[t].dev = d => got[t][l] <= Counted(l, d)

\* A set that is there will expire, or is about to be told when.
SetInv ==
  \A l \in Levels :
    full[l] # {} /\ l \notin stray =>
      ttl[l] # 0 \/ \E t \in Threads : At(t, "expire", l)

CapInv == BaseInv /\ FreshInv /\ ExactInv /\ OwnInv /\ SetInv /\ CappedByThisPeriod

\* Two levels that had a field in common once have all of them in common: the
\* end of a period depends on its length alone, or is the same fixed second.
LEMMA SharedForGood ==
  ASSUME TypeOK, NEW a \in Levels, NEW b \in Levels, NEW r \in Nat, NEW s \in Nat,
         FieldAt(rule, a, r) = FieldAt(rule, b, s), NEW u \in Nat
  PROVE  /\ FieldAt(rule, a, u) = FieldAt(rule, b, u)
         /\ EndAt(Ctl(a), u) = EndAt(Ctl(b), u)
         /\ EndAt(Ctl(a), r) = EndAt(Ctl(b), s)
<1>1. /\ Id[a] = Id[b] /\ Ctl(a).action = Ctl(b).action
      /\ Ctl(a).period = Ctl(b).period /\ EndAt(Ctl(a), r) = EndAt(Ctl(b), s)
  BY DEF FieldAt, Ctl
<1>2. EndAt(Ctl(a), u) = EndAt(Ctl(b), u)
  BY <1>1 DEF EndAt
<1> QED BY <1>1, <1>2 DEF FieldAt, Ctl

\* Only the twin of a level can share its field.
LEMMA OnlyTwin ==
  ASSUME NEW l \in Levels, NEW c \in Levels, Limits(l), Limits(c), Field(l) = Field(c)
  PROVE  l = c \/ (c = Twin(l) /\ SharesField(l))
<1>1. CASE l = "policy" \/ c = "policy"
  <2>1. Limits("campaign") => ~Limits("creative")
    BY DEF Limits, Ctl, RuleFor
  <2> QED BY <1>1, <2>1 DEF Levels, Twin, SharesField
<1>2. CASE l # "policy" /\ c # "policy"
  <2>1. Ctl(l) = Ctl(c)
    BY <1>2 DEF Ctl, RuleFor
  <2>2. (l = "creative") <=> (c = "creative")
    BY <2>1 DEF Limits
  <2> QED BY <1>2, <2>2 DEF Levels
<1> QED BY <1>1, <1>2

LEMMA TwinFacts ==
  ASSUME NEW l \in Levels
  PROVE  Twin(l) \in Levels /\ Twin(l) # l
BY DEF Twin, Levels

LEMMA TwinStays ==
  ASSUME rule' = rule, NEW l \in Levels
  PROVE  (Twin(l))' = Twin(l)
BY SameRule DEF Twin, Levels

LEMMA CapInit == Init => CapInv
<1> SUFFICES ASSUME Init PROVE CapInv
  OBVIOUS
<1>1. BaseInv
  BY BaseInit
<1>2. FreshInv /\ ExactInv
  <2>1. \A l \in Levels : Field(l) \in Fields
    BY <1>1, FieldFacts DEF BaseInv
  <2>2. \A l \in Levels, s \in 0 .. MaxTime : FieldAt(rule, l, s) \in Fields
    BY DEF Init, Fields
  <2>3. \A l \in Levels, d \in Devices : Counted(l, d) = 0
    BY TwinFacts DEF Init, Counted
  <2> QED BY <2>1, <2>2, <2>3 DEF Init, FreshInv, ExactInv
<1>3. OwnInv
  BY DEF Init, OwnInv, Busy
<1>4. SetInv /\ CappedByThisPeriod
  BY DEF Init, SetInv, CappedByThisPeriod
<1> QED BY <1>1, <1>2, <1>3, <1>4 DEF CapInv

\* The control data stays, and only Tick moves the clock.
LEMMA ClockStep ==
  ASSUME BaseInv, [Next]_vars
  PROVE  rule' = rule /\ (Tick \/ now' = now)
<1>1. CASE UNCHANGED vars
  BY <1>1 DEF vars
<1>2. CASE \E t \in Threads, c \in Levels, o \in Outcomes : Command(t, c, o)
  BY <1>2, CommandFacts DEF BaseInv
<1> QED BY <1>1, <1>2, NextCases DEF Tick, Crash, ExpireSet, Begin

\* Who counts: an increment, and nothing else but the clock.
LEMMA CountsStep ==
  ASSUME BaseInv, [Next]_vars
  PROVE  \/ fc' = fc /\ hits' = hits /\ now' = now
         \/ fc' = fc /\ Tick
         \/ \E t \in Threads, c \in Levels, o \in Outcomes : Incr(t, c, o)
BY NextCases DEF vars, Tick, Crash, ExpireSet, Begin, Command, Index, SAdd, Expire, NotReached,
                 redis, history

LEMMA FreshStep == CapInv /\ [Next]_vars => FreshInv'
<1> SUFFICES ASSUME CapInv, [Next]_vars, NEW l \in Levels, NEW d \in Devices,
                    NEW s \in 0 .. MaxTime,
                    (Limits(l))', EndAt((Ctl(l))', s) > (End(l))'
             PROVE  fc'[<<d, FieldAt(rule', l, s)>>] = 0
  BY DEF FreshInv
<1>t. BaseInv /\ TypeOK /\ Ctl(l) \in Controls /\ now \in Nat /\ End(l) \in Nat /\ s \in Nat
  BY FieldFacts, FrequencyAssumption DEF CapInv, BaseInv
<1>r. rule' = rule /\ (Tick \/ now' = now)
  BY <1>t, ClockStep
<1>l. Limits(l) /\ (Ctl(l))' = Ctl(l)
  BY <1>r, SameRule
<1>e. End(l) <= (End(l))' /\ EndAt(Ctl(l), s) \in Nat
  <2>1. CASE Tick
    BY <1>t, <2>1, TickFacts, EndFacts
  <2>2. CASE now' = now
    BY <1>r, <1>t, <2>2, SameTime, EndFacts
  <2> QED BY <1>r, <2>1, <2>2
<1>g. EndAt(Ctl(l), s) > End(l)
  <2>1. (End(l))' \in Nat
    <3>1. TypeOK'
      BY <1>t, TypeStep DEF BaseInv
    <3>2. now' \in Nat
      BY <3>1, FrequencyAssumption DEF TypeOK
    <3>3. EndAt(Ctl(l), now') \in Nat
      BY <1>t, <3>2, EndFacts
    <3> QED BY <1>l, <3>3 DEF End
  <2> QED BY <1>t, <1>l, <1>e, <2>1
<1>z. fc[<<d, FieldAt(rule, l, s)>>] = 0
  BY <1>l, <1>g DEF CapInv, FreshInv
<1>1. CASE fc' = fc
  BY <1>1, <1>r, <1>z
<1>2. CASE \E t \in Threads, c \in Levels, o \in Outcomes : Incr(t, c, o)
  <2>1. PICK t \in Threads, c \in Levels, o \in Outcomes : Incr(t, c, o)
    BY <1>2
  <2>3. FieldAt(rule, l, s) # Field(c)
    <3>1. SUFFICES ASSUME FieldAt(rule, l, s) = FieldAt(rule, c, now) PROVE FALSE
      BY DEF Field
    <3>2. /\ EndAt(Ctl(l), now) = EndAt(Ctl(c), now)
          /\ EndAt(Ctl(l), s) = EndAt(Ctl(c), now)
      BY <1>t, <3>1, SharedForGood
    <3> QED BY <1>t, <1>g, <3>2 DEF End
  <2>4. <<d, FieldAt(rule, l, s)>> \in Devices \X Fields
    BY <1>t DEF Fields, TypeOK
  <2>5. fc'[<<d, FieldAt(rule, l, s)>>] = fc[<<d, FieldAt(rule, l, s)>>]
    <3>1. fc \in [Devices \X Fields -> Nat]
      BY <1>t DEF TypeOK
    <3>2. <<d, FieldAt(rule, l, s)>> # <<ev[t].dev, Field(c)>>
      BY <2>3
    <3> QED BY <2>1, <2>4, <3>1, <3>2 DEF Incr
  <2> QED BY <1>r, <1>z, <2>5
<1> QED BY <1>1, <1>2, <1>t, CountsStep

\* Levels once suspected stay suspected.
LEMMA StrayGrows ==
  ASSUME BaseInv, [Next]_vars
  PROVE  stray \subseteq stray'
<1>1. CASE UNCHANGED vars
  BY <1>1 DEF vars
<1>2. CASE \E t \in Threads, c \in Levels, o \in Outcomes : Command(t, c, o)
  BY <1>2 DEF Command, Incr, Index, SAdd, Expire, NotReached, history
<1> QED BY <1>1, <1>2, NextCases DEF Tick, Crash, ExpireSet, Begin, history

LEMMA IncrHits ==
  ASSUME BaseInv, NEW t \in Threads, NEW c \in Levels, NEW o \in Outcomes,
         Incr(t, c, o), NEW l \in Levels, NEW d \in Devices
  PROVE  hits[<<l, d>>] <= hits'[<<l, d>>] /\ hits'[<<l, d>>] \in Nat
<1> DEFINE x == ev[t].dev
<1>1. hits[<<l, d>>] \in Nat
  BY DEF BaseInv, TypeOK
<1>2. /\ \A a \in Levels, b \in Devices : <<a, b>> # <<c, x>> =>
           hits'[<<a, b>>] = hits[<<a, b>>]
      /\ hits'[<<c, x>>] = IF o = "refused" THEN hits[<<c, x>>] ELSE hits[<<c, x>>] + 1
      /\ \A k \in Devices \X Fields : fc[k] <= fc'[k]
      /\ \A k \in Devices \X Fields : k # <<x, Field(c)>> => fc'[k] = fc[k]
      /\ fc'[<<x, Field(c)>>] = IF o = "refused" THEN fc[<<x, Field(c)>>]
                                ELSE fc[<<x, Field(c)>>] + 1
  BY IncrFacts
<1>3. CASE <<l, d>> = <<c, x>>
  BY <1>1, <1>2, <1>3
<1>4. CASE <<l, d>> # <<c, x>>
  BY <1>1, <1>2, <1>4
<1> QED BY <1>3, <1>4

\* Within a period the counts only grow.
LEMMA HitsGrow ==
  ASSUME BaseInv, [Next]_vars, NEW l \in Levels, NEW d \in Devices,
         Tick => (End(l))' = End(l)
  PROVE  hits[<<l, d>>] <= hits'[<<l, d>>] /\ hits'[<<l, d>>] \in Nat
<1>1. hits[<<l, d>>] \in Nat /\ TypeOK
  BY DEF BaseInv, TypeOK
<1>2. CASE fc' = fc /\ hits' = hits /\ now' = now
  BY <1>1, <1>2
<1>3. CASE Tick
  <2>1. hits'[<<l, d>>] = IF (End(l))' # End(l) THEN 0 ELSE hits[<<l, d>>]
    BY <1>1, <1>3, TickFacts
  <2> QED BY <1>1, <1>3, <2>1
<1>4. CASE \E t \in Threads, c \in Levels, o \in Outcomes : Incr(t, c, o)
  BY <1>4, IncrHits
<1> QED BY <1>2, <1>3, <1>4, CountsStep

LEMMA CountedType ==
  ASSUME BaseInv, [Next]_vars, rule' = rule, NEW l \in Levels, NEW d \in Devices
  PROVE  Counted(l, d) \in Nat /\ (Counted(l, d))' \in Nat
<1>1. PICK w \in Levels : w = Twin(l)
  BY TwinFacts
<1>2. (Twin(l))' = w
  BY <1>1, TwinStays
<1>3. /\ hits \in [Levels \X Devices -> Nat]
      /\ hits' \in [Levels \X Devices -> Nat]
  BY TypeStep DEF BaseInv, TypeOK
<1>4. /\ hits[<<l, d>>] \in Nat /\ hits'[<<l, d>>] \in Nat
      /\ hits[<<w, d>>] \in Nat /\ hits'[<<w, d>>] \in Nat
  BY <1>3
<1> QED BY <1>1, <1>2, <1>4 DEF Counted

\* So does what was counted for the field of a level: levels that share it end
\* their periods together.
LEMMA CountedGrows ==
  ASSUME BaseInv, [Next]_vars, NEW l \in Levels, NEW d \in Devices,
         Tick => (End(l))' = End(l)
  PROVE  /\ Counted(l, d) <= (Counted(l, d))'
         /\ Counted(l, d) \in Nat /\ (Counted(l, d))' \in Nat
<1>w. PICK w \in Levels : w = Twin(l)
  BY TwinFacts
<1>t. TypeOK /\ TypeOK' /\ now \in Nat
  BY TypeStep, FieldFacts DEF BaseInv
<1>r. rule' = rule /\ (Tick \/ now' = now) /\ (Twin(l))' = w /\ now' \in Nat
  BY <1>t, <1>w, ClockStep, TwinStays, FrequencyAssumption DEF TypeOK
<1>n. /\ hits[<<l, d>>] \in Nat /\ hits'[<<l, d>>] \in Nat
      /\ hits[<<w, d>>] \in Nat /\ hits'[<<w, d>>] \in Nat
  BY <1>t DEF TypeOK
<1>h. hits[<<l, d>>] <= hits'[<<l, d>>]
  BY HitsGrow
<1>c. /\ Counted(l, d) = hits[<<l, d>>] + IF SharesField(l) THEN hits[<<w, d>>] ELSE 0
      /\ (Counted(l, d))' = hits'[<<l, d>>] + IF (SharesField(l))' THEN hits'[<<w, d>>] ELSE 0
  BY <1>r, <1>w DEF Counted
<1>1. CASE SharesField(l)
  <2>1. Limits(w) /\ FieldAt(rule, w, now) = FieldAt(rule, l, now)
    BY <1>1, <1>w DEF SharesField, Field
  <2>2. /\ FieldAt(rule, w, now') = FieldAt(rule, l, now')
        /\ EndAt(Ctl(w), now') = EndAt(Ctl(l), now')
        /\ EndAt(Ctl(w), now) = EndAt(Ctl(l), now)
    BY <1>t, <1>r, <2>1, SharedForGood
  <2>3. (SharesField(l))'
    <3>1. (Limits(w))'
      BY <1>r, <2>1, SameRule
    <3> QED BY <1>r, <2>2, <3>1, SameRule DEF SharesField, Field
  <2>4. (Ctl(w))' = Ctl(w) /\ (Ctl(l))' = Ctl(l)
    BY <1>r, SameRule
  <2>5. Tick => (End(w))' = End(w)
    BY <2>2, <2>4 DEF End
  <2>6. hits[<<w, d>>] <= hits'[<<w, d>>]
    BY <1>t, <2>5, HitsGrow
  <2> QED BY <1>n, <1>h, <1>c, <1>1, <2>3, <2>6
<1>2. CASE ~SharesField(l)
  BY <1>n, <1>h, <1>c, <1>2
<1> QED BY <1>1, <1>2

\* An increment of a level's field is counted for the level, whoever makes it.
LEMMA CountedIncr ==
  ASSUME BaseInv, NEW t \in Threads, NEW c \in Levels, NEW o \in Outcomes,
         Incr(t, c, o), o # "refused", Limits(c), NEW l \in Levels, Limits(l),
         Field(l) = Field(c), NEW d \in Devices, d = ev[t].dev
  PROVE  (Counted(l, d))' = Counted(l, d) + 1
<1>w. PICK w \in Levels : w = Twin(l) /\ w # l
  BY TwinFacts
<1>t. TypeOK
  BY DEF BaseInv
<1>r. rule' = rule /\ now' = now
  BY DEF Incr
<1>s. (Twin(l))' = w /\ ((SharesField(l))' <=> SharesField(l))
  <2>1. (Twin(l))' = w
    BY <1>r, <1>w, TwinStays
  <2>2. (Limits(w))' <=> Limits(w)
    BY <1>r, SameRule
  <2>3. (Field(w))' = Field(w) /\ (Field(l))' = Field(l)
    BY <1>r, SameTime
  <2> QED BY <1>w, <2>1, <2>2, <2>3 DEF SharesField
<1>h. /\ hits'[<<c, d>>] = hits[<<c, d>>] + 1
      /\ \A a \in Levels : a # c => hits'[<<a, d>>] = hits[<<a, d>>]
      /\ hits[<<l, d>>] \in Nat /\ hits[<<w, d>>] \in Nat
  <2> DEFINE x == ev[t].dev
  <2>1. /\ \A a \in Levels, b \in Devices : <<a, b>> # <<c, x>> =>
             hits'[<<a, b>>] = hits[<<a, b>>]
        /\ hits'[<<c, x>>] = IF o = "refused" THEN hits[<<c, x>>] ELSE hits[<<c, x>>] + 1
        /\ \A k \in Devices \X Fields : fc[k] <= fc'[k]
        /\ \A k \in Devices \X Fields : k # <<x, Field(c)>> => fc'[k] = fc[k]
        /\ fc'[<<x, Field(c)>>] = IF o = "refused" THEN fc[<<x, Field(c)>>]
                                  ELSE fc[<<x, Field(c)>>] + 1
    BY IncrFacts
  <2>2. hits \in [Levels \X Devices -> Nat]
    BY <1>t DEF TypeOK
  <2> QED BY <2>1, <2>2
<1>c. /\ Counted(l, d) = hits[<<l, d>>] + IF SharesField(l) THEN hits[<<w, d>>] ELSE 0
      /\ (Counted(l, d))' = hits'[<<l, d>>] + IF SharesField(l) THEN hits'[<<w, d>>] ELSE 0
  BY <1>s, <1>w DEF Counted
<1>1. CASE l = c
  BY <1>w, <1>h, <1>c, <1>1
<1>2. CASE l # c
  <2>1. c = w /\ SharesField(l)
    BY <1>w, <1>2, OnlyTwin
  <2> QED BY <1>h, <1>c, <1>2, <2>1
<1> QED BY <1>1, <1>2

LEMMA ExactStep == CapInv /\ [Next]_vars => ExactInv'
<1> SUFFICES ASSUME CapInv, [Next]_vars, NEW l \in Levels, NEW d \in Devices, (Limits(l))'
             PROVE  fc'[<<d, (Field(l))'>>] <= (Counted(l, d))'
  BY DEF ExactInv
<1>t. BaseInv /\ TypeOK /\ Ctl(l) \in Controls /\ now \in Nat /\ End(l) \in Nat
      /\ Field(l) \in Fields
  BY FieldFacts DEF CapInv, BaseInv
<1>r. rule' = rule /\ (Tick \/ now' = now)
  BY <1>t, ClockStep
<1>l. Limits(l)
  BY <1>r, SameRule
<1>z. fc[<<d, Field(l)>>] <= Counted(l, d) /\ fc[<<d, Field(l)>>] \in Nat
  BY <1>l, <1>t DEF CapInv, ExactInv, TypeOK
<1>n. Counted(l, d) \in Nat /\ (Counted(l, d))' \in Nat
  BY <1>t, <1>r, CountedType
<1>g. ASSUME Tick => (End(l))' = End(l)
      PROVE  Counted(l, d) <= (Counted(l, d))'
  BY <1>t, <1>g, CountedGrows
<1>1. CASE fc' = fc /\ hits' = hits /\ now' = now
  <2>1. (End(l))' = End(l) /\ (Field(l))' = Field(l)
    BY <1>1, <1>r, SameTime
  <2> QED BY <1>1, <1>g, <1>n, <1>z, <2>1
<1>2. CASE fc' = fc /\ Tick
  <2>1. /\ now' = now + 1 /\ EndAt(Ctl(l), now + 1) = (End(l))'
        /\ End(l) <= (End(l))'
        /\ (End(l))' = End(l) => (Field(l))' = Field(l)
    BY <1>2, <1>t, TickFacts
  <2>2. CASE (End(l))' = End(l)
    BY <1>2, <1>g, <1>n, <1>z, <2>1, <2>2
  <2>3. CASE (End(l))' # End(l)
    <3>1. EndAt(Ctl(l), now + 1) \in Nat
      BY <1>t, EndFacts
    <3>2. EndAt(Ctl(l), now + 1) > End(l)
      BY <1>t, <2>1, <2>3, <3>1
    <3>3. now + 1 \in 0 .. MaxTime
      BY <1>2, <1>t, FrequencyAssumption DEF Tick, TypeOK
    <3>4. fc[<<d, FieldAt(rule, l, now + 1)>>] = 0
      BY <1>l, <3>2, <3>3 DEF CapInv, FreshInv
    <3>5. (Field(l))' = FieldAt(rule, l, now + 1)
      BY <1>r, <2>1 DEF Field
    <3> QED BY <1>2, <1>n, <3>4, <3>5
  <2> QED BY <2>2, <2>3
<1>3. CASE \E t \in Threads, c \in Levels, o \in Outcomes : Incr(t, c, o)
  <2>1. PICK t \in Threads, c \in Levels, o \in Outcomes : Incr(t, c, o)
    BY <1>3
  <2>2. Limits(c)
    <3>1. Applies(ev[t].m, c)
      BY <1>t, <2>1, CommandFacts DEF Command, BaseInv
    <3> QED BY <3>1 DEF Applies
  <2>3. (Field(l))' = Field(l)
    BY <2>1, SameTime DEF Incr
  <2> DEFINE x == ev[t].dev
  <2>4. /\ \A a \in Levels, b \in Devices : <<a, b>> # <<c, x>> =>
             hits'[<<a, b>>] = hits[<<a, b>>]
        /\ hits'[<<c, x>>] = IF o = "refused" THEN hits[<<c, x>>] ELSE hits[<<c, x>>] + 1
        /\ \A k \in Devices \X Fields : fc[k] <= fc'[k]
        /\ \A k \in Devices \X Fields : k # <<x, Field(c)>> => fc'[k] = fc[k]
        /\ fc'[<<x, Field(c)>>] = IF o = "refused" THEN fc[<<x, Field(c)>>]
                                  ELSE fc[<<x, Field(c)>>] + 1
    BY <1>t, <2>1, IncrFacts
  <2>g. Counted(l, d) <= (Counted(l, d))'
    <3>1. ~Tick
      BY <1>t, <2>1 DEF Incr, Tick, TypeOK
    <3> QED BY <1>g, <3>1
  <2>5. CASE <<d, Field(l)>> = <<x, Field(c)>> /\ o # "refused"
    <3>1. (Counted(l, d))' = Counted(l, d) + 1
      BY <1>t, <1>l, <2>1, <2>2, <2>5, CountedIncr
    <3> QED BY <1>z, <1>n, <2>3, <2>4, <2>5, <3>1
  <2>6. CASE ~(<<d, Field(l)>> = <<x, Field(c)>> /\ o # "refused")
    <3>1. fc'[<<d, Field(l)>>] = fc[<<d, Field(l)>>]
      BY <1>t, <2>4, <2>6
    <3> QED BY <1>z, <1>n, <2>3, <2>g, <3>1
  <2> QED BY <2>5, <2>6
<1> QED BY <1>1, <1>2, <1>3, <1>t, CountsStep

\* Busy in numbers, before and after a step.
BusyPlaces ==
  TypeOK => \A t \in Threads, l \in Levels :
    Busy(t, l) <=> /\ pc[t] # Idle /\ Applies(ev[t].m, l)
                   /\ pc[t] <= SaddAt(l) + 1

LEMMA BusyPlace == BusyPlaces
<1> SUFFICES ASSUME TypeOK, NEW t \in Threads, NEW l \in Levels
             PROVE  Busy(t, l) <=> /\ pc[t] # Idle /\ Applies(ev[t].m, l)
                                   /\ pc[t] <= SaddAt(l) + 1
  BY DEF BusyPlaces
<1>1. pc \in [Threads -> 0 .. Len(Program)]
  BY DEF TypeOK
<1> QED BY <1>1, Places

LEMMA BusyPlaceNext == BusyPlaces'
BY BusyPlace, PTL

LEMMA OwnStep == CapInv /\ [Next]_vars => OwnInv'
<1> SUFFICES ASSUME CapInv, [Next]_vars, NEW t \in Threads, NEW l \in Levels,
                    NEW d \in Devices, (Busy(t, l))', l \notin stray', ev'[t].dev = d
             PROVE  got'[t][l] <= (Counted(l, d))'
  BY DEF OwnInv
<1>t. BaseInv /\ TypeOK /\ ActiveInv /\ got \in [Threads -> [Levels -> Nat]]
  BY DEF CapInv, BaseInv, TypeOK
<1>u. TypeOK'
  BY <1>t, TypeStep
<1>r. rule' = rule
  BY <1>t, ClockStep
<1>b. /\ pc'[t] # Idle /\ Applies(ev'[t].m, l) /\ pc'[t] <= SaddAt(l) + 1
      /\ ev'[t] \in Events /\ pc'[t] \in 0 .. 12
  <2>1. pc'[t] # Idle /\ (Applies(ev[t].m, l))' /\ pc'[t] <= SaddAt(l) + 1
    BY <1>u, BusyPlaceNext DEF BusyPlaces
  <2>2. Applies(ev'[t].m, l)
    BY <1>r, <2>1 DEF Applies, Limits, Ctl
  <2> QED BY <1>u, <2>1, <2>2, ProgramFacts DEF TypeOK
<1>l. l \notin stray
  BY <1>t, StrayGrows
<1>g. ASSUME Tick => (End(l))' = End(l)
      PROVE  /\ Counted(l, d) <= (Counted(l, d))'
             /\ Counted(l, d) \in Nat /\ (Counted(l, d))' \in Nat
  BY <1>t, <1>g, CountedGrows
\* The thread was at work before the step, and knows no more than it did.
<1>1. ASSUME pc[t] # Idle, pc[t] <= pc'[t], ev'[t] = ev[t], got'[t][l] = got[t][l],
             pc[t] \in 0 .. 12, Tick => (End(l))' = End(l)
      PROVE  got'[t][l] <= (Counted(l, d))'
  <2>1. SaddAt(l) \in 7 .. 11
    BY DEF SaddAt
  <2>2. pc[t] <= SaddAt(l) + 1
    BY <1>b, <1>1, <2>1
  <2>3. Busy(t, l)
    BY <1>t, <1>b, <1>1, <2>2, BusyPlace DEF BusyPlaces
  <2>4. got[t][l] <= Counted(l, d) /\ got[t][l] \in Nat
    BY <1>t, <1>l, <1>1, <2>3 DEF CapInv, OwnInv
  <2> QED BY <1>1, <1>g, <2>4
<1>2. pc \in [Threads -> 0 .. 12] /\ pc[t] \in 0 .. 12
  BY <1>t, ProgramFacts DEF TypeOK
<1>3. CASE UNCHANGED vars \/ \E c \in Levels : ExpireSet(c)
  <2>1. pc' = pc /\ ev' = ev /\ got' = got
    BY <1>3 DEF vars, ExpireSet, thread
  <2>2. ~Tick
    BY <1>3, <1>t DEF vars, ExpireSet, Tick, TypeOK
  <2> QED BY <1>1, <1>2, <1>b, <2>1, <2>2
<1>4. CASE Tick
  <2>1. pc' = pc /\ ev' = ev /\ got' = got
    BY <1>4 DEF Tick, thread
  <2>2. EndAt(Ctl(l), now + 1) = (End(l))'
    BY <1>4, <1>t, TickFacts
  <2>3. Busy(t, l)
    BY <1>t, <1>b, <2>1, BusyPlace DEF BusyPlaces
  <2>4. (End(l))' = End(l)
    BY <1>4, <2>2, <2>3 DEF Tick
  <2> QED BY <1>1, <1>2, <1>b, <2>1, <2>4
<1>5. CASE Crash
  BY <1>5, <1>b DEF Crash
<1>6. CASE \E s \in Threads, e \in Events : Begin(s, e)
  <2>1. PICK s \in Threads, e \in Events : Begin(s, e)
    BY <1>6
  <2>2. got' = [got EXCEPT ![s] = Nothing] /\ hits' = hits /\ now' = now
    BY <2>1 DEF Begin, history
  <2>3. CASE s = t
    <3>1. got'[t][l] = 0
      BY <1>t, <2>2, <2>3 DEF Nothing
    <3>2. ~Tick
      BY <1>t, <2>2 DEF Tick, TypeOK
    <3> QED BY <1>g, <3>1, <3>2
  <2>4. CASE s # t
    <3>1. pc'[t] = pc[t] /\ ev'[t] = ev[t]
      BY <1>t, <2>1, <2>4, BeginFacts
    <3>2. got'[t] = got[t]
      BY <1>t, <2>2, <2>4
    <3>3. ~Tick
      BY <1>t, <2>2 DEF Tick, TypeOK
    <3> QED BY <1>1, <1>2, <1>b, <3>1, <3>2, <3>3
  <2> QED BY <2>3, <2>4
<1>7. CASE \E s \in Threads, c \in Levels, o \in Outcomes : Command(s, c, o)
  <2>1. PICK s \in Threads, c \in Levels, o \in Outcomes : Command(s, c, o)
    BY <1>7
  <2>2. /\ now' = now /\ Applies(ev[s].m, c)
        /\ \A u \in Threads : u # s => pc'[u] = pc[u] /\ ev'[u] = ev[u]
        /\ \A u \in Threads : pc'[u] # Idle => ev'[u] = ev[u]
        /\ pc[s] \in 1 .. 12 /\ (pc'[s] # Idle => pc'[s] > pc[s])
    BY <1>t, <2>1, CommandFacts
  <2>3. pc[t] # Idle /\ pc[t] <= pc'[t] /\ ev'[t] = ev[t]
    BY <1>2, <1>b, <2>2 DEF Idle
  <2>4. ~Tick
    BY <1>t, <2>2 DEF Tick, TypeOK
  <2>5. CASE Incr(s, c, o) /\ s = t /\ c = l /\ o = "done"
    <3>1. got'[t][l] = fc[<<ev[t].dev, Field(l)>>] + 1
      BY <1>t, <2>5, IncrFacts
    <3>2. Limits(l) /\ ev[t].dev = d
      BY <2>2, <2>3, <2>5 DEF Applies
    <3>3. /\ fc[<<d, Field(l)>>] <= Counted(l, d)
          /\ fc[<<d, Field(l)>>] \in Nat /\ Counted(l, d) \in Nat
      BY <1>t, <1>g, <2>4, <3>2, FieldFacts DEF CapInv, ExactInv, TypeOK
    <3>4. (Counted(l, d))' = Counted(l, d) + 1
      BY <1>t, <2>5, <3>2, CountedIncr DEF Outcomes
    <3> QED BY <3>1, <3>2, <3>3, <3>4
  <2>6. CASE ~(Incr(s, c, o) /\ s = t /\ c = l /\ o = "done")
    <3>1. got'[t][l] = got[t][l]
      <4>1. CASE Incr(s, c, o)
        BY <1>t, <2>6, <4>1, IncrKeepsGot
      <4>2. CASE ~Incr(s, c, o)
        BY <2>1, <4>2 DEF Command, Index, SAdd, Expire, NotReached
      <4> QED BY <4>1, <4>2
    <3> QED BY <1>1, <1>2, <2>3, <2>4, <3>1
  <2> QED BY <2>5, <2>6
<1> QED BY <1>3, <1>4, <1>5, <1>6, <1>7, NextCases

\* After the SADD of a level its EXPIRE is the next command.
LEMMA SAddNext ==
  ASSUME BaseInv, NEW t \in Threads, NEW l \in Levels, SAdd(t, l, "done")
  PROVE  (At(t, "expire", l))'
<1>1. At(t, "sadd", l) /\ Goto(t, pc[t] + 1)
  BY DEF SAdd
<1>2. pc \in [Threads -> 0 .. 12] /\ pc[t] = SaddAt(l)
  <2>1. pc \in [Threads -> 0 .. Len(Program)]
    BY DEF BaseInv, TypeOK
  <2> QED BY <1>1, <2>1, Places, ProgramFacts
<1>3. pc'[t] = SaddAt(l) + 1
  BY <1>1, <1>2 DEF Goto
<1>4. SaddAt(l) + 1 \in 1 .. 12
  BY DEF SaddAt
<1>5. Program[SaddAt(l) + 1] = <<"expire", l>>
  BY <1>4, CapPlaces
<1> QED BY <1>3, <1>4, <1>5 DEF At, Idle

LEMMA SetStep == CapInv /\ [Next]_vars => SetInv'
<1> SUFFICES ASSUME CapInv, [Next]_vars, NEW l \in Levels,
                    full'[l] # {}, l \notin stray', ttl'[l] = 0
             PROVE  \E t \in Threads : (At(t, "expire", l))'
  BY DEF SetInv
<1>t. /\ BaseInv /\ TypeOK /\ ActiveInv /\ full \in [Levels -> SUBSET Devices]
      /\ ttl \in [Levels -> Nat]
  BY DEF CapInv, BaseInv, TypeOK
<1>l. l \notin stray
  BY <1>t, StrayGrows
\* The set and its time to live are as they were.
<1>w. ASSUME full[l] # {}, ttl[l] = 0
      PROVE  \E t \in Threads : At(t, "expire", l)
  BY <1>w, <1>l DEF CapInv, SetInv
<1>1. CASE UNCHANGED vars \/ Tick
  <2>1. full' = full /\ ttl' = ttl /\ pc' = pc
    BY <1>1 DEF vars, Tick, redis, thread
  <2> QED BY <1>w, <2>1 DEF At
<1>2. CASE \E c \in Levels : ExpireSet(c)
  <2>1. PICK c \in Levels : ExpireSet(c)
    BY <1>2
  <2>2. /\ full' = [full EXCEPT ![c] = {}] /\ ttl' = [ttl EXCEPT ![c] = 0]
        /\ pc' = pc
    BY <2>1 DEF ExpireSet, thread
  <2>3. full[l] # {} /\ ttl[l] = 0
    BY <1>t, <2>2
  <2> QED BY <1>w, <2>2, <2>3 DEF At
<1>3. CASE Crash
  <2>1. PICK t \in Threads : At(t, "expire", l)
    BY <1>3, <1>w DEF Crash, redis
  <2> QED BY <1>3, <2>1 DEF Crash
<1>4. CASE \E t \in Threads, e \in Events : Begin(t, e)
  <2>1. PICK t \in Threads, e \in Events : Begin(t, e)
    BY <1>4
  <2>2. PICK s \in Threads : At(s, "expire", l)
    BY <1>w, <2>1 DEF Begin, redis
  <2>3. pc[t] = Idle /\ \A u \in Threads : u # t => pc'[u] = pc[u]
    BY <1>t, <2>1, BeginFacts
  <2> QED BY <2>2, <2>3 DEF At
<1>5. CASE \E t \in Threads, c \in Levels, o \in Outcomes : Command(t, c, o)
  <2>1. PICK t \in Threads, c \in Levels, o \in Outcomes : Command(t, c, o)
    BY <1>5
  <2>2. \A u \in Threads : u # t => pc'[u] = pc[u]
    BY <1>t, <2>1, CommandFacts
  \* A thread other than the one that moves is still before its EXPIRE.
  <2>3. ASSUME full[l] # {}, ttl[l] = 0, ~At(t, "expire", l)
        PROVE  \E u \in Threads : (At(u, "expire", l))'
    <3>1. PICK u \in Threads : At(u, "expire", l)
      BY <1>w, <2>3
    <3> QED BY <2>2, <2>3, <3>1 DEF At
  <2>4. CASE SAdd(t, c, o)
    <3>1. /\ full' = full \/ full' = [full EXCEPT ![c] = @ \cup {ev[t].dev}]
          /\ ttl' = ttl /\ ~At(t, "expire", l)
          /\ o = "refused" => full' = full
          /\ o = "unheard" => c \in stray'
      BY <2>4 DEF SAdd, At
    <3>2. CASE c = l /\ o = "done"
      BY <1>t, <2>4, <3>2, SAddNext
    <3>3. CASE ~(c = l /\ o = "done")
      <4>1. full'[l] = full[l]
        BY <1>t, <3>1, <3>3 DEF Outcomes
      <4> QED BY <2>3, <3>1, <4>1
    <3> QED BY <3>2, <3>3
  <2>5. CASE Expire(t, c, o)
    <3>1. Program[pc[t]] = <<"expire", c>>
      BY <2>5 DEF Expire, At
    <3>2. CASE c = l
      <4>1. ExpireCommand(l)
        BY <2>5, <3>2 DEF Expire
      <4>2. CASE full[l] = {}
        BY <4>1, <4>2 DEF ExpireCommand
      <4>3. CASE full[l] # {} /\ End(l) <= now
        <5>1. full' = [full EXCEPT ![l] = {}]
          BY <4>1, <4>3 DEF ExpireCommand
        <5> QED BY <1>t, <5>1
      <4>4. CASE full[l] # {} /\ ~(End(l) <= now)
        <5>1. ttl' = [ttl EXCEPT ![l] = End(l)]
          BY <4>1, <4>4 DEF ExpireCommand
        <5>2. End(l) \in Nat /\ now \in Nat
          BY <1>t, FieldFacts
        <5> QED BY <1>t, <4>4, <5>1, <5>2
      <4> QED BY <4>2, <4>3, <4>4
    <3>3. CASE c # l
      <4>1. /\ full' = full \/ full' = [full EXCEPT ![c] = {}]
            /\ ttl' = ttl \/ ttl' = [ttl EXCEPT ![c] = 0] \/ ttl' = [ttl EXCEPT ![c] = End(c)]
        BY <2>5 DEF Expire, ExpireCommand
      <4>2. full'[l] = full[l] /\ ttl'[l] = ttl[l]
        BY <1>t, <3>3, <4>1
      <4>3. ~At(t, "expire", l)
        BY <3>1, <3>3 DEF At
      <4> QED BY <2>3, <4>2, <4>3
    <3> QED BY <3>2, <3>3
  <2>6. CASE Incr(t, c, o) \/ Index(t, c, o) \/ NotReached(t, c)
    <3>1. full' = full /\ ttl' = ttl /\ ~At(t, "expire", l)
      BY <2>6 DEF Incr, Index, NotReached, redis, At
    <3> QED BY <2>3, <3>1
  <2> QED BY <2>1, <2>4, <2>5, <2>6 DEF Command
<1> QED BY <1>1, <1>2, <1>3, <1>4, <1>5, NextCases

LEMMA CappedStep == CapInv /\ [Next]_vars => CappedByThisPeriod'
<1> SUFFICES ASSUME CapInv, [Next]_vars, NEW l \in Levels, NEW d \in full'[l],
                    l \notin stray'
             PROVE  (Counted(l, d))' >= (Ctl(l))'.count
  BY DEF CappedByThisPeriod
<1>t. /\ BaseInv /\ TypeOK /\ ActiveInv /\ full \in [Levels -> SUBSET Devices]
      /\ Ctl(l).count \in Nat /\ now \in Nat /\ End(l) \in Nat
  BY FieldFacts DEF CapInv, BaseInv, TypeOK, Controls
<1>u. d \in Devices
  BY <1>t, TypeStep DEF TypeOK
<1>r. rule' = rule /\ (Ctl(l))' = Ctl(l)
  BY <1>t, ClockStep, SameRule
<1>l. l \notin stray
  BY <1>t, StrayGrows
\* The period of a set that is there is not over.
<1>1. ASSUME Tick PROVE (End(l))' = End(l)
  <2>1. /\ EndAt(Ctl(l), now + 1) = (End(l))'
        /\ (End(l))' # End(l) => End(l) = now
    BY <1>t, <1>1, TickFacts
  <2>2. full[l] # {}
    BY <1>1 DEF Tick, redis
  <2>3. CASE ttl[l] # 0
    <3>1. ttl[l] = End(l) /\ ttl[l] > now
      BY <1>1, <1>t, <2>3 DEF BaseInv, TtlInv, Tick
    <3> QED BY <1>t, <2>1, <3>1
  <2>4. CASE ttl[l] = 0
    <3>1. PICK t \in Threads : At(t, "expire", l)
      BY <1>l, <2>2, <2>4 DEF CapInv, SetInv
    <3>2. pc[t] # Idle /\ Applies(ev[t].m, l)
      BY <1>t, <3>1 DEF At, ActiveInv, LevelAt
    <3>3. pc[t] <= SaddAt(l) + 1
      <4>1. pc \in [Threads -> 0 .. Len(Program)]
        BY <1>t DEF TypeOK
      <4>2. pc[t] = SaddAt(l) + 1 /\ pc[t] \in 0 .. 12
        BY <3>1, <4>1, Places
      <4> QED BY <4>2
    <3>4. Busy(t, l)
      BY <1>t, <3>2, <3>3, BusyPlace DEF BusyPlaces
    <3> QED BY <1>1, <2>1, <3>4 DEF Tick
  <2> QED BY <2>3, <2>4
<1>2. /\ Counted(l, d) <= (Counted(l, d))'
      /\ Counted(l, d) \in Nat /\ (Counted(l, d))' \in Nat
  BY <1>t, <1>u, <1>1, CountedGrows
<1>3. CASE d \in full[l]
  <2>1. Counted(l, d) >= Ctl(l).count
    BY <1>3, <1>l DEF CapInv, CappedByThisPeriod
  <2> QED BY <1>t, <1>r, <1>2, <2>1
<1>4. CASE d \notin full[l]
  <2>1. PICK t \in Threads, c \in Levels, o \in Outcomes : SAdd(t, c, o)
    <3>1. CASE UNCHANGED vars \/ Tick \/ Crash \/ \E t \in Threads, e \in Events : Begin(t, e)
      BY <1>4, <3>1 DEF vars, Tick, Crash, Begin, redis
    <3>2. CASE \E c \in Levels : ExpireSet(c)
      BY <1>4, <1>t, <3>2 DEF ExpireSet
    <3>3. CASE \E t \in Threads, c \in Levels, o \in Outcomes :
                 Incr(t, c, o) \/ Index(t, c, o) \/ NotReached(t, c)
      BY <1>4, <3>3 DEF Incr, Index, NotReached, redis
    <3>4. CASE \E t \in Threads, c \in Levels, o \in Outcomes : Expire(t, c, o)
      <4>1. \E c \in Levels : full' = full \/ full' = [full EXCEPT ![c] = {}]
        BY <3>4 DEF Expire, ExpireCommand
      <4> QED BY <1>4, <1>t, <4>1
    <3> QED BY <3>1, <3>2, <3>3, <3>4, NextCases DEF Command
  <2>2. /\ full' = full \/ full' = [full EXCEPT ![c] = @ \cup {ev[t].dev}]
        /\ At(t, "sadd", c) /\ Reached(got[t][c], c)
    BY <2>1 DEF SAdd
  <2>3. c = l /\ ev[t].dev = d
    BY <1>4, <1>t, <2>2
  <2>4. pc[t] # Idle /\ Applies(ev[t].m, l)
    BY <1>t, <2>2, <2>3 DEF At, ActiveInv, LevelAt
  <2>5. pc[t] <= SaddAt(l) + 1
    <3>1. pc \in [Threads -> 0 .. Len(Program)]
      BY <1>t DEF TypeOK
    <3>2. pc[t] = SaddAt(l) /\ pc[t] \in 0 .. 12
      BY <2>2, <2>3, <3>1, Places
    <3> QED BY <3>2
  <2>6. Busy(t, l)
    BY <1>t, <2>4, <2>5, BusyPlace DEF BusyPlaces
  <2>7. got[t][l] <= Counted(l, d) /\ got[t][l] \in Nat
    <3>1. got[t][l] \in Nat
      BY <1>t DEF TypeOK
    <3>2. OwnInv
      BY DEF CapInv
    <3> QED BY <1>l, <1>u, <2>3, <2>6, <3>1, <3>2 DEF OwnInv
  <2>8. got[t][l] >= Ctl(l).count
    BY <2>2, <2>3 DEF Reached
  <2> QED BY <1>t, <1>r, <1>2, <2>7, <2>8
<1> QED BY <1>3, <1>4

\* A device is in the set of a level only because of what its events of this
\* period added to the level's field, unless the set may have outlived its
\* period: for any numbers of campaign, policy and creative, shared or not.
THEOREM CapsAreOfThisPeriod == Spec => []CappedByThisPeriod
<1>1. CapInv /\ [Next]_vars => CapInv'
  <2>1. CapInv /\ [Next]_vars => BaseInv'
    BY BaseStep DEF CapInv
  <2> QED BY <2>1, FreshStep, ExactStep, OwnStep, SetStep, CappedStep DEF CapInv
<1>2. CapInv => CappedByThisPeriod
  BY DEF CapInv
<1> QED BY <1>1, <1>2, CapInit, PTL DEF Spec

==============================================================================
