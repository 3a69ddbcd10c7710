---------------------------- MODULE ClocksProofs ----------------------------
(***************************************************************************)
(* Proofs about common/mclock.  Of Alarm, for any set of timers and any    *)
(* bounds: the alarm never loses a wake-up.  What makes the invariant      *)
(* inductive is the state in the middle of Schedule: the timer that the    *)
(* reading t0 of the clock makes reusable may have fired meanwhile, but    *)
(* then its value is still on its way or in the channel, because the only  *)
(* reader is in Schedule.                                                  *)
(*                                                                         *)
(* Of SimClock, for any number of timers, of goroutines that run the clock *)
(* or wait for timers, and any last time: its types, that a timer is in    *)
(* one place, that Run never waits, that no waiter sleeps while there are  *)
(* enough timers, that the clock passes no timer, and that a simulated     *)
(* clock keeps the promises of Timers.                                     *)
(***************************************************************************)
EXTENDS MCClocks, FiniteSetTheorems, SequenceTheorems, TLAPS

(* A timer that was ahead of the clock when Schedule read it has not been  *)
(* heard yet.                                                              *)
ReadingSound ==
  pc = "schedule" /\ timer # NoTimer /\ deadline > t0 =>
    st[timer] \in {"pending", "running"} \/ (st[timer] = "done" /\ ch = 1)

IInv == TypeOK /\ OneTimer /\ DeadlineHasTimer /\ NoLostWakeup /\ ReadingSound

(* What the two steps of the clock that an alarm sees amount to.           *)
LEMMA AdvanceStep ==
  ASSUME TimersTypeOK, Advance
  PROVE  now' = now + 1 /\ now' \in 0..MaxTime /\ st' = st /\ at' = at
  BY MaxTimeAssumption DEF TimersTypeOK, Advance, Elapse

LEMMA ExpireStep ==
  ASSUME TimersTypeOK, NEW i \in TimerIds, Expire(i)
  PROVE  /\ st[i] = "pending" /\ at[i] <= now
         /\ st' = [st EXCEPT ![i] = "running"]
         /\ now' = now /\ at' = at
  <1>1. now' = now /\ at' = at /\ st[i] = "pending" /\ at[i] <= now
    BY DEF TimersTypeOK, Expire, Elapse
  <1>2. st' = [k \in TimerIds |-> IF k \in {i} THEN "running" ELSE st[k]]
    BY DEF Expire, Elapse
  <1> QED
    BY <1>1, <1>2 DEF TimersTypeOK

LEMMA TypeInit == Init => TypeOK
  <1> SUFFICES ASSUME Init PROVE TypeOK
    OBVIOUS
  <1>1. armed \in BOOLEAN /\ quiet \in BOOLEAN
    BY Zenon DEF Init
  <1> QED
    BY <1>1, MaxTimeAssumption, AlarmBoundsAssumption
    DEF Init, TimersInit, TypeOK, TimersTypeOK, TimerStates

(* Every step keeps the types.                                             *)
LEMMA TypeStep == TypeOK /\ [Next]_vars => TypeOK'
  <1> SUFFICES ASSUME TypeOK, [Next]_vars PROVE TypeOK'
    OBVIOUS
  <1> USE MaxTimeAssumption, AlarmBoundsAssumption
      DEF TypeOK, TimersTypeOK, TimerStates
  <1>1. CASE Tick
    BY <1>1, AdvanceStep DEF Tick, alarmVars, callVars, histVars
  <1>2. ASSUME NEW i \in TimerIds, TimerExpires(i) PROVE TypeOK'
    BY <1>2, ExpireStep DEF TimerExpires, alarmVars, callVars, histVars
  <1>3. ASSUME NEW i \in TimerIds, Send(i) PROVE TypeOK'
    BY <1>3 DEF Send, Finish, callVars, histVars
  <1>4. ASSUME NEW d \in 0..MaxReq, ScheduleCall(d) PROVE TypeOK'
    <2>1. quiet' \in BOOLEAN
      BY <1>4, Zenon DEF ScheduleCall
    <2> QED
      BY <1>4, <2>1 DEF ScheduleCall, timerVars, alarmVars
  <1>5. CASE ScheduleKeeps
    BY <1>5 DEF ScheduleKeeps, timerVars, alarmVars
  <1>6. ASSUME NEW i \in TimerIds, ScheduleSets(i) PROVE TypeOK'
    <2>1. Later(req, t0) \in 0..MaxTime /\ Later(req, t0) - t0 \in Nat
      BY DEF Later
    <2>2. at' \in [TimerIds -> Nat]
      BY <1>6, <2>1 DEF ScheduleSets
    <2>3. st' \in [TimerIds -> TimerStates]
      BY <1>6 DEF ScheduleSets, Stopped
    <2> QED
      BY <1>6, <2>1, <2>2, <2>3 DEF ScheduleSets
  <1>7. CASE Stop
    <2>1. armed' \in BOOLEAN /\ quiet' \in BOOLEAN
      BY <1>7, Zenon DEF Stop
    <2> QED
      BY <1>7, <2>1 DEF Stop, Stopped, callVars
  <1>8. CASE Receive
    BY <1>8 DEF Receive, timerVars, callVars
  <1>9. CASE UNCHANGED vars
    BY <1>9 DEF vars, timerVars, alarmVars, callVars, histVars
  <1> QED
    BY <1>1, <1>2, <1>3, <1>4, <1>5, <1>6, <1>7, <1>8, <1>9
    DEF Next, TimerStep, Schedule

LEMMA IInvInit == Init => IInv
  BY TypeInit, NoTimerAssumption
  DEF Init, TimersInit, IInv, OneTimer, Pending, DeadlineHasTimer, NoLostWakeup, ReadingSound

(* Every step keeps the rest of the invariant.                             *)
LEMMA IInvStep == IInv /\ [Next]_vars => IInv'
  <1> SUFFICES ASSUME IInv, [Next]_vars PROVE IInv'
    OBVIOUS
  <1>0. TypeOK /\ TypeOK'
    BY TypeStep DEF IInv
  <1> USE <1>0, MaxTimeAssumption, AlarmBoundsAssumption, NoTimerAssumption
      DEF IInv, TypeOK, TimersTypeOK, OneTimer, Pending, DeadlineHasTimer,
          NoLostWakeup, ReadingSound
  <1>1. CASE Tick
    BY <1>1, AdvanceStep DEF Tick, alarmVars, callVars, histVars
  <1>2. ASSUME NEW i \in TimerIds, TimerExpires(i) PROVE IInv'
    BY <1>2, ExpireStep DEF TimerExpires, alarmVars, callVars, histVars
  <1>3. ASSUME NEW i \in TimerIds, Send(i) PROVE IInv'
    BY <1>3 DEF Send, Finish, callVars, histVars
  <1>4. ASSUME NEW d \in 0..MaxReq, ScheduleCall(d) PROVE IInv'
    BY <1>4 DEF ScheduleCall, timerVars, alarmVars
  <1>5. CASE ScheduleKeeps
    BY <1>5 DEF ScheduleKeeps, Reusable, Later, timerVars, alarmVars
  <1>6. ASSUME NEW i \in TimerIds, ScheduleSets(i) PROVE IInv'
    <2>1. st'[i] = "pending" /\ \A j \in TimerIds : j # i => st'[j] # "pending"
      BY <1>6 DEF ScheduleSets, Stopped, TimerStates
    <2>2. at'[i] = deadline' + late'[i] /\ timer' = i /\ deadline' = Later(req, t0)
      BY <1>6 DEF ScheduleSets, Later
    <2>3. pc' = "idle" /\ req' = req /\ t0' = t0
      BY <1>6 DEF ScheduleSets
    <2> QED
      BY <2>1, <2>2, <2>3 DEF Later
  <1>7. CASE Stop
    BY <1>7 DEF Stop, Stopped, callVars
  <1>8. CASE Receive
    BY <1>8 DEF Receive, timerVars, callVars
  <1>9. CASE UNCHANGED vars
    BY <1>9 DEF vars, timerVars, alarmVars, callVars, histVars, Later
  <1> QED
    BY <1>1, <1>2, <1>3, <1>4, <1>5, <1>6, <1>7, <1>8, <1>9
    DEF Next, TimerStep, Schedule

THEOREM Invariance == Spec => []IInv
  BY IInvInit, IInvStep, PTL DEF Spec

(* Schedule never acts on a reading of the clock from the future, and the  *)
(* channel holds at most one value: Alarm's types, for all constants.      *)
THEOREM TypeCorrect == Spec => []TypeOK
  <1>1. IInv => TypeOK
    BY DEF IInv
  <1> QED
    BY <1>1, Invariance, PTL

(* At no time do two timers wait to ring the alarm.                        *)
THEOREM OneTimerPending == Spec => []OneTimer
  <1>1. IInv => OneTimer
    BY DEF IInv
  <1> QED
    BY <1>1, Invariance, PTL

(* Schedule's shortcut is sound: a deadline ahead of the clock always has  *)
(* a pending timer that is due no earlier.                                 *)
THEOREM ShortcutSound == Spec => []DeadlineHasTimer
  <1>1. IInv => DeadlineHasTimer
    BY DEF IInv
  <1> QED
    BY <1>1, Invariance, PTL

(* No sequence of Schedule, Stop, expiry and receive loses a wake-up.      *)
THEOREM WakeupsKept == Spec => []NoLostWakeup
  <1>1. IInv => NoLostWakeup
    BY DEF IInv
  <1> QED
    BY <1>1, Invariance, PTL

-----------------------------------------------------------------------------
(* What the owner of a channel timer knows when ChanTimer lets him Reset   *)
(* it; and a timer without a past has neither been stopped nor received.   *)
HeardIsOver == \A i \in SimChans : heard[i] => i \notin scheduled /\ ~Sim!Taken(i) /\ chans[i] = Nothing
UnusedUnheard == \A i \in SimChans : fate[i] = "unused" => ~heard[i] /\ chans[i] = Nothing

SimInv == Sim!TypeOK /\ Sim!OnePlace /\ HeardIsOver /\ UnusedUnheard /\ Sim!WaitersNotified

-----------------------------------------------------------------------------
(* Sets are counted alike in the instance and in the library's theorems.   *)
LEMMA SimSets == \A S : (Sim!IsFiniteSet(S) <=> IsFiniteSet(S)) /\ Sim!Cardinality(S) = Cardinality(S)
  BY Zenon DEF Sim!IsFiniteSet, IsFiniteSet, Sim!Cardinality, Cardinality

(* Taken off the heap by Run: each of the set once, and nothing else.      *)
LEMMA SeqOfSet ==
  ASSUME Sim!ClockConstants, NEW due \in SUBSET SimTimerIds, NEW q \in Sim!SetToSeqs(due)
  PROVE  q \in Seq(SimTimerIds) /\ Sim!IsInjective(q) /\ \A i : Sim!Contains(q, i) <=> i \in due
<1>1. PICK n \in Nat : n = Cardinality(due) /\ IsFiniteSet(due)
  BY SimSets, FS_Subset, FS_CardinalityType DEF Sim!ClockConstants
<1>2. q \in [1..n -> due] /\ \A j, k \in 1..n : j # k => q[j] # q[k]
  BY <1>1, SimSets DEF Sim!SetToSeqs
<1>3. q \in Injection(1..n, due)
  BY <1>2 DEF Injection, IsInjective
<1>4. Cardinality(1..n) = n
  BY <1>1, FS_Interval
<1>5. q \in Surjection(1..n, due)
  BY <1>1, <1>3, <1>4, FS_Injection
<1>6. q \in Seq(SimTimerIds) /\ Len(q) = n
  BY <1>2
<1>7. \A i : Sim!Contains(q, i) <=> i \in due
  BY <1>2, <1>5, <1>6 DEF Surjection, Sim!Contains
<1> QED BY <1>3, <1>6, <1>7 DEF Injection, IsInjective, Sim!IsInjective

(* The timer whose function Run calls next is gone from what is left.      *)
LEMMA Popped ==
  ASSUME NEW q \in Seq(SimTimerIds), q # <<>>, Sim!IsInjective(q)
  PROVE  /\ Head(q) \in SimTimerIds /\ Tail(q) \in Seq(SimTimerIds) /\ Sim!IsInjective(Tail(q))
         /\ Sim!Contains(q, Head(q))
         /\ \A i : Sim!Contains(Tail(q), i) <=> Sim!Contains(q, i) /\ i # Head(q)
<1>1. /\ Head(q) \in SimTimerIds /\ Tail(q) \in Seq(SimTimerIds) /\ Len(Tail(q)) = Len(q) - 1
      /\ \A k \in 1..Len(Tail(q)) : Tail(q)[k] = q[k + 1]
  BY HeadTailProperties
<1>2. Head(q) = q[1] /\ Len(q) \in Nat \ {0}
  BY EmptySeq, LenProperties
<1>3. \A j, k \in 1..Len(q) : q[j] = q[k] => j = k
  BY LenProperties DEF Sim!IsInjective
<1>4. Sim!IsInjective(Tail(q))
  <2> SUFFICES ASSUME NEW j \in 1..Len(Tail(q)), NEW k \in 1..Len(Tail(q)), Tail(q)[j] = Tail(q)[k]
               PROVE  j = k
    BY <1>1, LenProperties DEF Sim!IsInjective
  <2>1. j + 1 \in 1..Len(q) /\ k + 1 \in 1..Len(q) /\ q[j + 1] = q[k + 1]
    BY <1>1, <1>2
  <2> QED BY <1>3, <2>1
<1>5. Sim!Contains(q, Head(q))
  BY <1>2 DEF Sim!Contains
<1>6. ASSUME NEW i, Sim!Contains(Tail(q), i) PROVE Sim!Contains(q, i) /\ i # Head(q)
  <2>1. PICK k \in 1..Len(Tail(q)) : Tail(q)[k] = i
    BY <1>6 DEF Sim!Contains
  <2>2. k + 1 \in 1..Len(q) /\ q[k + 1] = i /\ k + 1 # 1 /\ 1 \in 1..Len(q)
    BY <1>1, <1>2, <2>1
  <2> QED BY <1>2, <1>3, <2>2 DEF Sim!Contains
<1>7. ASSUME NEW i, Sim!Contains(q, i), i # Head(q) PROVE Sim!Contains(Tail(q), i)
  <2>1. PICK k \in 1..Len(q) : q[k] = i
    BY <1>7 DEF Sim!Contains
  <2>2. k - 1 \in 1..Len(Tail(q)) /\ Tail(q)[k - 1] = i
    BY <1>1, <1>2, <1>7, <2>1
  <2> QED BY <2>2 DEF Sim!Contains
<1> QED BY <1>1, <1>4, <1>5, <1>6, <1>7

LEMMA NothingIn == ASSUME NEW i PROVE ~Sim!Contains(<<>>, i)
BY DEF Sim!Contains

LEMMA NoneRepeats == Sim!IsInjective(<<>>)
BY DEF Sim!IsInjective

LEMMA SimInitInv == Sim!ClockConstants /\ Sim!Init => SimInv
<1> SUFFICES ASSUME Sim!ClockConstants, Sim!Init PROVE SimInv
  OBVIOUS
<1>1. Sim!Cardinality(SimTimerIds) \in Nat
  BY SimSets, FS_CardinalityType DEF Sim!ClockConstants
<1>2. Sim!TypeOK
  BY <1>1 DEF Sim!Init, Sim!TypeOK, Sim!ClockConstants, Sim!Fates
<1>3. Sim!OnePlace
  BY NothingIn, NoneRepeats DEF Sim!Init, Sim!OnePlace, Sim!Taken
<1>4. HeardIsOver /\ UnusedUnheard /\ Sim!WaitersNotified
  BY DEF Sim!Init, HeardIsOver, UnusedUnheard, Sim!WaitersNotified
<1> QED BY <1>2, <1>3, <1>4 DEF SimInv

-----------------------------------------------------------------------------
(* What Run takes off the heap, all at once.                               *)
LEMMA RunTakes ==
  ASSUME Sim!ClockConstants, SimInv, NEW r \in Runners, NEW d \in 0..SimMaxTime, Sim!Run(r, d)
  PROVE  \E due \in SUBSET SimTimerIds :
           /\ due = {i \in scheduled : simAt[i] <= simNow + d}
           /\ scheduled' = scheduled \ due
           /\ do' \in [Runners -> Seq(SimTimerIds)]
           /\ \A s \in Runners : s # r => do'[s] = do[s]
           /\ Sim!IsInjective(do'[r])
           /\ \A i : Sim!Contains(do'[r], i) <=> i \in due
           /\ \A i : ~Sim!Contains(do[r], i)
           /\ \A i \in SimTimerIds : Sim!Taken(i)' <=> Sim!Taken(i) \/ i \in due
<1>1. PICK due \in SUBSET SimTimerIds : due = {i \in scheduled : simAt[i] <= simNow + d}
  BY DEF SimInv, Sim!TypeOK
<1>2. PICK q : q \in Sim!InOrder(due) /\ do' = [do EXCEPT ![r] = q]
  BY <1>1 DEF Sim!Run
<1>3. q \in Sim!SetToSeqs(due)
  BY <1>2 DEF Sim!InOrder
<1>4. q \in Seq(SimTimerIds) /\ Sim!IsInjective(q) /\ \A i : Sim!Contains(q, i) <=> i \in due
  BY <1>3, SeqOfSet
<1>5. do' \in [Runners -> Seq(SimTimerIds)] /\ do'[r] = q /\ \A s \in Runners : s # r => do'[s] = do[s]
  BY <1>2, <1>4 DEF SimInv, Sim!TypeOK
<1>6. \A i : ~Sim!Contains(do[r], i)
  BY NothingIn DEF Sim!Run
<1>7. \A i \in SimTimerIds : Sim!Taken(i)' <=> Sim!Taken(i) \/ i \in due
  BY <1>4, <1>5, <1>6 DEF Sim!Taken
<1>8. scheduled' = scheduled \ due
  BY <1>1 DEF Sim!Run
<1> QED BY <1>1, <1>4, <1>5, <1>6, <1>7, <1>8

(* The function of one timer is run.                                       *)
LEMMA RunFnTakes ==
  ASSUME SimInv, NEW r \in Runners, Sim!RunFn(r)
  PROVE  \E i \in SimTimerIds :
           /\ i = Head(do[r]) /\ Sim!Contains(do[r], i)
           /\ do' \in [Runners -> Seq(SimTimerIds)]
           /\ \A s \in Runners : s # r => do'[s] = do[s]
           /\ Sim!IsInjective(do'[r])
           /\ \A j : Sim!Contains(do'[r], j) <=> Sim!Contains(do[r], j) /\ j # i
           /\ \A j \in SimTimerIds : Sim!Taken(j)' <=> Sim!Taken(j) /\ j # i
           /\ Sim!Taken(i) /\ i \notin scheduled
<1>1. PICK q \in Seq(SimTimerIds) : q = do[r] /\ q # <<>> /\ Sim!IsInjective(q)
  BY DEF Sim!RunFn, SimInv, Sim!TypeOK, Sim!OnePlace
<1>2. /\ Head(q) \in SimTimerIds /\ Tail(q) \in Seq(SimTimerIds) /\ Sim!IsInjective(Tail(q))
      /\ Sim!Contains(q, Head(q))
      /\ \A j : Sim!Contains(Tail(q), j) <=> Sim!Contains(q, j) /\ j # Head(q)
  BY <1>1, Popped
<1>3. PICK i \in SimTimerIds : i = Head(q)
  BY <1>2
<1>4. do' \in [Runners -> Seq(SimTimerIds)] /\ do'[r] = Tail(q) /\ \A s \in Runners : s # r => do'[s] = do[s]
  BY <1>1, <1>2 DEF Sim!RunFn, SimInv, Sim!TypeOK
<1>5. Sim!Taken(i) /\ i \notin scheduled
  BY <1>1, <1>2, <1>3 DEF SimInv, Sim!OnePlace, Sim!Taken
<1>6. \A s \in Runners : s # r => ~Sim!Contains(do[s], i)
  BY <1>1, <1>2, <1>3 DEF SimInv, Sim!OnePlace
<1>7. \A j \in SimTimerIds : Sim!Taken(j)' <=> Sim!Taken(j) /\ j # i
  BY <1>1, <1>2, <1>3, <1>4, <1>6 DEF Sim!Taken
<1> QED BY <1>1, <1>2, <1>3, <1>4, <1>5, <1>7

(* Taking timers off the heap never makes them enough.                     *)
LEMMA FewerNotEnough ==
  ASSUME Sim!ClockConstants, SimInv, UNCHANGED Sim!waitVars, scheduled' \subseteq scheduled PROVE Sim!WaitersNotified'
<1>1. IsFiniteSet(scheduled)
  BY SimSets, FS_Subset DEF Sim!ClockConstants, SimInv, Sim!TypeOK
<1>2. PICK S : S = scheduled
  OBVIOUS
<1>3. PICK T : T = scheduled'
  OBVIOUS
<1>4. Cardinality(S) \in Nat /\ Cardinality(T) \in Nat /\ Cardinality(T) <= Cardinality(S)
  BY <1>1, <1>2, <1>3, FS_Subset, FS_CardinalityType
<1>5. \A w \in Waiters : need[w] \in Int
  BY SimSets, FS_CardinalityType DEF SimInv, Sim!TypeOK, Sim!ClockConstants
<1> QED BY <1>2, <1>3, <1>4, <1>5, SimSets DEF SimInv, Sim!WaitersNotified, Sim!Enough, Sim!waitVars

LEMMA RunInv ==
  ASSUME Sim!ClockConstants, SimInv, NEW r \in Runners, NEW d \in 0..SimMaxTime, Sim!Run(r, d) PROVE SimInv'
<1>1. PICK due \in SUBSET SimTimerIds :
        /\ due = {i \in scheduled : simAt[i] <= simNow + d}
        /\ scheduled' = scheduled \ due
        /\ do' \in [Runners -> Seq(SimTimerIds)]
        /\ \A s \in Runners : s # r => do'[s] = do[s]
        /\ Sim!IsInjective(do'[r])
        /\ \A i : Sim!Contains(do'[r], i) <=> i \in due
        /\ \A i : ~Sim!Contains(do[r], i)
        /\ \A i \in SimTimerIds : Sim!Taken(i)' <=> Sim!Taken(i) \/ i \in due
  BY RunTakes
<1>2. simNow' = simNow + d /\ simNow + d <= SimMaxTime /\ UNCHANGED <<simAt, chans, Sim!waitVars, fate, heard>>
  BY DEF Sim!Run
<1>3. Sim!TypeOK'
  BY <1>1, <1>2 DEF SimInv, Sim!TypeOK, Sim!waitVars, Sim!ClockConstants
<1>4. Sim!OnePlace'
  <2>1. \A i \in SimTimerIds : Sim!Taken(i)' => i \notin scheduled'
    BY <1>1 DEF SimInv, Sim!OnePlace
  <2>2. \A i \in SimTimerIds, s, q \in Runners : Sim!Contains(do'[s], i) /\ Sim!Contains(do'[q], i) => s = q
    <3> SUFFICES ASSUME NEW i \in SimTimerIds, NEW s \in Runners, Sim!Contains(do'[s], i), Sim!Contains(do'[r], i), s # r
                 PROVE  FALSE
      BY <1>1 DEF SimInv, Sim!OnePlace
    <3>1. Sim!Contains(do[s], i) /\ i \in scheduled
      BY <1>1
    <3> QED BY <3>1 DEF SimInv, Sim!OnePlace, Sim!Taken
  <2>3. \A s \in Runners : Sim!IsInjective(do'[s])
    BY <1>1 DEF SimInv, Sim!OnePlace
  <2>4. \A i \in SimChans : chans[i] # Nothing => i \notin scheduled' /\ ~Sim!Taken(i)' /\ chans[i] = simAt[i]
    BY <1>1 DEF SimInv, Sim!OnePlace, Sim!ClockConstants
  <2> QED BY <1>2, <2>1, <2>2, <2>3, <2>4 DEF Sim!OnePlace
<1>5. HeardIsOver'
  BY <1>1, <1>2 DEF SimInv, HeardIsOver, Sim!ClockConstants
<1>6. UnusedUnheard'
  BY <1>2 DEF SimInv, UnusedUnheard
<1>7. Sim!WaitersNotified'
  BY <1>1, <1>2, FewerNotEnough
<1> QED BY <1>3, <1>4, <1>5, <1>6, <1>7 DEF SimInv

LEMMA RunFnInv == ASSUME Sim!ClockConstants, SimInv, NEW r \in Runners, Sim!RunFn(r) PROVE SimInv'
<1>1. PICK i \in SimTimerIds :
        /\ i = Head(do[r]) /\ Sim!Contains(do[r], i)
        /\ do' \in [Runners -> Seq(SimTimerIds)]
        /\ \A s \in Runners : s # r => do'[s] = do[s]
        /\ Sim!IsInjective(do'[r])
        /\ \A j : Sim!Contains(do'[r], j) <=> Sim!Contains(do[r], j) /\ j # i
        /\ \A j \in SimTimerIds : Sim!Taken(j)' <=> Sim!Taken(j) /\ j # i
        /\ Sim!Taken(i) /\ i \notin scheduled
  BY RunFnTakes
<1>2. /\ chans' = IF i \in SimChans THEN [chans EXCEPT ![i] = simAt[i]] ELSE chans
      /\ fate' = [fate EXCEPT ![i] = "done"]
      /\ UNCHANGED <<simNow, scheduled, simAt, Sim!waitVars, heard>>
  BY <1>1 DEF Sim!RunFn
<1>3. Sim!TypeOK'
  BY <1>1, <1>2 DEF SimInv, Sim!TypeOK, Sim!waitVars, Sim!Fates
<1>4. Sim!OnePlace'
  <2>1. \A j \in SimTimerIds : Sim!Taken(j)' => j \notin scheduled'
    BY <1>1, <1>2 DEF SimInv, Sim!OnePlace
  <2>2. \A j \in SimTimerIds, s, q \in Runners : Sim!Contains(do'[s], j) /\ Sim!Contains(do'[q], j) => s = q
    BY <1>1 DEF SimInv, Sim!OnePlace
  <2>3. \A s \in Runners : Sim!IsInjective(do'[s])
    BY <1>1 DEF SimInv, Sim!OnePlace
  <2>4. \A j \in SimChans : chans'[j] # Nothing => j \notin scheduled' /\ ~Sim!Taken(j)' /\ chans'[j] = simAt'[j]
    BY <1>1, <1>2 DEF SimInv, Sim!TypeOK, Sim!OnePlace, Sim!ClockConstants
  <2> QED BY <2>1, <2>2, <2>3, <2>4 DEF Sim!OnePlace
<1>5. HeardIsOver'
  BY <1>1, <1>2 DEF SimInv, Sim!TypeOK, HeardIsOver, Sim!ClockConstants
<1>6. UnusedUnheard'
  BY <1>2 DEF SimInv, Sim!TypeOK, UnusedUnheard
<1>7. Sim!WaitersNotified'
  BY <1>2, FewerNotEnough
<1> QED BY <1>3, <1>4, <1>5, <1>6, <1>7 DEF SimInv

(* Broadcast leaves nobody asleep.                                         *)
LEMMA AllWoken ==
  ASSUME SimInv, Sim!Broadcast PROVE Sim!WaitersNotified' /\ wpc' \in [Waiters -> {"idle", "asleep", "woken"}]
<1>1. wpc' \in [Waiters -> {"idle", "asleep", "woken"}] /\ \A w \in Waiters : wpc'[w] # "asleep"
  BY DEF Sim!Broadcast, SimInv, Sim!TypeOK
<1> QED BY <1>1 DEF Sim!WaitersNotified

(* A timer that is over, and whose channel is empty, is put on the heap.   *)
LEMMA ScheduleInv ==
  ASSUME Sim!ClockConstants, SimInv, NEW i \in SimTimerIds, NEW d \in 0..SimMaxTime, Sim!Schedule(i, d),
         i \notin scheduled, ~Sim!Taken(i), i \in SimChans => chans[i] = Nothing /\ ~heard'[i],
         heard' \in [SimChans -> BOOLEAN], \A j \in SimChans : j # i => heard'[j] = heard[j],
         UNCHANGED <<simNow, do, chans, need, fate>>
  PROVE  SimInv'
<1>1. /\ simAt' \in [SimTimerIds -> 0..SimMaxTime] /\ \A j \in SimTimerIds : j # i => simAt'[j] = simAt[j]
      /\ scheduled' = scheduled \cup {i}
  BY DEF Sim!Schedule, SimInv, Sim!TypeOK, Sim!ClockConstants
<1>2. Sim!WaitersNotified' /\ wpc' \in [Waiters -> {"idle", "asleep", "woken"}]
  BY AllWoken DEF Sim!Schedule
<1>3. Sim!TypeOK'
  BY <1>1, <1>2 DEF SimInv, Sim!TypeOK
<1>4. \A j \in SimTimerIds : Sim!Taken(j)' <=> Sim!Taken(j)
  BY DEF Sim!Taken
<1>5. Sim!OnePlace'
  BY <1>1, <1>4 DEF SimInv, Sim!OnePlace, Sim!ClockConstants
<1>6. HeardIsOver'
  BY <1>1, <1>4 DEF SimInv, HeardIsOver, Sim!ClockConstants
<1>7. UnusedUnheard'
  BY DEF SimInv, UnusedUnheard
<1> QED BY <1>2, <1>3, <1>5, <1>6, <1>7 DEF SimInv

LEMMA NewLifeInv ==
  ASSUME Sim!ClockConstants, SimInv, NEW i \in SimTimerIds, NEW d \in 0..SimMaxTime,
         Sim!AfterFunc(i, d) \/ Sim!NewTimer(i, d) \/ Sim!Reset(i, d)
  PROVE  /\ SimInv' /\ Sim!Schedule(i, d)
         /\ i \notin scheduled /\ ~Sim!Taken(i) /\ UNCHANGED <<simNow, do, fate>>
<1>1. CASE Sim!AfterFunc(i, d)
  BY <1>1, ScheduleInv DEF Sim!AfterFunc, SimInv, Sim!TypeOK
<1>2. CASE Sim!NewTimer(i, d)
  BY <1>2, ScheduleInv DEF Sim!NewTimer, SimInv, Sim!TypeOK, UnusedUnheard
<1>3. CASE Sim!Reset(i, d)
  <2>1. i \in SimChans /\ i \notin scheduled /\ ~Sim!Taken(i) /\ chans[i] = Nothing
    BY <1>3 DEF Sim!Reset, SimInv, HeardIsOver
  <2>2. /\ heard' \in [SimChans -> BOOLEAN] /\ ~heard'[i]
        /\ \A j \in SimChans : j # i => heard'[j] = heard[j]
    BY <1>3, <2>1 DEF Sim!Reset, SimInv, Sim!TypeOK
  <2> QED BY <1>3, <2>1, <2>2, ScheduleInv DEF Sim!Reset
<1> QED BY <1>1, <1>2, <1>3

LEMMA StopInv == ASSUME Sim!ClockConstants, SimInv, NEW i \in SimTimerIds, Sim!Stop(i) PROVE SimInv'
<1>1. /\ i \in scheduled /\ scheduled' = scheduled \ {i}
      /\ fate' = [fate EXCEPT ![i] = "stopped"]
      /\ UNCHANGED <<simNow, simAt, do, chans, need>>
  BY DEF Sim!Stop
<1>2. /\ heard' \in [SimChans -> BOOLEAN]
      /\ \A j \in SimChans : j # i => heard'[j] = heard[j]
  BY DEF Sim!Stop, SimInv, Sim!TypeOK
<1>3. Sim!WaitersNotified' /\ wpc' \in [Waiters -> {"idle", "asleep", "woken"}]
  BY AllWoken DEF Sim!Stop
<1>4. Sim!TypeOK'
  BY <1>1, <1>2, <1>3 DEF SimInv, Sim!TypeOK, Sim!Fates
<1>5. \A j \in SimTimerIds : Sim!Taken(j)' <=> Sim!Taken(j)
  BY <1>1 DEF Sim!Taken
<1>6. Sim!OnePlace'
  BY <1>1, <1>5 DEF SimInv, Sim!OnePlace, Sim!ClockConstants
<1>7. HeardIsOver'
  BY <1>1, <1>2, <1>5 DEF SimInv, HeardIsOver, Sim!OnePlace, Sim!ClockConstants
<1>8. UnusedUnheard'
  BY <1>1, <1>2 DEF SimInv, Sim!TypeOK, UnusedUnheard, Sim!ClockConstants
<1> QED BY <1>3, <1>4, <1>6, <1>7, <1>8 DEF SimInv

(* The owner takes the value, and with it the timer is over.               *)
LEMMA ReceiveInv == ASSUME Sim!ClockConstants, SimInv, NEW i \in SimChans, Sim!Receive(i) PROVE SimInv'
<1>1. /\ chans[i] # Nothing /\ chans' = [chans EXCEPT ![i] = Nothing] /\ heard' = [heard EXCEPT ![i] = TRUE]
      /\ UNCHANGED <<simNow, scheduled, simAt, do, Sim!waitVars, fate>>
  BY DEF Sim!Receive
<1>2. Sim!TypeOK'
  BY <1>1 DEF SimInv, Sim!TypeOK, Sim!waitVars
<1>3. \A j \in SimTimerIds : Sim!Taken(j)' <=> Sim!Taken(j)
  BY <1>1 DEF Sim!Taken
<1>4. Sim!OnePlace'
  BY <1>1, <1>3 DEF SimInv, Sim!TypeOK, Sim!OnePlace, Sim!ClockConstants
<1>5. HeardIsOver'
  BY <1>1, <1>3 DEF SimInv, Sim!TypeOK, HeardIsOver, Sim!OnePlace, Sim!ClockConstants
<1>6. UnusedUnheard'
  BY <1>1 DEF SimInv, Sim!TypeOK, UnusedUnheard
<1>7. Sim!WaitersNotified'
  BY <1>1, FewerNotEnough
<1> QED BY <1>2, <1>4, <1>5, <1>6, <1>7 DEF SimInv

LEMMA WaitInv ==
  ASSUME Sim!ClockConstants, SimInv, NEW w \in Waiters,
         Sim!Wake(w) \/ \E n \in 1..Sim!Cardinality(SimTimerIds) : Sim!WaitForTimers(w, n)
  PROVE  SimInv'
<1>1. UNCHANGED <<simNow, scheduled, simAt, do, chans, fate, heard>>
  BY DEF Sim!Wake, Sim!WaitForTimers
<1>2. Sim!Cardinality(SimTimerIds) \in Nat
  BY SimSets, FS_CardinalityType DEF Sim!ClockConstants
<1>3. Sim!TypeOK'
  <2>1. CASE Sim!Wake(w)
    BY <1>1, <2>1 DEF Sim!Wake, SimInv, Sim!TypeOK
  <2>2. ASSUME NEW n \in 1..Sim!Cardinality(SimTimerIds), Sim!WaitForTimers(w, n) PROVE Sim!TypeOK'
    <3>1. n \in 0..Sim!Cardinality(SimTimerIds)
      BY <1>2
    <3> QED BY <1>1, <2>2, <3>1 DEF Sim!WaitForTimers, SimInv, Sim!TypeOK
  <2> QED BY <2>1, <2>2
<1>4. Sim!OnePlace' /\ HeardIsOver' /\ UnusedUnheard'
  BY <1>1 DEF SimInv, Sim!OnePlace, HeardIsOver, UnusedUnheard, Sim!Taken
<1>5. Sim!WaitersNotified'
  BY <1>1 DEF Sim!Wake, Sim!WaitForTimers, Sim!Enough, SimInv, Sim!TypeOK, Sim!WaitersNotified
<1> QED BY <1>3, <1>4, <1>5 DEF SimInv

LEMMA SimStepInv == Sim!ClockConstants /\ SimInv /\ [Sim!Next]_(Sim!vars) => SimInv'
<1> SUFFICES ASSUME Sim!ClockConstants, SimInv, [Sim!Next]_(Sim!vars) PROVE SimInv'
  OBVIOUS
<1>1. ASSUME UNCHANGED Sim!vars PROVE SimInv'
  BY <1>1 DEF Sim!vars, Sim!waitVars, SimInv, Sim!TypeOK, Sim!OnePlace, Sim!Taken, HeardIsOver, UnusedUnheard, Sim!WaitersNotified, Sim!Enough
<1> QED BY <1>1, RunInv, RunFnInv, NewLifeInv, StopInv, ReceiveInv, WaitInv DEF Sim!Next, Sim!ClockConstants

LEMMA SimInvAlways == Sim!ClockConstants /\ Sim!Spec => []SimInv
<1> SUFFICES ASSUME Sim!ClockConstants PROVE Sim!Spec => []SimInv
  OBVIOUS
<1>1. Sim!Init => SimInv
  BY SimInitInv
<1>2. SimInv /\ [Sim!Next]_(Sim!vars) => SimInv'
  BY SimStepInv
<1> QED BY <1>1, <1>2, PTL DEF Sim!Spec

-----------------------------------------------------------------------------
(* Every variable keeps its type; the instants that functions of timers    *)
(* are given never lie behind the clock's last one.                        *)
THEOREM SimTypes == Sim!ClockConstants /\ Sim!Spec => []Sim!TypeOK
<1>1. SimInv => Sim!TypeOK
  BY DEF SimInv
<1> QED BY <1>1, SimInvAlways, PTL

(* A timer is on the heap, in the hands of one Run, or a value in its      *)
(* channel, and never in two of these places, whatever several Runs, Stop, *)
(* Reset and the readers of channels do at once.                           *)
THEOREM TimersInOnePlace == Sim!ClockConstants /\ Sim!Spec => []Sim!OnePlace
<1>1. SimInv => Sim!OnePlace
  BY DEF SimInv
<1> QED BY <1>1, SimInvAlways, PTL

(* No waiter sleeps in WaitForTimers while there are enough timers.        *)
THEOREM NoWakeupLost == Sim!ClockConstants /\ Sim!Spec => []Sim!WaitersNotified
<1>1. SimInv => Sim!WaitersNotified
  BY DEF SimInv
<1> QED BY <1>1, SimInvAlways, PTL

(* Run never waits in the send of a timer made by NewTimer: a timer it has *)
(* taken off the heap has an empty channel.                                *)
THEOREM RunNeverWaits == Sim!ClockConstants /\ Sim!Spec => []Sim!RunNotBlocked
<1>1. SimInv => Sim!RunNotBlocked
  <2> SUFFICES ASSUME SimInv, NEW r \in Runners, do[r] # <<>>, Head(do[r]) \in SimChans
               PROVE  chans[Head(do[r])] = Nothing
    BY DEF Sim!RunNotBlocked
  <2>1. PICK i \in SimChans : i = Head(do[r])
    OBVIOUS
  <2>2. PICK q \in Seq(SimTimerIds) : q = do[r]
    BY DEF SimInv, Sim!TypeOK
  <2>3. Sim!Contains(do[r], i)
    BY <2>1, <2>2, Popped DEF SimInv, Sim!OnePlace
  <2>4. Sim!Taken(i)
    BY <2>3 DEF Sim!Taken
  <2> QED BY <2>1, <2>4 DEF SimInv, Sim!OnePlace
<1> QED BY <1>1, SimInvAlways, PTL

(* When the clock moves, every timer that is due by the new time is off    *)
(* the heap in the same step: no timer is passed.                          *)
THEOREM NoTimerPassed == Sim!ClockConstants /\ Sim!Spec => Sim!NothingOverdue
<1> SUFFICES ASSUME Sim!ClockConstants PROVE Sim!Spec => Sim!NothingOverdue
  OBVIOUS
<1>1. SimInv /\ [Sim!Next]_(Sim!vars) => [simNow' > simNow => \A i \in scheduled' : simAt'[i] > simNow']_(Sim!vars)
  <2> SUFFICES ASSUME SimInv, [Sim!Next]_(Sim!vars), simNow' > simNow, NEW i \in scheduled' PROVE simAt'[i] > simNow'
    OBVIOUS
  <2>1. simNow' # simNow
    BY DEF SimInv, Sim!TypeOK, Sim!ClockConstants
  <2>2. PICK r \in Runners, d \in 0..SimMaxTime : Sim!Run(r, d)
    BY <2>1 DEF Sim!Next, Sim!RunFn, Sim!AfterFunc, Sim!NewTimer, Sim!Reset, Sim!Stop, Sim!Receive, Sim!Wake, Sim!WaitForTimers, Sim!vars
  <2>3. i \in scheduled /\ ~(simAt[i] <= simNow + d)
    BY <2>2 DEF Sim!Run
  <2> QED BY <2>2, <2>3 DEF Sim!Run, SimInv, Sim!TypeOK, Sim!ClockConstants
<1> QED BY <1>1, SimInvAlways, PTL DEF Sim!Spec, Sim!NothingOverdue

-----------------------------------------------------------------------------
(* The refinement of Timers, step by step.                                 *)

LEMMA RefinedInit == Sim!Init => Sim!Clock!TimersInit
BY NothingIn DEF Sim!Init, Sim!Clock!TimersInit, Sim!Life, Sim!Taken

(* A Run lets the time go by and all that are due begin to run.            *)
LEMMA RefinedRun ==
  ASSUME Sim!ClockConstants, SimInv, NEW r \in Runners, NEW d \in 0..SimMaxTime, Sim!Run(r, d)
  PROVE  Sim!Clock!TimersNext
<1>1. PICK due \in SUBSET SimTimerIds :
        /\ due = {i \in scheduled : simAt[i] <= simNow + d}
        /\ scheduled' = scheduled \ due
        /\ \A i \in SimTimerIds : Sim!Taken(i)' <=> Sim!Taken(i) \/ i \in due
  BY RunTakes
<1>2. simNow' = simNow + d /\ simNow + d <= SimMaxTime /\ UNCHANGED <<simAt, fate>>
  BY DEF Sim!Run
<1>3. \A i \in due : Sim!Life(i) = "pending" /\ simAt[i] <= simNow + d
  BY <1>1 DEF Sim!Life
<1>4. \A i \in SimTimerIds : Sim!Life(i)' = IF i \in due THEN "running" ELSE Sim!Life(i)
  BY <1>1, <1>2 DEF Sim!Life
<1>5. Sim!Clock!Elapse(d, due)
  BY <1>2, <1>3, <1>4 DEF Sim!Clock!Elapse
<1> QED BY <1>5 DEF Sim!Clock!TimersNext

LEMMA RefinedRunFn == ASSUME SimInv, NEW r \in Runners, Sim!RunFn(r) PROVE Sim!Clock!TimersNext
<1>1. PICK i \in SimTimerIds :
        /\ i = Head(do[r])
        /\ \A j \in SimTimerIds : Sim!Taken(j)' <=> Sim!Taken(j) /\ j # i
        /\ Sim!Taken(i) /\ i \notin scheduled
  BY RunFnTakes
<1>2. fate' = [fate EXCEPT ![i] = "done"] /\ UNCHANGED <<simNow, scheduled, simAt>>
  BY <1>1 DEF Sim!RunFn
<1>3. Sim!Life(i) = "running" /\ Sim!Life(i)' = "done" /\ \A j \in SimTimerIds : j # i => Sim!Life(j)' = Sim!Life(j)
  BY <1>1, <1>2 DEF Sim!Life, SimInv, Sim!TypeOK
<1>4. Sim!Clock!Finish(i)
  BY <1>2, <1>3 DEF Sim!Clock!Finish
<1> QED BY <1>4 DEF Sim!Clock!TimersNext

(* AfterFunc, NewTimer and Reset begin the life of a timer.                *)
LEMMA RefinedNewLife ==
  ASSUME Sim!ClockConstants, SimInv, NEW i \in SimTimerIds, NEW d \in 0..SimMaxTime,
         Sim!AfterFunc(i, d) \/ Sim!NewTimer(i, d) \/ Sim!Reset(i, d)
  PROVE  Sim!Clock!TimersNext
<1>1. /\ Sim!Schedule(i, d) /\ i \notin scheduled /\ ~Sim!Taken(i) /\ UNCHANGED <<simNow, do, fate>>
  BY NewLifeInv
<1>2. Sim!Life(i) \in {"unused", "done", "stopped"}
  BY <1>1 DEF Sim!Life, SimInv, Sim!TypeOK, Sim!Fates
<1>3. Sim!Life(i)' = "pending" /\ \A j \in SimTimerIds : j # i => Sim!Life(j)' = Sim!Life(j)
  BY <1>1 DEF Sim!Schedule, Sim!Life, Sim!Taken
<1>4. Sim!Clock!AfterFunc(i, d)
  BY <1>1, <1>2, <1>3 DEF Sim!Clock!AfterFunc, Sim!Schedule
<1> QED BY <1>4 DEF Sim!Clock!TimersNext

LEMMA RefinedStop == ASSUME SimInv, NEW i \in SimTimerIds, Sim!Stop(i) PROVE Sim!Clock!TimersNext
<1>1. Sim!Life(i) = "pending"
  BY DEF Sim!Stop, Sim!Life
<1>2. Sim!Life(i)' = "stopped" /\ \A j \in SimTimerIds : j # i => Sim!Life(j)' = Sim!Life(j)
  BY DEF Sim!Stop, Sim!Life, Sim!Taken, SimInv, Sim!TypeOK, Sim!OnePlace
<1>3. Sim!Clock!StopTimer(i)
  BY <1>1, <1>2 DEF Sim!Clock!StopTimer, Sim!Clock!Stopped, Sim!Stop
<1> QED BY <1>3 DEF Sim!Clock!TimersNext

LEMMA RefinedStep == Sim!ClockConstants /\ SimInv /\ [Sim!Next]_(Sim!vars) => [Sim!Clock!TimersNext]_(Sim!Clock!timerVars)
<1> SUFFICES ASSUME Sim!ClockConstants, SimInv, [Sim!Next]_(Sim!vars) PROVE [Sim!Clock!TimersNext]_(Sim!Clock!timerVars)
  OBVIOUS
<1>1. ASSUME UNCHANGED <<simNow, scheduled, simAt, do, fate>> PROVE UNCHANGED Sim!Clock!timerVars
  BY <1>1 DEF Sim!Clock!timerVars, Sim!Life, Sim!Taken
<1>2. ASSUME NEW i \in SimChans, Sim!Receive(i) PROVE UNCHANGED Sim!Clock!timerVars
  BY <1>1, <1>2 DEF Sim!Receive
<1>3. ASSUME NEW w \in Waiters, Sim!Wake(w) \/ \E n \in 1..Sim!Cardinality(SimTimerIds) : Sim!WaitForTimers(w, n)
      PROVE  UNCHANGED Sim!Clock!timerVars
  BY <1>1, <1>3 DEF Sim!Wake, Sim!WaitForTimers
<1>4. CASE UNCHANGED Sim!vars
  BY <1>1, <1>4 DEF Sim!vars
<1> QED BY <1>2, <1>3, <1>4, RefinedRun, RefinedRunFn, RefinedNewLife, RefinedStop DEF Sim!Next

(* A simulated clock keeps the promises of mclock.Clock: every function is *)
(* run once for each life of its timer, when its time has come, and never  *)
(* after a Stop that returned true.                                        *)
THEOREM SimulatedIsClock == Sim!ClockConstants /\ Sim!Spec => Sim!ImplementsTimers
<1> SUFFICES ASSUME Sim!ClockConstants PROVE Sim!Spec => Sim!ImplementsTimers
  OBVIOUS
<1>1. Sim!Init => Sim!Clock!TimersInit
  BY RefinedInit
<1>2. SimInv /\ [Sim!Next]_(Sim!vars) => [Sim!Clock!TimersNext]_(Sim!Clock!timerVars)
  BY RefinedStep
<1> QED BY <1>1, <1>2, SimInvAlways, PTL DEF Sim!Spec, Sim!ImplementsTimers, Sim!Clock!TimersSpec

-----------------------------------------------------------------------------
(* The simulated clock as the runs have it, beside the alarm.              *)
LEMMA SimRuns == MCSpec => Sim!Spec
<1>1. MCInit => Sim!Init
  BY DEF MCInit
<1>2. [MCNext]_allVars => [Sim!Next]_(Sim!vars)
  BY DEF MCNext, allVars, simVars, Sim!vars, Sim!waitVars
<1> QED BY <1>1, <1>2, PTL DEF MCSpec, Sim!Spec

(* mclock.Simulated, as the run has it: types, a timer is in one place,    *)
(* Run never waits, and nobody sleeps while there are enough timers.       *)
THEOREM SimulatedIsSound == MCSpec => []SimSound
<1>1. Sim!Spec => []Sim!TypeOK
  BY SimTypes, SimAssumption
<1>2. Sim!Spec => []Sim!OnePlace
  BY TimersInOnePlace, SimAssumption
<1>3. Sim!Spec => []Sim!RunNotBlocked
  BY RunNeverWaits, SimAssumption
<1>4. Sim!Spec => []Sim!WaitersNotified
  BY NoWakeupLost, SimAssumption
<1> QED BY <1>1, <1>2, <1>3, <1>4, SimRuns, PTL DEF SimSound

(* And it is a clock as mclock.Clock promises one, that passes no timer.   *)
THEOREM ClockImplemented == MCSpec => ImplementsTimers
<1>1. Sim!Spec => Sim!ImplementsTimers
  BY SimulatedIsClock, SimAssumption
<1>2. Sim!Spec => Sim!NothingOverdue
  BY NoTimerPassed, SimAssumption
<1> QED BY <1>1, <1>2, SimRuns, PTL DEF ImplementsTimers

=============================================================================
