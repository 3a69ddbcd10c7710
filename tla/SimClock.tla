------------------------------ MODULE SimClock ------------------------------
(***************************************************************************)
(* mclock.Simulated (common/mclock/simclock.go): a clock that only moves   *)
(* when Run is called.  Run takes the timers that are due off the heap     *)
(* under the mutex and runs their functions one after the other when it    *)
(* has given the mutex up; other goroutines schedule, stop and reset       *)
(* timers meanwhile, or wait until there are enough of them.  A section    *)
(* under s.mu is one action.  The heap is the set of its timers, from      *)
(* which heap.Pop takes one that is due first.                             *)
(***************************************************************************)
EXTENDS Integers, Sequences, FiniteSets, SequencesExt

CONSTANTS
  TimerIds,  \* timers
  Chans,     \* those made by NewTimer; the others are made by AfterFunc
  Runners,   \* goroutines that call Run
  Waiters,   \* goroutines that call WaitForTimers
  Nothing,   \* the channel of a timer is empty
  MaxTime    \* bound: last value of the clock

ClockConstants ==
  /\ IsFiniteSet(TimerIds) /\ Chans \subseteq TimerIds
  /\ MaxTime \in Nat /\ Nothing \notin 0..MaxTime

VARIABLES
  now,        \* s.now
  scheduled,  \* s.scheduled: the timers whose index is not negative
  at,         \* at[i]: ev.at
  do,         \* do[r]: what Run has taken off the heap and not run yet
  ch,         \* ch[i]: the buffer of a NewTimer channel
  wpc,        \* wpc[w]: "idle", "asleep" in cond.Wait, or "woken" from it
  need,       \* need[w]: the number of timers w waits for
  fate,       \* history: how the last life of a timer ended
  heard       \* history: its owner has stopped it or received from it

waitVars == <<wpc, need>>
vars == <<now, scheduled, at, do, ch, waitVars, fate, heard>>

Fates == {"unused", "done", "stopped"}
Taken(i) == \E r \in Runners : Contains(do[r], i)
Broadcast == wpc' = [w \in Waiters |-> IF wpc[w] = "asleep" THEN "woken" ELSE wpc[w]]

Init ==
  /\ now = 0
  /\ scheduled = {}
  /\ at = [i \in TimerIds |-> 0]
  /\ do = [r \in Runners |-> <<>>]
  /\ ch = [i \in Chans |-> Nothing]
  /\ wpc = [w \in Waiters |-> "idle"]
  /\ need = [w \in Waiters |-> 0]
  /\ fate = [i \in TimerIds |-> "unused"]
  /\ heard = [i \in Chans |-> FALSE]

-----------------------------------------------------------------------------
(* Run.                                                                    *)

InOrder(set) ==
  {q \in SetToSeqs(set) : \A j, k \in DOMAIN q : j < k => at[q[j]] <= at[q[k]]}

(* Mutant: a timer due one instant after the end is run as well.           *)
RunEarly(r, d) ==
  /\ do[r] = <<>> /\ now + d <= MaxTime
  /\ LET due == {i \in scheduled : at[i] <= now + d + 1} IN
       /\ scheduled' = scheduled \ due
       /\ \E q \in InOrder(due) : do' = [do EXCEPT ![r] = q]
  /\ now' = now + d
  /\ UNCHANGED <<at, ch, waitVars, fate, heard>>

Run(r, d) ==
  /\ do[r] = <<>> /\ now + d <= MaxTime
  /\ LET due == {i \in scheduled : at[i] <= now + d} IN
       /\ scheduled' = scheduled \ due
       /\ \E q \in InOrder(due) : do' = [do EXCEPT ![r] = q]
  /\ now' = now + d
  /\ UNCHANGED <<at, ch, waitVars, fate, heard>>

(* fn(): a NewTimer's sends ev.at, as it is by now, and waits for room.    *)
RunFn(r) ==
  /\ do[r] # <<>>
  /\ LET i == Head(do[r]) IN
       /\ IF i \in Chans
            THEN ch[i] = Nothing /\ ch' = [ch EXCEPT ![i] = at[i]]
            ELSE UNCHANGED ch
       /\ fate' = [fate EXCEPT ![i] = "done"]
  /\ do' = [do EXCEPT ![r] = Tail(@)]
  /\ UNCHANGED <<now, scheduled, at, waitVars, heard>>

-----------------------------------------------------------------------------
(* AfterFunc, NewTimer, Reset and Stop.                                    *)

(* Mutant: nobody is told that there is one timer more.                    *)
ScheduleSilently(i, d) ==
  /\ now + d <= MaxTime
  /\ at' = [at EXCEPT ![i] = now + d]
  /\ scheduled' = scheduled \cup {i}
  /\ UNCHANGED wpc

Schedule(i, d) ==
  /\ now + d <= MaxTime
  /\ at' = [at EXCEPT ![i] = now + d]
  /\ scheduled' = scheduled \cup {i}
  /\ Broadcast

(* A new timer may go by the name of an AfterFunc timer that is over.      *)
AfterFunc(i, d) ==
  /\ i \notin Chans /\ i \notin scheduled /\ ~Taken(i)
  /\ Schedule(i, d)
  /\ UNCHANGED <<now, do, ch, need, fate, heard>>

NewTimer(i, d) ==
  /\ i \in Chans /\ i \notin scheduled /\ ~Taken(i) /\ fate[i] = "unused"
  /\ Schedule(i, d)
  /\ UNCHANGED <<now, do, ch, need, fate, heard>>

(* The owner calls Reset as ChanTimer asks: after a Stop that returned     *)
(* true, or when it has received the timer's value.                        *)
Reset(i, d) ==
  /\ i \in Chans /\ heard[i]
  /\ Schedule(i, d)
  /\ heard' = [heard EXCEPT ![i] = FALSE]
  /\ UNCHANGED <<now, do, ch, need, fate>>

(* A timer that is not on the heap any more is left alone: false.          *)
Stop(i) ==
  /\ i \in scheduled
  /\ scheduled' = scheduled \ {i}
  /\ fate' = [fate EXCEPT ![i] = "stopped"]
  /\ heard' = IF i \in Chans THEN [heard EXCEPT ![i] = TRUE] ELSE heard
  /\ Broadcast
  /\ UNCHANGED <<now, at, do, ch, need>>

(* The owner receives from C().                                            *)
Receive(i) ==
  /\ ch[i] # Nothing
  /\ ch' = [ch EXCEPT ![i] = Nothing]
  /\ heard' = [heard EXCEPT ![i] = TRUE]
  /\ UNCHANGED <<now, scheduled, at, do, waitVars, fate>>

-----------------------------------------------------------------------------
(* WaitForTimers.                                                          *)

Enough(n) == Cardinality(scheduled) >= n

WaitForTimers(w, n) ==
  /\ wpc[w] = "idle" /\ ~Enough(n)
  /\ wpc' = [wpc EXCEPT ![w] = "asleep"]
  /\ need' = [need EXCEPT ![w] = n]
  /\ UNCHANGED <<now, scheduled, at, do, ch, fate, heard>>

Wake(w) ==
  /\ wpc[w] = "woken"
  /\ wpc' = [wpc EXCEPT ![w] = IF Enough(need[w]) THEN "idle" ELSE "asleep"]
  /\ UNCHANGED <<now, scheduled, at, do, ch, need, fate, heard>>

-----------------------------------------------------------------------------
Next ==
  \/ \E r \in Runners : RunFn(r) \/ \E d \in 0..MaxTime : Run(r, d)
  \/ \E i \in TimerIds :
       \/ Stop(i)
       \/ \E d \in 0..MaxTime : AfterFunc(i, d) \/ NewTimer(i, d) \/ Reset(i, d)
  \/ \E i \in Chans : Receive(i)
  \/ \E w \in Waiters : Wake(w) \/ \E n \in 1..Cardinality(TimerIds) : WaitForTimers(w, n)

Spec == Init /\ [][Next]_vars

-----------------------------------------------------------------------------
(* Types; a timer that is taken, or whose value lies in its channel, is    *)
(* not on the heap, and no timer is taken twice.                           *)
TypeOK ==
  /\ now \in 0..MaxTime
  /\ scheduled \subseteq TimerIds
  /\ at \in [TimerIds -> 0..MaxTime]
  /\ do \in [Runners -> Seq(TimerIds)]
  /\ ch \in [Chans -> 0..MaxTime \cup {Nothing}]
  /\ wpc \in [Waiters -> {"idle", "asleep", "woken"}]
  /\ need \in [Waiters -> 0..Cardinality(TimerIds)]
  /\ fate \in [TimerIds -> Fates]
  /\ heard \in [Chans -> BOOLEAN]

(* A timer is in one place: on the heap, in the hands of one Run, or a     *)
(* value in its channel, which is then the time it was due.                *)
OnePlace ==
  /\ \A i \in TimerIds : Taken(i) => i \notin scheduled
  /\ \A i \in TimerIds, r, q \in Runners :
       Contains(do[r], i) /\ Contains(do[q], i) => r = q
  /\ \A r \in Runners : IsInjective(do[r])
  /\ \A i \in Chans : ch[i] # Nothing => i \notin scheduled /\ ~Taken(i) /\ ch[i] = at[i]

(* The clock never passes a timer: whenever it moves, all that are due by  *)
(* the new time are taken off the heap in the same step.                   *)
NothingOverdue ==
  [][now' > now => \A i \in scheduled' : at'[i] > now']_vars

(* No wake-up is lost: nobody sleeps while there are enough timers.        *)
WaitersNotified == \A w \in Waiters : wpc[w] = "asleep" => ~Enough(need[w])

(* Run never waits in the send of a NewTimer timer, if its owner resets it *)
(* only as ChanTimer asks: it comes to its end whoever else does nothing.  *)
RunNotBlocked ==
  \A r \in Runners : do[r] # <<>> /\ Head(do[r]) \in Chans => ch[Head(do[r])] = Nothing

(* The simulated clock keeps the promises of mclock.Clock: a timer runs    *)
(* once, after its time has come, and not if Stop has returned true.       *)
Life(i) ==
  IF i \in scheduled THEN "pending" ELSE IF Taken(i) THEN "running" ELSE fate[i]

Clock == INSTANCE Timers WITH st <- [i \in TimerIds |-> Life(i)]

ImplementsTimers == Clock!TimersSpec

=============================================================================
