------------------------------- MODULE Timers -------------------------------
(***************************************************************************)
(* What mclock.Clock promises of AfterFunc and Timer (common/mclock): a    *)
(* timer is pending until its time has come, and then, at any time after,  *)
(* its function runs once in a goroutine of its own; Stop keeps a pending  *)
(* timer from running and does nothing to any other.                       *)
(***************************************************************************)
EXTENDS Integers

CONSTANTS
  TimerIds,  \* timers; one that is over may stand for a new one
  MaxTime    \* bound: last value of the clock

ASSUME MaxTimeAssumption == MaxTime \in Nat

VARIABLES
  now,  \* the clock, from 0 as in a simulated clock
  st,   \* st[i]: the life of timer i
  at    \* at[i]: when i is due

timerVars == <<now, st, at>>

(* "running": the timer has expired and its function has not ended.        *)
TimerStates == {"unused", "pending", "running", "done", "stopped"}

TimersInit ==
  /\ now = 0
  /\ st = [i \in TimerIds |-> "unused"]
  /\ at = [i \in TimerIds |-> 0]

Pending == {i \in TimerIds : st[i] = "pending"}

(* Some time goes by, and some of the timers that are due start to run.    *)
Elapse(d, E) ==
  /\ now + d <= MaxTime
  /\ \A i \in E : st[i] = "pending" /\ at[i] <= now + d
  /\ now' = now + d
  /\ st' = [i \in TimerIds |-> IF i \in E THEN "running" ELSE st[i]]
  /\ UNCHANGED at

Advance == Elapse(1, {})
Expire(i) == Elapse(0, {i})

(* AfterFunc, or a Reset of a timer that is over.                          *)
AfterFunc(i, d) ==
  /\ st[i] \in {"unused", "done", "stopped"}
  /\ st' = [st EXCEPT ![i] = "pending"]
  /\ at' = [at EXCEPT ![i] = now + d]
  /\ UNCHANGED now

Finish(i) ==
  /\ st[i] = "running"
  /\ st' = [st EXCEPT ![i] = "done"]
  /\ UNCHANGED <<now, at>>

(* The states of the timers after timer.Stop().                            *)
Stopped(i) == IF st[i] = "pending" THEN [st EXCEPT ![i] = "stopped"] ELSE st

StopTimer(i) ==
  /\ st' = Stopped(i)
  /\ UNCHANGED <<now, at>>

TimersNext ==
  \/ \E d \in 0..MaxTime, E \in SUBSET TimerIds : Elapse(d, E)
  \/ \E i \in TimerIds, d \in 0..MaxTime : AfterFunc(i, d)
  \/ \E i \in TimerIds : Finish(i) \/ StopTimer(i)

TimersSpec == TimersInit /\ [][TimersNext]_timerVars

TimersTypeOK ==
  /\ now \in 0..MaxTime
  /\ st \in [TimerIds -> TimerStates]
  /\ at \in [TimerIds -> Nat]

=============================================================================
