-------------------------------- MODULE Alarm --------------------------------
(***************************************************************************)
(* mclock.Alarm (common/mclock/alarm.go): one goroutine schedules, stops   *)
(* and reads an alarm, over timers that expire and send in goroutines of   *)
(* their own.  Schedule reads the clock first and acts on that reading     *)
(* later, when time may have passed and the timer may have fired; Stop,    *)
(* and the second half of Schedule, do nothing a timer goroutine could     *)
(* tell from doing it at once, and are one action each.                    *)
(***************************************************************************)
EXTENDS Timers

CONSTANTS
  NoTimer,   \* e.timer before the first Schedule
  MaxReq,    \* bound: last deadline asked for and last time of asking
  MaxDelay   \* bound: how long one Schedule takes

ASSUME NoTimerAssumption == NoTimer \notin TimerIds
ASSUME AlarmBoundsAssumption ==
  MaxReq \in Nat /\ MaxDelay \in Nat /\ MaxReq + MaxDelay <= MaxTime

VARIABLES
  ch,        \* the number of values in e.ch
  timer,     \* e.timer
  deadline,  \* e.deadline
  pc,        \* "idle", or "schedule" between reading the clock and acting
  t0,        \* the time that Schedule has read
  req,       \* the deadline it was called with
  late,      \* history: late[i], the time between the reading and AfterFunc
  armed,     \* history: a Schedule is in force whose timer has not been heard
  quiet      \* history: Stop was called last

alarmVars == <<ch, timer, deadline>>
callVars == <<pc, t0, req>>
histVars == <<late, armed, quiet>>
vars == <<timerVars, alarmVars, callVars, histVars>>

Later(a, b) == IF a > b THEN a ELSE b

Init ==
  /\ TimersInit
  /\ ch = 0 /\ timer = NoTimer /\ deadline = 0
  /\ pc = "idle" /\ t0 = 0 /\ req = 0
  /\ late = [i \in TimerIds |-> 0]
  /\ armed = FALSE /\ quiet = FALSE

-----------------------------------------------------------------------------
Tick ==
  /\ Advance
  /\ pc = "schedule" => now < t0 + MaxDelay
  /\ UNCHANGED <<alarmVars, callVars, histVars>>

TimerExpires(i) ==
  /\ Expire(i)
  /\ UNCHANGED <<alarmVars, callVars, histVars>>

(* Mutant: the channel holds every value that is sent.                     *)
SendAll(i) ==
  /\ Finish(i)
  /\ ch' = ch + 1
  /\ UNCHANGED <<timer, deadline, callVars, histVars>>

(* e.send: a value that finds the channel full is dropped.                 *)
Send(i) ==
  /\ Finish(i)
  /\ ch' = 1
  /\ UNCHANGED <<timer, deadline, callVars, histVars>>

-----------------------------------------------------------------------------
ScheduleCall(d) ==
  /\ pc = "idle" /\ now <= MaxReq
  /\ pc' = "schedule"
  /\ t0' = now
  /\ req' = d
  /\ quiet' = FALSE
  /\ UNCHANGED <<timerVars, alarmVars, late, armed>>

(* Mutant: a timer whose deadline has come is taken to be still running.   *)
ReusableAtDeadline == timer # NoTimer /\ deadline >= t0 /\ deadline <= req

(* Mutant: whether the deadline has passed is not looked at.               *)
ReusableAnyTime == timer # NoTimer /\ deadline <= req

(* The current timer is early enough, and by the clock it has not fired.   *)
Reusable == timer # NoTimer /\ deadline > t0 /\ deadline <= req

ScheduleKeeps ==
  /\ pc = "schedule" /\ Reusable
  /\ pc' = "idle"
  /\ armed' = TRUE
  /\ UNCHANGED <<timerVars, alarmVars, t0, req, late, quiet>>

(* Mutant: the timer that is replaced is not stopped.                      *)
ScheduleSetsMore(i) ==
  /\ pc = "schedule" /\ ~Reusable
  /\ st[i] \in {"unused", "done", "stopped"}
  /\ st' = [st EXCEPT ![i] = "pending"]
  /\ at' = [at EXCEPT ![i] = now + Later(req, t0) - t0]
  /\ timer' = i
  /\ deadline' = Later(req, t0)
  /\ pc' = "idle"
  /\ late' = [late EXCEPT ![i] = now - t0]
  /\ armed' = TRUE
  /\ UNCHANGED <<now, ch, t0, req, quiet>>

(* Otherwise the current timer is stopped and i takes its place.           *)
ScheduleSets(i) ==
  /\ pc = "schedule" /\ ~Reusable
  /\ st[i] \in {"unused", "done", "stopped"}
  /\ st' = [IF timer = NoTimer THEN st ELSE Stopped(timer) EXCEPT ![i] = "pending"]
  /\ at' = [at EXCEPT ![i] = now + Later(req, t0) - t0]
  /\ timer' = i
  /\ deadline' = Later(req, t0)
  /\ pc' = "idle"
  /\ late' = [late EXCEPT ![i] = now - t0]
  /\ armed' = TRUE
  /\ UNCHANGED <<now, ch, t0, req, quiet>>

(* Mutant: the deadline of the stopped timer is kept.                      *)
StopKeepsDeadline ==
  /\ pc = "idle"
  /\ st' = IF timer = NoTimer THEN st ELSE Stopped(timer)
  /\ ch' = 0
  /\ armed' = FALSE /\ quiet' = TRUE
  /\ UNCHANGED <<now, at, timer, deadline, callVars, late>>

(* Stop: cancel the timer and drain the channel.                           *)
Stop ==
  /\ pc = "idle"
  /\ st' = IF timer = NoTimer THEN st ELSE Stopped(timer)
  /\ deadline' = 0
  /\ ch' = 0
  /\ armed' = FALSE /\ quiet' = TRUE
  /\ UNCHANGED <<now, at, timer, callVars, late>>

(* The user receives from C(): the alarm has rung if its timer has fired.  *)
Receive ==
  /\ pc = "idle" /\ ch = 1
  /\ ch' = 0
  /\ armed' = (armed /\ st[timer] # "done")
  /\ UNCHANGED <<timerVars, timer, deadline, callVars, late, quiet>>

-----------------------------------------------------------------------------
TimerStep == \E i \in TimerIds : TimerExpires(i) \/ Send(i)
Schedule == ScheduleKeeps \/ \E i \in TimerIds : ScheduleSets(i)

Next ==
  \/ Tick
  \/ TimerStep
  \/ \E d \in 0..MaxReq : ScheduleCall(d)
  \/ Schedule
  \/ Stop
  \/ Receive

Spec == Init /\ [][Next]_vars

(* Time passes, timers that are due run, and Schedule comes to its end.    *)
OthersFair ==
  /\ \A i \in TimerIds : WF_vars(TimerExpires(i)) /\ WF_vars(Send(i))
  /\ WF_vars(Schedule)

Fairness == WF_vars(Tick) /\ OthersFair

FairSpec == Spec /\ Fairness

-----------------------------------------------------------------------------
(* Types; Schedule acts on a reading of the clock that is not in the future*)
TypeOK ==
  /\ TimersTypeOK
  /\ ch \in 0..1
  /\ timer \in TimerIds \cup {NoTimer}
  /\ deadline \in 0..MaxTime
  /\ pc \in {"idle", "schedule"}
  /\ t0 \in 0..now /\ req \in 0..MaxReq
  /\ late \in [TimerIds -> Nat]
  /\ armed \in BOOLEAN /\ quiet \in BOOLEAN

(* Only the timer the alarm remembers can be pending: no other one rings   *)
(* it, or escapes Stop.                                                    *)
OneTimer == Pending \subseteq {timer}

(* A deadline ahead of the clock has a pending timer behind it, so that    *)
(* Schedule may rely on it; the timer is no earlier than the deadline.     *)
DeadlineHasTimer ==
  /\ timer # NoTimer /\ deadline > now => st[timer] = "pending"
  /\ timer # NoTimer /\ st[timer] = "pending" =>
       at[timer] = deadline + late[timer]

(* A scheduled alarm that has not rung yet will: its timer is pending, no  *)
(* later than asked for and the time Schedule took, or about to send, or   *)
(* has left a value in the channel; a stale value cannot make it be lost.  *)
NoLostWakeup ==
  armed /\ pc = "idle" =>
    /\ timer # NoTimer
    /\ st[timer] = "pending" => at[timer] <= Later(req, t0) + late[timer]
    /\ st[timer] \in {"pending", "running"} \/ (st[timer] = "done" /\ ch = 1)

(* A scheduled alarm rings, if it is not stopped or scheduled anew.        *)
Rings == armed /\ pc = "idle" ~> (ch = 1 \/ ~armed \/ pc = "schedule")

(* What the comment of Stop says ("Stop cancels the alarm and drains the   *)
(* channel"): until the next Schedule the channel stays empty.             *)
QuietAfterStop == quiet => ch = 0

=============================================================================
