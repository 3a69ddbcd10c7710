------------------------------ MODULE MCClocks ------------------------------
(***************************************************************************)
(* common/mclock for TLC, one part at a time: the alarm of Alarm, and the  *)
(* simulated clock of SimClock.  The .cfg has two timers with a channel    *)
(* and one with a function, two goroutines that run the clock and one that *)
(* waits.                                                                  *)
(***************************************************************************)
EXTENDS Alarm

CONSTANTS SimTimerIds, SimChans, Runners, Waiters, SimMaxTime, Nothing  \* of SimClock

VARIABLES
  part,
  simNow, scheduled, simAt, do, chans, wpc, need, fate, heard

Sim == INSTANCE SimClock WITH
         TimerIds <- SimTimerIds, Chans <- SimChans, MaxTime <- SimMaxTime,
         now <- simNow, at <- simAt, ch <- chans

ASSUME SimAssumption == Sim!ClockConstants

simVars == <<simNow, scheduled, simAt, do, chans, wpc, need, fate, heard>>
allVars == <<part, vars, simVars>>

MCInit == part \in {"alarm", "simulated"} /\ Init /\ Sim!Init

MCNext ==
  \/ part = "alarm" /\ Next /\ UNCHANGED <<part, simVars>>
  \/ part = "simulated" /\ Sim!Next /\ UNCHANGED <<part, vars>>

(* The fair actions of a part that is not run are disabled where it        *)
(* starts, but for the passing of the alarm's time.                        *)
MCSpec ==
  /\ MCInit /\ [][MCNext]_allVars
  /\ OthersFair /\ WF_vars(part = "alarm" /\ Tick)

-----------------------------------------------------------------------------
(* mclock.Simulated: its variables have their types, a timer is in one     *)
(* place - on the heap, in the hands of one Run, in its channel -, Run     *)
(* never waits for the reader of a channel, and nobody sleeps in           *)
(* WaitForTimers while there are enough timers.                            *)
SimSound == Sim!TypeOK /\ Sim!OnePlace /\ Sim!RunNotBlocked /\ Sim!WaitersNotified

(* mclock.Simulated implements what mclock.Clock promises (Timers): a      *)
(* timer runs once, not before its time and not if Stop has returned true; *)
(* and when the clock moves, Run takes every timer due by the new time.    *)
ImplementsTimers == Sim!ImplementsTimers /\ Sim!NothingOverdue

=============================================================================
