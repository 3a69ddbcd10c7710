SPECIFICATION MCSpec
CONSTANTS
  TimerIds = {i1, i2, i3}
  NoTimer = NoTimer
  MaxTime = 3
  MaxReq = 2
  MaxDelay = 1
  SimTimerIds = {"c1", "c2", "f1"}
  SimChans = {"c1", "c2"}
  Runners = {"r1", "r2"}
  Waiters = {"w1"}
  SimMaxTime = 2
  Nothing = Nothing
CHECK_DEADLOCK FALSE
INVARIANTS
  TypeOK
  OneTimer
  DeadlineHasTimer
  NoLostWakeup
  SimSound
PROPERTIES
  ImplementsTimers
  Rings
