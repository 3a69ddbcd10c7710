SPECIFICATION Spec
CONSTANTS
  TimerIds = {i1, i2, i3}
  NoTimer = NoTimer
  MaxTime = 3
  MaxReq = 2
  MaxDelay = 1
CHECK_DEADLOCK FALSE
INVARIANT QuietAfterStop
