SPECIFICATION FairSpec
CONSTANTS
  Attempts = {k1, k2}
  Callers = {c1, c2, c3}
  BackoffMax = 20
CHECK_DEADLOCK FALSE
PROPERTY UnsubscribeReturns
