SPECIFICATION MCSpec
CONSTANTS
  Subs = {s1, s2}
  Callers = {c1, c2}
  Nobody = Nobody
  Attempts = {"k1", "k2"}
  LoopCallers = {"d1", "d2", "d3"}
  BackoffMax = 20
CHECK_DEADLOCK FALSE
INVARIANTS
  TypeOK
  ScopeSound
  ResubscribeSound
PROPERTIES
  EverybodyReturns
