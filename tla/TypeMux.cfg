SPECIFICATION MCSpec
CONSTANTS
  t1 = t1
  t2 = t2
  s2 = s2
  p2 = p2
  u2 = u2
  Types = {t1, t2}
  Subs = {s1, s2}
  Posters = {p1, p2}
  Stoppers = {k1}
  Leavers = {u1, u2}
  ArgLists <- MCArgLists
  MaxTime = 1
  MaxPosts = 1
CHECK_DEADLOCK FALSE
INVARIANTS
  TypeOK
  NoSendOnClosedChannel
  EventsDelivered
PROPERTIES
  UnsubscribeIsFinal
  CallsReturn
