SPECIFICATION MCSpec
CONSTANTS
  a = a
  b = b
  c = c
  y = y
  int = int
  NoType = NoType
  Nobody = Nobody
  Subs = {a, b, c}
  Leavers = {a, b}
  Senders = {x, y}
  Types = {int, str}
  ElemType <- MCElemType
  Cap <- MCCap
  MaxSends = 2
CHECK_DEADLOCK FALSE
INVARIANTS
  TypeOK
  CaseListsSound
  SendCountsReceivers
PROPERTIES
  FeedImplementsBroadcast
  CallsReturn
