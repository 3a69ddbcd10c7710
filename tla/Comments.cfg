SPECIFICATION CommentsSpec
CONSTANTS
  Unsubscribers = {"u", "v"}
  BufferLimit = 2
  MaxValues = 3
  Ops = {"plain", "batched", "subscribed"}
  SubOps = {"subscribed"}
  OpIds <- MCOpIds
  NoOp = "no op"
  Calls = {"k"}
  MaxNotify = 1
  BatchMsgs = {"a", "b", "n"}
  Notifications = {"n"}
  Codecs = {"c"}
  Requests = {"r"}
  Names <- MCNames
  Receivers <- MCReceivers
  UintDigits = 2
  BigDigits = 4
  WordNibbles = 2
  Length = 2
  Digest <- MCDigest
  Width = 8
  WordBits = 4
  ByteBits = 2
  PadLen = 2
  MaxInt64 = 7
  MaxUint64 = 15
  OutputSizes = {28, 32, 48, 64}
  Lengths = {0, 1, 3, 5, 7, 8, 9, 13, 16, 21}
  MaxBytes = 40
  States <- MCStates
  Attempts = {"k1", "k2"}
  LoopCallers = {"d1"}
  BackoffMax = 20
CHECK_DEADLOCK FALSE
INVARIANT SomeCommentHolds
