SPECIFICATION MCSpec
CONSTANTS
  Unsubscribers = {"u", "v"}
  BufferLimit = 2
  MaxValues = 3
  Ops = {"plain", "batched", "subscribed"}
  SubOps = {"subscribed"}
  OpIds <- MCOpIds
  NoOp = "no op"
  Calls = {"k", "l"}
  MaxNotify = 2
  BatchMsgs = {"a", "b", "n"}
  Notifications = {"n"}
  Codecs = {"c", "d"}
  Requests = {"r"}
  Names <- MCNames
  Receivers <- MCReceivers
  UintDigits = 2
  BigDigits = 4
  WordNibbles = 2
  Length = 2
  Digest <- MCDigest
  Width = 8
  WordBits = 4
  ByteBits = 2
  PadLen = 2
  MaxInt64 = 7
  MaxUint64 = 15
  OutputSizes = {28, 32, 48, 64}
  Lengths = {0, 1, 3, 5, 7, 8, 9, 13, 16, 21}
  MaxBytes = 40
  States <- MCStates
CHECK_DEADLOCK FALSE
INVARIANTS
  TypeOK
  ForwardsInOrder
  CallsSound
  ServerSubsSound
  AnsweredOnce
  StoppedServesNone
  MethodsFound
  TextsSound
  NumbersSound
  KeysSound
  RlpSound
  ChunkingInvisible
PROPERTIES
  ConnectionsGoOn
  RoundsFollowKeccak
