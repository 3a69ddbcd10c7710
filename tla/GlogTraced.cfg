SPECIFICATION MCSpec
CONSTANTS
  a = a
  b = b
  Loggers = {l1}
  Sites = {a, b}
  NoSite = NoSite
  RecordLevels = {1, 4}
  Verbosities = {0, 1, 3}
  Rulesets <- MCRulesets
  Followers = {"root", "child"}
  Root = "root"
  Streams = {"stream"}
  Buffered = "buffered"
  Writers = {"w1", "w2"}
  bufSize = 1
  MaxRecords = 2
  Trees <- MCTrees
  StreamNames = {"a", "b", "c"}
  Prefixes <- MCPrefixes
  Arguments <- MCArguments
CHECK_DEADLOCK FALSE
PROPERTIES
  TracedNotHidden
