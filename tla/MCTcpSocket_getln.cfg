CONSTANTS
  Chars = {"a", "b"}
  StreamLimit = 3
  TimeLimit = 2
  Eol <- MCEol
  Payload <- MCPayload
  Calls <- OneLine
SPECIFICATION FairSpec
PROPERTY GetlnTimesOut
CHECK_DEADLOCK FALSE
