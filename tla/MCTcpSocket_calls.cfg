CONSTANTS
  Chars = {"a", "b"}
  StreamLimit = 5
  TimeLimit = 3
  Eol <- MCEol
  Payload <- MCPayload
  Calls <- AllCalls
SPECIFICATION FairSpec
INVARIANTS BytesAccounted LineIsFirst
PROPERTY CallsEnd
CHECK_DEADLOCK FALSE
