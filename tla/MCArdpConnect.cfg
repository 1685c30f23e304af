SPECIFICATION LiveSpec
CONSTANTS
  SeqSpace = 16
  SegMax = 2
  WordBits = 1
  Iss <- MCIss
  Msgs <- OneMsg
  ConnectRetries = 1
  KeepaliveRetries = 1
  PersistRetries = 2
  Closers = {"A", "B"}
  Idle = {"A", "B"}
  Outcomes <- Lossy
  Duplicates = {"B"}
  NetMax <- Net11
  MaxRecords = 1
INVARIANTS NeverInvalid
PROPERTIES HalfOpenEnds SendCompletes
CHECK_DEADLOCK FALSE
