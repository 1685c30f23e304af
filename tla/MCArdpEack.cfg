SPECIFICATION Spec
CONSTANTS
  SeqSpace = 36
  SegMax = 6
  WordBits = 2
  Iss <- MCIss
  Msgs <- SixFragments
  ConnectRetries = 0
  KeepaliveRetries = 1
  PersistRetries = 1
  Closers = {}
  Idle = {}
  Outcomes <- Lossy
  Duplicates = {}
  NetMax <- Net13
  MaxRecords = 1
INVARIANTS CancelledHasArrived
CHECK_DEADLOCK FALSE
