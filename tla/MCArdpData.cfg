SPECIFICATION Spec
CONSTANTS
  SeqSpace = 18
  SegMax = 3
  WordBits = 1
  Iss <- MCIss
  Msgs <- DataTT
  ConnectRetries = 0
  KeepaliveRetries = 1
  PersistRetries = 2
  Closers = {}
  Idle = {}
  Outcomes <- LossyBlocking
  Duplicates = {"B"}
  NetMax <- Net11
  MaxRecords = 1
INVARIANTS TypeOK Agreement AssertionsHold HeldIntact EackExact
PROPERTIES StreamSpec QuietAfterDisconnect
CHECK_DEADLOCK FALSE
