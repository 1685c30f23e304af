SPECIFICATION SafeSpec
CONSTANTS
  Call = {m1, m2}
  NoCall = NoCall
  Sync = {m1}
  Secure = {m2}
  Doomed = {m1}
  Addr = {x1, x2}
  Worker = {w1, w2}
  NoWorker = NoWorker
  ReplyTimer = ReplyTimer
  MaxAlarms = 1
  MayStop = TRUE
  EarlyTimeout = TRUE
  MaxSerials = 1
SYMMETRY Symmetry
INVARIANTS
  TypeOK
  HandlerAtMostOnce
  NoCallbackAfterError
  ContextOutlivesHandler
CHECK_DEADLOCK FALSE
