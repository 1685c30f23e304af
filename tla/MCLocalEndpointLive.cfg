SPECIFICATION Spec
CONSTANTS
  Call = {m1, m2}
  NoCall = NoCall
  Sync = {m1}
  Secure = {}
  Doomed = {}
  Addr = {x1, x2}
  Worker = {w1, w2}
  NoWorker = NoWorker
  ReplyTimer = ReplyTimer
  MaxAlarms = 2
  MayStop = FALSE
  EarlyTimeout = FALSE
  MaxSerials = 1
INVARIANT AlarmHasContext
PROPERTY EveryCallEnds
CHECK_DEADLOCK FALSE
