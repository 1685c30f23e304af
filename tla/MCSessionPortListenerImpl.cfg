SPECIFICATION Spec
CONSTANTS
  Joiner = {j1, j2, j3}
  NoJoiner = NoJoiner
  Worker = {w1, w2}
  NoWorker = NoWorker
  MaxSyncCalls = 2
INVARIANTS
  TypeOK
  VerdictIsOwn
  JoinedOnlyIfAccepted
PROPERTY EveryJoinerAnswered
CHECK_DEADLOCK FALSE
