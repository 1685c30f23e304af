SPECIFICATION SafeSpec
CONSTANTS
  NumThreads = 2
  Alarm = {a1, a2, a3}
  NoAlarm = NoAlarm
  Periodic = {}
  Client = {c1}
  NoThread = NoThread
  MaxAlarms = 2
  PreventReentrancy = TRUE
  ExpireOnExit = TRUE
  MaxDelay = 0
  MaxTime = 0
  MaxStarts = 1
  ListenerAlarms = {a1, a2, a3}
SYMMETRY Symmetry
INVARIANTS
  TypeOK
  RemovedIsQuiet
  LockHeldThroughCallback
  RunsAtMostOnce
  DispatchOrder
  DrainedWhenJoined
  NoStrandedAlarm
CHECK_DEADLOCK FALSE
