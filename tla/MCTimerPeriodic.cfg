SPECIFICATION Spec
CONSTANTS
  NumThreads = 2
  Alarm = {p1}
  NoAlarm = NoAlarm
  Periodic = {p1}
  Client = {c1}
  NoThread = NoThread
  MaxAlarms = 0
  PreventReentrancy = FALSE
  ExpireOnExit = FALSE
  MaxDelay = 1
  MaxTime = 2
  MaxStarts = 2
  ListenerAlarms = {p1}
PROPERTY DueAlarmServed
CHECK_DEADLOCK FALSE
