SPECIFICATION Spec
CONSTANTS
  Holder = {foundName, lostName}
  Thread = {t1, t2}
  Event = {a, b}
  NoHolder = NoHolder
  MaxCalls = 2
INVARIANTS
  TypeOK
  ExactlyOnceInOrder
  NoLostWakeup
  HolderSetBeforeCallback
PROPERTY ChannelSpec
CHECK_DEADLOCK FALSE
