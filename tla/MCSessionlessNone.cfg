SPECIFICATION Spec
CONSTANTS
  SeqSpace = 16
  Key = {1, 2}
  IfaceOf <- MCIface
  SenderOf <- MCSender
  Ttl = {1}
  MatchRule <- NamedAndWild
  Wild = "wild"
  NoMsg = NoMsg
  NoCache = NoCache
  NoSession = NoSession
  MaxRetries = 0
  MaxPush = 2
  MaxRules = 2
  MaxSame = 2
  MaxFaults = 1
  MaxChanges = 1
INVARIANT NoneMeansDone
CHECK_DEADLOCK FALSE
