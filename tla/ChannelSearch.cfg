SPECIFICATION Spec
CONSTANTS
  Rendezvous = 6
  SearchChannels <- MCSearchChannels
  SearchInterval <- MCSearchInterval
  AccessPoints <- MCAccessPoints
  LinkTimeout = 3
  AckHold = 3
  SuspendAfter = 4
  ResetGap = 5
  ResumeInterval = 6
  ResumeWindow = 4
  MaxFaults = 1
INVARIANTS
  ChannelTypeOK
PROPERTIES
  HoldsWhereAnswered
  SuspendEarned
  
  WifiRetried
