CONSTANTS
  Wrap = 8
  RecoverAfter = 1
  RecoverRepeat = 2
  MqttDownRecover = 3
  HealthyReset = 2
  FirstReboot = 2
  SecondReboot = 3
  ThirdReboot = 4
  LaterReboot = 5
  CanSuspend = TRUE
  MaxGap = 2
  CountCap = 3
  MaxLosses = 2
SPECIFICATION FairSpec
INVARIANTS
  GovernorTypeOK
  RebootsSpaced
  SavedCountTrue
  OutageTended
  MqttDownSchedule
PROPERTIES
  RebootsKeepComing
