SPECIFICATION Spec
CONSTANTS
  Payloads = {"idle", "heat"}
  Default = "idle"
  SeqSize = 8
  StartSeqs = {7}
  Debounce = 1
  ResyncGap = 3
  SlowRestarts = TRUE
  MaxChanges = 0
  MaxFaults = 0
PROPERTIES
  SettingsLearned
