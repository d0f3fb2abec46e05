SPECIFICATION Spec
CONSTANTS
  Payloads = {"idle", "heat"}
  Default = "idle"
  SeqSize = 8
  StartSeqs = {7}
  Debounce = 1
  ResyncGap = 3
  SlowRestarts = TRUE
  MaxChanges = 2
  MaxFaults = 2
INVARIANTS
  TelemetryTypeOK
PROPERTIES
  StateShown
  AckCatchesUp
