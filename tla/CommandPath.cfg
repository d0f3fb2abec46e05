CONSTANTS
  SeqSize = 16
  MaxSession = 3
  Displays = {d1}
  DisplayStarts = {"boot", "reset"}
  MaxSources = 1
  MaxRetries = 1
  RingSize = 2
  ModeInputs = {"heat"}
  FanInputs = {"on"}
  Setpoints = {20}
  FieldInputs = {"mode", "fan"}
  HaInputs = {"filter"}
  MaxWords = 3
  MaxHa = 1
  MaxInFlight = 2
  MaxQueued = 1
  MaxRestarts = 1
SPECIFICATION Spec
INVARIANTS PathTypeOK 
PROPERTIES StaleRejected NewerWordApplied
