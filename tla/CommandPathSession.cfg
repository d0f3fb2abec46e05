CONSTANTS
  SeqSize = 16
  MaxSession = 3
  Displays = {d1}
  DisplayStarts = {"boot", "reset"}
  MaxSources = 1
  MaxRetries = 1
  RingSize = 2
  ModeInputs = {"heat", "off"}
  FanInputs = {"on"}
  Setpoints = {20}
  FieldInputs = {"mode"}
  HaInputs = {"mode"}
  MaxWords = 5
  MaxHa = 1
  MaxInFlight = 2
  MaxQueued = 1
  MaxRestarts = 2
SPECIFICATION Spec
PROPERTY NewerWordApplied
