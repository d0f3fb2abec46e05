CONSTANTS
  Wrap = 64
  Horizon = 6
  TickSteps = {1}
  MinuteTicks = 1
  FailsafeTimeout = 2
  MinIdle = 1
  MinOff <- OneThree
  MinRun <- OneOne
  MaxRun <- ThreeZero
  CirculateConfigs <- OneInTwo
  CirculateCycle = 2
  FilterCap = 0
  AgeCap = 0
  FanInputs = {"automatic", "on", "circulate"}
  RelayWait <- HeatOneOthersTwo
  RestCap = 3
  Beats = {TRUE, FALSE}
  Demands = {"call"}
  InitialTempKnown = {TRUE}
  MaxReboots = 0
SPECIFICATION LoopSpec
PROPERTIES SwitchWaits OutputWithinDemand CoilRests
