CONSTANTS
  Wrap = 4
  Horizon = 8
  TickSteps = {1}
  MinuteTicks = 1
  FailsafeTimeout = 2
  MinIdle = 1
  MinOff <- OneTwo
  MinRun <- OneOne
  MaxRun <- ThreeZero
  CirculateConfigs <- OneInTwo
  CirculateCycle = 2
  FilterCap = 0
  AgeCap = 0
  FanInputs = {"automatic", "on", "circulate"}
  Beats = {TRUE}
  Demands = {"call"}
  InitialTempKnown = {TRUE}
  MaxReboots = 0
SPECIFICATION FairSpec
PROPERTIES CallIsServed WindowsStopCooling FanCirculates
