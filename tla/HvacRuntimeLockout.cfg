CONSTANTS
  Wrap = 64
  Horizon = 6
  TickSteps = {1, 2}
  MinuteTicks = 2
  FailsafeTimeout = 2
  MinIdle = 1
  MinOff <- TwoThree
  MinRun <- OneTwo
  MaxRun <- ThreeZero
  CirculateConfigs <- OneInTwo
  CirculateCycle = 2
  FilterCap = 1
  AgeCap = 4
  FanInputs = {"automatic", "on", "circulate"}
  Beats = {TRUE, FALSE}
  Demands = {"call", "hold", "satisfied"}
  InitialTempKnown = {TRUE, FALSE}
  MaxReboots = 0
SPECIFICATION Spec
PROPERTY RestAlways
