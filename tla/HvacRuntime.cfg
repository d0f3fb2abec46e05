CONSTANTS
  Wrap = 64
  Horizon = 5
  TickSteps = {1, 2}
  MinuteTicks = 2
  FailsafeTimeout = 2
  MinIdle = 1
  MinOff <- TwoThree
  MinRun <- TwoOne
  MaxRun <- ThreeZero
  CirculateConfigs <- HalfAndAlways
  CirculateCycle = 2
  FilterCap = 1
  AgeCap = 4
  FanInputs = {"automatic", "on", "circulate"}
  Beats = {TRUE, FALSE}
  Demands = {"call", "hold", "satisfied"}
  InitialTempKnown = {TRUE, FALSE}
  MaxReboots = 1
SPECIFICATION Spec
INVARIANTS TypeOK RelaysSafe FlagsOnlyAtRest MaximumRun FailsafeInTime
PROPERTIES RestBetweenRuns MinimumRun
