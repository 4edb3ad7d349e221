SPECIFICATION FairSpec
CONSTANTS
  NumChannels = 2
  CmdDepth = 2
  LogDepth = 1
  Commands <- CommandsRunning
  MaxCmds = 2
  UnitTicks <- MCUnitTicks
  DacFaults = FALSE
  AdcFaults = FALSE
  NvsFaults = FALSE
  InitFaults = FALSE
  Overrun = FALSE
  MaxReboots = 0
  Urgent = TRUE
PROPERTIES LinkLossStops SteadyEnds
