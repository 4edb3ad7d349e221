SPECIFICATION Spec
CONSTANTS
  NumChannels = 2
  CmdDepth = 2
  LogDepth = 1
  Commands <- CommandsTwoChannels
  MaxCmds = 2
  UnitTicks <- MCUnitTicks
  DacFaults = FALSE
  AdcFaults = FALSE
  NvsFaults = FALSE
  InitFaults = FALSE
  Overrun = TRUE
  MaxReboots = 0
  Urgent = FALSE
INVARIANTS RunningConverting SteadyHolds
