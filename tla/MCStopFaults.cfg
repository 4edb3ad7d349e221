SPECIFICATION Spec
CONSTANTS
  NumChannels = 1
  CmdDepth = 1
  LogDepth = 1
  Commands <- CommandsStop
  MaxCmds = 2
  UnitTicks <- MCUnitTicks
  DacFaults = TRUE
  AdcFaults = FALSE
  NvsFaults = FALSE
  InitFaults = FALSE
  Overrun = FALSE
  MaxReboots = 0
  Urgent = FALSE
PROPERTIES StopDropsOutput
