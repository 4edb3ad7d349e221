SPECIFICATION FairSpec
CONSTANTS
  NumChannels = 2
  CmdDepth = 1
  LogDepth = 1
  Commands <- CommandsSweeping
  MaxCmds = 2
  UnitTicks <- MCUnitTicks
  DacFaults = FALSE
  AdcFaults = FALSE
  NvsFaults = FALSE
  InitFaults = FALSE
  Overrun = FALSE
  MaxReboots = 0
  Urgent = TRUE
PROPERTIES SweepEnds
