SPECIFICATION Spec
CONSTANTS
  NumChannels = 1
  CmdDepth = 1
  LogDepth = 1
  Commands <- CommandsOneChannel
  MaxCmds = 2
  UnitTicks <- MCUnitTicks
  DacFaults = FALSE
  AdcFaults = TRUE
  NvsFaults = TRUE
  InitFaults = TRUE
  Overrun = TRUE
  MaxReboots = 1
  Urgent = FALSE
INVARIANTS TypeOK IdleSafe SweepBounded CalInTolerance TimerOfThisRun
PROPERTIES SweepNoJump
