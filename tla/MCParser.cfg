SPECIFICATION Spec
CONSTANTS
  NumChannels = 2
  CmdDepth = 2
  LogDepth = 1
  Lines <- MCLines
  Garbage <- MCGarbage
  MaxCmds = 2
INVARIANTS TypeOK
PROPERTIES WellFormedUnmixed ImplementsSource
