SPECIFICATION FairSpec
CONSTANTS
  NumChannels = 3
  Rates <- MCRates
  MaxPolls = 2
  Overrun = TRUE
INVARIANTS MapMatchesChip OffsetAlone BackToContinuous DispatchedOfThisPoll
PROPERTIES CalibrationNotCut ImplementsInputs HandlersReturn
