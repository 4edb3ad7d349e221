SPECIFICATION Spec
CONSTANTS
  NumChannels = 2
  BusFaults = TRUE
  MaxLost = 1
  Rates <- MCRates
INVARIANTS FrameAgrees StructureIsCurrent
PROPERTIES ReadyWhenOk WriteCarriesAll
