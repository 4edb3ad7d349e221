SPECIFICATION Spec
CONSTANTS
  Ranges <- MCRanges
  Scales <- MCScales
  Called <- MCCalled
  ResetCtrl <- MCResetCtrl
  Codes = {"zero", "full"}
  ZeroCode = "zero"
INVARIANTS TypeOK SettingsMatch ReadbackCurrent BootedAtZero
CHECK_DEADLOCK FALSE
