SPECIFICATION Spec
CONSTANTS
  Slaves <- MCSlaves
  DeviceId <- MCDeviceId
  Cpol <- MCCpol
  MaxBusNumber = 8
  NoSlave = "none"
  MaxMessages = 3
  InitFaults = TRUE
  TransferFaults = TRUE
INVARIANTS BusCounted SelectedAlone ClockAtRest ListToItsEnd
