CONSTANTS
  TxErrorThreshold = 2
  TxErrorWindow = 1
  FailAfter = 1
  RecoverAfter = 1
  IpConfigured = TRUE
  MaxErrors = 2
  Horizon = 2
  MaxQueue = 1
  MayTransmit = FALSE
  FdStates = {"ok", "error", "hung"}
SPECIFICATION FairSpec
PROPERTIES
  VerdictConverges
  OnlyADeadFdRestarts
