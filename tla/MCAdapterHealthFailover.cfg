CONSTANTS
  TxErrorThreshold = 2
  TxErrorWindow = 1
  FailAfter = 1
  RecoverAfter = 1
  IpConfigured = TRUE
  MaxErrors = 2
  Horizon = 2
  MaxQueue = 1
  MayTransmit = TRUE
  FdStates = {"ok"}
SPECIFICATION FairSpec
INVARIANT TypeOK
PROPERTIES
  FailsOver
  RecoversWhenHeard
