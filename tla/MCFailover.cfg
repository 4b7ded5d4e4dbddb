CONSTANTS
  TxErrorThreshold = 2
  TxErrorWindow = 2
  FailAfter = 1
  RecoverAfter = 2
  IpConfigured = TRUE
  MaxErrors = 3
  MaxNow = 5
  MayStepBack = TRUE
SPECIFICATION Spec
INVARIANTS
  TypeOK
  PendingIsCalledFor
  DeafOnlyAfterSilentRun
PROPERTIES
  RecoveryIsObserved
  SwitchSpec
