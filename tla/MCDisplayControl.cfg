CONSTANTS
  Unknown = Unknown
  Invalid = Invalid
  Nobody = Nobody
  Us = Us
  Others = {d1}
  Clients = {c1, c2}
  ServedVerbs = {"wake", "standby", "inputClaim", "inputRelease"}
  PowerStates = {on}
  MaxQueue = 1
  MayLose = TRUE
  AvrConfigured = FALSE
  TvWol = FALSE
  MainPower = FALSE
  Zone2Off = TRUE
  AvrInput = FALSE
SPECIFICATION Spec
SYMMETRY Symmetry
INVARIANTS
  TypeOK
  OutcomeIsHonest
  StandbyNeedsOurClaim
PROPERTIES
  
  OursGoesStaleByLossOrOvertaking
