CONSTANTS
  Unknown = Unknown
  Invalid = Invalid
  Nobody = Nobody
  Us = Us
  Others = {d1}
  Clients = {c1}
  ServedVerbs = {"wake", "standby", "inputClaim", "inputRelease", "inputSelect"}
  PowerStates = {on}
  MaxQueue = 1
  MayLose = FALSE
  AvrConfigured = TRUE
  TvWol = TRUE
  MainPower = TRUE
  Zone2Off = TRUE
  AvrInput = FALSE
SPECIFICATION FairSpec
INVARIANTS
  OutcomeIsHonest
PROPERTIES
  EveryActionIsAnswered
