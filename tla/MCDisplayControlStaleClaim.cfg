CONSTANTS
  Unknown = Unknown
  Invalid = Invalid
  Nobody = Nobody
  Us = Us
  Others = {d1}
  Clients = {c1}
  ServedVerbs = {"wake"}
  PowerStates = {on}
  MaxQueue = 2
  MayLose = FALSE
  AvrConfigured = FALSE
  TvWol = FALSE
  MainPower = FALSE
  Zone2Off = TRUE
  AvrInput = FALSE
SPECIFICATION Spec
INVARIANT OursIsNotStale
