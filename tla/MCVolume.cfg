CONSTANTS
  Clients = {c1, c2}
  MaxLevel = 1
  Reserved = 3
  Unknown = Unknown
  ServedActions = {"up", "mute", "state"}
SPECIFICATION Spec
SYMMETRY Symmetry
INVARIANTS
  TypeOK
  NoKeyLeftDown
  AnswersWereTrue
PROPERTY NoBlindToggle
