SPECIFICATION Spec
CONSTANTS
  Apps = {"moonlight", "game"}
  Shell = "shell"
  Writers = {"boot", "client"}
  BootApp = "moonlight"
  Policies = {"always", "on-failure", "never"}
  Processes = {p1, p2}
  FastExitLimit = 1
  GiveUpAfter = 0
  MaxExits = 2
  NoProcess = NoProcess
  Unreadable = "unreadable"
  None = "none"
PROPERTIES RelaunchTakesNothing
CHECK_DEADLOCK FALSE
