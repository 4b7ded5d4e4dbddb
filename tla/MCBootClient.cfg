SPECIFICATION FairSpec
CONSTANTS
  Apps = {"moonlight", "game"}
  Shell = "shell"
  Writers = {"boot", "client"}
  BootApp = "moonlight"
  Policies = {"always", "on-failure"}
  Processes = {p1, p2}
  FastExitLimit = 1
  GiveUpAfter = 0
  MaxExits = 1
  NoProcess = NoProcess
  Unreadable = "unreadable"
  None = "none"
INVARIANTS TypeOK OneBootApp QuitStaysQuit
PROPERTIES ComesBack
CHECK_DEADLOCK FALSE
