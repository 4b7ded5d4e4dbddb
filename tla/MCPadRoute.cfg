SPECIFICATION FairSpec
CONSTANTS
  Apps = {"game"}
  Shell = "shell"
  Writers = {"client", "escape"}
  Clients = {"client"}
  Escape = "escape"
  Unreadable = "unreadable"
  None = "none"
  MaxInputs = 4
INVARIANTS TypeOK OwedIsQueued PadFollowsTheWrite
PROPERTIES OkIsOwn FlapsCollapse PadFollowsScreen EscapeIsServed
CHECK_DEADLOCK FALSE
