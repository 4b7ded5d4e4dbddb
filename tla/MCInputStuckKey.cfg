CONSTANTS
  p1 = p1
  p2 = p2
  p3 = p3
  Pads = {p1}
  Players = 1
  Controls <- MCBoth
  Owners = {"shell", "overlay", "unknown"}
  NoSlot = NoSlot
  None = None
SPECIFICATION Spec
CHECK_DEADLOCK FALSE
INVARIANT DownIsHeld
