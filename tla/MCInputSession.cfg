CONSTANTS
  p1 = p1
  p2 = p2
  p3 = p3
  Pads = {p1, p2, p3}
  Players = 2
  Controls <- MCControls
  Owners = {"shell", "unknown"}
  NoSlot = NoSlot
  None = None
SPECIFICATION Spec
CHECK_DEADLOCK FALSE
INVARIANTS
  TypeOK
  SlotsAreDistinct
  PresenterRestsWhenNotRouted
  KeyboardRestsWhenNotRouted
  DownIsHeldUnlessStrayed
  LatchIsHeld
PROPERTY EscapeOncePerGesture
