CONSTANTS
  Loop = loop
  Others = {owner}
  Senders = {loop}
  Size <- Sizes
  Room = 2
  IovMax = 2
SPECIFICATION Spec
INVARIANT ErrorOnce
CHECK_DEADLOCK FALSE
