CONSTANTS
  Loop = loop
  Others = {owner}
  Senders = {loop}
  Size <- Sizes
  Room = 2
  IovMax = 2
SPECIFICATION FairSpec
INVARIANTS SocketOwes
PROPERTIES RefinesByteStream SocketPays
CHECK_DEADLOCK FALSE
