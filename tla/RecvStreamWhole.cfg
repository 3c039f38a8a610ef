\* No arrival ends exactly between a header and its payload.
SPECIFICATION Spec
CONSTANTS
  HeaderSize = 4
  MaxPacketSize = 6
  Ids = {1}
  MaxFrames = 3
  SplitAfterHeader = FALSE
INVARIANTS
  TypeOK
  NothingSkipped
PROPERTIES
  ImplementsChannel
  EveryPacketHandled
CHECK_DEADLOCK FALSE
