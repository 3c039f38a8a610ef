\* The same connection: is what the worker parses as a header one?
SPECIFICATION SafeSpec
CONSTANTS
  HeaderSize = 4
  MaxPacketSize = 5
  Ids = {1}
  MaxFrames = 2
  SplitAfterHeader = TRUE
INVARIANTS
  HeaderAtPacketStart
CHECK_DEADLOCK FALSE
