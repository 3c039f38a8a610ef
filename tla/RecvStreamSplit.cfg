\* A payload may arrive after the worker has read its header.
SPECIFICATION SafeSpec
CONSTANTS
  HeaderSize = 4
  MaxPacketSize = 5
  Ids = {1, 2}
  MaxFrames = 3
  SplitAfterHeader = TRUE
INVARIANTS
  FramedUntilDesync
  FatalOnlyAfterDesync
CHECK_DEADLOCK FALSE
