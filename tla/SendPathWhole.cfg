\* Messages that fit a packet, over a connection that works or is lost for good.
CONSTANTS
  HeaderSize = 4
  SizeMod = 8
  Data = {0, 1, 3}
  Ids = {move, score}
  MaxRequests = 3
  TransientErrors = FALSE
SPECIFICATION Spec
INVARIANT OnlyLastInPart
PROPERTY ImplementsChannel EveryRequestSent
CHECK_DEADLOCK FALSE
