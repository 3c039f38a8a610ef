\* Messages of any size, and a Send that may fail where the connection stands.
CONSTANTS
  HeaderSize = 4
  SizeMod = 8
  Data = {0, 3, 4, 8, 9}
  Ids = {login}
  MaxRequests = 3
  TransientErrors = TRUE
SPECIFICATION SafeSpec
INVARIANT TypeOK InOrderOnce SizeHonest
CHECK_DEADLOCK FALSE
