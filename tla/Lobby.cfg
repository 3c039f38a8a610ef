CONSTANTS
  Characters <- MCCharacters
  Slots = 2
  TableSize = 4
  SLogin = 1
  OtherIds = {2}
  IdMod = 16
  IntMod = 8
  NoName = NoName
  MaxListed = 3
  MaxInbox = 2
  MaxLogins = 2
SPECIFICATION Spec
INVARIANTS
  TypeOK
  InBounds
  SlotsCurrent
PROPERTIES
  EntersAsListed
CHECK_DEADLOCK FALSE
