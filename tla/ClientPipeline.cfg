CONSTANTS
  Ids = {1, 2, 3}
  IdMod = 16
  IntMod = 8
  Actors = {1, 2, 3}
  None = None
  Own = 1
  EnemyIds = {3}
  MaxUp = 2
  MaxDown = 1
SPECIFICATION Spec
INVARIANTS
  SafeUntilLeft
  SameWorld
PROPERTIES
  FirstBreach
  RequestsWelcome
  AvatarGiven
CHECK_DEADLOCK FALSE
