SPECIFICATION Spec
CONSTANTS
  Ids = {1, 2, 9}
  IdMod = 16
  IntMod = 8
  Actors = {a1, a2, a3}
  None = None
SYMMETRY Perms
INVARIANTS
  TypeOK
  PlayersTracked
  EnemiesTrackedUnlessAgain
  RegistrySound
  AvatarSound
  NoFault
  RequestsInOrder
PROPERTIES
  MapChangeClears
CHECK_DEADLOCK FALSE
