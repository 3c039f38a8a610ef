\* Does the duplicate check of SpawnEnemy do what its comment says?
SPECIFICATION Spec
CONSTANTS
  Ids = {1, 2}
  IdMod = 16
  IntMod = 8
  Actors = {a1, a2, a3}
  None = None
SYMMETRY Perms
INVARIANTS
  DuplicateCheck
CHECK_DEADLOCK FALSE
