\* A step of the image covers more than one point and a frame up to two units of time.
CONSTANTS
  Length = 3
  Speed = 2
  SendDelay = 2
  MaxFrame = 2
  Push = 1
  MaxInFlight = 2
SPECIFICATION Spec
INVARIANTS
  TypeOK
  ReportsRegular
  OnPath
PROPERTIES
  CatchesUp
CHECK_DEADLOCK FALSE
