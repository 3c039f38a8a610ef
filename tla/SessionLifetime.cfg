\* A second login, and packets that arrive while the first session is replaced.
CONSTANTS
  MaxSessions = 2
  MaxArrivals = 2
SPECIFICATION Spec
INVARIANT TypeOK PinnedAlive SoleDestroyer WorkersServe
PROPERTY ReplacedEnds
CHECK_DEADLOCK FALSE
