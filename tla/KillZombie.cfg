SPECIFICATION KSpec
CONSTANTS
  N = 3
  NCPU = 2
  Handlers = {}
  None = None
PROPERTIES ZombieIsFinal
CHECK_DEADLOCK FALSE
