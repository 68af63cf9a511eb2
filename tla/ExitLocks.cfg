SPECIFICATION Spec
CONSTANTS
  N = 3
  NCPU = 2
  Handlers = {2}
  None = None
INVARIANTS OrderedLocks
CHECK_DEADLOCK FALSE
