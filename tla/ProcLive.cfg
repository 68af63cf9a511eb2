SPECIFICATION FairSpec
CONSTANTS
  N = 3
  NCPU = 1
  Handlers = {2}
  None = None
INVARIANTS ChildWakes
PROPERTIES WaitReturns OrphansReaped
