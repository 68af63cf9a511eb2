SPECIFICATION Spec
CONSTANTS
  None = None
  Proc = {p0, p1, p2}
  Zero = p0
  NCPU = 2
  BaseQuantum <- MCBaseQuantum
  L2Quanta = {2}
  AgingThreshold = 1
  MaxKicks = 0
  MaxHits = 1
  MaxDepth = 2
SYMMETRY Symmetry
VIEW View
CONSTRAINT BeforeHit
INVARIANTS TypeOK OneCpu RunnableNotLost OneEntry NoWorkOnDeadCpu
PROPERTY LegalStates
