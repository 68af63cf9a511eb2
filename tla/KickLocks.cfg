SPECIFICATION Spec
CONSTANTS
  None = None
  Proc = {p0, p1}
  Zero = p0
  NCPU = 2
  BaseQuantum <- MCBaseQuantum
  L2Quanta = {2}
  AgingThreshold = 1
  MaxKicks = 1
  MaxHits = 0
  MaxDepth = 1
INVARIANT LockOrder
