SPECIFICATION FairSpec
CONSTANTS
  None = None
  Proc = {p0, p1, p2}
  Zero = p0
  NCPU = 1
  BaseQuantum <- MCBaseQuantum
  L2Quanta = {2}
  AgingThreshold = 1
  MaxKicks = 1
  MaxHits = 0
  MaxDepth = 1
PROPERTY NoStarvation
