SPECIFICATION FairSpec
CONSTANTS
  None = None
  N = 3
  Chan = {a, b}
  Slots = 1
  Hash <- MCHash
  MaxKills = 1
INVARIANTS TypeOK HintSound NoLostWakeup
PROPERTIES IsMutex HandedOn
