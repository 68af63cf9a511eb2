SPECIFICATION Spec
CONSTANTS
  None = None
  Actor = {p1, p2}
  Couple = {a1, a2}
  Trio = {b1, b2, b3}
  ChanA = ca
  ChanB = cb
  ChanC = cc
  Name = {n}
  Task = {b1, b2, b3}
  NPipe = 1
  NFile = 2
  Cap = 2
  Width = 4
  Byte = {a1, a2}
  MaxLen = 3
INVARIANTS
  TypeOK HintSound NothingLeftBehind FreedOffCpu Adopted Blocked PoolExact
  OneBuffer NothingStuck InodesSound SlotsSound BlocksExact RefsExact FilesSound
PROPERTIES CollectedByWait EofHonest IsFifo IsStore
CHECK_DEADLOCK FALSE
SYMMETRY Symmetry
VIEW View
