SPECIFICATION Spec
CONSTANTS
  Proc = {p1, p2}
  Slot = {1, 2, 3}
  Inum = {1, 2}
  Dir = {d}
  Name = {m, n}
  Exclusive = {"rename"}
  None = None
PROPERTY DeletesUnlinked
CHECK_DEADLOCK FALSE
