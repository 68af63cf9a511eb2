SPECIFICATION Spec
CONSTANTS
  None = None
  One = {o1}
  Actor = {p1, p2}
  Couple = {a1, a2}
  Trio = {b1, b2, b3}
INVARIANTS TypeOK SocketsSound SleepersWait PagesExact SpacesSound GroupDies
CHECK_DEADLOCK FALSE
SYMMETRY Symmetry
VIEW View
