SPECIFICATION Spec
CONSTANTS
  Proc = {1}
  Path <- MCPath
  Long = {}
  Hash <- MCHash
  NFd = 1
  NNode = 2
  NPipe = 1
  NMem = 2
  PgSize = 4
  SmallSize = 2
  NSmall = 1
  Ptrs = 1
  NTable = 1
  PipeSize = 1
  Wrap = 2
  MaxLink = 1
  Flags <- MCFlags
  Seek = {}
  MaxLen = 1
  Kinds = {"name", "data"}
  Orderly = TRUE
  None = None
INVARIANT HolesReadZero
