\* Every client and every call.
CONSTANTS
  MaxOrder = 3
  PoolStart = 8
  PoolPages = 8
  PtrsPerPage = 4
  BitmapBits = 32
  Top = 24
  AddrPages = 4096
  SizeMod = 65536
  MaxCalls = 8
  c1 = c1
  c2 = c2
  c3 = c3
  Clients = {c1,c2}
  ClientWords = {0, 9}
  None = None
  Ram <- MCRam
SPECIFICATION Spec
CHECK_DEADLOCK FALSE
INVARIANTS TypeOK SplitExact CoalesceCovers
SYMMETRY Symmetry
