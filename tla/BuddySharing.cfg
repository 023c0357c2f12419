\* Three clients of page_alloc and page_free.
CONSTANTS
  MaxOrder = 3
  PoolStart = 8
  PoolPages = 8
  PtrsPerPage = 3
  BitmapBits = 32
  Top = 24
  AddrPages = 4096
  SizeMod = 65536
  MaxCalls = 10
  c1 = c1
  c2 = c2
  c3 = c3
  Clients = {c1,c2,c3}
  ClientWords = {}
  None = None
  Ram <- MCRam
SPECIFICATION PageSpec
CHECK_DEADLOCK FALSE
INVARIANT PoolNotShared
SYMMETRY Symmetry
