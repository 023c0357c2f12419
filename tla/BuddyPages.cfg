\* Clients of page_alloc and page_free.
CONSTANTS
  MaxOrder = 3
  PoolStart = 8
  PoolPages = 8
  PtrsPerPage = 4
  BitmapBits = 32
  Top = 24
  AddrPages = 4096
  SizeMod = 65536
  MaxCalls = 12
  c1 = c1
  c2 = c2
  c3 = c3
  Clients = {c1,c2,c3}
  ClientWords = {}
  None = None
  Ram <- MCRam
SPECIFICATION FairPageSpec
CHECK_DEADLOCK FALSE
INVARIANTS Confined HeadsAligned
PROPERTY CallsReturn
