\* Pages and objects during boot, nothing of the page allocator freed.
CONSTANTS
  MaxOrder = 3
  PoolStart = 4
  PoolPages = 8
  PtrsPerPage = 2
  BitmapBits = 32
  Top = 14
  AddrPages = 512
  SizeMod = 65536
  MaxCalls = 5
  c1 = c1
  c2 = c2
  s1 = s1
  s2 = s2
  h1 = h1
  h2 = h2
  Clients = {c1,c2,s1,s2}
  SlabClients = {s1,s2}
  HeapClients = {h1,h2}
  ClientWords = {0}
  None = None
  NoObject = NoObject
  ObjSize = 64
  ObjsPerPage = 4
  NextField = 80
  Sizes = {0, 1, 600}
  Ram <- MCRam
SPECIFICATION HeapSpec
CHECK_DEADLOCK FALSE
INVARIANTS  BitmapExact   
  
