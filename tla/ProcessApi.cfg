\* Every exported function in any order.
CONSTANTS
  MAX_PROCESSES = 3
  InitTicks = 3
  Arch = "x86_64"
  Clobbers = {TRUE, FALSE}
  e1 = e1
  Entries = {e1}
SPECIFICATION Spec
CHECK_DEADLOCK FALSE
INVARIANTS TypeOK CurrentRunnable  PidsDistinct TableIsPrefix
 
