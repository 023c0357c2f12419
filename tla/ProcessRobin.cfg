\* Whether a process that has run comes to run again.
CONSTANTS
  MAX_PROCESSES = 3
  InitTicks = 2
  Arch = "x86_64"
  Clobbers = {FALSE}
  e1 = e1
  Entries = {e1}
SPECIFICATION FairKernelSpec
CHECK_DEADLOCK FALSE
PROPERTY RoundRobin
