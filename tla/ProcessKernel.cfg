\* The calls the kernel makes; next survives restore_context.
CONSTANTS
  MAX_PROCESSES = 4
  InitTicks = 10
  Arch = "x86_64"
  Clobbers = {FALSE}
  e1 = e1
  Entries = {e1}
SPECIFICATION FairKernelSpec
CHECK_DEADLOCK FALSE
PROPERTIES SwitchSaves 
