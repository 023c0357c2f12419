\* Both architectures up to init_process, from the masks firmwares leave.
CONSTANTS
  Entries = 4
  Dirs = 2
  Junk = Junk
  WordBytes = 2
  BssSizes = {0, 3, 4}
  KernelPages = {0}
  PoolPages = {1, 7}
  Lines = {0, 1, 9}
  BiosMasks = {0, 184, 255}
  Vectors = {3, 13}
SPECIFICATION FairBootSpec
CHECK_DEADLOCK FALSE
INVARIANTS Remapped  ReadyBeforeSctlr BssZeroed StaysMapped
PROPERTY ReachesInit
