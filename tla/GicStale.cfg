\* An interrupt that finds another class in ESR_EL1.
CONSTANTS
  Irqs = {17}
  h1 = h1
  h2 = h2
  Handlers = {h1}
  NoHandler = NoHandler
  Wild = Wild
  Classes = {0, 21, 36, 37}
  Distributor = TRUE
SPECIFICATION GicFairSpec
CHECK_DEADLOCK FALSE
PROPERTY IrqIsHandled
