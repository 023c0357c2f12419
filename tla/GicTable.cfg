\* An interrupt number beyond irq_dispatch_table.
CONSTANTS
  Irqs = {17, 260}
  h1 = h1
  h2 = h2
  Handlers = {h1}
  NoHandler = NoHandler
  Wild = Wild
  Classes = {0, 21, 36, 37}
  Distributor = TRUE
SPECIFICATION GicSpec
CHECK_DEADLOCK FALSE
INVARIANT OnlyRegistered
