\* Interrupts and exceptions in every order.
CONSTANTS
  Irqs = {17, 27, 33, 260}
  h1 = h1
  h2 = h2
  Handlers = {h1}
  NoHandler = NoHandler
  Wild = Wild
  Classes = {0, 21, 36, 37}
  Distributor = TRUE
SPECIFICATION GicFairSpec
CHECK_DEADLOCK FALSE
INVARIANTS Completed NoSpuriousCall
PROPERTY UrgentIsTaken
