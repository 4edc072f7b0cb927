\* A spurious wake-up lets the owner delete an invocation the main thread then
\* tries to lock: the program really may stop there.
SPECIFICATION Spec
CONSTANTS
  Threads = {t1, t2}
  t1 = t1
  t2 = t2
  Main = Main
  None = None
  MaxQueue = 2
  MaxNest = 1
  MaxOthers = 1
  CountModulus = 4
  SpuriousWakeups = TRUE
SYMMETRY Symmetry
INVARIANTS
  OrderOfExecution
  NoUseAfterFree
  LoopReleased
PROPERTY
  HeldUnlessRaced
CHECK_DEADLOCK FALSE
