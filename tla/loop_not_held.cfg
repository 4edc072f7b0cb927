SPECIFICATION Spec
CONSTANTS
  Threads = {t1, t2}
  t1 = t1
  t2 = t2
  Main = Main
  None = None
  MaxQueue = 2
  MaxNest = 0
  MaxOthers = 0
  CountModulus = 4
  SpuriousWakeups = FALSE
SYMMETRY Symmetry
PROPERTY
  NoExitWhileExecuting
