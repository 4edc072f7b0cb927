SPECIFICATION FairSpec
CONSTANTS
  t1 = t1
  t2 = t2
  k1 = k1
  Threads = {t1, t2}
  Callbacks = {k1}
  None = None
  MaxDepth = 5
INVARIANTS
  TypeOK
  ExceptionInv
  ArgumentsAlive
PROPERTIES
  ErrorsSurface
  StuckForGood
  CallbacksAnswered
CHECK_DEADLOCK FALSE  \* the program stops for good when Circular
