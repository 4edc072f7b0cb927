SPECIFICATION FairSpec
CONSTANTS
  Threads = {t1, t2}
  t1 = t1
  t2 = t2
  Main = Main
  None = None
  MaxQueue = 2
  MaxNest = 1
  MaxOthers = 1
  CountModulus = 3
  SpuriousWakeups = FALSE
INVARIANTS
  TypeOK
  ExactlyOnce
  NoStranded
PROPERTIES
  InvokeCompletes
  ImplementsRendezvous
