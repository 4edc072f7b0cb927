SPECIFICATION FairSpec
CONSTANTS
  Calls = {c1, c2, c3}
  c1 = c1
  c2 = c2
  c3 = c3
  Workers = {w1, w2}
  w1 = w1
  w2 = w2
  None = None
INVARIANTS
  TypeOK
  BuffersAlive
  OwnResult
  CalledOnce
  NativeMemory
PROPERTIES
  NeverSynchronous
  AsyncCompletes
  BuffersFreed
