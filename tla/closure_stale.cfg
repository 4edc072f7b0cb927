SPECIFICATION Spec
CONSTANTS
  Callbacks = {k1, k2}
  k1 = k1
  k2 = k2
  Slots = {s1}
  s1 = s1
  None = None
  Threads = {t1}
  t1 = t1
  MaxDepth = 1
INVARIANT
  CollectedThrows
