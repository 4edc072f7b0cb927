SPECIFICATION Spec
CONSTANTS
  Callbacks = {k1, k2, k3}
  k1 = k1
  k2 = k2
  k3 = k3
  Slots = {s1, s2}
  s1 = s1
  s2 = s2
  None = None
  Threads = {t1, t2}
  t1 = t1
  t2 = t2
  MaxDepth = 2
SYMMETRY Symmetry
INVARIANTS
  TypeOK
  ClosureInv
  HandleInv
  OwnFunction
  NoCrash
