SPECIFICATION Spec
CONSTANTS
  Files = {f1, f2}
  f1 = f1
  f2 = f2
  Program = Program
  Dls = {d1, d2, d3}
  d1 = d1
  d2 = d2
  d3 = d3
  LibObjects = {o1}
  o1 = o1
  Symbols = {s1, s2}
  s1 = s1
  s2 = s2
  MaxScripts = 2
  MaxCloses = 2
  None = None
SYMMETRY Symmetry
INVARIANTS
  TypeOK
  CountExact
  PointersGood
  FunctionsGood
  RightLibrary
