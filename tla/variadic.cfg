SPECIFICATION Spec
CONSTANTS
  Types = {int, double, struct}
  int = int
  double = double
  struct = struct
  Unnamed = {struct}
  Ids = {i1, i2, i3, i4}
  i1 = i1
  i2 = i2
  i3 = i3
  i4 = i4
  None = None
  Generators = {g1}
  g1 = g1
  MaxFixed = 1
  MaxVariadic = 2
  MaxCache = 2
SYMMETRY Symmetry
INVARIANTS
  TypeOK
  HitsMatch
  SameInstance
