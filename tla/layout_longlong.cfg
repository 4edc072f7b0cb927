SPECIFICATION Spec
CONSTANTS
  NumStructs = 2
  char = char
  long = long
  longlong = longlong
  size_t = size_t
  pointer = pointer
  sint8 = sint8
  sint32 = sint32
  sint64 = sint64
  Unknown = Unknown
  None = None
  Platforms <- LongLongOn32
  Dims <- ArrayLengths
  MaxFields = 2
  MaxTypes = 2
INVARIANT LayoutMatches
