SPECIFICATION Spec
CONSTANTS
  Path = {p1}
  Handle = {h1, h2}
  Impl = {i1, i2}
  Inode = {n1}
  Null = Null
  OpenModes <- SharedModes
  Data <- OneByte
  MaxLen = 2
  Offsets = {0, 1}
  MayReassign = TRUE
SYMMETRY Interchangeable
INVARIANTS SharedOwnership SizeIsEnd
PROPERTY AppendLosesNothing
