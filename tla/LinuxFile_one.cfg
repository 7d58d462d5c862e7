SPECIFICATION Spec
CONSTANTS
  Path = {p1}
  Handle = {h1}
  Impl = {i1}
  Inode = {n1, n2}
  Null = Null
  OpenModes <- AllModes
  Data <- ShortData
  MaxLen = 3
  Offsets = {0, 1, 2, 3}
  MayReassign = FALSE
INVARIANT AvailableIsRead
PROPERTY KeepsPromise
