SPECIFICATION Spec
CONSTANTS
  ClusterCount = 1
  EntriesPerBlock = 3
  BlocksPerCluster = 2
  BlockSize = 2
  Eoc = 9
  f1 = f1
  None = None
  File = {f1}
  Modes <- MCModes
  Sizes = {1, 3}
  Places = {0, 1, 3}
  DateTime = FALSE
  MaxFaults = 0
INVARIANT WritesInPlace
