SPECIFICATION Spec
CONSTANTS
  ClusterCount = 2
  EntriesPerBlock = 3
  BlocksPerCluster = 1
  BlockSize = 2
  Eoc = 9
  f1 = f1
  f2 = f2
  None = None
  File = {f1, f2}
  Modes <- MCModes
  Sizes = {3}
  Places = {1}
  DateTime = FALSE
  MaxFaults = 1
SYMMETRY Interchangeable
INVARIANTS OnlyTheCacheDiffers BytesKept CardSound CurrentCluster ReadsBack EntryCurrent
