SPECIFICATION Spec
CONSTANTS
  Block = {0, 1, 2, 3, 4, 5, 6}
  Fat = {1, 2}
  DataBlock = {5, 6}
  BlocksPerFat = 2
  FatCount = 2
  Val = {z, v}
  Zero = z
  NoBlock = NoBlock
  NoRead = NoRead
INVARIANTS TypeOK CacheSound MirrorsAgree
PROPERTY ImplementsStore
