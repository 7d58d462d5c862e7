SPECIFICATION MemorySpec
CONSTANTS
  Half = 4
  BufferSize = {0, 1, 3, 4, 7}
  ReadSize = {0, 1, 2, 7}
INVARIANTS MemoryTypeOK InBounds ShortReadIsEnd EndIsReached
