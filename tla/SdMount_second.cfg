SPECIFICATION Spec
CONSTANTS
  Device = {A, B}
  NoDevice = NoDevice
  Volume = {v, w}
  Block <- MCBlocks
  NoBlock = 63
  What <- MCWhat
  Mbr <- MCMbr
  Fbs <- MCFbs
  Data <- MCData
  Image <- MCImages
  Used = {1, 6}
  Width = 64
  MaxShift = 2
  BlockSize = 32
  EntriesPerBlock = 2
  MinSectors = 4
  MinFat16 = 2
  MinFat32 = 4
SYMMETRY MCSymmetry
INVARIANT MountsItsCard
