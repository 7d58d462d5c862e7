SPECIFICATION WalksSpec
CONSTANTS
  a = a
  b = b
  ab = ab
  Bad = Bad
  Name = {a, b}
  Component = {a, b, ab, Bad}
  Pieces <- MCPieces
  Root = Root
  Node = {n1, n2}
  None = None
  Slots = 2
  ClusterCount = 3
  RootTypes = {"root16", "root32"}
  Handle = {h1, h2}
  Local = {l1, l2, l3}
  Flags <- MCFlags
  Paths <- MCPaths
  MaxFaults = 0
INVARIANT MkdirMakes
SYMMETRY Interchangeable
