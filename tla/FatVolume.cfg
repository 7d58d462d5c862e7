SPECIFICATION Spec
CONSTANTS
  ClusterCount = 3
  Eoc = 9
  File = {f1, f2}
  MaxGroup = 3
INVARIANTS TypeOK NothingFreeBelowStart FullMeansFull LinksSeparate ChainsSound Counted
PROPERTY CallsReturn
