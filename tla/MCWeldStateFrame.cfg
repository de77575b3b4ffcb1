CONSTANTS
  Nodes = {"tcp"}
  Lengths = {49}
  CrSizes = {0, 1}
  Data <- MCData
  MaxSeq = 2
SPECIFICATION Spec
INVARIANT PublishedIsSent
CHECK_DEADLOCK FALSE
