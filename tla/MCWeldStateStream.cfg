CONSTANTS
  Nodes = {"tcp", "simple"}
  Lengths = {36, 49, 52, 53}
  CrSizes = {0, 1}
  Data <- MCData
  MaxSeq = 4
SPECIFICATION Spec
INVARIANTS TypeOK
PROPERTIES InOrderOnce ExactWhenAgreed ClosedIsLeft
CHECK_DEADLOCK FALSE
