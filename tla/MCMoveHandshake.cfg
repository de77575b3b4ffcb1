CONSTANTS
  a = a
  b = b
  far = far
  NoPoint = NoPoint
  Points <- MCPoints
  Reachable <- MCReachable
SPECIFICATION Spec
INVARIANT TypeOK
PROPERTIES AckMeansTaken CallReturns TakenMoves Lossless
