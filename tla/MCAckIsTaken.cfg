CONSTANTS
  a = a
  b = b
  far = far
  NoPoint = NoPoint
  Points <- MCPoints
  Reachable <- MCReachable
SPECIFICATION SpecAbort
PROPERTY AckMeansTaken
