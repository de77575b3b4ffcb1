CONSTANTS
  NPts = 2
  Reachable = {1}
  MaxDrops = 1
  MaxStops = 1
  MovesmAborts = FALSE
SPECIFICATION Spec
PROPERTY OutOfRangeKeepsConnection
