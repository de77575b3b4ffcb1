CONSTANTS
  NPts = 3
  Reachable = {1, 2}
  MaxDrops = 1
  MaxStops = 1
  MovesmAborts = TRUE
SPECIFICATION Spec
INVARIANTS TypeOK BoundedLead RepliesMatch AcceptOnIdleTag StopLeavesOne
PROPERTIES InOrderOnce SkippedOnlyAfterRefusal StreamsPoints
