CONSTANTS
  NCmds = 3
  GOs = {"correction"}
  DOs = {"arc_start"}
  Payload <- MCPayload
  MaxExits = 1
  HbEn = TRUE
  NodeHb = TRUE
  HbPeriod = 2
  Timeout = 3
  MaxDelay = 1
  Fragments = TRUE
  MaxUnread = 2
SPECIFICATION Spec
INVARIANT NoPartialRead
CHECK_DEADLOCK FALSE
