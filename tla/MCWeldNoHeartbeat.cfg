CONSTANTS
  NCmds = 2
  GOs = {"correction"}
  DOs = {"arc_start"}
  Payload <- MCPayload
  MaxExits = 1
  HbEn = FALSE
  NodeHb = TRUE
  HbPeriod = 2
  Timeout = 3
  MaxDelay = 1
  Fragments = FALSE
  MaxUnread = 2
SPECIFICATION FairSpec
PROPERTIES GoneClientNoticed
CHECK_DEADLOCK FALSE
