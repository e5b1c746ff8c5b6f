SPECIFICATION Spec
CONSTANTS
  Ticks = {t}
  Nudges = {n1}
  Messages = {m1}
  NoMessage = NoMessage
  NudgeIdsKept = 2
  MaxReceive = 2
  Skips = {0, 1}
  AppliesKept = 2
  MaxGeneration = 1
  MaxDocs = 2
  MaxApplies = 3
  MaxFaults = 1
INVARIANTS
  NudgesAccounted
  BundleAnnounced
  RowHolds
PROPERTY AppliesShown
CHECK_DEADLOCK FALSE
