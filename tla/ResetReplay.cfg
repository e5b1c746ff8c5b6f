SPECIFICATION Spec
CONSTANTS
  Hosts = {"east", "eu", "airgap"}
  MaxGeneration = 2
  Replays = {p1, p2}
  MaxFaults = 0
INVARIANTS ReplaysAreOver
CHECK_DEADLOCK FALSE
