SPECIFICATION Spec
CONSTANTS
  Containers = {c1, c2}
  Providers = {openai, anthropic}
  Cache = 1
  Latency = 1
  ByHand = TRUE
  MaxChanges = 2
SYMMETRY Symmetry
INVARIANTS
  KillSwitchHolds
  CachesAgree
  OpensOnlyByOwner
CHECK_DEADLOCK FALSE
