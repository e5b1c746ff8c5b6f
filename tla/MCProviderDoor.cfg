SPECIFICATION Spec
CONSTANTS
  Containers = {c1, c2}
  Providers = {openai, anthropic}
  Cache = 1
  Latency = 1
  ByHand = FALSE
  MaxChanges = 2
SYMMETRY Symmetry
INVARIANT KillSwitchTakesEffect
CHECK_DEADLOCK FALSE
