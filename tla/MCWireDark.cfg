SPECIFICATION Spec
CONSTANTS
  Invocations = {i1, i2}
  MaxFaults = 0
INVARIANT NeverDark
