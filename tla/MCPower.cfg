SPECIFICATION FairSpec
CONSTANTS
  Instances = {a, b}
  Invocations = {i1, i2}
  MaxFaults = 1
  Nobody = Nobody
INVARIANTS
  ClickStandsUnlessStale
PROPERTIES
  ActsAreSigned
  MarkerConverges
