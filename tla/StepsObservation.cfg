SPECIFICATION Spec
CONSTANTS
  Callable = {1}
  MaxGeneration = 2
  MaxSteps = 2
INVARIANT ShowsItsOwn
CHECK_DEADLOCK FALSE
