SPECIFICATION Spec
CONSTANTS
  LIFE = 3
  SLACK = 1
  POLL = 2
  IDLE = 5
  DEMO = 2
  FIRST = 2
  MaxRun = 1
  MaxTexts = 2
  MaxChunk = 2
  MaxTime = 7
  ResetHosts = {"east", "eu", "airgap"}
  DryRunHosts = {"east", "eu", "puller", "airgap"}
  MaxGeneration = 3
  Replays = {p1, p2}
  WEEK = 2
  LONG = 4
  MaxPages = 3
  Containers = {c1, c2}
  MaxKey = 3
  Callable = {1}
  MaxSteps = 2
  Prompts = {f1, f2, f3}
  MaxReleases = 2
  Reads = {g1, g2, g3}
  Acts = {a1}
  Slots = 2
  RETRIES = 1
  ArmsHosts = {h1, h2}
  CUSTOMERS = 2
  MaxRuns = 2
  MaxFeedback = 1
  MaxFaults = 1
INVARIANTS
  CadenceFollows EnteredIsKept AwakeIsTold NothingOrphaned EveryHostAtTheLast
  WireGivenBack EveryDayOnce RefusedForItsOwn SlotsPassOn RunTellsWhatHappened NeverNeither
  ArmsAreTold
CHECK_DEADLOCK FALSE
