SPECIFICATION Spec
CONSTANTS
  Requests = {r1, r2}
  Tickets = {t1}
  Providers = {openai}
  NoProvider = NoProvider
  Cap = 2
  ProviderCap = 1
  ReplayMax = 2
  LastDay = 2
  MaxRuns = 3
  MaxTroubles = 1
SYMMETRY Symmetry
INVARIANTS
  CapHolds
  CarriedOverMidnight
  LedgerHolds
CHECK_DEADLOCK FALSE
