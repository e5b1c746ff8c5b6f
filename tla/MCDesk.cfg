SPECIFICATION Spec
CONSTANTS
  r1 = r1
  r2 = r2
  t1 = t1
  t2 = t2
  Containers = {c1, c2}
  MaxGeneration = 3
  VersionOf <- ThreeReleases
  Served = {r1}
  Runs = {r1, r2}
  Tickets = {t1, t2}
  First = t1
  TicketOf <- TwoTickets
  LIMIT = 1
  MaxActs = 1
  MaxFaults = 1
INVARIANTS AnsweredRightly
PROPERTIES RowConverges EveryRowShown PanelConverges
