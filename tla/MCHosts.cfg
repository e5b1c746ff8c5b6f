SPECIFICATION HostsSpec
CONSTANTS
  Invocations = {i1, i2}
  MaxFaults = 2
  Ticks = {t1, t2}
  MaxGeneration = 2
  Segments = {s1, s2}
  IMPORT_MAX_ATTEMPTS = 2
  TIMEOUT = 3
  MARGIN = 1
  DELIVERY = 2
  RETRIES = 1
  Tickets = {1, 2}
  Workers = {w1}
  Attempts = 2
  MaxEntries = 2
  MaxResets = 1
INVARIANTS TablesKept DrillsAreWhole OneAgent SegmentsAccounted
PROPERTIES NeverStranded ServesNewest IsDelivery JobsSettle QueueServed
