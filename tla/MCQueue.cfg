SPECIFICATION Spec
CONSTANTS
  Tickets = {1, 2}
  Workers = {w1, w2}
  Attempts = 2
  MaxEntries = 3
  MaxResets = 1
  MaxFaults = 1
SYMMETRY Symmetry
INVARIANT EntriesAccounted
PROPERTY IsFifo
