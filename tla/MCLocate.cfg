CONSTANTS
  MAX_ITEMS_IN_BATCH = 2
  MAX_BATCHES_IN_SEARCH = 3
  ProbePageSizes <- Probes
  Calls <- MCCalls
  Int32Max = 8
  Ids = {a, b, c}
SPECIFICATION Spec
INVARIANTS
  
  NeverPartial
  SearchBounded
PROPERTY
  NoFalseAlarm
