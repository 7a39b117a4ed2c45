CONSTANTS
  Bytes = {1, 2}
  MaxLength = 3
  Capacities = {0, 3}
  TTLV_ALIGNMENT = 2
  MIN_CAPACITY = 2
  MAX_CAPACITY = 6
SPECIFICATION Spec
INVARIANTS
  GrowthLimited
  ContentExact
  NothingLingers
