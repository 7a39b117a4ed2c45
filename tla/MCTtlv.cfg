CONSTANTS
  Elements <- MCElements
  BadBytes = {0, 1, 2, 6, 7, 8, 16, 255}
  MaxChanges = 1
  KMIP_MAX_STRUCTURE_DEPTH = 2
SPECIFICATION Spec
INVARIANTS
  RoundTrip
  Canonical
CHECK_DEADLOCK FALSE
