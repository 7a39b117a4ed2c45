CONSTANTS
  Headers <- MCHeaders
  Batches <- MCBatches
  DecodedIds = {0, 1, 2}
  RequestFaults <- MCRequestFaults
  Faults <- MCFaults
  User = User
  Pass = Pass
  KeyBytes = KeyBytes
  Absent = Absent
SPECIFICATION Spec
INVARIANTS
  BuiltIdsUnique
  WireFaithful
  OwnAnswer
  AnswerReachesCaller
  ListedIsSelected
  LogsRedacted
CHECK_DEADLOCK FALSE
