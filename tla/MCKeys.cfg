SPECIFICATION Spec
CONSTANTS
  AesSizes = {1, 2, 3}
  ServerKeys <- MCServerKeys
  KeyBytes <- MCKeyBytes
  Texts <- MCTexts
  CallerQueues <- MCCallerQueues
  NumErrors = 4
  MaxErrors = 2
  MaxLines = 6
  Absent = Absent
  Damaged = Damaged
INVARIANTS
  PemRoundTrip
  NeverMisread
  ErrorsConfined
  TextExact
CHECK_DEADLOCK FALSE
