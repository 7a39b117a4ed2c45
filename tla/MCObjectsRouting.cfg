CONSTANTS
  Absent = Absent
  Versions = {14, 20}
  Keys <- MCKeys
  Values <- MCValues
  OtherNames = {"Contact", "Length"}
  Lengths = {256}
  ServerAttributes <- MCServerAttributes
  Int32Max = 2147483647
  MaxCalls = 1
SPECIFICATION Spec
INVARIANTS
  RoutedByAnyOverload
CHECK_DEADLOCK FALSE
