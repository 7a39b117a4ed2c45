CONSTANTS
  Calls <- MCCalls
  Servers <- MCServers
  Absent = Absent
SPECIFICATION Spec
INVARIANTS
  RetriesFindEncoding
  PreferredIfPossible
  LabelTruthful
  NoWorseThanPlain
PROPERTY
  RefetchNotRetried
