CONSTANTS
  Threads = {t1, t2, t3}
  Rebinders = {t1}
  Slots = {s1, s2, s3}
  NoSlot = NoSlot
  MaxConnections = 2
  MaxCalls = 2
SPECIFICATION LiveSpec
INVARIANTS TypeOK Accounting ExclusiveSlots IdleSlotsUsable NoLostWakeup
PROPERTIES ImplementsPermits EveryCallReturns CapacityComesBack
CHECK_DEADLOCK FALSE
