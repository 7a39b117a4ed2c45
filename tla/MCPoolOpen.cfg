CONSTANTS
  Threads = {t1, t2, t3}
  Rebinders = {t1}
  Slots = {s1, s2, s3, s4, s5}
  NoSlot = NoSlot
  MaxConnections = 2
SYMMETRY Symmetric
SPECIFICATION Spec
INVARIANT OpenConnectionsBounded
