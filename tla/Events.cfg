SPECIFICATION Spec
CONSTANTS
  Threads = {main, app}
  NoThread = NoThread
  Codes = {1}
  Size = 4
  MaxCounts = {2, 8}
INVARIANTS
  TypeOK
  LockProtects
  RingConsistent
PROPERTY
  FifoSpec
