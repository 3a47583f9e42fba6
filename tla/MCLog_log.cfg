SPECIFICATION Spec
CONSTANTS
  Procs = {p1, p2}
  Blocks = {b0, b1, b2}
  BootBlock = b0
  NotCached = none
  NoProc = nobody
  Values = {v1, v2}
  MAXOPBLOCKS = 1
  LOGSIZE = 3
  NLOG = 4
  OPBLOCKS = 1
  OVERLAP = FALSE
INVARIANTS NoLostWakeup CommitWritesAll
PROPERTIES CommitIsAtomic ImplementsAtomicDisk
SYMMETRY Symm
