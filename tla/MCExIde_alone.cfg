SPECIFICATION Spec
CONSTANTS
  Procs = {p1, p2}
  NoProc = nobody
  Bufs = {b1, b2}
  NoBuf = nobuf
  NoVal = noval
  Sectors = {s0, s1, s2}
  s1 = s1
  NoSector = none
  Faults = {s0}
  Vals = {v1, v2}
  NBUF = 2
  MaxPins = 1
  File <- MCFile
  BootSector = s0
  SHARED = FALSE
CHECK_DEADLOCK FALSE
SYMMETRY Symm
INVARIANT CacheCoherent
INVARIANT FirstIsActive
INVARIANT NoForgottenSleeper
PROPERTY ImplementsBlockStore
 
