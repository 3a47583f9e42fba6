SPECIFICATION DevSpec
CONSTANTS
  Procs = {p1, p2}
  Blocks = {b0, b1, b2, b3}
  BootBlock = b0
  NotCached = none
  NoProc = nobody
  Values = {v1}
  MAXOPBLOCKS = 2
  LOGSIZE = 3
  NLOG = 4
  OPBLOCKS = 1
  OVERLAP = FALSE
  CPUs = {c0, c1}
  NLOCK = 2
  PhysKeys <- MCKeys
  ConReaders = {r1, r2}
  INPUT_BUF = 2
  IWRAP = 4
  MAXREAD = 2
  Sleepers = {s1, s2}
  TWRAP = 3
 
INVARIANT SpinSafe
INVARIANT IntrMasked
INVARIANT KeysHaveCause
INVARIANT RingSafe
 
PROPERTY ImplementsLines
PROPERTY SleepLasts
