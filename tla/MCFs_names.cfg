SPECIFICATION MCSpec
CONSTANTS
  p1 = p1
  p2 = p2
  Procs = {p1, p2}
  NoProc = NoProc
  n1 = n1
  n2 = n2
  DotDot = DotDot
  Names <- MCNames
  Paths <- MCPaths
  NINODES = 3
  NINODE = 3
  NBLOCKS = 1
  MAXFILE = 1
  NFILE = 1
  NOFILE = 2
SYMMETRY Symm
INVARIANT NamesAgree
INVARIANT HoldersCounted
INVARIANT NoLockCycle
PROPERTY RemovedEmpty
