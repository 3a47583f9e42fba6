SPECIFICATION Spec
CONSTANTS
  p1 = p1
  p2 = p2
  p3 = p3
  Procs = {p1, p2, p3}
  InitProc = p1
  NPAGES = 14
  PGSIZE = 2
  NPTENTRIES = 2
  NVA = 6
  Images = {2}
  Deltas <- MCDeltas
VIEW View
INVARIANT PagesUsedOnce
INVARIANT SizeIsMapped
PROPERTY LostOnlyWhenFull
