SPECIFICATION UserSpec
CONSTANTS
  Readers = {r1}
  Writers = {w1, w2}
  Bytes = {a, b}
  PIPESIZE = 2
  WRAP = 4
  MaxN = 3
  NPAGE = 4
  ExProcs = {p1, p2}
  Tables = {t1}
  MaxFrames = 4
  COLS = 2
  ROWS = 3
  Glyphs = {"a", "b"}
  MaxTape = 9
  NDIRECT = 1
  NINDIRECT = 2
  BSIZE = 2
  IPB = 2
  ninodes = 5
  BITBLOCKS = 1
  NFILES = 3
  MaxUnits = 7
  HDR = 2
  NALLOC = 4
  HEAPSTART = 2
  HEAPMAX = 12
  Requests = {1, 4, 8}
  MAXARGS = 3
  NSH = 6
  NLINES = 2
  Typed <- MCTyped
  WIDTH = 8
CHECK_DEADLOCK FALSE
SYMMETRY Symm
INVARIANT PipeSafe
 
 
INVARIANT ImageSound
INVARIANT HeapSound
INVARIANT ParsesRight
INVARIANT LineServed
INVARIANT NoHang
 
PROPERTY ImplementsStream
