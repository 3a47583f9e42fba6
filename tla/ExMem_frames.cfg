SPECIFICATION ExMemSpec
CONSTANTS
  NPAGE = 4
  ExProcs = {p1, p2}
  Tables = {t1}
  MaxFrames = 4
INVARIANT FrameRemoved
CHECK_DEADLOCK FALSE
