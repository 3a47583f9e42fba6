SPECIFICATION Spec
CONSTANTS
  Cpus = {c1, c2}
  NoCpu = nocpu
  NPROC = 3
  MaxPid = 4
  KillPids = {2, 3}
  Sleepers = {0, 1, 2}
SYMMETRY Symm
INVARIANT CpuSound
INVARIANT ParentAlive
INVARIANT EventNotMissed
INVARIANT ZombieNoticed
