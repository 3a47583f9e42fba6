SPECIFICATION FairSpec
CONSTANTS
  Cpus = {c1}
  NoCpu = nocpu
  NPROC = 3
  MaxPid = 4
  KillPids = {2}
  Sleepers = {1, 2}
PROPERTIES RunnableRuns 
