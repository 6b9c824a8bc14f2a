SPECIFICATION FairSpec
CONSTANTS
  t1 = t1
  t2 = t2
  t3 = t3
  NULL = NULL
  EnvCounts <- MCEnvCounts
  Parallelisms <- MCParallelisms
  Cpus <- MCCpus
  UsizeCount = 1024
  Threads = {t1, t2, t3}
  MaxLockShards = 4
CHECK_DEADLOCK FALSE
INVARIANTS
  LockTypeOK
  ShardCountRoundsUp
  IndexesStayInRange
  MutualExclusion
PROPERTY
  EveryCallIsGranted
