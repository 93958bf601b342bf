SPECIFICATION PoolSpec
CONSTANTS
  t1 = t1
  t2 = t2
  t3 = t3
  t4 = t4
  p1 = p1
  Poison = poison
  None = none
  Thread <- Threads
  Packet <- Packets
  MinThreads = 1
  MaxThreads = 3
  Threshold = 0
  IdleTimeout = TRUE
  StartMayFail = TRUE
  MaxPoisons = 4
  MaxQueued = 1
SYMMETRY Symmetry
INVARIANTS
  CountersExact
  ActiveBounded
  NobodyLeft
  MinThreadsKept
