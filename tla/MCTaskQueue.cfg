SPECIFICATION FairSpec
CONSTANTS
  t1 = t1
  t2 = t2
  t3 = t3
  k1 = k1
  k2 = k2
  c1 = c1
  Poison = poison
  None = none
  Thread <- Threads
  Packet <- Tasks
  Client <- Clients
  MinThreads = 1
  MaxThreads = 2
  Threshold = 0
  IdleTimeout = TRUE
  StartMayFail = TRUE
  Throttling = TRUE
  MaxPoisons = 3
  MaxQueued = 2
INVARIANTS
  PendingExact
  NothingDropped
PROPERTIES
  AcceptedTaskRuns
  FinalizeReturns
