SPECIFICATION FairSpec
CONSTANTS
  f1 = f1
  f2 = f2
  f3 = f3
  a1 = a1
  a2 = a2
  t1 = t1
  t2 = t2
  p1 = p1
  p2 = p2
  p3 = p3
  Fsms <- ThreeFsms
  Control = Control
  Addrs <- TwoAddrs
  AddrOf <- AddrTable
  Registered <- TwoFsms
  Target = f1
  Source = f2
  Threads <- TwoThreads
  Pollers <- ThreePollers
  Started <- TwoPollers
  None = None
  Empty = Empty
  Limit = 1
  MaxBatch = 2
  MsgsPerTick = 2
  Tokens = 3
  Workloads <- Scenarios
INVARIANT TypeOK
INVARIANT SingleHolder
INVARIANT NoPanic
INVARIANT AcceptedIsHandled
INVARIANT PoolSizeExact
PROPERTY ImplementsFsmState
PROPERTY MessagesTaken
PROPERTY MergeResumes
PROPERTY ClosedIsFreed
PROPERTY ShutdownEnds
CHECK_DEADLOCK FALSE
