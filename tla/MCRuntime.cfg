SPECIFICATION FairSpec
CONSTANTS
  r1 = r1
  r2 = r2
  t1 = t1
  t2 = t2
  t3 = t3
  None = None
  Runtimes <- TwoRuntimes
  Threads <- ThreeThreads
INVARIANTS TypeOK FinalizeAlone RpcInLiveLibrary SharedIsTheOne
PROPERTIES CloseEnds
CHECK_DEADLOCK FALSE
