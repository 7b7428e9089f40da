SPECIFICATION FairSpec
CONSTANTS
  d1 = d1
  d2 = d2
  None = None
  N = 2
  BatchSizes = {1, 2}
  Clients <- TwoClients
  Modes = {"handle", "copy", "rmdirs"}
  Allowed = {"refuse", "vanish", "shutdown"}
INVARIANTS Inv ListsOutlastJobs WithinBatch
PROPERTIES KeepsPromise CancelEndsWaits
CHECK_DEADLOCK FALSE
