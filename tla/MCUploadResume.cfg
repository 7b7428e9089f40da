SPECIFICATION MCSpec
CONSTANTS
  Modes = {"multipart"}
  MaxFailures = 2
  None = None
  Nothing = Nothing
  Size = 5
  Chunk = 2
  MaxPartNumber = 5
  MinPartSize = 1
  Threads = 2
  Workers = 2
  MaxCalls = 2
  MaxCrashes = 0
  MaxFaults = 1
  Chunks = 3
  Uploaders = 2
  Suspensions = {1, 3}
  MaxTries = 2
  MaxDeaths = 1
  MaxMishaps = 1
  MaxEdits = 1
  Serves = {s1}
  Mounts = {}
  Streams = {l1}
  Sessions = {}
  Starters = {t1, t2}
  OwnsRuntime = TRUE
  MaxCloses = 1
  Tree <- TheTree
  Other <- TheOther
  Depths <- TheDepths
  QueueSize = 1
  Backlog = 2
  FsQueueSize = 1
  MaxSnapshots = 2
  RangeStart = 1
  RangeEnd = 8
  RangeChunk = 2
  Unit = 100
  PoolSize = 2
  Retries = 2
  Items = 4
  Rejected = {2}
  BatchSize = 2
  PageSize = 2
  Homes <- TheHomes
INVARIANTS ResumeCompletes
CHECK_DEADLOCK FALSE
