SPECIFICATION Spec
CONSTANTS
  r1 = r1
  r2 = r2
  t1 = t1
  t2 = t2
  t3 = t3
  None = None
  Runtimes <- OneRuntime
  Threads <- TwoThreads
INVARIANTS ClosedStaysDown
CHECK_DEADLOCK FALSE
