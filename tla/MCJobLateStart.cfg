SPECIFICATION FairSpec
CONSTANTS
  j1 = j1
  j2 = j2
  c1 = c1
  c2 = c2
  Monitor = Monitor
  None = None
  Jobs <- OneJob
  Clients <- OneClient
  MaxBytes = 0
  MaxFaults = 0
  MaxRestarts = 0
  Allowed = {"shutdown", "lateStart"}
PROPERTIES EndedIsReported
CHECK_DEADLOCK FALSE
