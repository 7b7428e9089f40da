SPECIFICATION FairSpec
CONSTANTS
  j1 = j1
  j2 = j2
  c1 = c1
  c2 = c2
  Monitor = Monitor
  None = None
  Jobs <- OneJob
  Clients <- OneClient
  MaxBytes = 1
  MaxFaults = 1
  MaxRestarts = 0
  Allowed = {"status", "cancel", "expire", "close", "loseStop", "skew"}
INVARIANTS TruthfulVerdict
PROPERTIES EndedIsReportedWhileMonitored CancelTakesEffect
CHECK_DEADLOCK FALSE
