SPECIFICATION FairSpec
CONSTANTS
  s1 = s1
  s2 = s2
  a = a
  o = o
  None = None
  Sessions <- TwoSessions
  Names <- OneName
  Name <- SameName
  Owner <- OneOwner
  Reconnect <- Second
  Existing <- Nobody
  PendingCaps = {0, 1}
  OwnerCap = 2
  MaxFaults = 1
  MaxCalls = 1
  Allowed = {"expire", "consent", "relay"}
PROPERTIES QueueWaitEnds ActiveIsFreed
CHECK_DEADLOCK FALSE
