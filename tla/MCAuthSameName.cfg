SPECIFICATION Spec
CONSTANTS
  s1 = s1
  s2 = s2
  a = a
  o = o
  None = None
  Sessions <- TwoSessions
  Names <- OneName
  Name <- SameName
  Owner <- OneOwner
  Reconnect <- Nobody
  Existing <- Nobody
  PendingCaps = {0, 1}
  OwnerCap = 2
  MaxFaults = 0
  MaxCalls = 1
  Allowed = {"consent"}
PROPERTIES TokenKept
CHECK_DEADLOCK FALSE
