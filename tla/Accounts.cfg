CONSTANTS
  Slots = {s1, s2}
  MaxRequests = 3
  MaxTime = 2
  CodeLife = 1
  PlanLife = 1
  None = None
SPECIFICATION Spec
INVARIANTS PremiumIsCovered   CodeResetsOnce
CHECK_DEADLOCK FALSE
