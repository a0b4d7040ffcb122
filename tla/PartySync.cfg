CONSTANTS
  Pages = {p1, p2}
  Starter = p1
  MaxTime = 2
  MaxActs = 4
  MaxFaults = 1
  MaxInbox = 2
  None = None
SPECIFICATION Spec
PROPERTIES NewestIsFollowed ControlFromHost 
CHECK_DEADLOCK FALSE
