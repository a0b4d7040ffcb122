CONSTANTS
  Slots = {s1, s2}
  MaxRequests = 3
  Names = {"me", "kids", "guest", "other"}
  DefaultName = "me"
  KidsName = "kids"
  MaxProfiles = 3
  None = None
SPECIFICATION Spec
INVARIANTS TypeOK  SessionKeepsItsProfile
PROPERTIES SpentTokenStaysSpent 
SYMMETRY SlotSymmetry
CHECK_DEADLOCK FALSE
