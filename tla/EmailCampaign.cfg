SPECIFICATION FairSpec
CONSTANTS
  Jobs = {1}
  Users = {u1, u2}
  Verified = {u1}
  Workers = {w1, w2}
  FlushEvery = 1
  MaxCrashes = 1
  None = None
INVARIANTS TypeOK  
PROPERTY EveryJobEnds
CHECK_DEADLOCK FALSE
