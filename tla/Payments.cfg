SPECIFICATION FairSpec
CONSTANTS
  Transactions = {t1}
  Users = {u1}
  Slots = {s1, s2}
  Retries = 2
  MaxFaults = 2
  None = None
INVARIANTS  SuccessIsCredited CreditedOnceUnlessRaced
PROPERTY PendingIsDecided
