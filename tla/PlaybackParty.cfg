CONSTANTS
  Titles = {film}
  PremiumTitles = {film}
  Ttl = 2
  Lead = 1
  MaxTime = 3
  MaxCalls = 2
  MaxActs = 4
  MaxFaults = 1
  None = None
SPECIFICATION Spec
PROPERTY AdmittedGetsCookies
CHECK_DEADLOCK FALSE
