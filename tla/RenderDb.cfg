CONSTANTS
  Ids = {d1, d2, d3}
  Machines = {m1, m2}
  EnvKeys <- MCEnvKeys
  Url = "url"
  AllowedPlans = {"free"}
  InitialFiles <- MCFiles
  CommandLines <- MCCommandLines
  MaxFaults = 1
  None = None
SPECIFICATION Spec
INVARIANTS TypeOK 
PROPERTIES  RotatesOnce EveryRunEnds
