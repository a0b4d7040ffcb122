SPECIFICATION Spec
CONSTANTS
  Users = {1, 2}
  Parties = {p1, p2}
  Movies = {m1}
  Keys = {k1}
  Requests = {r1}
  None = None
  InitialPlans <- PremiumAndFreemium
  Calls = {"start", "join", "joinByCode", "end", "schedule", "startScheduled", "metadata", "invite", "kick", "transferHost", "leave"}
INVARIANTS TypeOK EndDowngradesFreemium FreemiumOneLiveParty
PROPERTIES LifecycleOnlyForward
CHECK_DEADLOCK FALSE
SYMMETRY PartySymmetry
