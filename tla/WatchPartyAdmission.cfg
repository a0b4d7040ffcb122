SPECIFICATION MCSpec
CONSTANTS
  Users = {1, 2}
  Parties = {p1, p2}
  Movies = {m1}
  Keys = {k1}
  Requests = {r1, r2}
  None = None
  MaxCalls = 4
  InitialPlans <- OnePremium
  Calls = {"start", "join", "joinByCode", "end", "schedule", "startScheduled", "metadata", "invite", "rejectInvite", "removeInvite", "kick", "ban", "unban", "mute", "unmute", "transferHost", "leave", "purchase", "expire", "fail"}
INVARIANTS SeatsAreEntitled SeatsWereAsked HostHasSat
SYMMETRY SlotSymmetry
CHECK_DEADLOCK FALSE
