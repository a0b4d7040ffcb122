SPECIFICATION Spec
CONSTANTS
  Users = {1, 2}
  Parties = {p1}
  Movies = {m1}
  Keys = {}
  Requests = {r1}
  None = None
  InitialPlans <- PremiumAndFreemium
  Calls = {"start", "join", "joinByCode", "end", "schedule", "startScheduled", "metadata", "invite", "rejectInvite", "removeInvite", "kick", "ban", "unban", "mute", "unmute", "transferHost", "leave", "purchase", "expire", "fail"}
PROPERTIES BannedStayOut ScheduledInviteOnly
CONSTRAINT FewMuted
CHECK_DEADLOCK FALSE
