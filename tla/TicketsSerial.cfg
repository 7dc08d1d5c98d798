SPECIFICATION SumSpec
CONSTANTS
  Tickets = {t1}
  Requests = {r1, r2, r3}
  Operations = {"update", "reopen", "comment", "csat", "escalate"}
  Statuses = {"OPEN", "PENDING", "ON_HOLD", "RESOLVED", "CLOSED"}
  Priorities = {"LOW", "HIGH"}
  Serial = TRUE
  MaxNow = 3
  Ratings = {1, 2}
  ResponseTarget <- MCResponseTarget
  ResolutionTarget <- MCResolutionTarget
  Ruled <- MCRuled
  AddBusinessMinutes <- MCAddBusinessMinutes
  NULL = NULL
  Others = {"updateField", "addComment", "sweep", "createTicket", "split", "watch",
            "markRead", "createTag", "createPolicy", "updateArticle",
            "createMacro", "invite", "updateMember", "createKey",
            "createWebhook", "updateOrganization", "updateProfile"}
  Both = {"updateStatus", "updateField"}
  KEEP = KEEP
CHECK_DEADLOCK FALSE
SYMMETRY Symmetric
INVARIANTS TypeOK PausesAreBalanced WaitingStopsTheClock
  ScreensTypeOK ScreensAreFresh NobodyIsTurnedAway
PROPERTIES FirstsStay TargetsAreClocks
